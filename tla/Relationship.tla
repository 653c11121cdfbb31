---------------------------- MODULE Relationship ----------------------------
(***************************************************************************)
(* The follow / block handlers of the relationship service                 *)
(* (relationship-service/src/relationship/relationship.service.ts) over    *)
(* the Relationship table (prisma/schema.prisma).                          *)
(*                                                                         *)
(* The service is one Node process: a handler runs without interruption    *)
(* between two awaits, and every await (the HTTP call to the user service, *)
(* each query) is a point where another request may run.  A session is one *)
(* client that sends its requests one after the other; Owner[s] is the     *)
(* account it is signed in with, so a user with two devices owns two       *)
(* sessions and may have two requests in flight.                           *)
(*                                                                         *)
(* Row identifiers are cuids, never reused.  An identifier that is neither *)
(* in the table nor held by a request cannot be told from a new one, so    *)
(* the model recycles exactly those: RowIds bounds the rows alive at once, *)
(* not the length of a behaviour.                                          *)
(***************************************************************************)
EXTENDS Integers, FiniteSets

CONSTANTS
    Users,         \* every user id a request may name
    Registered,    \* the ids that have a row in the User table
    PrivateUsers,  \* the accounts with isPrivateAccount, which no code changes
    Sessions,      \* clients with a bearer token
    Owner,         \* Sessions -> Registered
    Targets,       \* Targets[s]: the ids session s names in its requests
    RowIds,        \* identifiers of Relationship rows
    NoRow,         \* findFirst's null
    NoUser         \* peer of an idle session

VARIABLES
    rel,       \* the Relationship table
    sent,      \* sent[i]: the events published so far about row i, as long
               \* as the table or a request knows i
    req,       \* req[s]: the request session s has in flight
    mutual,    \* history: the sessions with a follow in flight during which
               \* the peer was at some time following them, approved
    consented  \* history: rows whose receiver accepted them, or which were
               \* created by a session in mutual

vars == <<rel, sent, req, mutual, consented>>

(***************************************************************************)
(* Types                                                                   *)
(***************************************************************************)
Ops == {"follow", "unfollow", "accept", "reject", "block", "unblock"}
Removals == {"unfollow", "reject", "unblock"}

Row == [type : {"follow", "block"}, status : {"pending", "accepted"},
        sender : Registered, receiver : Registered]

Idle == [pc |-> "idle", op |-> "none", peer |-> NoUser, seen |-> NoRow,
         approved |-> FALSE]

Request == [pc : {"idle", "check", "read", "reverse", "write", "emit"},
            op : Ops \cup {"none"}, peer : Users \cup {NoUser},
            seen : RowIds \cup {NoRow}, approved : BOOLEAN]

ASSUME RelationshipAssumption ==
    /\ Registered \subseteq Users
    /\ PrivateUsers \subseteq Registered
    /\ Owner \in [Sessions -> Registered]
    /\ Targets \in [Sessions -> SUBSET Users]
    /\ NoRow \notin RowIds
    /\ NoRow \notin Row
    /\ NoUser \notin Users

\* Every variable has its type.
TypeOK ==
    /\ rel \in [RowIds -> Row \cup {NoRow}]
    /\ sent \in [RowIds -> SUBSET Ops]
    /\ req \in [Sessions -> Request]
    /\ mutual \subseteq Sessions
    /\ consented \subseteq RowIds

(***************************************************************************)
(* The table                                                               *)
(***************************************************************************)
Between(a, b) ==
    {i \in RowIds : rel[i] # NoRow /\ rel[i].sender = a /\ rel[i].receiver = b}

\* findFirst without orderBy: any matching row, or null.
GetRelationship(a, b) ==
    IF Between(a, b) = {} THEN {NoRow} ELSE Between(a, b)

\* An identifier in the table or held by a request; any other one is fresh.
Known(i) == rel[i] # NoRow \/ \E t \in Sessions : req[t].seen = i
Fresh(i) == ~Known(i)

Follows(i) == rel[i] # NoRow /\ rel[i].type = "follow" /\ rel[i].status = "accepted"
Blocks(i) == rel[i] # NoRow /\ rel[i].type = "block"

\* The events of the identifiers still known after a step.
StillKnown(events) == [i \in RowIds |-> IF Known(i)' THEN events[i] ELSE {}]

\* What a handler learns from the row it read.
Found(i) == IF i = NoRow THEN "none" ELSE IF Blocks(i) THEN "block" ELSE rel[i].status

\* a follows b and was approved.
Following(a, b) == \E i \in Between(a, b) : Follows(i)

(***************************************************************************)
(* Requests                                                                *)
(***************************************************************************)
Me(s) == Owner[s]

\* The <<SenderId, ReceiverId>> the handler looks up.
Key(s) == IF req[s].op \in {"accept", "reject"} THEN <<req[s].peer, Me(s)>>
                                                ELSE <<Me(s), req[s].peer>>

At(s, point, ops) == req[s].pc = point /\ req[s].op \in ops

Goto(s, point, row) == req' = [req EXCEPT ![s] = [@ EXCEPT !.pc = point, !.seen = row]]
End(s) == req' = [req EXCEPT ![s] = Idle]

\* Bound of the model: a request that may create a row is taken only when
\* every request in flight can still get an identifier.
Room == Cardinality({i \in RowIds : Fresh(i)})
            > Cardinality({t \in Sessions : req[t].pc # "idle"})

Init ==
    /\ rel = [i \in RowIds |-> NoRow]
    /\ sent = [i \in RowIds |-> {}]
    /\ req = [s \in Sessions |-> Idle]
    /\ mutual = {}
    /\ consented = {}

\* A POST arrives with a valid token.  block and unblock refuse the caller's
\* own id and go straight to the table, the others ask the user service first.
Receive(s, o, p) ==
    /\ req[s].pc = "idle"
    /\ o \in {"follow", "block"} => Room
    /\ o \in {"block", "unblock"} => p # Me(s)
    /\ req' = [req EXCEPT ![s] =
                 [Idle EXCEPT !.pc = IF o \in {"block", "unblock"} THEN "read" ELSE "check",
                              !.op = o, !.peer = p]]
    /\ UNCHANGED <<rel, sent, consented>>

\* GET /user/:id answers with the record, or with {} for an unknown id; {} is
\* truthy, so "User not found" is not raised and the handler goes on.
CheckUserExist(s) ==
    /\ req[s].pc = "check"
    /\ Goto(s, "read", NoRow)
    /\ UNCHANGED <<rel, sent, consented>>

(***************************************************************************)
(* The first query of each handler and the branches on what it returned    *)
(***************************************************************************)
\* Slip: a pending request is asked again.
FollowRead_Reask(s) ==
    /\ At(s, "read", {"follow"})
    /\ \E i \in GetRelationship(Me(s), req[s].peer) :
          \/ Found(i) \in {"accepted", "block"} /\ End(s)
          \/ Found(i) \in {"none", "pending"} /\ Goto(s, "reverse", NoRow)
    /\ UNCHANGED <<rel, sent, consented>>

\* "Already following", "Request are pending" or "You are blocked".
FollowRead(s) ==
    /\ At(s, "read", {"follow"})
    /\ \E i \in GetRelationship(Me(s), req[s].peer) :
          \/ Found(i) # "none" /\ End(s)
          \/ Found(i) = "none" /\ Goto(s, "reverse", NoRow)
    /\ UNCHANGED <<rel, sent, consented>>

\* Slips: any follow back counts; a public account waits like a private one.
Approves_AnyFollow(i, p) == Found(i) \in {"pending", "accepted"} \/ p \notin PrivateUsers
Approves_OnlyMutual(i, p) == Found(i) = "accepted"

Approves(i, p) == Found(i) = "accepted" \/ p \notin PrivateUsers

FollowReadReverse(s) ==
    /\ At(s, "reverse", {"follow"})
    /\ \E i \in GetRelationship(req[s].peer, Me(s)) :
          req' = [req EXCEPT ![s] = [@ EXCEPT !.pc = "write",
                                              !.approved = Approves(i, req[s].peer)]]
    /\ UNCHANGED <<rel, sent, consented>>

\* A missing row makes relationship.Id throw: the request ends with 400.
UnfollowRead(s) ==
    /\ At(s, "read", {"unfollow"})
    /\ \E i \in GetRelationship(Me(s), req[s].peer) :
          \/ Found(i) \in {"none", "block"} /\ End(s)
          \/ Found(i) \in {"pending", "accepted"} /\ Goto(s, "write", i)
    /\ UNCHANGED <<rel, sent, consented>>

\* Slip: no early return for a request accepted before.
AcceptRead_Again(s) ==
    /\ At(s, "read", {"accept"})
    /\ \E i \in GetRelationship(req[s].peer, Me(s)) :
          \/ Found(i) \in {"none", "block"} /\ End(s)
          \/ Found(i) \in {"pending", "accepted"} /\ Goto(s, "write", i)
    /\ UNCHANGED <<rel, sent, consented>>

AcceptRead(s) ==
    /\ At(s, "read", {"accept"})
    /\ \E i \in GetRelationship(req[s].peer, Me(s)) :
          \/ Found(i) # "pending" /\ End(s)
          \/ Found(i) = "pending" /\ Goto(s, "write", i)
    /\ UNCHANGED <<rel, sent, consented>>

RejectRead(s) ==
    /\ At(s, "read", {"reject"})
    /\ \E i \in GetRelationship(req[s].peer, Me(s)) :
          \/ Found(i) \in {"none", "block"} /\ End(s)
          \/ Found(i) \in {"pending", "accepted"} /\ Goto(s, "write", i)
    /\ UNCHANGED <<rel, sent, consented>>

\* With a follow row the row is updated, without a row one is created.
BlockRead(s) ==
    /\ At(s, "read", {"block"})
    /\ \E i \in GetRelationship(Me(s), req[s].peer) :
          \/ Found(i) = "block" /\ End(s)
          \/ Found(i) # "block" /\ Goto(s, "write", i)
    /\ UNCHANGED <<rel, sent, consented>>

\* Without a block there is nothing to delete and the event is sent all the same.
UnblockRead(s) ==
    /\ At(s, "read", {"unblock"})
    /\ \E i \in GetRelationship(Me(s), req[s].peer) :
          \/ Found(i) = "block" /\ Goto(s, "write", i)
          \/ Found(i) # "block" /\ Goto(s, "emit", NoRow)
    /\ UNCHANGED <<rel, sent, consented>>

(***************************************************************************)
(* The write of each handler, by row identifier                            *)
(***************************************************************************)
Insert(s, row) ==
    \E i \in RowIds :
        /\ Fresh(i)
        /\ rel' = [rel EXCEPT ![i] = row]
        /\ Goto(s, "emit", i)
        /\ consented' = IF s \in mutual THEN consented \cup {i} ELSE consented
        /\ UNCHANGED sent

\* The foreign keys to User refuse an unregistered id.
InsertRefused(s) ==
    /\ req[s].peer \notin Registered
    /\ End(s)
    /\ UNCHANGED <<rel, sent, consented>>

FollowCreate(s) ==
    /\ At(s, "write", {"follow"})
    /\ \/ /\ req[s].peer \in Registered
          /\ Insert(s, [type |-> "follow",
                        status |-> IF req[s].approved THEN "accepted" ELSE "pending",
                        sender |-> Me(s), receiver |-> req[s].peer])
       \/ InsertRefused(s)

BlockCreate(s) ==
    /\ At(s, "write", {"block"})
    /\ req[s].seen = NoRow
    /\ \/ /\ req[s].peer \in Registered
          /\ Insert(s, [type |-> "block", status |-> "accepted",
                        sender |-> Me(s), receiver |-> req[s].peer])
       \/ InsertRefused(s)

RowThere(s) == rel[req[s].seen] # NoRow

\* Slip: the error is caught and nothing is answered.
RowGone_Hangs(s) ==
    /\ ~RowThere(s)
    /\ UNCHANGED <<rel, sent, req, consented>>

\* Prisma's update and delete throw when the row is gone: 400, no event.
RowGone(s) ==
    /\ ~RowThere(s)
    /\ End(s)
    /\ UNCHANGED <<rel, consented>>
    /\ sent' = StillKnown(sent)

Update(s, row) ==
    /\ rel' = [rel EXCEPT ![req[s].seen] = row]
    /\ Goto(s, "emit", req[s].seen)
    /\ UNCHANGED sent

\* Slip: only the type is written.
BlockUpdate_TypeOnly(s) ==
    /\ At(s, "write", {"block"})
    /\ req[s].seen # NoRow
    /\ \/ RowGone(s)
       \/ /\ RowThere(s)
          /\ Update(s, [rel[req[s].seen] EXCEPT !.type = "block"])
          /\ UNCHANGED consented

BlockUpdate(s) ==
    /\ At(s, "write", {"block"})
    /\ req[s].seen # NoRow
    /\ \/ RowGone(s)
       \/ /\ RowThere(s)
          /\ Update(s, [rel[req[s].seen] EXCEPT !.type = "block", !.status = "accepted"])
          /\ UNCHANGED consented

\* Slip: the row that was read is written back.
AcceptUpdate_Whole(s) ==
    /\ At(s, "write", {"accept"})
    /\ \/ RowGone(s)
       \/ /\ RowThere(s)
          /\ Update(s, [rel[req[s].seen] EXCEPT !.type = "follow", !.status = "accepted"])
          /\ consented' = consented \cup {req[s].seen}

\* Only Status is written: whatever the row has become since it was read.
AcceptUpdate(s) ==
    /\ At(s, "write", {"accept"})
    /\ \/ RowGone(s)
       \/ /\ RowThere(s)
          /\ Update(s, [rel[req[s].seen] EXCEPT !.status = "accepted"])
          /\ consented' = consented \cup {req[s].seen}

\* Slip: deleteMany, which does not mind that the row is gone.
Delete_Many(s) ==
    /\ At(s, "write", Removals)
    /\ rel' = [rel EXCEPT ![req[s].seen] = NoRow]
    /\ Goto(s, "emit", req[s].seen)
    /\ consented' = consented \ {req[s].seen}
    /\ UNCHANGED sent

Delete(s) ==
    /\ At(s, "write", Removals)
    /\ \/ RowGone(s)
       \/ /\ RowThere(s)
          /\ rel' = [rel EXCEPT ![req[s].seen] = NoRow]
          /\ Goto(s, "emit", req[s].seen)
          /\ consented' = consented \ {req[s].seen}
          /\ UNCHANGED sent

(***************************************************************************)
(* The event, and the ways a request dies                                  *)
(***************************************************************************)
\* notiService.emit after the write's await; its result is not awaited.
Emit(s) ==
    /\ req[s].pc = "emit"
    /\ End(s)
    /\ UNCHANGED <<rel, consented>>
    /\ sent' = StillKnown(IF req[s].seen = NoRow THEN sent
                          ELSE [sent EXCEPT ![req[s].seen] = @ \cup {req[s].op}])

\* The user service, the database or the broker fails: the request ends and
\* nothing it did before is undone.
Fail(s) ==
    /\ req[s].pc # "idle"
    /\ End(s)
    /\ UNCHANGED <<rel, consented>>
    /\ sent' = StillKnown(sent)

\* The process dies: every request in flight is lost.
Crash ==
    /\ \E s \in Sessions : req[s].pc # "idle"
    /\ req' = [s \in Sessions |-> Idle]
    /\ UNCHANGED <<rel, consented>>
    /\ sent' = StillKnown(sent)

Step(s) ==
    \/ CheckUserExist(s)
    \/ FollowRead(s) \/ FollowReadReverse(s) \/ FollowCreate(s)
    \/ UnfollowRead(s) \/ AcceptRead(s) \/ RejectRead(s)
    \/ BlockRead(s) \/ BlockCreate(s) \/ BlockUpdate(s)
    \/ UnblockRead(s) \/ AcceptUpdate(s) \/ Delete(s)
    \/ Emit(s)

SessionNext(s) ==
    \/ \E o \in Ops, p \in Targets[s] : Receive(s, o, p)
    \/ Step(s)
    \/ Fail(s)

\* The history variable follows the table and the requests.
Remember == mutual' = {s \in Sessions :
                         /\ req'[s].op = "follow"
                         /\ s \in mutual \/ Following(req[s].peer, Me(s))'}

Next == ((\E s \in Sessions : SessionNext(s)) \/ Crash) /\ Remember

Spec == Init /\ [][Next]_vars

\* Every await of the handlers resolves or rejects.
Fairness == \A s \in Sessions : WF_vars(Step(s) /\ Remember)
FairSpec == Spec /\ Fairness

\* The same service when no two requests overlap.
SerialNext ==
    \E s \in Sessions : /\ \A t \in Sessions \ {s} : req[t].pc = "idle"
                        /\ SessionNext(s)
                        /\ Remember
SerialSpec == Init /\ [][SerialNext]_vars

(***************************************************************************)
(* Properties                                                              *)
(***************************************************************************)
\* The table has no unique index on (SenderId, ReceiverId): only the checks of
\* FollowUser and BlockUser ("Already following", "Request are pending")
\* keep a pair from having two rows, between two queries of one request.
OneRowPerPair ==
    \A i, j \in RowIds :
        /\ rel[i] # NoRow
        /\ rel[j] # NoRow
        /\ rel[i].sender = rel[j].sender
        /\ rel[i].receiver = rel[j].receiver
        => i = j

\* A private account is followed only by those it accepted, or who asked while
\* it was following them: FollowUser's approval and AcceptUserFollowRequest.
PrivateConsent ==
    \A i \in RowIds :
        Follows(i) /\ rel[i].receiver \in PrivateUsers => i \in consented

\* A row that became a block is never turned back, by a late accept for one:
\* it stays as it is until it is deleted.
BlockStaysBlock == [][\A i \in RowIds : Blocks(i) => rel'[i] \in {rel[i], NoRow}]_vars

\* An unfollow and a reject of one row, or two unblocks, may both find it: the
\* delete by id succeeds for one of them and only that one is announced.
RemovalAnnouncedOnce ==
    \A s \in Sessions :
        At(s, "emit", Removals) /\ req[s].seen # NoRow
            => sent[req[s].seen] \cap Removals = {}

\* With one request per user at a time, a row's creation, acceptance and block
\* are each announced at most once too.
AnnouncedOnce ==
    \A s \in Sessions :
        req[s].pc = "emit" /\ req[s].seen # NoRow => req[s].op \notin sent[req[s].seen]

\* Whatever becomes of the row it works on, a request is answered.
RequestEnds == \A s \in Sessions : req[s].pc # "idle" ~> req[s].pc = "idle"

\* UnFollowUser and RejectUserFollowRequest refuse a BLOCK row ("You are
\* blocked by this user"): a block ends only by unblock.
BlockEndsByUnblock ==
    [][\A i \in RowIds : Blocks(i) /\ rel'[i] = NoRow =>
         \E s \in Sessions : At(s, "write", {"unblock"}) /\ req[s].seen = i]_vars

\* "You are blocked": nobody becomes a follower of a user who blocks them.
BlockerNotFollowed ==
    [][\A i \in RowIds :
         Fresh(i) /\ rel'[i] # NoRow /\ rel'[i].type = "follow"
             => \A j \in Between(rel'[i].receiver, rel'[i].sender) : ~Blocks(j)]_vars
=============================================================================
