----------------------------- MODULE Reactions -----------------------------
(***************************************************************************)
(* Reactions of the comment service (CommentReaction.py) and likes of the  *)
(* post service (PostViewer.py): the same find-then-insert on a collection *)
(* without a unique index, and the counts the lists of posts and comments  *)
(* show (handle_post_response, handle_comment_response).  An action runs   *)
(* from one await on MongoDB to the next.                                  *)
(***************************************************************************)
EXTENDS Naturals, FiniteSets

CONSTANTS
    Users, Targets, \* a target is a post or a comment
    Clients,        \* each with one request at a time
    Owner,          \* the user each client acts for
    MaxRows,        \* bound: the rows at one time
    None

ASSUME ReactionsAssumption == /\ Owner \in [Clients -> Users]
                              /\ MaxRows \in Nat

VARIABLES
    rows,  \* the rows with their ids
    shown, \* history: what lists have shown a user of a target
    req

vars == <<rows, shown, req>>

Row == [id : 1..MaxRows, user : Users, target : Targets]
Idle == [pc |-> "idle", target |-> None, liked |-> FALSE]

Init == /\ rows = {} /\ shown = {}
        /\ req = [c \in Clients |-> Idle]

At(c, stage) == req[c].pc = stage
Goto(c, stage, t, b) == req' = [req EXCEPT ![c] = [pc |-> stage, target |-> t, liked |-> b]]
End(c) == req' = [req EXCEPT ![c] = Idle]
Of(u, t) == {r \in rows : r.user = u /\ r.target = t}
-----------------------------------------------------------------------------
\* Slip: an existing row is not looked for.
CreateRead_Blind(c, t) == /\ At(c, "idle")
                          /\ Goto(c, "insert", t, FALSE)
                          /\ UNCHANGED <<rows, shown>>

\* create: find_one for this user and target; a row found ends the request.
\* That the comment exists is not found out: its find_one is not awaited,
\* and what it returns is never false.
CreateRead(c, t) == /\ At(c, "idle") /\ Of(Owner[c], t) = {}
                    /\ Goto(c, "insert", t, FALSE)
                    /\ UNCHANGED <<rows, shown>>

Insert(c) == /\ At(c, "insert")
             /\ \E i \in 1..MaxRows :
                  /\ \A r \in rows : r.id # i
                  /\ rows' = rows \cup {[id |-> i, user |-> Owner[c], target |-> req[c].target]}
             /\ End(c)
             /\ UNCHANGED shown

\* The comment service looks before it deletes; the post service does not.
DeleteRead(c, t) == /\ At(c, "idle") /\ Of(Owner[c], t) # {}
                    /\ Goto(c, "delete", t, FALSE)
                    /\ UNCHANGED <<rows, shown>>

DeletePost(c, t) == /\ At(c, "idle")
                    /\ Goto(c, "delete", t, FALSE)
                    /\ UNCHANGED <<rows, shown>>

\* delete_one deletes one of the rows that match.
DeleteOne(S) == IF S = {} THEN UNCHANGED rows ELSE \E r \in S : rows' = rows \ {r}

\* Slip: the user is left out of the filter.
Delete_AnyUser(c) == /\ At(c, "delete")
                     /\ DeleteOne({r \in rows : r.target = req[c].target})
                     /\ End(c)
                     /\ UNCHANGED shown

Delete(c) == /\ At(c, "delete")
             /\ DeleteOne(Of(Owner[c], req[c].target))
             /\ End(c)
             /\ UNCHANGED shown

\* Slip: a row of any user counts as liked.
ViewLiked_ByAny(c, t) == /\ At(c, "idle")
                         /\ Goto(c, "count", t, \E r \in rows : r.target = t)
                         /\ UNCHANGED <<rows, shown>>

\* A list asks whether the user has reacted and then how many have.
ViewLiked(c, t) == /\ At(c, "idle")
                   /\ Goto(c, "count", t, Of(Owner[c], t) # {})
                   /\ UNCHANGED <<rows, shown>>

ViewCount(c) ==
    /\ At(c, "count")
    /\ shown' = shown \cup {[liked |-> req[c].liked,
                             likeCount |-> Cardinality({r \in rows : r.target = req[c].target})]}
    /\ End(c)
    /\ UNCHANGED rows

\* A query throws or the process dies.
Fail(c) == /\ ~At(c, "idle")
           /\ End(c)
           /\ UNCHANGED <<rows, shown>>

Begin(c, t) == CreateRead(c, t) \/ DeleteRead(c, t) \/ DeletePost(c, t) \/ ViewLiked(c, t)
Continue(c) == Insert(c) \/ Delete(c) \/ ViewCount(c) \/ Fail(c)
Next == \E c \in Clients : (\E t \in Targets : Begin(c, t)) \/ Continue(c)
Spec == Init /\ [][Next]_vars
-----------------------------------------------------------------------------
TypeOK == /\ rows \subseteq Row
          /\ \A c \in Clients : req[c].pc \in {"idle", "insert", "delete", "count"}

\* A user reacts to a target once: "Reaction already exists" and "PostViewer
\* already exists for this post and user".
OneReactionPerUser == /\ TypeOK
                      /\ \A r, s \in rows : (r.user = s.user /\ r.target = s.target) => r = s

\* A list that says the user likes a target counts that like, and one that
\* says the user does not leaves room for it, whatever others do meanwhile.
LikedIsCounted == \A v \in shown : IF v.liked THEN v.likeCount >= 1
                                   ELSE v.likeCount < Cardinality(Users)

\* A delete that was answered leaves no reaction of the user behind.
DeleteIsComplete ==
    [][\A c \in Clients :
          (At(c, "delete") /\ req[c] # req'[c] /\ rows # rows')
            => \A r \in rows' : ~(r.user = Owner[c] /\ r.target = req[c].target)]_vars
=============================================================================
