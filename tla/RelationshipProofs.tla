-------------------------- MODULE RelationshipProofs --------------------------
(***************************************************************************)
(* What holds of the handlers of Relationship for every set of users,      *)
(* sessions and row identifiers, proved with TLAPS.                        *)
(***************************************************************************)
EXTENDS RelationshipInvariant, TLAPS

(***************************************************************************)
(* Types                                                                   *)
(***************************************************************************)
LEMMA GetRelationshipType ==
    ASSUME NEW a, NEW b
    PROVE  GetRelationship(a, b) \subseteq RowIds \cup {NoRow}
BY DEF GetRelationship, Between

\* The three ways a step moves a request keep its type.
LEMMA GotoType ==
    ASSUME TypeOK, NEW s \in Sessions,
           NEW point \in {"idle", "check", "read", "reverse", "write", "emit"},
           NEW row \in RowIds \cup {NoRow}, Goto(s, point, row)
    PROVE  req' \in [Sessions -> Request]
<1>1. [req[s] EXCEPT !.pc = point, !.seen = row] \in Request
  BY DEF TypeOK, Request
<1> QED BY <1>1 DEF TypeOK, Goto

LEMMA EndType ==
    ASSUME TypeOK, NEW s \in Sessions, End(s)
    PROVE  req' \in [Sessions -> Request]
BY DEF TypeOK, End, Idle, Request

LEMMA StillKnownType ==
    ASSUME TypeOK, NEW events \in [RowIds -> SUBSET Ops]
    PROVE  StillKnown(events) \in [RowIds -> SUBSET Ops]
BY DEF StillKnown

LEMMA InsertType ==
    ASSUME TypeOK, NEW s \in Sessions, NEW row \in Row, Insert(s, row)
    PROVE  /\ rel' \in [RowIds -> Row \cup {NoRow}]
           /\ sent' \in [RowIds -> SUBSET Ops]
           /\ req' \in [Sessions -> Request]
           /\ consented' \subseteq RowIds
<1>1. PICK i \in RowIds : /\ rel' = [rel EXCEPT ![i] = row]
                          /\ Goto(s, "emit", i)
                          /\ consented' = IF s \in mutual THEN consented \cup {i} ELSE consented
                          /\ sent' = sent
  BY DEF Insert
<1>2. req' \in [Sessions -> Request]
  BY <1>1, GotoType
<1> QED
  BY <1>1, <1>2 DEF TypeOK

\* Every step keeps the types of the table, the events and the requests.
LEMMA TypeStep ==
    ASSUME TypeOK, RequestsWellFormed, Next
    PROVE  TypeOK'
<1> USE RelationshipAssumption
<1> DEFINE Typed == /\ rel' \in [RowIds -> Row \cup {NoRow}]
                    /\ sent' \in [RowIds -> SUBSET Ops]
                    /\ req' \in [Sessions -> Request]
                    /\ consented' \subseteq RowIds
<1>1. ASSUME NEW s \in Sessions, NEW o \in Ops, NEW p \in Targets[s], Receive(s, o, p)
      PROVE  Typed
  BY <1>1 DEF Receive, TypeOK, Request, Idle
<1>2. ASSUME NEW s \in Sessions, CheckUserExist(s) PROVE Typed
  BY <1>2, GotoType DEF CheckUserExist, TypeOK
<1>3. ASSUME NEW s \in Sessions, FollowRead(s) PROVE Typed
  BY <1>3, GotoType, EndType DEF FollowRead, TypeOK
<1>4. ASSUME NEW s \in Sessions, FollowReadReverse(s) PROVE Typed
  <2>1. PICK ok \in BOOLEAN :
           req' = [req EXCEPT ![s] = [@ EXCEPT !.pc = "write", !.approved = ok]]
    BY <1>4 DEF FollowReadReverse, Approves
  <2>2. [req[s] EXCEPT !.pc = "write", !.approved = ok] \in Request
    BY DEF TypeOK, Request
  <2> QED BY <1>4, <2>1, <2>2 DEF FollowReadReverse, TypeOK
<1>5. ASSUME NEW s \in Sessions, UnfollowRead(s) PROVE Typed
  BY <1>5, GotoType, EndType, GetRelationshipType DEF UnfollowRead, TypeOK
<1>6. ASSUME NEW s \in Sessions, AcceptRead(s) PROVE Typed
  BY <1>6, GotoType, EndType, GetRelationshipType DEF AcceptRead, TypeOK
<1>7. ASSUME NEW s \in Sessions, RejectRead(s) PROVE Typed
  BY <1>7, GotoType, EndType, GetRelationshipType DEF RejectRead, TypeOK
<1>8. ASSUME NEW s \in Sessions, BlockRead(s) PROVE Typed
  BY <1>8, GotoType, EndType, GetRelationshipType DEF BlockRead, TypeOK
<1>9. ASSUME NEW s \in Sessions, UnblockRead(s) PROVE Typed
  BY <1>9, GotoType, GetRelationshipType DEF UnblockRead, TypeOK
<1>10. ASSUME NEW s \in Sessions, InsertRefused(s) PROVE Typed
  BY <1>10, EndType DEF InsertRefused, TypeOK
<1>11. ASSUME NEW s \in Sessions, FollowCreate(s) PROVE Typed
  <2>1. CASE InsertRefused(s)
    BY <2>1, <1>10
  <2>2. CASE /\ req[s].peer \in Registered
             /\ Insert(s, [type |-> "follow",
                           status |-> IF req[s].approved THEN "accepted" ELSE "pending",
                           sender |-> Me(s), receiver |-> req[s].peer])
    BY <2>2, InsertType DEF Row, Me
  <2> QED BY <1>11, <2>1, <2>2 DEF FollowCreate
<1>12. ASSUME NEW s \in Sessions, BlockCreate(s) PROVE Typed
  <2>1. CASE InsertRefused(s)
    BY <2>1, <1>10
  <2>2. CASE /\ req[s].peer \in Registered
             /\ Insert(s, [type |-> "block", status |-> "accepted",
                           sender |-> Me(s), receiver |-> req[s].peer])
    BY <2>2, InsertType DEF Row, Me
  <2> QED BY <1>12, <2>1, <2>2 DEF BlockCreate
<1>13. ASSUME NEW s \in Sessions, RowGone(s) PROVE Typed
  BY <1>13, EndType, StillKnownType DEF RowGone, TypeOK
<1>14. ASSUME NEW s \in Sessions, NEW row, Update(s, row),
              req[s].seen \in RowIds => row \in Row
       PROVE  /\ rel' \in [RowIds -> Row \cup {NoRow}]
              /\ sent' \in [RowIds -> SUBSET Ops]
              /\ req' \in [Sessions -> Request]
  <2>1. req[s].seen \in RowIds \cup {NoRow}
    BY DEF TypeOK, Request
  <2>2. req' \in [Sessions -> Request]
    BY <1>14, <2>1, GotoType DEF Update
  <2> QED BY <1>14, <2>1, <2>2 DEF Update, TypeOK
<1>15. ASSUME NEW s \in Sessions, RowThere(s), req[s].seen \in RowIds
       PROVE  /\ [rel[req[s].seen] EXCEPT !.status = "accepted"] \in Row
              /\ [rel[req[s].seen] EXCEPT !.type = "block", !.status = "accepted"] \in Row
  BY <1>15 DEF RowThere, TypeOK, Row
<1>16. ASSUME NEW s \in Sessions, BlockUpdate(s) PROVE Typed
  BY <1>13, <1>14, <1>15, <1>16 DEF BlockUpdate, TypeOK
<1>17. ASSUME NEW s \in Sessions, AcceptUpdate(s) PROVE Typed
  <2>1. req[s].seen \in RowIds
    BY <1>17 DEF TypeOK, Request, RequestsWellFormed, WellFormed, AcceptUpdate, At
  <2> QED BY <1>13, <1>14, <1>15, <1>17, <2>1 DEF AcceptUpdate, TypeOK
<1>18. ASSUME NEW s \in Sessions, Delete(s) PROVE Typed
  <2>1. req[s].seen \in RowIds \cup {NoRow}
    BY DEF TypeOK, Request
  <2>2. CASE RowGone(s)
    BY <2>2, <1>13
  <2>3. CASE /\ rel' = [rel EXCEPT ![req[s].seen] = NoRow]
             /\ Goto(s, "emit", req[s].seen)
             /\ consented' = consented \ {req[s].seen}
             /\ UNCHANGED sent
    BY <2>1, <2>3, GotoType DEF TypeOK
  <2> QED BY <1>18, <2>2, <2>3 DEF Delete
<1>19. ASSUME NEW s \in Sessions, Emit(s) PROVE Typed
  <2>1. /\ req[s].seen # NoRow => req[s].seen \in RowIds
        /\ req[s].op \in Ops
    BY <1>19 DEF TypeOK, Request, RequestsWellFormed, WellFormed, Emit
  <2>2. sent' \in [RowIds -> SUBSET Ops]
    <3> DEFINE said == IF req[s].seen = NoRow THEN sent
                       ELSE [sent EXCEPT ![req[s].seen] = @ \cup {req[s].op}]
    <3>1. said \in [RowIds -> SUBSET Ops]
      BY <2>1 DEF TypeOK
    <3>2. sent' = StillKnown(said)
      BY <1>19 DEF Emit
    <3> HIDE DEF said
    <3> QED BY <3>1, <3>2, StillKnownType
  <2> QED BY <1>19, <2>2, EndType DEF Emit, TypeOK
<1>20. ASSUME NEW s \in Sessions, Fail(s) PROVE Typed
  BY <1>20, EndType, StillKnownType DEF Fail, TypeOK
<1>21. ASSUME Crash PROVE Typed
  BY <1>21, StillKnownType DEF Crash, TypeOK, Request, Idle
<1>22. Typed
  BY <1>1, <1>2, <1>3, <1>4, <1>5, <1>6, <1>7, <1>8, <1>9, <1>11, <1>12, <1>16,
     <1>17, <1>18, <1>19, <1>20, <1>21 DEF Next, SessionNext, Step
<1>23. mutual' \subseteq Sessions
  BY DEF Next, Remember
<1> QED BY <1>22, <1>23 DEF TypeOK

(***************************************************************************)
(* What a request holds at each point                                      *)
(***************************************************************************)
LEMMA GotoWellFormed ==
    ASSUME TypeOK, RequestsWellFormed, NEW s \in Sessions, NEW point, NEW row,
           Goto(s, point, row),
           WellFormed([req[s] EXCEPT !.pc = point, !.seen = row])
    PROVE  RequestsWellFormed'
BY DEF TypeOK, RequestsWellFormed, Goto

LEMMA EndWellFormed ==
    ASSUME TypeOK, RequestsWellFormed, NEW s \in Sessions, End(s)
    PROVE  RequestsWellFormed'
<1>1. WellFormed(Idle)
  BY DEF WellFormed, Idle
<1> QED BY <1>1 DEF TypeOK, RequestsWellFormed, End

\* A handler goes from one point to the next with what the next one needs.
LEMMA WellFormedStep ==
    ASSUME TypeOK, RequestsWellFormed, Next
    PROVE  RequestsWellFormed'
<1> USE RelationshipAssumption
<1>1. ASSUME NEW s \in Sessions, NEW o \in Ops, NEW p \in Targets[s], Receive(s, o, p)
      PROVE  RequestsWellFormed'
  <2> DEFINE r == [Idle EXCEPT !.pc = IF o \in {"block", "unblock"} THEN "read" ELSE "check",
                               !.op = o, !.peer = p]
  <2>1. WellFormed(r)
    BY DEF WellFormed, Idle
  <2> QED BY <1>1, <2>1 DEF Receive, TypeOK, RequestsWellFormed
<1>2. ASSUME NEW s \in Sessions, NEW point, NEW row, Goto(s, point, row),
             req[s].pc # "idle", point \in {"read", "reverse", "write", "emit"},
             point = "read" => row = NoRow,
             point = "reverse" => row = NoRow /\ req[s].op = "follow",
             point = "write" => /\ req[s].op # "follow"
                                /\ req[s].op # "block" => row # NoRow
      PROVE  RequestsWellFormed'
  <2> DEFINE r == [req[s] EXCEPT !.pc = point, !.seen = row]
  <2>1. r.pc = point /\ r.seen = row /\ r.op = req[s].op /\ r.peer = req[s].peer
    BY DEF TypeOK, Request
  <2>2. req[s].op \in Ops /\ req[s].peer \in Users
    BY <1>2 DEF WellFormed, RequestsWellFormed
  <2>3. WellFormed(r)
    <3> HIDE DEF r
    <3> QED BY <1>2, <2>1, <2>2 DEF WellFormed, Removals
  <2> QED BY <1>2, <2>3, GotoWellFormed
<1>3. ASSUME NEW s \in Sessions, CheckUserExist(s) PROVE RequestsWellFormed'
  BY <1>2, <1>3 DEF CheckUserExist
<1>4. ASSUME NEW s \in Sessions, FollowRead(s) PROVE RequestsWellFormed'
  BY <1>2, <1>4, EndWellFormed DEF FollowRead, At
<1>5. ASSUME NEW s \in Sessions, FollowReadReverse(s) PROVE RequestsWellFormed'
  <2>1. PICK ok : req' = [req EXCEPT ![s] = [@ EXCEPT !.pc = "write", !.approved = ok]]
    BY <1>5 DEF FollowReadReverse
  <2>2. WellFormed([req[s] EXCEPT !.pc = "write", !.approved = ok])
    BY <1>5 DEF FollowReadReverse, At, WellFormed, RequestsWellFormed, TypeOK, Request, Removals
  <2> QED BY <2>1, <2>2 DEF RequestsWellFormed, TypeOK
<1>6. ASSUME NEW s \in Sessions, UnfollowRead(s) \/ AcceptRead(s) \/ RejectRead(s)
      PROVE  RequestsWellFormed'
  BY <1>2, <1>6, EndWellFormed DEF UnfollowRead, AcceptRead, RejectRead, At, Found
<1>7. ASSUME NEW s \in Sessions, BlockRead(s) \/ UnblockRead(s) PROVE RequestsWellFormed'
  BY <1>2, <1>7, EndWellFormed DEF BlockRead, UnblockRead, At, Found
<1>8. ASSUME NEW s \in Sessions, FollowCreate(s) \/ BlockCreate(s) PROVE RequestsWellFormed'
  BY <1>2, <1>8, EndWellFormed DEF FollowCreate, BlockCreate, At, Insert, InsertRefused
<1>9. ASSUME NEW s \in Sessions, BlockUpdate(s) \/ AcceptUpdate(s) PROVE RequestsWellFormed'
  BY <1>2, <1>9, EndWellFormed DEF BlockUpdate, AcceptUpdate, At, Update, RowGone
<1>10. ASSUME NEW s \in Sessions, Delete(s) PROVE RequestsWellFormed'
  BY <1>2, <1>10, EndWellFormed DEF Delete, At, RowGone
<1>11. ASSUME NEW s \in Sessions, Emit(s) \/ Fail(s) PROVE RequestsWellFormed'
  BY <1>11, EndWellFormed DEF Emit, Fail
<1>12. ASSUME Crash PROVE RequestsWellFormed'
  BY <1>12 DEF Crash, RequestsWellFormed, WellFormed, Idle
<1> QED
  BY <1>1, <1>3, <1>4, <1>5, <1>6, <1>7, <1>8, <1>9, <1>10, <1>11, <1>12
  DEF Next, SessionNext, Step

\* Types and the shape of the requests are invariant.
THEOREM TypeCorrect == Spec => [](TypeOK /\ RequestsWellFormed)
<1>1. Init => TypeOK /\ RequestsWellFormed
  BY RelationshipAssumption
  DEF Init, TypeOK, RequestsWellFormed, WellFormed, Request, Idle
<1>2. TypeOK /\ RequestsWellFormed /\ [Next]_vars => (TypeOK /\ RequestsWellFormed)'
  <2>1. CASE Next
    BY <2>1, TypeStep, WellFormedStep
  <2>2. CASE UNCHANGED vars
    BY <2>2 DEF vars, TypeOK, RequestsWellFormed
  <2> QED BY <2>1, <2>2
<1> QED BY <1>1, <1>2, PTL DEF Spec

(***************************************************************************)
(* The four ways a step changes the table                                  *)
(***************************************************************************)
Creates(s, i) ==
    /\ Creating(s)
    /\ At(s, "write", {"follow", "block"})
    /\ req[s].peer \in Registered
    /\ Fresh(i)
    /\ rel' = [rel EXCEPT ![i] =
          [type |-> req[s].op,
           status |-> IF req[s].op = "block" \/ req[s].approved THEN "accepted" ELSE "pending",
           sender |-> Me(s), receiver |-> req[s].peer]]
    /\ consented' = IF s \in mutual THEN consented \cup {i} ELSE consented
    /\ sent' = sent
    /\ Goto(s, "emit", i)

Blocked(s, i) ==
    /\ At(s, "write", {"block"})
    /\ req[s].seen = i
    /\ rel[i] # NoRow
    /\ rel' = [rel EXCEPT ![i] = [rel[i] EXCEPT !.type = "block", !.status = "accepted"]]
    /\ consented' = consented
    /\ sent' = sent
    /\ Goto(s, "emit", i)

Accepted(s, i) ==
    /\ At(s, "write", {"accept"})
    /\ req[s].seen = i
    /\ rel[i] # NoRow
    /\ rel' = [rel EXCEPT ![i] = [rel[i] EXCEPT !.status = "accepted"]]
    /\ consented' = consented \cup {i}
    /\ sent' = sent
    /\ Goto(s, "emit", i)

Deleted(s, i) ==
    /\ At(s, "write", Removals)
    /\ req[s].seen = i
    /\ rel[i] # NoRow
    /\ rel' = [rel EXCEPT ![i] = NoRow]
    /\ consented' = consented \ {i}
    /\ sent' = sent
    /\ Goto(s, "emit", i)

LEMMA GotoFields ==
    ASSUME TypeOK, NEW s \in Sessions, NEW point, NEW row, Goto(s, point, row)
    PROVE  /\ req'[s].pc = point
           /\ req'[s].seen = row
           /\ req'[s].op = req[s].op
           /\ req'[s].peer = req[s].peer
BY DEF TypeOK, Goto, Request

\* Each of the four changes one row, and moves the request to its event.
LEMMA ChangeFrame ==
    ASSUME TypeOK, NEW s \in Sessions, NEW i \in RowIds,
           Creates(s, i) \/ Blocked(s, i) \/ Accepted(s, i) \/ Deleted(s, i)
    PROVE  /\ \A j \in RowIds \ {i} : rel'[j] = rel[j]
           /\ sent' = sent
           /\ Goto(s, "emit", i)
<1>1. ASSUME NEW row, rel' = [rel EXCEPT ![i] = row]
      PROVE  \A j \in RowIds \ {i} : rel'[j] = rel[j]
  BY <1>1 DEF TypeOK
<1> QED BY <1>1 DEF Creates, Blocked, Accepted, Deleted

LEMMA UpdateFields ==
    ASSUME TypeOK, NEW s \in Sessions, NEW i \in RowIds
    PROVE  /\ Blocked(s, i) => /\ rel'[i].type = "block"
                               /\ rel'[i].status = "accepted"
                               /\ rel'[i].sender = rel[i].sender
                               /\ rel'[i].receiver = rel[i].receiver
           /\ Accepted(s, i) => /\ rel'[i].type = rel[i].type
                                /\ rel'[i].status = "accepted"
                                /\ rel'[i].sender = rel[i].sender
                                /\ rel'[i].receiver = rel[i].receiver
           /\ Deleted(s, i) => rel'[i] = NoRow
<1>1. ASSUME Blocked(s, i)
      PROVE  /\ rel'[i].type = "block"
             /\ rel'[i].status = "accepted"
             /\ rel'[i].sender = rel[i].sender
             /\ rel'[i].receiver = rel[i].receiver
  <2>1. rel[i] \in Row /\ rel'[i] = [rel[i] EXCEPT !.type = "block", !.status = "accepted"]
    BY <1>1 DEF Blocked, TypeOK
  <2> QED BY <2>1 DEF Row
<1>2. ASSUME Accepted(s, i)
      PROVE  /\ rel'[i].type = rel[i].type
             /\ rel'[i].status = "accepted"
             /\ rel'[i].sender = rel[i].sender
             /\ rel'[i].receiver = rel[i].receiver
  <2>1. rel[i] \in Row /\ rel'[i] = [rel[i] EXCEPT !.status = "accepted"]
    BY <1>2 DEF Accepted, TypeOK
  <2> QED BY <2>1 DEF Row
<1> QED BY <1>1, <1>2 DEF Deleted, TypeOK

Writes(s) ==
    FollowCreate(s) \/ BlockCreate(s) \/ BlockUpdate(s) \/ AcceptUpdate(s) \/ Delete(s)

\* A write is refused, finds its row gone, or is one of the four.
LEMMA WriteStep ==
    ASSUME TypeOK, RequestsWellFormed, NEW s \in Sessions, Writes(s)
    PROVE  \/ InsertRefused(s) /\ req[s].seen = NoRow
           \/ RowGone(s)
           \/ \E i \in RowIds :
                 Creates(s, i) \/ Blocked(s, i) \/ Accepted(s, i) \/ Deleted(s, i)
<1>1. req[s].seen \in RowIds \cup {NoRow}
  BY DEF TypeOK, Request
<1>2. /\ At(s, "write", Removals \cup {"accept"}) => req[s].seen \in RowIds
      /\ At(s, "write", {"follow"}) => req[s].seen = NoRow
  BY <1>1 DEF RequestsWellFormed, WellFormed, At
<1>3. ASSUME FollowCreate(s), ~InsertRefused(s) PROVE \E i \in RowIds : Creates(s, i)
  BY <1>3 DEF FollowCreate, Insert, Creates, Creating, At
<1>4. ASSUME BlockCreate(s), ~InsertRefused(s) PROVE \E i \in RowIds : Creates(s, i)
  BY <1>4 DEF BlockCreate, Insert, Creates, Creating, At
<1>5. ASSUME BlockUpdate(s), ~RowGone(s) PROVE \E i \in RowIds : Blocked(s, i)
  BY <1>1, <1>5 DEF BlockUpdate, RowThere, Update, Blocked
<1>6. ASSUME AcceptUpdate(s), ~RowGone(s) PROVE \E i \in RowIds : Accepted(s, i)
  BY <1>2, <1>6 DEF AcceptUpdate, RowThere, Update, Accepted, At
<1>7. ASSUME Delete(s), ~RowGone(s) PROVE \E i \in RowIds : Deleted(s, i)
  BY <1>2, <1>7 DEF Delete, RowThere, Deleted, At
<1>8. (FollowCreate(s) \/ BlockCreate(s)) => req[s].seen = NoRow
  BY <1>2 DEF FollowCreate, BlockCreate
<1> QED BY <1>3, <1>4, <1>5, <1>6, <1>7, <1>8 DEF Writes

\* A step that is not one of the four leaves the rows and the consent alone.
LEMMA TableStep ==
    ASSUME TypeOK, RequestsWellFormed, Next
    PROVE  \/ UNCHANGED <<rel, consented>>
           \/ \E s \in Sessions, i \in RowIds :
                 Creates(s, i) \/ Blocked(s, i) \/ Accepted(s, i) \/ Deleted(s, i)
<1> DEFINE Changed == \/ UNCHANGED <<rel, consented>>
                      \/ \E s \in Sessions, i \in RowIds :
                            Creates(s, i) \/ Blocked(s, i) \/ Accepted(s, i) \/ Deleted(s, i)
<1>1. ASSUME NEW s \in Sessions, Writes(s) PROVE Changed
  BY <1>1, WriteStep DEF InsertRefused, RowGone
<1>2. ASSUME NEW s \in Sessions, NEW o \in Ops, NEW p \in Targets[s], Receive(s, o, p)
      PROVE  Changed
  BY <1>2 DEF Receive
<1>3. ASSUME NEW s \in Sessions,
             \/ CheckUserExist(s) \/ FollowRead(s) \/ FollowReadReverse(s)
             \/ UnfollowRead(s) \/ AcceptRead(s) \/ RejectRead(s)
             \/ BlockRead(s) \/ UnblockRead(s) \/ Emit(s) \/ Fail(s)
      PROVE  Changed
  BY <1>3 DEF CheckUserExist, FollowRead, FollowReadReverse, UnfollowRead, AcceptRead,
              RejectRead, BlockRead, UnblockRead, Emit, Fail
<1>4. ASSUME Crash PROVE Changed
  BY <1>4 DEF Crash
<1> QED
  BY <1>1, <1>2, <1>3, <1>4 DEF Next, SessionNext, Step, Writes

(***************************************************************************)
(* Blocks                                                                  *)
(***************************************************************************)
\* One step leaves blocks accepted, and either untouched or deleted.
LEMMA BlockStep ==
    ASSUME TypeOK, RequestsWellFormed, BlocksAccepted, Next
    PROVE  /\ BlocksAccepted'
           /\ \A i \in RowIds : Blocks(i) => rel'[i] \in {rel[i], NoRow}
<1>1. CASE UNCHANGED <<rel, consented>>
  BY <1>1 DEF BlocksAccepted, Blocks
<1>2. ASSUME NEW s \in Sessions, NEW i \in RowIds,
             Creates(s, i) \/ Blocked(s, i) \/ Accepted(s, i) \/ Deleted(s, i),
             NEW j \in RowIds
      PROVE  /\ Blocks(j)' => rel'[j].status = "accepted"
             /\ Blocks(j) => rel'[j] \in {rel[j], NoRow}
  <2>1. CASE j # i
    BY <1>2, <2>1 DEF Creates, Blocked, Accepted, Deleted, BlocksAccepted, Blocks, TypeOK
  <2>2. CASE j = i /\ Creates(s, i)
    BY <2>2 DEF Creates, Blocks, Fresh, Known, TypeOK
  <2>3. CASE j = i /\ Blocked(s, i)
    BY <2>3 DEF Blocked, BlocksAccepted, Blocks, TypeOK, Row
  <2>4. CASE j = i /\ Accepted(s, i)
    BY <2>4 DEF Accepted, BlocksAccepted, Blocks, TypeOK, Row
  <2>5. CASE j = i /\ Deleted(s, i)
    BY <2>5 DEF Deleted, Blocks, TypeOK
  <2> QED BY <1>2, <2>1, <2>2, <2>3, <2>4, <2>5
<1> QED BY <1>1, <1>2, TableStep DEF BlocksAccepted

\* BLOCK rows are ACCEPTED from the start, so that a late accept changes nothing.
THEOREM BlocksAreAccepted == Spec => []BlocksAccepted
<1>1. Init => BlocksAccepted
  BY DEF Init, BlocksAccepted, Blocks
<1>2. /\ TypeOK /\ RequestsWellFormed
      /\ BlocksAccepted /\ [Next]_vars
      => BlocksAccepted'
  <2>1. ASSUME UNCHANGED vars, BlocksAccepted PROVE BlocksAccepted'
    BY <2>1 DEF vars, BlocksAccepted, Blocks
  <2> QED BY <2>1, BlockStep
<1> QED BY <1>1, <1>2, TypeCorrect, PTL DEF Spec

\* A row that became a block stays as it is until it is deleted, whatever
\* accept, unfollow or block was under way on it.
THEOREM BlockIsFinal == Spec => BlockStaysBlock
<1>1. /\ TypeOK /\ RequestsWellFormed /\ BlocksAccepted /\ [Next]_vars
      => [\A i \in RowIds : Blocks(i) => rel'[i] \in {rel[i], NoRow}]_vars
  BY BlockStep
<1> QED BY <1>1, TypeCorrect, BlocksAreAccepted, PTL DEF Spec, BlockStaysBlock

(***************************************************************************)
(* The ways a step moves a request                                         *)
(***************************************************************************)
Starts(t) == req'[t].pc \in {"check", "read"} /\ req'[t].seen = NoRow

FindsNobody(t) ==
    /\ At(t, "read", {"follow"})
    /\ Between(Me(t), req[t].peer) = {}
    /\ req'[t] = [req[t] EXCEPT !.pc = "reverse", !.seen = NoRow]
    /\ rel' = rel

Finds(t) ==
    /\ At(t, "read", Ops \ {"follow"})
    /\ \E i \in GetRelationship(Key(t)[1], Key(t)[2]) :
          /\ req'[t] = [req[t] EXCEPT !.pc = "write", !.seen = i]
          /\ i = NoRow => req[t].op = "block"
          /\ req[t].op = "accept" => Found(i) = "pending"
          /\ req[t].op = "block" => Found(i) # "block"
    /\ rel' = rel

NothingToUnblock(t) ==
    req'[t].pc = "emit" /\ req'[t].seen = NoRow

Moves(t) ==
    \/ req'[t] = req[t]
    \/ req'[t] = Idle
    \/ Starts(t)
    \/ FindsNobody(t)
    \/ FollowReadReverse(t)
    \/ Finds(t)
    \/ NothingToUnblock(t)
    \/ \E i \in RowIds : Creates(t, i) \/ Blocked(t, i) \/ Accepted(t, i) \/ Deleted(t, i)

\* A step of one session leaves the requests of the others alone.
LEMMA OthersStay ==
    ASSUME TypeOK, NEW t \in Sessions, NEW s \in Sessions, s # t, SessionNext(s)
    PROVE  req'[t] = req[t]
<1>1. ASSUME NEW point, NEW row, Goto(s, point, row) PROVE req'[t] = req[t]
  BY <1>1 DEF Goto, TypeOK
<1>2. ASSUME End(s) PROVE req'[t] = req[t]
  BY <1>2 DEF End, TypeOK
<1>3. ASSUME NEW o \in Ops, NEW p \in Targets[s], Receive(s, o, p) PROVE req'[t] = req[t]
  BY <1>3 DEF Receive, TypeOK
<1>4. ASSUME FollowReadReverse(s) PROVE req'[t] = req[t]
  BY <1>4 DEF FollowReadReverse, TypeOK
<1>5. ASSUME \/ CheckUserExist(s) \/ FollowRead(s) \/ UnfollowRead(s) \/ AcceptRead(s)
             \/ RejectRead(s) \/ BlockRead(s) \/ UnblockRead(s)
      PROVE  req'[t] = req[t]
  BY <1>1, <1>2, <1>5 DEF CheckUserExist, FollowRead, UnfollowRead, AcceptRead, RejectRead,
                          BlockRead, UnblockRead
<1>6. ASSUME \/ FollowCreate(s) \/ BlockCreate(s) \/ BlockUpdate(s) \/ AcceptUpdate(s)
             \/ Delete(s) \/ Emit(s) \/ Fail(s)
      PROVE  req'[t] = req[t]
  BY <1>1, <1>2, <1>6 DEF FollowCreate, BlockCreate, BlockUpdate, AcceptUpdate, Delete, Emit,
                          Fail, Insert, InsertRefused, RowGone, Update
<1> QED BY <1>3, <1>4, <1>5, <1>6 DEF SessionNext, Step

LEMMA RequestStep ==
    ASSUME TypeOK, RequestsWellFormed, Next, NEW t \in Sessions
    PROVE  Moves(t)
<1> USE RelationshipAssumption
<1>1. ASSUME NEW s \in Sessions, s # t, SessionNext(s) PROVE req'[t] = req[t]
  BY <1>1, OthersStay
<1>2. ASSUME End(t) PROVE req'[t] = Idle
  BY <1>2 DEF End, TypeOK
<1>3. ASSUME NEW point, NEW row, Goto(t, point, row)
      PROVE  /\ req'[t] = [req[t] EXCEPT !.pc = point, !.seen = row]
             /\ req'[t].pc = point /\ req'[t].seen = row
  BY <1>3 DEF Goto, TypeOK, Request
<1>4. ASSUME NEW o \in Ops, NEW p \in Targets[t], Receive(t, o, p) PROVE Starts(t)
  BY <1>4 DEF Receive, TypeOK, Starts, Idle
<1>5. ASSUME CheckUserExist(t) PROVE Starts(t)
  BY <1>3, <1>5 DEF CheckUserExist, Starts
<1>6. ASSUME FollowRead(t) PROVE req'[t] = Idle \/ FindsNobody(t)
  <2>1. PICK i \in GetRelationship(Me(t), req[t].peer) :
           \/ End(t)
           \/ Found(i) = "none" /\ Goto(t, "reverse", NoRow)
    BY <1>6 DEF FollowRead
  <2>2. ASSUME Found(i) = "none" PROVE Between(Me(t), req[t].peer) = {}
    <3>1. i \notin RowIds
      BY <2>2, <2>1 DEF Found, TypeOK, Row, GetRelationship, Between
    <3> QED BY <3>1 DEF GetRelationship, Between
  <2> QED BY <1>2, <1>3, <1>6, <2>1, <2>2 DEF FollowRead, FindsNobody
<1>7. ASSUME \/ UnfollowRead(t) \/ AcceptRead(t) \/ RejectRead(t) \/ BlockRead(t)
      PROVE  req'[t] = Idle \/ Finds(t)
  BY <1>2, <1>3, <1>7
  DEF UnfollowRead, AcceptRead, RejectRead, BlockRead, Finds, Key, At, Ops, Found
<1>8. ASSUME UnblockRead(t) PROVE Finds(t) \/ NothingToUnblock(t)
  <2>1. PICK i \in GetRelationship(Me(t), req[t].peer) :
           \/ Found(i) = "block" /\ Goto(t, "write", i)
           \/ Goto(t, "emit", NoRow)
    BY <1>8 DEF UnblockRead
  <2>2. CASE Found(i) = "block" /\ Goto(t, "write", i)
    BY <1>3, <1>8, <2>1, <2>2 DEF UnblockRead, Finds, Key, At, Ops, Found
  <2>3. CASE Goto(t, "emit", NoRow)
    BY <1>3, <2>3 DEF NothingToUnblock
  <2> QED BY <2>1, <2>2, <2>3
<1>9. ASSUME Writes(t)
      PROVE  \/ req'[t] = Idle
             \/ \E i \in RowIds :
                   Creates(t, i) \/ Blocked(t, i) \/ Accepted(t, i) \/ Deleted(t, i)
  BY <1>2, <1>9, WriteStep DEF InsertRefused, RowGone
<1>10. ASSUME Emit(t) \/ Fail(t) PROVE req'[t] = Idle
  BY <1>2, <1>10 DEF Emit, Fail
<1>11. ASSUME Crash PROVE req'[t] = Idle
  BY <1>11 DEF Crash
<1>12. ASSUME SessionNext(t) PROVE Moves(t)
  BY <1>4, <1>5, <1>6, <1>7, <1>8, <1>9, <1>10, <1>12 DEF SessionNext, Step, Moves, Writes
<1> QED BY <1>1, <1>11, <1>12 DEF Next, Moves

(***************************************************************************)
(* Consent                                                                 *)
(***************************************************************************)
\* What the history says of a follow in flight survives every step.
LEMMA MutualStep ==
    ASSUME TypeOK, RequestsWellFormed, MutualRemembered, Next
    PROVE  MutualRemembered'
<1> SUFFICES ASSUME NEW t \in Sessions, req'[t].op = "follow"
             PROVE  /\ Following(req[t].peer, Me(t))' => t \in mutual'
                    /\ (req[t].pc = "write" /\ req[t].approved /\ req[t].peer \in PrivateUsers)'
                           => t \in mutual'
  BY DEF MutualRemembered
<1>1. t \in mutual' <=> t \in mutual \/ Following(req[t].peer, Me(t))'
  BY DEF Next, Remember
<1>2. ASSUME req'[t].pc = "write", req'[t].approved, req'[t].peer \in PrivateUsers
      PROVE  t \in mutual
  <2>1. CASE req'[t] = req[t]
    BY <1>2, <2>1 DEF MutualRemembered
  <2>2. CASE FollowReadReverse(t)
    <3>1. PICK i \in GetRelationship(req[t].peer, Me(t)) :
             req' = [req EXCEPT ![t] = [@ EXCEPT !.pc = "write",
                                                !.approved = Approves(i, req[t].peer)]]
      BY <2>2 DEF FollowReadReverse
    <3>2. req'[t].approved = Approves(i, req[t].peer) /\ req'[t].peer = req[t].peer
      BY <3>1 DEF TypeOK, Request
    <3>3. Found(i) = "accepted"
      BY <1>2, <3>2 DEF Approves
    <3>4. i \in Between(req[t].peer, Me(t)) /\ Follows(i)
      BY <3>3 DEF Found, Follows, Blocks, GetRelationship, Between, TypeOK, Row
    <3>5. req[t].op = "follow"
      BY <2>2 DEF FollowReadReverse, At
    <3> QED BY <3>4, <3>5 DEF MutualRemembered, Following
  <2>3. CASE Finds(t)
    <3>1. PICK i : req'[t] = [req[t] EXCEPT !.pc = "write", !.seen = i]
      BY <2>3 DEF Finds
    <3>2. req'[t].op = req[t].op
      BY <3>1 DEF TypeOK, Request
    <3> QED BY <2>3, <3>2 DEF Finds, At
  <2>4. CASE FindsNobody(t)
    BY <1>2, <2>4 DEF FindsNobody, TypeOK, Request
  <2>5. ASSUME NEW i \in RowIds,
               Creates(t, i) \/ Blocked(t, i) \/ Accepted(t, i) \/ Deleted(t, i)
        PROVE  FALSE
    BY <1>2, <2>5, ChangeFrame, GotoFields
  <2>6. Moves(t)
    BY RequestStep
  <2> QED
    BY <1>2, <2>1, <2>2, <2>3, <2>4, <2>5, <2>6
    DEF Moves, Starts, NothingToUnblock, Idle
<1> QED BY <1>1, <1>2

\* A step gives a private account no follower it did not agree to.
LEMMA ConsentStep ==
    ASSUME TypeOK, RequestsWellFormed, MutualRemembered, PrivateConsent, Next
    PROVE  PrivateConsent'
<1>1. CASE UNCHANGED <<rel, consented>>
  BY <1>1 DEF PrivateConsent, Follows
<1>2. ASSUME NEW s \in Sessions, NEW i \in RowIds,
             Creates(s, i) \/ Blocked(s, i) \/ Accepted(s, i) \/ Deleted(s, i),
             NEW j \in RowIds, Follows(j)', rel'[j].receiver \in PrivateUsers
      PROVE  j \in consented'
  <2>1. CASE j # i
    BY <1>2, <2>1
    DEF Creates, Blocked, Accepted, Deleted, PrivateConsent, Follows, TypeOK
  <2>2. CASE j = i /\ Creates(s, i)
    <3>1. rel'[i].type = req[s].op /\ rel'[i].receiver = req[s].peer
      BY <2>2 DEF Creates, TypeOK
    <3>2. req[s].op = "follow" /\ req[s].approved
      BY <1>2, <2>2, <3>1 DEF Creates, TypeOK, Follows
    <3>3. s \in mutual
      BY <1>2, <2>2, <3>1, <3>2 DEF Creates, MutualRemembered, At
    <3> QED BY <2>2, <3>3 DEF Creates
  <2>3. CASE j = i /\ Blocked(s, i)
    BY <1>2, <2>3 DEF Blocked, Follows, TypeOK, Row
  <2>4. CASE j = i /\ Accepted(s, i)
    BY <2>4 DEF Accepted
  <2>5. CASE j = i /\ Deleted(s, i)
    BY <1>2, <2>5 DEF Deleted, Follows, TypeOK
  <2> QED BY <1>2, <2>1, <2>2, <2>3, <2>4, <2>5
<1> QED BY <1>1, <1>2, TableStep DEF PrivateConsent

\* A private account is followed only by users it accepted or who asked while
\* it was following them, for any number of requests per user.
THEOREM PrivateAccountsConsent == Spec => []PrivateConsent
<1> DEFINE Inv == TypeOK /\ RequestsWellFormed /\ MutualRemembered /\ PrivateConsent
<1>1. Init => MutualRemembered /\ PrivateConsent
  BY DEF Init, MutualRemembered, PrivateConsent, Follows, Idle
<1>2. /\ TypeOK /\ RequestsWellFormed
      /\ MutualRemembered /\ PrivateConsent /\ [Next]_vars
      => (MutualRemembered /\ PrivateConsent)'
  <2>1. ASSUME MutualRemembered, PrivateConsent, UNCHANGED vars
        PROVE  (MutualRemembered /\ PrivateConsent)'
    BY <2>1 DEF vars, MutualRemembered, PrivateConsent, Follows, Following, Between, Me
  <2> QED BY <2>1, MutualStep, ConsentStep
<1> QED BY <1>1, <1>2, TypeCorrect, PTL DEF Spec

(***************************************************************************)
(* One row per pair                                                        *)
(***************************************************************************)
\* A held row keeps its ends, and its identifier is not given out again.
LEMMA SeenStep ==
    ASSUME TypeOK, RequestsWellFormed, SeenMatches, Next
    PROVE  SeenMatches'
<1> USE RelationshipAssumption
<1> SUFFICES ASSUME NEW t \in Sessions, req'[t].seen # NoRow, rel'[req'[t].seen] # NoRow
             PROVE  <<rel'[req'[t].seen].sender, rel'[req'[t].seen].receiver>> = Key(t)'
  BY DEF SeenMatches
<1> DEFINE j == req'[t].seen
<1>0. j \in RowIds
  BY TypeStep DEF TypeOK, Request
<1>1. ASSUME rel[j] # NoRow
      PROVE  rel'[j].sender = rel[j].sender /\ rel'[j].receiver = rel[j].receiver
  <2>1. CASE UNCHANGED <<rel, consented>>
    BY <2>1
  <2>2. ASSUME NEW s \in Sessions, NEW i \in RowIds,
               Creates(s, i) \/ Blocked(s, i) \/ Accepted(s, i) \/ Deleted(s, i)
        PROVE  rel'[j].sender = rel[j].sender /\ rel'[j].receiver = rel[j].receiver
    <3>1. CASE j # i
      BY <1>0, <2>2, <3>1, ChangeFrame
    <3>2. CASE j = i
      BY <1>0, <1>1, <2>2, <3>2, UpdateFields DEF Creates, Fresh, Known
    <3> QED BY <3>1, <3>2
  <2> QED BY <2>1, <2>2, TableStep
<1>2. CASE req'[t] = req[t]
  <2>1. rel[j] # NoRow
    <3>1. ASSUME NEW s \in Sessions, NEW i \in RowIds, Creates(s, i) PROVE i # j
      BY <1>2, <3>1 DEF Creates, Fresh, Known
    <3>2. ASSUME NEW s \in Sessions, NEW i \in RowIds,
                 Blocked(s, i) \/ Accepted(s, i) \/ Deleted(s, i)
          PROVE  rel[j] # NoRow
      <4>1. rel[i] # NoRow
        BY <3>2 DEF Blocked, Accepted, Deleted
      <4> QED BY <1>0, <3>2, <4>1, ChangeFrame
    <3>3. ASSUME NEW s \in Sessions, NEW i \in RowIds, Creates(s, i) PROVE rel[j] # NoRow
      BY <1>0, <3>1, <3>3, ChangeFrame
    <3> QED BY <3>2, <3>3, TableStep
  <2> QED BY <1>1, <1>2, <2>1 DEF SeenMatches, Key, Me
<1>3. CASE Finds(t)
  <2>1. PICK i \in GetRelationship(Key(t)[1], Key(t)[2]) :
           req'[t] = [req[t] EXCEPT !.pc = "write", !.seen = i]
    BY <1>3 DEF Finds
  <2>2. j = i /\ req'[t].op = req[t].op /\ req'[t].peer = req[t].peer
    BY <2>1 DEF TypeOK, Request
  <2>3. rel[i].sender = Key(t)[1] /\ rel[i].receiver = Key(t)[2]
    BY <1>0, <2>1, <2>2 DEF GetRelationship, Between
  <2> QED BY <1>3, <2>2, <2>3 DEF Finds, Key, Me
<1>4. ASSUME NEW i \in RowIds, Creates(t, i)
      PROVE  <<rel'[j].sender, rel'[j].receiver>> = Key(t)'
  <2>1. j = i /\ req'[t].op = req[t].op /\ req'[t].peer = req[t].peer
    BY <1>4 DEF Creates, Goto, TypeOK, Request
  <2>2. rel'[i].sender = Me(t) /\ rel'[i].receiver = req[t].peer
    BY <1>4 DEF Creates, TypeOK
  <2>3. req[t].op \in {"follow", "block"}
    BY <1>4 DEF Creates, At
  <2> QED BY <2>1, <2>2, <2>3 DEF Key, Me
<1>5. ASSUME NEW i \in RowIds, Blocked(t, i) \/ Accepted(t, i) \/ Deleted(t, i)
      PROVE  <<rel'[j].sender, rel'[j].receiver>> = Key(t)'
  <2>1. j = i /\ req'[t].op = req[t].op /\ req'[t].peer = req[t].peer
    BY <1>5, ChangeFrame, GotoFields
  <2>2. rel[i] # NoRow /\ req[t].seen = i
    BY <1>5 DEF Blocked, Accepted, Deleted
  <2> QED BY <1>0, <1>1, <2>1, <2>2 DEF SeenMatches, Key, Me
<1>6. ~(FindsNobody(t) \/ FollowReadReverse(t))
  <2>1. ASSUME FindsNobody(t) PROVE FALSE
    BY <2>1 DEF FindsNobody, TypeOK, Request
  <2>2. ASSUME FollowReadReverse(t) PROVE FALSE
    <3>1. req[t].seen = NoRow
      BY <2>2 DEF FollowReadReverse, At, RequestsWellFormed, WellFormed
    <3>2. req'[t].seen = req[t].seen
      BY <2>2 DEF FollowReadReverse, TypeOK, Request
    <3> QED BY <3>1, <3>2
  <2> QED BY <2>1, <2>2
<1> QED
  BY <1>2, <1>3, <1>4, <1>5, <1>6, RequestStep DEF Moves, Starts, NothingToUnblock, Idle

\* A row after a step was there before, between the same users, or is new.
LEMMA RowOrigin ==
    ASSUME TypeOK, RequestsWellFormed, Next, NEW j \in RowIds, rel'[j] # NoRow
    PROVE  \/ /\ rel[j] # NoRow
              /\ rel'[j].sender = rel[j].sender
              /\ rel'[j].receiver = rel[j].receiver
           \/ \E s \in Sessions : Creates(s, j)
<1>1. CASE UNCHANGED <<rel, consented>>
  BY <1>1
<1>2. ASSUME NEW s \in Sessions, NEW i \in RowIds,
             Creates(s, i) \/ Blocked(s, i) \/ Accepted(s, i) \/ Deleted(s, i)
      PROVE  \/ /\ rel[j] # NoRow
                /\ rel'[j].sender = rel[j].sender
                /\ rel'[j].receiver = rel[j].receiver
             \/ \E u \in Sessions : Creates(u, j)
  <2>1. CASE j # i
    BY <1>2, <2>1, ChangeFrame
  <2>2. CASE j = i
    BY <1>2, <2>2, UpdateFields DEF Blocked, Accepted
  <2> QED BY <2>1, <2>2
<1> QED BY <1>1, <1>2, TableStep

\* The row a request creates has the ends it looked up, and no other is created.
LEMMA CreatedRow ==
    ASSUME TypeOK, NEW s \in Sessions, NEW i \in RowIds, Creates(s, i)
    PROVE  /\ rel[i] = NoRow
           /\ rel'[i].sender = Me(s)
           /\ rel'[i].receiver = req[s].peer
           /\ \A j \in RowIds \ {i} : rel'[j] = rel[j]
           /\ req'[s].pc = "emit"
<1>1. req'[s].pc = "emit"
  BY ChangeFrame, GotoFields
<1> QED BY <1>1, ChangeFrame DEF Creates, Fresh, Known, TypeOK

\* With one request per user a step creates no second row for a pair.
LEMMA OneRowStep ==
    ASSUME TypeOK, RequestsWellFormed, NothingToDuplicate, OneRowPerPair, Next
    PROVE  OneRowPerPair'
<1> SUFFICES ASSUME NEW i \in RowIds, NEW j \in RowIds,
                    rel'[i] # NoRow, rel'[j] # NoRow,
                    rel'[i].sender = rel'[j].sender,
                    rel'[i].receiver = rel'[j].receiver,
                    i # j
             PROVE  FALSE
  BY DEF OneRowPerPair
<1>1. ASSUME NEW s \in Sessions, NEW a \in RowIds, NEW b \in RowIds, a # b, Creates(s, a),
             rel'[b] # NoRow, rel'[b].sender = rel'[a].sender,
             rel'[b].receiver = rel'[a].receiver
      PROVE  FALSE
  <2>1. rel[b] # NoRow /\ rel[b].sender = Me(s) /\ rel[b].receiver = req[s].peer
    BY <1>1, CreatedRow
  <2>2. Between(Me(s), req[s].peer) = {}
    BY <1>1 DEF Creates, NothingToDuplicate
  <2> QED BY <2>1, <2>2 DEF Between
<1>2. CASE \E s \in Sessions : Creates(s, i) \/ Creates(s, j)
  BY <1>1, <1>2
<1>3. CASE ~\E s \in Sessions : Creates(s, i) \/ Creates(s, j)
  BY <1>3, RowOrigin DEF OneRowPerPair
<1> QED BY <1>2, <1>3

\* A request on its way to create a row still has nothing to collide with.
LEMMA NothingToDuplicateStep ==
    ASSUME TypeOK, RequestsWellFormed, NothingToDuplicate, OneClientPerUser, Next
    PROVE  NothingToDuplicate'
<1> USE RelationshipAssumption
<1> SUFFICES ASSUME NEW t \in Sessions, Creating(t)'
             PROVE  Between(Me(t), req[t].peer)' = {}
  BY DEF NothingToDuplicate
<1>1. CASE req'[t] = req[t]
  <2>1. Between(Me(t), req[t].peer) = {}
    BY <1>1 DEF Creating, At, NothingToDuplicate
  <2>2. ASSUME NEW j \in RowIds, rel'[j] # NoRow, rel'[j].sender = Me(t),
               rel'[j].receiver = req[t].peer
        PROVE  FALSE
    <3>1. PICK s \in Sessions : Creates(s, j)
      BY <2>1, <2>2, RowOrigin DEF Between
    <3>2. s = t /\ req'[s].pc = "emit"
      BY <2>2, <3>1, CreatedRow DEF OneClientPerUser, Me
    <3> QED BY <3>2 DEF Creating, At
  <2> QED BY <1>1, <2>2 DEF Between, Me
<1>2. CASE FindsNobody(t)
  <2>1. req'[t].peer = req[t].peer
    BY <1>2 DEF FindsNobody, TypeOK, Request
  <2> QED BY <1>2, <2>1 DEF FindsNobody, Between, Me
<1>3. CASE FollowReadReverse(t)
  <2>1. req'[t].peer = req[t].peer /\ rel' = rel
    BY <1>3 DEF FollowReadReverse, TypeOK, Request
  <2>2. Creating(t)
    BY <1>3 DEF FollowReadReverse, Creating
  <2> QED BY <2>1, <2>2 DEF NothingToDuplicate, Between, Me
<1>4. CASE Finds(t)
  <2>1. PICK i \in GetRelationship(Key(t)[1], Key(t)[2]) :
           /\ req'[t] = [req[t] EXCEPT !.pc = "write", !.seen = i]
           /\ i = NoRow => req[t].op = "block"
    BY <1>4 DEF Finds
  <2>2. /\ req'[t].peer = req[t].peer /\ req'[t].op = req[t].op
        /\ req'[t].pc = "write" /\ req'[t].seen = i
    BY <2>1 DEF TypeOK, Request
  <2>3. req[t].op # "follow" /\ rel' = rel
    BY <1>4 DEF Finds, At
  <2>5. req[t].op = "block" /\ i = NoRow
    BY <2>2, <2>3 DEF Creating, At
  <2>4. Between(Me(t), req[t].peer) = {}
    BY <2>1, <2>5 DEF GetRelationship, Key, Between
  <2> QED BY <2>2, <2>3, <2>4 DEF Between, Me
<1>5. ASSUME NEW i \in RowIds,
             Creates(t, i) \/ Blocked(t, i) \/ Accepted(t, i) \/ Deleted(t, i)
      PROVE  FALSE
  BY <1>5, ChangeFrame, GotoFields DEF Creating, At
<1> QED
  BY <1>1, <1>2, <1>3, <1>4, <1>5, RequestStep
  DEF Moves, Starts, NothingToUnblock, Idle, Creating, At

\* With one request per user in flight, an ordered pair of users never has two
\* rows, whatever the order in which the queries of the requests run.
THEOREM PairsHaveOneRow == ASSUME OneClientPerUser PROVE Spec => []OneRowPerPair
<1>1. Init => NothingToDuplicate /\ OneRowPerPair
  BY DEF Init, NothingToDuplicate, OneRowPerPair, Creating, At, Idle
<1>2. /\ TypeOK /\ RequestsWellFormed
      /\ NothingToDuplicate /\ OneRowPerPair /\ [Next]_vars
      => (NothingToDuplicate /\ OneRowPerPair)'
  <2>1. ASSUME NothingToDuplicate, OneRowPerPair, UNCHANGED vars
        PROVE  (NothingToDuplicate /\ OneRowPerPair)'
    BY <2>1 DEF vars, NothingToDuplicate, OneRowPerPair, Creating, At, Between, Me
  <2> QED BY <2>1, NothingToDuplicateStep, OneRowStep
<1> QED BY <1>1, <1>2, TypeCorrect, PTL DEF Spec

(***************************************************************************)
(* The graph                                                               *)
(***************************************************************************)
\* Whom a request blocks, and what a follow still needs, does not change.
LEMMA AskedStep ==
    ASSUME TypeOK, RequestsWellFormed, AskedWell, Next
    PROVE  AskedWell'
<1> USE RelationshipAssumption
<1> SUFFICES ASSUME NEW t \in Sessions
             PROVE  /\ (req[t].op = "block" => req[t].peer # Me(t))'
                    /\ (At(t, "write", {"follow"}) /\ ~req[t].approved
                            => req[t].peer \in PrivateUsers)'
  BY DEF AskedWell
<1>1. CASE req'[t] = req[t]
  BY <1>1 DEF AskedWell, At, Me
<1>2. CASE req'[t] = Idle
  BY <1>2 DEF Idle, At
<1>3. ASSUME NEW o \in Ops, NEW p \in Targets[t], Receive(t, o, p)
      PROVE  /\ (req[t].op = "block" => req[t].peer # Me(t))'
             /\ req'[t].pc # "write"
  BY <1>3 DEF Receive, TypeOK, Idle, Me
<1>4. ASSUME NEW point, NEW row, Goto(t, point, row), point = "write" => req[t].op # "follow"
      PROVE  /\ (req[t].op = "block" => req[t].peer # Me(t))'
             /\ ~At(t, "write", {"follow"})'
  BY <1>4, GotoFields DEF AskedWell, At, Me
<1>5. CASE FollowReadReverse(t)
  <2>1. PICK i : req' = [req EXCEPT ![t] = [@ EXCEPT !.pc = "write",
                                                   !.approved = Approves(i, req[t].peer)]]
    BY <1>5 DEF FollowReadReverse
  <2>2. /\ req'[t].approved = Approves(i, req[t].peer)
        /\ req'[t].peer = req[t].peer /\ req'[t].op = req[t].op
    BY <2>1 DEF TypeOK, Request
  <2> QED BY <1>5, <2>2 DEF FollowReadReverse, At, Approves
<1>6. ASSUME SessionNext(t), req'[t] # Idle, ~FollowReadReverse(t)
      PROVE  \/ \E o \in Ops, p \in Targets[t] : Receive(t, o, p)
             \/ \E point, row : Goto(t, point, row) /\ (point = "write" => req[t].op # "follow")
  <2>1. ~End(t)
    BY <1>6 DEF End, TypeOK
  <2>2. CASE \/ CheckUserExist(t) \/ FollowRead(t) \/ UnfollowRead(t) \/ AcceptRead(t)
             \/ RejectRead(t) \/ BlockRead(t) \/ UnblockRead(t)
    BY <2>1, <2>2 DEF CheckUserExist, FollowRead, UnfollowRead, AcceptRead,
                      RejectRead, BlockRead, UnblockRead, At
  <2>3. CASE \/ FollowCreate(t) \/ BlockCreate(t) \/ BlockUpdate(t) \/ AcceptUpdate(t)
             \/ Delete(t) \/ Emit(t) \/ Fail(t)
    BY <2>1, <2>3 DEF FollowCreate, BlockCreate, BlockUpdate, AcceptUpdate, Delete, Emit, Fail,
                      Insert, InsertRefused, RowGone, Update
  <2> QED BY <1>6, <2>2, <2>3 DEF SessionNext, Step
<1>7. ASSUME NEW s \in Sessions, s # t, SessionNext(s) PROVE req'[t] = req[t]
  BY <1>7, OthersStay
<1>8. CASE Crash
  BY <1>2, <1>8 DEF Crash
<1> QED
  BY <1>1, <1>2, <1>3, <1>4, <1>5, <1>6, <1>7, <1>8 DEF Next, At

\* The edge of a pair with one row, and of a pair with none.
LEMMA EdgeOfOneRow ==
    ASSUME TypeOK, NEW a, NEW b, NEW i \in RowIds, Between(a, b) = {i}
    PROVE  EdgeOf(a, b) = IF rel[i].type = "block" THEN "blocked"
                          ELSE IF rel[i].status = "accepted" THEN "following"
                          ELSE "pending"
<1>1. rel[i] # NoRow /\ rel[i] \in Row
  BY DEF Between, TypeOK
<1> QED BY <1>1 DEF EdgeOf, Blocks, Follows, Row

LEMMA EdgeOfNoRow ==
    ASSUME NEW a, NEW b, Between(a, b) = {}
    PROVE  EdgeOf(a, b) = "none"
BY DEF EdgeOf

\* The edge of the pair that row i joins.
EdgeOfRow(i) ==
    IF rel[i].type = "block" THEN "blocked"
    ELSE IF rel[i].status = "accepted" THEN "following" ELSE "pending"

LEMMA RowEdge ==
    ASSUME TypeOK, OneRowPerPair, NEW i \in RowIds, rel[i] # NoRow
    PROVE  EdgeOf(rel[i].sender, rel[i].receiver) = EdgeOfRow(i)
<1>1. Between(rel[i].sender, rel[i].receiver) = {i}
  BY DEF Between, OneRowPerPair
<1> QED BY <1>1, EdgeOfOneRow DEF EdgeOfRow

\* The same of the state after a step.
LEMMA EdgeAfter ==
    ASSUME TypeOK', NEW a, NEW b
    PROVE  /\ Between(a, b)' = {} => EdgeOf(a, b)' = "none"
           /\ \A i \in RowIds : Between(a, b)' = {i} => EdgeOf(a, b)' = EdgeOfRow(i)'
<1>1. ASSUME NEW i \in RowIds, Between(a, b)' = {i} PROVE EdgeOf(a, b)' = EdgeOfRow(i)'
  <2>1. rel'[i] # NoRow /\ rel'[i] \in Row
    BY <1>1 DEF Between, TypeOK
  <2> QED BY <1>1, <2>1 DEF EdgeOf, Blocks, Follows, Row, EdgeOfRow
<1> QED BY <1>1 DEF EdgeOf

Edges == [p \in Registered \X Registered |-> EdgeOf(p[1], p[2])]

\* A step on row i, which joins a and b before or after it, moves one edge.
LEMMA OneEdgeMoves ==
    ASSUME TypeOK, TypeOK', NEW i \in RowIds, NEW a \in Registered, NEW b \in Registered,
           \A j \in RowIds \ {i} : rel'[j] = rel[j],
           rel[i] # NoRow => rel[i].sender = a /\ rel[i].receiver = b,
           rel'[i] # NoRow => rel'[i].sender = a /\ rel'[i].receiver = b
    PROVE  Edges' = [Edges EXCEPT ![<<a, b>>] = EdgeOf(a, b)']
<1>1. ASSUME NEW c \in Registered, NEW d \in Registered, <<c, d>> # <<a, b>>
      PROVE  EdgeOf(c, d)' = EdgeOf(c, d)
  <2>1. i \notin Between(c, d) /\ i \notin Between(c, d)'
    BY <1>1 DEF Between
  <2>2. Between(c, d)' = Between(c, d)
    BY <2>1 DEF Between
  <2>3. \A j \in Between(c, d) : rel'[j] = rel[j]
    BY <2>1 DEF Between
  <2> QED BY <2>2, <2>3 DEF EdgeOf, Blocks, Follows
<1>2. ASSUME NEW p \in Registered \X Registered
      PROVE  Edges'[p] = [Edges EXCEPT ![<<a, b>>] = EdgeOf(a, b)'][p]
  <2>1. PICK c \in Registered, d \in Registered : p = <<c, d>>
    OBVIOUS
  <2>2. CASE p = <<a, b>>
    BY <2>2 DEF Edges
  <2>3. CASE p # <<a, b>>
    BY <1>1, <2>1, <2>3 DEF Edges
  <2> QED BY <2>2, <2>3
<1> QED BY <1>2 DEF Edges

LEMMA EdgesUnchanged ==
    ASSUME UNCHANGED rel
    PROVE  Edges' = Edges
BY DEF Edges, EdgeOf, Between, Blocks, Follows

LEMMA EdgeStep ==
    ASSUME PairInv, OneClientPerUser, Next
    PROVE  [Graph!Next]_Edges
<1> USE RelationshipAssumption
<1> DEFINE Move(p, from, to) == Edges[p] \in from /\ Edges' = [Edges EXCEPT ![p] = to]
<1>0. TypeOK /\ TypeOK' /\ OneRowPerPair /\ OneRowPerPair'
  BY TypeStep, OneRowStep DEF PairInv
<1>1. CASE UNCHANGED <<rel, consented>>
  BY <1>1, EdgesUnchanged
<1>2. ASSUME NEW s \in Sessions, NEW i \in RowIds, Creates(s, i)
      PROVE  Graph!Next
  <2>1. PICK a \in Registered, b \in Registered : a = Me(s) /\ b = req[s].peer
    BY <1>2 DEF Creates, Me
  <2>2. Between(a, b) = {}
    BY <1>2, <2>1 DEF Creates, PairInv, NothingToDuplicate
  <2>3. <<a, b>> \in Registered \X Registered /\ Edges[<<a, b>>] = "none"
    BY <2>1, <2>2, EdgeOfNoRow DEF Edges
  <2>4. rel'[i] = [type |-> req[s].op,
                   status |-> IF req[s].op = "block" \/ req[s].approved
                              THEN "accepted" ELSE "pending",
                   sender |-> a, receiver |-> b]
    BY <1>0, <1>2, <2>1 DEF Creates, TypeOK
  <2>5. rel'[i] # NoRow /\ rel[i] = NoRow
    BY <1>0, <1>2, <2>1, <2>4 DEF TypeOK, Row, Creates, At, Fresh, Known
  <2>6. EdgeOf(a, b)' = EdgeOfRow(i)'
    <3>1. Between(a, b)' = {i}
      BY <1>0, <2>4, <2>5 DEF Between, OneRowPerPair
    <3> QED BY <1>0, <3>1, EdgeAfter
  <2>7. Edges' = [Edges EXCEPT ![<<a, b>>] = EdgeOf(a, b)']
    BY <1>0, <1>2, <2>4, <2>5, ChangeFrame, OneEdgeMoves
  <2>8. CASE req[s].op = "block"
    <3>1. EdgeOfRow(i)' = "blocked"
      BY <2>4, <2>8 DEF EdgeOfRow
    <3>2. a # b
      BY <2>1, <2>8 DEF PairInv, AskedWell
    <3> QED
      BY <2>3, <2>6, <2>7, <3>1, <3>2
      DEF Graph!Next, Graph!Block, Graph!Move, Graph!Pairs, Edges
  <2>9. CASE req[s].op = "follow" /\ req[s].approved
    <3>1. EdgeOfRow(i)' = "following"
      BY <2>4, <2>9 DEF EdgeOfRow
    <3> QED
      BY <2>3, <2>6, <2>7, <3>1
      DEF Graph!Next, Graph!Follow, Graph!Move, Graph!Pairs, Edges
  <2>10. CASE req[s].op = "follow" /\ ~req[s].approved
    <3>1. EdgeOfRow(i)' = "pending"
      BY <2>4, <2>10 DEF EdgeOfRow
    <3>2. b \in PrivateUsers
      BY <1>2, <2>1, <2>10 DEF PairInv, AskedWell, Creates, At
    <3> QED
      BY <2>3, <2>6, <2>7, <3>1, <3>2
      DEF Graph!Next, Graph!Follow, Graph!Move, Graph!Pairs, Edges
  <2> QED BY <1>2, <2>8, <2>9, <2>10 DEF Creates, At
<1>3. ASSUME NEW s \in Sessions, NEW i \in RowIds,
             Blocked(s, i) \/ Accepted(s, i) \/ Deleted(s, i)
      PROVE  [Graph!Next]_Edges
  <2>1. rel[i] # NoRow /\ rel[i] \in Row
    BY <1>0, <1>3 DEF Blocked, Accepted, Deleted, TypeOK
  <2>2. PICK a \in Registered, b \in Registered : a = rel[i].sender /\ b = rel[i].receiver
    BY <2>1 DEF Row
  <2>3. <<a, b>> \in Registered \X Registered /\ Edges[<<a, b>>] = EdgeOfRow(i)
    BY <1>0, <2>1, <2>2, RowEdge DEF Edges
  <2>4. rel'[i] # NoRow => rel'[i].sender = a /\ rel'[i].receiver = b
    BY <1>0, <1>3, <2>2, UpdateFields
  <2>5. Edges' = [Edges EXCEPT ![<<a, b>>] = EdgeOf(a, b)']
    BY <1>0, <1>3, <2>2, <2>4, ChangeFrame, OneEdgeMoves
  <2>6. ASSUME rel'[i] # NoRow PROVE EdgeOf(a, b)' = EdgeOfRow(i)'
    <3>1. Between(a, b)' = {i}
      BY <1>0, <2>4, <2>6 DEF Between, OneRowPerPair
    <3> QED BY <1>0, <3>1, EdgeAfter
  <2>7. ASSUME Edges[<<a, b>>] = EdgeOf(a, b)' PROVE Edges' = Edges
    BY <2>3, <2>5, <2>7 DEF Edges
  <2>8. CASE Blocked(s, i)
    <3>1. rel'[i] # NoRow
      <4>1. [rel[i] EXCEPT !.type = "block", !.status = "accepted"] \in Row
        BY <2>1 DEF Row
      <4> QED BY <1>0, <2>8, <4>1 DEF Blocked, TypeOK
    <3>2. EdgeOf(a, b)' = "blocked"
      BY <1>0, <2>6, <2>8, <3>1, UpdateFields DEF EdgeOfRow
    <3>3. a # b
      <4>1. req[s].op = "block" /\ req[s].seen = i /\ req[s].seen # NoRow
        BY <2>8 DEF Blocked, At
      <4>2. <<a, b>> = Key(s)
        BY <2>1, <2>2, <4>1 DEF PairInv, SeenMatches
      <4>3. Key(s) = <<Me(s), req[s].peer>>
        BY <4>1 DEF Key
      <4> QED BY <4>1, <4>2, <4>3 DEF PairInv, AskedWell
    <3> QED
      BY <2>3, <2>5, <2>7, <3>2, <3>3
      DEF EdgeOfRow, Graph!Next, Graph!Block, Graph!Move, Graph!Pairs, Edges
  <2>9. CASE Accepted(s, i)
    <3>1. rel'[i] # NoRow
      BY <1>0, <2>1, <2>9 DEF Accepted, TypeOK, Row
    <3>2. EdgeOf(a, b)' = IF rel[i].type = "block" THEN "blocked" ELSE "following"
      BY <1>0, <2>6, <2>9, <3>1, UpdateFields DEF EdgeOfRow
    <3> QED
      BY <2>1, <2>3, <2>5, <2>7, <3>2
      DEF EdgeOfRow, Graph!Next, Graph!Accept, Graph!Move, Graph!Pairs, Edges
  <2>10. CASE Deleted(s, i)
    <3>1. Between(a, b)' = {}
      <4>1. Between(a, b) = {i}
        BY <1>0, <2>1, <2>2 DEF Between, OneRowPerPair
      <4>2. rel'[i] = NoRow /\ \A j \in RowIds \ {i} : rel'[j] = rel[j]
        BY <1>0, <2>10, ChangeFrame, UpdateFields
      <4> QED BY <4>1, <4>2 DEF Between
    <3>2. EdgeOf(a, b)' = "none"
      BY <1>0, <3>1, EdgeAfter
    <3> QED
      BY <2>3, <2>5, <3>2
      DEF EdgeOfRow, Graph!Next, Graph!Remove, Graph!Move, Graph!Pairs, Edges
  <2> QED BY <1>3, <2>8, <2>9, <2>10
<1> QED BY <1>1, <1>2, <1>3, <1>0, TableStep DEF PairInv

\* The strengthening of OneRowPerPair that the graph needs is invariant.
THEOREM PairsInvariant == ASSUME OneClientPerUser PROVE Spec => []PairInv
<1>1. Init => SeenMatches /\ AskedWell
  BY DEF Init, SeenMatches, AskedWell, At, Idle
<1>2. Init => NothingToDuplicate /\ OneRowPerPair /\ BlocksAccepted
  BY DEF Init, NothingToDuplicate, OneRowPerPair, Creating, At, Idle, BlocksAccepted, Blocks
<1>3. Init => TypeOK /\ RequestsWellFormed
  BY RelationshipAssumption
  DEF Init, TypeOK, RequestsWellFormed, WellFormed, Request, Idle
<1>4. PairInv /\ [Next]_vars => PairInv'
  <2>1. CASE Next
    BY <2>1, TypeStep, WellFormedStep, BlockStep, SeenStep, AskedStep, NothingToDuplicateStep,
       OneRowStep DEF PairInv
  <2>2. ASSUME PairInv, UNCHANGED vars PROVE PairInv'
    <3>1. SeenMatches' /\ AskedWell' /\ BlocksAccepted'
      BY <2>2 DEF vars, PairInv, SeenMatches, AskedWell, BlocksAccepted, Blocks, At, Me, Key
    <3>2. NothingToDuplicate' /\ OneRowPerPair'
      BY <2>2 DEF vars, PairInv, NothingToDuplicate, OneRowPerPair, Creating, At, Between, Me
    <3>3. TypeOK' /\ RequestsWellFormed'
      BY <2>2 DEF vars, PairInv, TypeOK, RequestsWellFormed
    <3> QED BY <3>1, <3>2, <3>3 DEF PairInv
  <2> QED BY <2>1, <2>2
<1> QED BY <1>1, <1>2, <1>3, <1>4, PTL DEF Spec, PairInv

\* With one request per user in flight, the handlers do to the pairs of users
\* only what the graph allows, in single steps: stale reads, deletes of rows
\* that are gone, failures and crashes show no other behaviour.
THEOREM HandlersImplementGraph == ASSUME OneClientPerUser PROVE Spec => ImplementsGraph
<1>1. Init => Graph!Init
  <2>1. ASSUME Init, NEW a, NEW b PROVE EdgeOf(a, b) = "none"
    BY <2>1 DEF Init, EdgeOf, Between
  <2> QED BY <2>1 DEF Graph!Init, Graph!Pairs
<1>2. PairInv /\ [Next]_vars => [Graph!Next]_Edges
  <2>1. ASSUME UNCHANGED vars PROVE Edges' = Edges
    BY <2>1, EdgesUnchanged DEF vars
  <2> QED BY <2>1, EdgeStep
<1>3. PairInv /\ [Next]_vars
      => [Graph!Next]_([p \in Registered \X Registered |-> EdgeOf(p[1], p[2])])
  BY <1>2 DEF Edges
<1> QED BY <1>1, <1>3, PairsInvariant, PTL DEF Spec, ImplementsGraph, Graph!Spec

(***************************************************************************)
(* Removals                                                                *)
(***************************************************************************)
\* The events of a step: only the request that emits adds one, and identifiers
\* nobody knows afterwards have none.
LEMMA SentStep ==
    ASSUME TypeOK, RequestsWellFormed, \A i \in RowIds : Fresh(i) => sent[i] = {}, Next,
           NEW i \in RowIds
    PROVE  /\ Fresh(i)' => sent'[i] = {}
           /\ \/ sent'[i] \subseteq sent[i]
              \/ \E s \in Sessions : /\ req[s].pc = "emit"
                                     /\ req[s].seen = i
                                     /\ req'[s] = Idle
                                     /\ rel' = rel
                                     /\ sent'[i] \subseteq sent[i] \cup {req[s].op}
<1> USE RelationshipAssumption
<1> DEFINE Goal == /\ Fresh(i)' => sent'[i] = {}
                   /\ \/ sent'[i] \subseteq sent[i]
                      \/ \E s \in Sessions : /\ req[s].pc = "emit"
                                             /\ req[s].seen = i
                                             /\ req'[s] = Idle
                                             /\ rel' = rel
                                             /\ sent'[i] \subseteq sent[i] \cup {req[s].op}
<1>1. ASSUME sent' = StillKnown(sent) PROVE Goal
  BY <1>1 DEF StillKnown, Fresh
<1>2. ASSUME sent' = sent, Known(i) => Known(i)' PROVE Goal
  BY <1>2 DEF Fresh
<1>3. ASSUME NEW s \in Sessions, Emit(s) PROVE Goal
  <2>1. req'[s] = Idle
    BY <1>3 DEF Emit, End, TypeOK
  <2>2. CASE req[s].seen = NoRow
    BY <1>1, <1>3, <2>2 DEF Emit
  <2>3. CASE req[s].seen # NoRow
    <3>1. sent' = StillKnown([sent EXCEPT ![req[s].seen] = @ \cup {req[s].op}])
      BY <1>3, <2>3 DEF Emit
    <3>2. CASE req[s].seen = i
      BY <1>3, <2>1, <3>1, <3>2 DEF StillKnown, Fresh, Emit, TypeOK
    <3>3. CASE req[s].seen # i
      BY <3>1, <3>3 DEF StillKnown, Fresh, TypeOK
    <3> QED BY <3>2, <3>3
  <2> QED BY <2>2, <2>3
<1>4. ASSUME NEW s \in Sessions, SessionNext(s), rel' = rel, sent' = sent,
             req[s].seen = NoRow \/ req'[s].seen = req[s].seen
      PROVE  Goal
  <2>1. \A t \in Sessions : t # s => req'[t] = req[t]
    BY <1>4, OthersStay
  <2>2. Known(i) => Known(i)'
    BY <1>4, <2>1 DEF Known
  <2> QED BY <1>2, <1>4, <2>2
<1>5. ASSUME NEW s \in Sessions, \E o \in Ops, p \in Targets[s] : Receive(s, o, p)
      PROVE  Goal
  <2>1. req[s].seen = NoRow /\ rel' = rel /\ sent' = sent
    BY <1>5 DEF Receive, RequestsWellFormed, WellFormed, Idle
  <2> QED BY <1>4, <1>5, <2>1 DEF SessionNext
<1>6. ASSUME NEW s \in Sessions,
             \/ CheckUserExist(s) \/ FollowRead(s) \/ FollowReadReverse(s) \/ UnfollowRead(s)
             \/ AcceptRead(s) \/ RejectRead(s) \/ BlockRead(s) \/ UnblockRead(s)
      PROVE  Goal
  <2>1. req[s].pc \in {"check", "read", "reverse"} /\ rel' = rel /\ sent' = sent
    BY <1>6 DEF CheckUserExist, FollowRead, FollowReadReverse, UnfollowRead, AcceptRead,
                RejectRead, BlockRead, UnblockRead, At
  <2>2. req[s].seen = NoRow
    BY <2>1 DEF RequestsWellFormed, WellFormed
  <2> QED BY <1>4, <1>6, <2>1, <2>2 DEF SessionNext, Step
<1>7. ASSUME NEW s \in Sessions, NEW j \in RowIds, SessionNext(s),
             Creates(s, j) \/ Blocked(s, j) \/ Accepted(s, j) \/ Deleted(s, j)
      PROVE  Goal
  <2>1. /\ \A k \in RowIds \ {j} : rel'[k] = rel[k]
        /\ sent' = sent /\ req'[s].seen = j
    BY <1>7, ChangeFrame, GotoFields
  <2>2. \A t \in Sessions : t # s => req'[t] = req[t]
    BY <1>7, OthersStay
  <2>3. req[s].seen = NoRow \/ req[s].seen = j
    BY <1>7 DEF Creates, Creating, Blocked, Accepted, Deleted, At, RequestsWellFormed, WellFormed
  <2>4. Known(i) => Known(i)'
    BY <2>1, <2>2, <2>3 DEF Known
  <2> QED BY <1>2, <2>1, <2>4
<1>8. ASSUME NEW s \in Sessions, Writes(s) PROVE Goal
  <2>1. CASE InsertRefused(s) /\ req[s].seen = NoRow
    BY <1>4, <1>8, <2>1 DEF InsertRefused, SessionNext, Step, Writes
  <2>2. CASE RowGone(s)
    BY <1>1, <2>2 DEF RowGone
  <2>3. SessionNext(s)
    BY <1>8 DEF SessionNext, Step, Writes
  <2> QED BY <1>7, <1>8, <2>1, <2>2, <2>3, WriteStep
<1>9. ASSUME Crash \/ (\E s \in Sessions : Fail(s)) PROVE Goal
  BY <1>1, <1>9 DEF Fail, Crash
<1> QED
  BY <1>3, <1>5, <1>6, <1>8, <1>9 DEF Next, SessionNext, Step, Writes

\* A removal is announced by the one request whose delete succeeded.
LEMMA RemoverStep ==
    ASSUME TypeOK, RequestsWellFormed, OneRemover, RemovalAnnouncedOnce, Next
    PROVE  OneRemover' /\ RemovalAnnouncedOnce'
<1> USE RelationshipAssumption
<1>0. TypeOK' /\ RequestsWellFormed'
  BY TypeStep, WellFormedStep
<1>1. \A i \in RowIds : (Fresh(i) => sent[i] = {})'
  BY SentStep DEF OneRemover
\* A row that is there after the step is new or was there.
<1>2. ASSUME NEW i \in RowIds, rel'[i] # NoRow PROVE sent'[i] \cap Removals = {}
  <2>1. sent[i] \cap Removals = {}
    BY <1>2, RowOrigin DEF OneRemover, Creates
  <2>2. ASSUME NEW s \in Sessions, req[s].pc = "emit", req[s].seen = i, rel' = rel
        PROVE  req[s].op \notin Removals
    BY <1>2, <2>2 DEF OneRemover, At
  <2> QED BY <2>1, <2>2, SentStep DEF OneRemover
\* A request about to announce a removal was about to before, or deleted the row.
<1>3. ASSUME NEW t \in Sessions, At(t, "emit", Removals)', req'[t].seen # NoRow
      PROVE  \/ req'[t] = req[t]
             \/ Deleted(t, req'[t].seen)
  <2>1. ASSUME NEW i \in RowIds, Creates(t, i) \/ Blocked(t, i) \/ Accepted(t, i) PROVE FALSE
    <3>1. req'[t].op = req[t].op
      BY <2>1, ChangeFrame, GotoFields
    <3> QED BY <1>3, <2>1, <3>1 DEF Creates, Blocked, Accepted, At, Removals
  <2>2. ASSUME NEW i \in RowIds, Deleted(t, i) PROVE req'[t].seen = i
    BY <2>2, ChangeFrame, GotoFields
  <2>3. ASSUME FindsNobody(t) \/ Finds(t) PROVE FALSE
    <3>1. req'[t].pc \in {"reverse", "write"}
      BY <2>3 DEF FindsNobody, Finds, TypeOK, Request
    <3> QED BY <1>3, <3>1 DEF At
  <2>4. ASSUME FollowReadReverse(t) PROVE FALSE
    <3>1. req'[t].pc = "write"
      BY <2>4 DEF FollowReadReverse, TypeOK, Request
    <3> QED BY <1>3, <3>1 DEF At
  <2> QED
    BY <1>3, <2>1, <2>2, <2>3, <2>4, RequestStep DEF Moves, Starts, NothingToUnblock, Idle, At
<1>4. ASSUME NEW t \in Sessions, At(t, "emit", Removals)', req'[t].seen # NoRow
      PROVE  /\ rel'[req'[t].seen] = NoRow
             /\ sent'[req'[t].seen] \cap Removals = {}
  <2> DEFINE i == req'[t].seen
  <2>1. i \in RowIds
    BY <1>0, <1>4 DEF TypeOK, Request
  <2>2. CASE req'[t] = req[t]
    <3>1. rel[i] = NoRow /\ sent[i] \cap Removals = {}
      BY <1>4, <2>2 DEF OneRemover, RemovalAnnouncedOnce, At
    <3>2. rel'[i] = NoRow
      BY <1>4, <2>1, <2>2, <3>1, RowOrigin DEF Creates, Fresh, Known
    <3>3. ASSUME NEW s \in Sessions, req[s].pc = "emit", req[s].seen = i, req'[s] = Idle
          PROVE  req[s].op \notin Removals
      <4>1. s # t
        BY <1>4, <2>2, <3>3 DEF At, Idle
      <4> QED BY <1>4, <2>2, <3>3, <4>1 DEF OneRemover, At
    <3> QED BY <2>1, <3>1, <3>2, <3>3, SentStep DEF OneRemover
  <2>3. CASE Deleted(t, i)
    <3>1. sent' = sent /\ rel[i] # NoRow /\ rel'[i] = NoRow
      BY <2>1, <2>3, UpdateFields DEF Deleted
    <3> QED BY <2>1, <3>1 DEF OneRemover
  <2> QED BY <1>3, <1>4, <2>2, <2>3
<1>5. ASSUME NEW s \in Sessions, NEW t \in Sessions,
             At(s, "emit", Removals)', At(t, "emit", Removals)',
             req'[s].seen = req'[t].seen, req'[s].seen # NoRow, s # t
      PROVE  FALSE
  <2>1. ASSUME NEW u \in Sessions, NEW v \in Sessions, u # v,
               Deleted(u, req'[u].seen), At(v, "emit", Removals)',
               req'[v].seen = req'[u].seen, req'[v].seen # NoRow
        PROVE  FALSE
    <3>1. CASE req'[v] = req[v]
      BY <2>1, <3>1 DEF Deleted, OneRemover, At
    <3>2. CASE Deleted(v, req'[v].seen)
      <4>1. req' = [req EXCEPT ![u] = [@ EXCEPT !.pc = "emit", !.seen = req'[u].seen]]
        BY <2>1 DEF Deleted, Goto
      <4>2. req'[v] = req[v]
        BY <2>1, <4>1 DEF TypeOK
      <4> QED BY <3>1, <4>2
    <3> QED BY <1>3, <2>1, <3>1, <3>2
  <2> QED BY <1>3, <1>5, <2>1 DEF OneRemover, At
<1>6. RemovalAnnouncedOnce'
  BY <1>4 DEF RemovalAnnouncedOnce
<1> QED BY <1>1, <1>2, <1>4, <1>5, <1>6 DEF OneRemover

\* However many requests try to remove one row, one of them deletes it and
\* announces it.
THEOREM RemovalsAnnouncedOnce == Spec => []RemovalAnnouncedOnce
<1>1. Init => OneRemover /\ RemovalAnnouncedOnce
  BY DEF Init, OneRemover, RemovalAnnouncedOnce, At, Idle
<1>2. /\ TypeOK /\ RequestsWellFormed
      /\ OneRemover /\ RemovalAnnouncedOnce /\ [Next]_vars
      => (OneRemover /\ RemovalAnnouncedOnce)'
  <2>1. ASSUME OneRemover, RemovalAnnouncedOnce, UNCHANGED vars
        PROVE  (OneRemover /\ RemovalAnnouncedOnce)'
    BY <2>1 DEF vars, OneRemover, RemovalAnnouncedOnce, At, Fresh, Known
  <2> QED BY <2>1, RemoverStep
<1> QED BY <1>1, <1>2, TypeCorrect, PTL DEF Spec

\* Together with what the history remembers: the invariant of the run with
\* several requests per user.
THEOREM HandlersAreSafe == Spec => []SafeInv
<1>1. Init => SafeInv
  <2>1. Init => TypeOK /\ RequestsWellFormed
    BY RelationshipAssumption
    DEF Init, TypeOK, RequestsWellFormed, WellFormed, Request, Idle
  <2>2. Init => BlocksAccepted /\ MutualRemembered /\ PrivateConsent
    BY DEF Init, BlocksAccepted, Blocks, MutualRemembered, PrivateConsent, Follows, Idle
  <2>3. Init => OneRemover /\ RemovalAnnouncedOnce
    BY DEF Init, OneRemover, RemovalAnnouncedOnce, At, Idle
  <2> QED BY <2>1, <2>2, <2>3 DEF SafeInv
<1>2. SafeInv /\ [Next]_vars => SafeInv'
  <2>1. CASE Next
    BY <2>1, TypeStep, WellFormedStep, BlockStep, MutualStep, ConsentStep, RemoverStep DEF SafeInv
  <2>2. ASSUME SafeInv, UNCHANGED vars PROVE SafeInv'
    <3>1. TypeOK' /\ RequestsWellFormed'
      BY <2>2 DEF vars, SafeInv, TypeOK, RequestsWellFormed
    <3>2. BlocksAccepted' /\ MutualRemembered' /\ PrivateConsent'
      BY <2>2 DEF vars, SafeInv, BlocksAccepted, Blocks, MutualRemembered, PrivateConsent, Follows,
                  Following, Between, Me
    <3>3. OneRemover' /\ RemovalAnnouncedOnce'
      BY <2>2 DEF vars, SafeInv, OneRemover, RemovalAnnouncedOnce, At, Fresh, Known
    <3> QED BY <3>1, <3>2, <3>3 DEF SafeInv
  <2> QED BY <2>1, <2>2
<1> QED BY <1>1, <1>2, PTL DEF Spec

(***************************************************************************)
(* Announcements                                                           *)
(***************************************************************************)
\* At most one request moves in a step, unless all are lost.
LEMMA OneMoves ==
    ASSUME TypeOK, Next, NEW s \in Sessions, NEW t \in Sessions, s # t
    PROVE  \/ req'[s] = req[s]
           \/ req'[t] = req[t]
           \/ req'[s] = Idle /\ req'[t] = Idle
<1>1. CASE Crash
  BY <1>1 DEF Crash
<1>2. ASSUME NEW u \in Sessions, SessionNext(u) PROVE req'[s] = req[s] \/ req'[t] = req[t]
  BY <1>2, OthersStay
<1> QED BY <1>1, <1>2 DEF Next

Held(t, i) ==
    \/ /\ rel' = rel /\ rel[i] # NoRow
       /\ req'[t].pc = "write" /\ req[t].pc = "read" /\ req[t].op \in Ops \ {"follow"}
       /\ <<rel[i].sender, rel[i].receiver>> = Key(t)
       /\ req[t].op = "accept" => Found(i) = "pending"
       /\ req[t].op = "block" => Found(i) # "block"
    \/ Creates(t, i)
    \/ req[t].seen = i /\ (Blocked(t, i) \/ Accepted(t, i) \/ Deleted(t, i))

\* A request that holds a row after a step held it before as it does now, or has
\* just found, created or changed it.
LEMMA HoldStep ==
    ASSUME TypeOK, RequestsWellFormed, Next, NEW t \in Sessions, req'[t].seen # NoRow
    PROVE  /\ req'[t].seen \in RowIds
           /\ \/ req'[t] = req[t]
              \/ Held(t, req'[t].seen) /\ req'[t].op = req[t].op
<1> USE RelationshipAssumption
<1>1. req'[t].seen \in RowIds
  BY TypeStep DEF TypeOK, Request
<1>2. ASSUME Finds(t) PROVE Held(t, req'[t].seen) /\ req'[t].op = req[t].op
  <2>1. PICK i \in GetRelationship(Key(t)[1], Key(t)[2]) :
           /\ req'[t] = [req[t] EXCEPT !.pc = "write", !.seen = i]
           /\ req[t].op = "accept" => Found(i) = "pending"
           /\ req[t].op = "block" => Found(i) # "block"
    BY <1>2 DEF Finds
  <2>2. req'[t].seen = i /\ req'[t].op = req[t].op /\ req'[t].pc = "write"
    BY <2>1 DEF TypeOK, Request
  <2>3. rel[i] # NoRow /\ rel[i].sender = Key(t)[1] /\ rel[i].receiver = Key(t)[2]
    BY <1>1, <2>1, <2>2 DEF GetRelationship, Between
  <2>4. req[t].pc = "read" /\ req[t].op \in Ops \ {"follow"} /\ rel' = rel
    BY <1>2 DEF Finds, At
  <2>5. <<rel[i].sender, rel[i].receiver>> = Key(t)
    BY <2>3 DEF Key
  <2> QED BY <2>1, <2>2, <2>3, <2>4, <2>5 DEF Held
<1>3. ASSUME NEW i \in RowIds, Creates(t, i) \/ Blocked(t, i) \/ Accepted(t, i) \/ Deleted(t, i)
      PROVE  Held(t, req'[t].seen) /\ req'[t].op = req[t].op
  <2>1. req'[t].seen = i /\ req'[t].op = req[t].op
    BY <1>3, ChangeFrame, GotoFields
  <2> QED BY <1>3, <2>1 DEF Held, Blocked, Accepted, Deleted
<1>4. ~FindsNobody(t)
  BY DEF FindsNobody, TypeOK, Request
<1>5. ~FollowReadReverse(t)
  <2> SUFFICES ASSUME FollowReadReverse(t) PROVE FALSE
    OBVIOUS
  <2>1. req[t].seen = NoRow
    BY DEF FollowReadReverse, At, RequestsWellFormed, WellFormed
  <2>2. req'[t].seen = req[t].seen
    BY DEF FollowReadReverse, TypeOK, Request
  <2> QED BY <2>1, <2>2
<1> QED
  BY <1>1, <1>2, <1>3, <1>4, <1>5, RequestStep DEF Moves, Starts, NothingToUnblock, Idle

\* A row that stays keeps its status once accepted, and is not a new one.
LEMMA AcceptedStays ==
    ASSUME TypeOK, RequestsWellFormed, Next, NEW i \in RowIds, rel[i] # NoRow, rel'[i] # NoRow,
           rel[i].status = "accepted"
    PROVE  rel'[i].status = "accepted"
<1>1. CASE UNCHANGED <<rel, consented>>
  BY <1>1
<1>2. ASSUME NEW s \in Sessions, NEW j \in RowIds,
             Creates(s, j) \/ Blocked(s, j) \/ Accepted(s, j) \/ Deleted(s, j)
      PROVE  rel'[i].status = "accepted"
  <2>1. CASE i # j
    BY <1>2, <2>1, ChangeFrame
  <2>2. CASE i = j
    BY <1>2, <2>2, UpdateFields DEF Creates, Fresh, Known
  <2> QED BY <2>1, <2>2
<1> QED BY <1>1, <1>2, TableStep

\* No request comes to do to a row what another one is doing to it.
LEMMA OneOfKindStep ==
    ASSUME PairInv, AnnounceInv, OneClientPerUser, Next,
           NEW s \in Sessions, NEW t \in Sessions, req'[s].op = req'[t].op,
           req'[s].seen = req'[t].seen, req'[s].seen # NoRow
    PROVE  s = t
<1> USE RelationshipAssumption
<1>1. ASSUME NEW u \in Sessions, NEW v \in Sessions, req'[u] = req[u],
             req'[u].op = req'[v].op, req'[u].seen = req'[v].seen, req'[u].seen # NoRow
      PROVE  u = v
  <2> DEFINE i == req'[v].seen
  <2>1. req[u].seen = i /\ req[u].op = req'[v].op /\ i # NoRow /\ i \in RowIds
    BY <1>1, HoldStep DEF PairInv
  <2>2. CASE req'[v] = req[v]
    BY <2>1, <2>2 DEF AnnounceInv
  <2>3. CASE Held(v, i) /\ req'[v].op = req[v].op
    <3>1. CASE Creates(v, i)
      BY <2>1, <3>1 DEF Creates, Fresh, Known
    <3>2. CASE req[v].seen = i
      BY <2>1, <2>3, <3>2 DEF AnnounceInv
    <3>3. CASE rel[i] # NoRow /\ <<rel[i].sender, rel[i].receiver>> = Key(v)
      <4>1. Key(u) = Key(v)
        BY <2>1, <3>3 DEF PairInv, SeenMatches
      <4>2. Owner[u] = Owner[v]
        BY <2>1, <2>3, <4>1 DEF Key, Me
      <4> QED BY <4>2 DEF OneClientPerUser
    <3> QED BY <2>3, <3>1, <3>2, <3>3 DEF Held
  <2> QED BY <1>1, <2>2, <2>3, HoldStep DEF PairInv
<1> QED BY <1>1, OneMoves DEF Idle, PairInv

LEMMA AnnounceStep ==
    ASSUME SafeInv, PairInv, AnnounceInv, OneClientPerUser, Next
    PROVE  AnnounceInv'
<1> USE RelationshipAssumption
<1>0. TypeOK /\ RequestsWellFormed /\ OneRemover
  BY DEF SafeInv
<1>1. ASSUME NEW s \in Sessions, NEW i \in RowIds, req[s].pc = "emit", req[s].seen = i,
             rel[i] # NoRow
      PROVE  /\ req[s].op = "accept" => rel[i].status = "accepted"
             /\ req[s].op = "block" => Blocks(i)
  BY <1>1 DEF AnnounceInv, At
\* What was announced of a row that is there after the step shows in it.
<1>2. ASSUME NEW i \in RowIds, rel'[i] # NoRow
      PROVE  /\ "accept" \in sent'[i] => rel'[i].status = "accepted"
             /\ "block" \in sent'[i] => Blocks(i)'
  <2>1. CASE \E s \in Sessions : Creates(s, i)
    <3>1. sent'[i] = {}
      BY <1>0, <2>1 DEF Creates, OneRemover
    <3> QED BY <3>1
  <2>2. CASE ~\E s \in Sessions : Creates(s, i)
    <3>1. rel[i] # NoRow
      BY <1>0, <1>2, <2>2, RowOrigin
    <3>2. /\ "accept" \in sent'[i] => rel[i].status = "accepted"
          /\ "block" \in sent'[i] => Blocks(i)
      <4>1. /\ "accept" \in sent[i] => rel[i].status = "accepted"
            /\ "block" \in sent[i] => Blocks(i)
        BY <3>1 DEF AnnounceInv
      <4>2. CASE sent'[i] \subseteq sent[i]
        BY <4>1, <4>2
      <4>3. ASSUME NEW s \in Sessions, req[s].pc = "emit", req[s].seen = i,
                   sent'[i] \subseteq sent[i] \cup {req[s].op}
            PROVE  /\ "accept" \in sent'[i] => rel[i].status = "accepted"
                   /\ "block" \in sent'[i] => Blocks(i)
        BY <1>1, <3>1, <4>1, <4>3
      <4> QED BY <1>0, <4>2, <4>3, SentStep DEF OneRemover
    <3>3. Blocks(i) => Blocks(i)'
      BY <1>0, <1>2, BlockStep DEF SafeInv, Blocks
    <3>4. rel[i].status = "accepted" => rel'[i].status = "accepted"
      BY <1>0, <1>2, <3>1, AcceptedStays
    <3> QED BY <3>2, <3>3, <3>4
  <2> QED BY <2>1, <2>2
\* A request that holds a row has not announced yet what it does to it.
<1>3. ASSUME NEW t \in Sessions, req'[t].seen # NoRow
      PROVE  req'[t].op \notin sent'[req'[t].seen]
  <2> DEFINE i == req'[t].seen
  <2>1. i \in RowIds
    BY <1>0, <1>3, HoldStep
  <2>2. ASSUME req'[t].op \notin sent[i] PROVE req'[t].op \notin sent'[i]
    <3>1. ASSUME NEW s \in Sessions, req[s].pc = "emit", req[s].seen = i, req'[s] = Idle,
                 req[s].op = req'[t].op, rel' = rel
          PROVE  FALSE
      <4>1. s # t /\ req'[t] # Idle /\ req'[s] # req[s]
        BY <1>3, <3>1 DEF Idle
      <4>2. req'[t] = req[t]
        BY <1>0, <3>1, <4>1, OneMoves
      <4> QED BY <3>1, <4>1, <4>2, <1>3 DEF AnnounceInv
    <3> QED BY <1>0, <2>1, <2>2, <3>1, SentStep DEF OneRemover
  <2>3. CASE req'[t] = req[t]
    BY <1>3, <2>2, <2>3 DEF AnnounceInv
  <2>4. CASE Held(t, i) /\ req'[t].op = req[t].op
    <3>1. CASE Creates(t, i)
      BY <1>0, <2>1, <2>2, <3>1 DEF Creates, OneRemover
    <3>2. CASE req[t].seen = i
      BY <1>3, <2>2, <2>4, <3>2 DEF AnnounceInv
    <3>3. CASE /\ rel[i] # NoRow /\ req[t].op \in Ops \ {"follow"}
               /\ req[t].op = "accept" => Found(i) = "pending"
               /\ req[t].op = "block" => Found(i) # "block"
      <4>1. sent[i] \cap Removals = {}
        BY <1>0, <2>1, <3>3 DEF OneRemover
      <4>2. /\ "accept" \in sent[i] => rel[i].status = "accepted"
            /\ "block" \in sent[i] => Blocks(i)
        BY <2>1, <3>3 DEF AnnounceInv
      <4>3. req[t].op = "accept" => "accept" \notin sent[i]
        BY <2>1, <3>3, <4>2 DEF Found
      <4>4. req[t].op = "block" => "block" \notin sent[i]
        BY <2>1, <3>3, <4>2 DEF Found
      <4> QED BY <2>2, <2>4, <3>3, <4>1, <4>3, <4>4 DEF Ops, Removals
    <3> QED BY <2>4, <3>1, <3>2, <3>3 DEF Held
  <2> QED BY <1>0, <1>3, <2>3, <2>4, HoldStep
\* What a request is about to announce shows in the row, if it is still there.
<1>4. ASSUME NEW t \in Sessions, req'[t].seen # NoRow, rel'[req'[t].seen] # NoRow,
             req'[t].pc = "emit"
      PROVE  /\ req'[t].op = "accept" => rel'[req'[t].seen].status = "accepted"
             /\ req'[t].op = "block" => rel'[req'[t].seen].type = "block"
  <2> DEFINE i == req'[t].seen
  <2>1. i \in RowIds
    BY <1>0, <1>4, HoldStep
  <2>2. CASE req'[t] = req[t]
    <3>1. rel[i] # NoRow
      BY <1>0, <1>4, <2>1, <2>2, RowOrigin DEF Creates, Fresh, Known
    <3>2. /\ req[t].op = "accept" => rel[i].status = "accepted"
          /\ req[t].op = "block" => Blocks(i)
      BY <1>1, <1>4, <2>1, <2>2, <3>1
    <3>3. Blocks(i) => rel'[i] = rel[i]
      BY <1>0, <1>4, <2>1, BlockStep DEF SafeInv
    <3>4. rel[i].status = "accepted" => rel'[i].status = "accepted"
      BY <1>0, <1>4, <2>1, <3>1, AcceptedStays
    <3> QED BY <2>2, <3>2, <3>3, <3>4 DEF Blocks
  <2>3. CASE Held(t, i) /\ req'[t].op = req[t].op
    <3>1. CASE Creates(t, i)
      BY <1>0, <1>4, <2>1, <2>3, <3>1 DEF Creates, At, Blocks, TypeOK
    <3>2. CASE Blocked(t, i)
      BY <1>0, <1>4, <2>1, <3>2, UpdateFields DEF Blocks
    <3>3. CASE Accepted(t, i)
      BY <1>0, <1>4, <2>1, <2>3, <3>3, UpdateFields DEF Accepted, At
    <3>4. CASE Deleted(t, i)
      BY <1>0, <1>4, <2>1, <3>4, UpdateFields
    <3> QED BY <1>4, <2>3, <3>1, <3>2, <3>3, <3>4 DEF Held
  <2> QED BY <1>0, <1>4, <2>2, <2>3, HoldStep
<1>5. ASSUME NEW s \in Sessions, NEW t \in Sessions, req'[s].op = req'[t].op,
             req'[s].seen = req'[t].seen, req'[s].seen # NoRow
      PROVE  s = t
  BY <1>5, OneOfKindStep
<1> QED BY <1>2, <1>3, <1>4, <1>5 DEF AnnounceInv, At, Blocks

\* With one request per user in flight, a follow, an acceptance or a block is
\* announced at most once, as a removal always is: the same request never gets
\* to a row twice (FollowUser, AcceptUserFollowRequest, BlockUser).
THEOREM AnnouncementsAreSingle == ASSUME OneClientPerUser PROVE Spec => []AnnouncedOnce
<1>1. Init => AnnounceInv
  BY DEF Init, AnnounceInv, Idle
<1>2. SafeInv /\ PairInv /\ AnnounceInv /\ [Next]_vars => AnnounceInv'
  <2>1. ASSUME AnnounceInv, UNCHANGED vars PROVE AnnounceInv'
    BY <2>1 DEF vars, AnnounceInv, At, Blocks
  <2> QED BY <2>1, AnnounceStep
<1>3. AnnounceInv => AnnouncedOnce
  BY DEF AnnounceInv, AnnouncedOnce
<1> QED BY <1>1, <1>2, <1>3, HandlersAreSafe, PairsInvariant, PTL DEF Spec
=============================================================================
