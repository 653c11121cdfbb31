-------------------------- MODULE ReactionsProofs --------------------------
(***************************************************************************)
(* One reaction per user and target, when a user has one client: no index  *)
(* forbids a second row, so what keeps it out is that nobody but the       *)
(* client that found no row can insert one before it does.  From it follow *)
(* that a delete leaves nothing behind and that the two counts a list is   *)
(* put together from agree.                                                *)
(***************************************************************************)
EXTENDS Reactions, FiniteSetTheorems, TLAPS

OneClientPerUser == \A c, d \in Clients : Owner[c] = Owner[d] => c = d

Request == [pc : {"idle", "insert", "delete", "count"},
            target : Targets \cup {None}, liked : BOOLEAN]

ReqOK == /\ req \in [Clients -> Request]
         /\ \A c \in Clients : req[c].pc # "idle" => req[c].target \in Targets
RowsOK == rows \subseteq Row
Unique == \A r, s \in rows : (r.user = s.user /\ r.target = s.target) => r = s
\* The read a pending insert relies on still holds.
StillNone == \A c \in Clients : \A r \in rows :
    ~(req[c].pc = "insert" /\ r.user = Owner[c] /\ r.target = req[c].target)

ReactInv == ReqOK /\ RowsOK /\ Unique /\ StillNone
-----------------------------------------------------------------------------
\* A request that starts has a target, whatever it asks.
LEMMA GotoKeepsReqOK ==
    ASSUME ReqOK, NEW c \in Clients, NEW t \in Targets, NEW b \in BOOLEAN,
           NEW p \in {"insert", "delete", "count"}, Goto(c, p, t, b)
    PROVE  ReqOK'
  BY DEF ReqOK, Goto, Request

LEMMA EndKeepsReqOK ==
    ASSUME ReqOK, NEW c \in Clients, End(c)
    PROVE  ReqOK' /\ req'[c].pc = "idle" /\ \A d \in Clients \ {c} : req'[d] = req[d]
  BY DEF ReqOK, End, Idle, Request

\* The table is as before and one request moves to a stage that is not an insert.
LEMMA ReadKeepsRest ==
    ASSUME ReqOK, RowsOK, Unique, StillNone, UNCHANGED rows,
           NEW c \in Clients, NEW t, NEW b, NEW p, p # "insert", Goto(c, p, t, b)
    PROVE  RowsOK' /\ Unique' /\ StillNone'
  <1>1. \A d \in Clients : req'[d].pc = "insert" => req'[d] = req[d]
    BY DEF ReqOK, Goto
  <1>2. StillNone'
    BY <1>1 DEF StillNone
  <1>3. QED BY <1>2 DEF RowsOK, Unique

\* Rows only go and one request ends.
LEMMA LessKeepsRest ==
    ASSUME ReqOK, RowsOK, Unique, StillNone, rows' \subseteq rows, NEW c \in Clients, End(c)
    PROVE  RowsOK' /\ Unique' /\ StillNone'
  <1>1. req'[c].pc = "idle" /\ \A d \in Clients \ {c} : req'[d] = req[d]
    BY EndKeepsReqOK
  <1>2. StillNone'
    BY <1>1 DEF StillNone
  <1>3. QED BY <1>2 DEF RowsOK, Unique
-----------------------------------------------------------------------------
\* At first nobody has reacted and nobody asks.
THEOREM InitReact == Init => ReactInv
  BY DEF Init, ReactInv, ReqOK, RowsOK, Unique, StillNone, Idle, Request

\* A create that finds no row leaves the reason to insert one in place.
LEMMA CreateReadStep ==
    ASSUME ReactInv, NEW c \in Clients, NEW t \in Targets, CreateRead(c, t)
    PROVE  ReactInv'
  <1>1. ReqOK'
    BY GotoKeepsReqOK DEF ReactInv, CreateRead
  <1>2. /\ req'[c].target = t
        /\ \A d \in Clients \ {c} : req'[d] = req[d]
    BY DEF ReactInv, ReqOK, CreateRead, Goto
  <1>3. \A r \in rows : ~(r.user = Owner[c] /\ r.target = t)
    BY DEF CreateRead, Of
  <1>4. StillNone'
    BY <1>2, <1>3 DEF ReactInv, StillNone, CreateRead
  <1>5. QED BY <1>1, <1>4 DEF ReactInv, RowsOK, Unique, CreateRead

\* An insert adds a row no other row equals, and no other client of the user
\* waits to insert.
LEMMA InsertStep ==
    ASSUME ReactionsAssumption, OneClientPerUser, ReactInv, NEW c \in Clients, Insert(c)
    PROVE  ReactInv'
  <1>1. PICK i \in 1..MaxRows :
            rows' = rows \cup {[id |-> i, user |-> Owner[c], target |-> req[c].target]}
    BY DEF Insert
  <1> DEFINE new == [id |-> i, user |-> Owner[c], target |-> req[c].target]
  <1>2. new \in Row /\ new.user = Owner[c] /\ new.target = req[c].target
    BY DEF ReactInv, ReqOK, Insert, At, Row, ReactionsAssumption
  <1>3. ReqOK' /\ req'[c].pc = "idle" /\ \A d \in Clients \ {c} : req'[d] = req[d]
    BY EndKeepsReqOK DEF ReactInv, Insert
  <1>4. rows' = rows \cup {new}
    BY <1>1
  <1> HIDE DEF new
  <1>5. RowsOK'
    BY <1>2, <1>4 DEF ReactInv, RowsOK
  <1>6. Unique'
    BY <1>2, <1>4 DEF ReactInv, Unique, StillNone, Insert, At
  <1>7. StillNone'
    BY <1>2, <1>3, <1>4 DEF ReactInv, StillNone, OneClientPerUser
  <1>8. QED BY <1>3, <1>5, <1>6, <1>7 DEF ReactInv

LEMMA BeginStep ==
    ASSUME ReactInv, NEW c \in Clients, NEW t \in Targets, Begin(c, t)
    PROVE  ReactInv'
  <1>1. CASE CreateRead(c, t)
    BY <1>1, CreateReadStep
  <1>2. CASE DeleteRead(c, t) \/ DeletePost(c, t)
    <2>1. Goto(c, "delete", t, FALSE) /\ UNCHANGED rows
      BY <1>2 DEF DeleteRead, DeletePost
    <2>2. ReqOK'
      BY <2>1, GotoKeepsReqOK DEF ReactInv
    <2>3. QED BY <2>1, <2>2, ReadKeepsRest DEF ReactInv
  <1>3. CASE ViewLiked(c, t)
    <2> DEFINE b == Of(Owner[c], t) # {}
    <2>1. Goto(c, "count", t, b) /\ UNCHANGED rows /\ b \in BOOLEAN
      BY <1>3 DEF ViewLiked
    <2> HIDE DEF b
    <2>2. ReqOK'
      BY <2>1, GotoKeepsReqOK DEF ReactInv
    <2>3. QED BY <2>1, <2>2, ReadKeepsRest DEF ReactInv
  <1>4. QED BY <1>1, <1>2, <1>3 DEF Begin

LEMMA ContinueStep ==
    ASSUME ReactionsAssumption, OneClientPerUser, ReactInv, NEW c \in Clients, Continue(c)
    PROVE  ReactInv'
  <1>1. CASE Insert(c)
    BY <1>1, InsertStep
  <1>2. CASE Delete(c) \/ ViewCount(c) \/ Fail(c)
    <2>1. rows' \subseteq rows /\ End(c)
      BY <1>2 DEF Delete, DeleteOne, ViewCount, Fail
    <2>2. ReqOK'
      BY <2>1, EndKeepsReqOK DEF ReactInv
    <2>3. QED BY <2>1, <2>2, LessKeepsRest DEF ReactInv
  <1>3. QED BY <1>1, <1>2 DEF Continue

\* Every step keeps the invariant.
THEOREM StepReact ==
    ASSUME ReactionsAssumption, OneClientPerUser, ReactInv, [Next]_vars
    PROVE  ReactInv'
  <1>1. CASE UNCHANGED vars
    BY <1>1 DEF vars, ReactInv, ReqOK, RowsOK, Unique, StillNone
  <1>2. CASE Next
    BY <1>2, BeginStep, ContinueStep DEF Next
  <1>3. QED BY <1>1, <1>2

\* Where every user has one client, a user has one reaction to a target,
\* however the requests of different users interleave and fail.
THEOREM OneReaction ==
    ASSUME ReactionsAssumption, OneClientPerUser
    PROVE  Spec => []OneReactionPerUser
  <1>1. ReactInv => OneReactionPerUser
    BY DEF ReactInv, ReqOK, RowsOK, Unique, Request, OneReactionPerUser, TypeOK
  <1>2. ReactInv /\ [Next]_vars => ReactInv'
    BY StepReact
  <1>3. QED BY <1>1, <1>2, InitReact, PTL DEF Spec
-----------------------------------------------------------------------------
\* A delete that was answered and deleted a row leaves no reaction of the user
\* to the target behind: it had found the only one.
LEMMA DeleteStep ==
    ASSUME ReactInv, [Next]_vars, NEW c \in Clients,
           At(c, "delete"), req[c] # req'[c], rows # rows',
           NEW r \in rows'
    PROVE  ~(r.user = Owner[c] /\ r.target = req[c].target)
  <1>1. req' # req
    OBVIOUS
  <1>2. PICK d \in Clients : (\E t \in Targets : Begin(d, t)) \/ Continue(d)
    BY <1>1 DEF Next, vars
  <1>3. CASE \E t \in Targets : Begin(d, t)
    BY <1>3 DEF Begin, CreateRead, DeleteRead, DeletePost, ViewLiked
  <1>4. CASE Insert(d)
    <2>1. req'[c] = req[c] \/ c = d
      BY <1>4, EndKeepsReqOK DEF Insert, ReactInv
    <2> QED BY <1>4, <2>1 DEF Insert, At
  <1>5. CASE Delete(d)
    <2>1. c = d
      BY <1>5, EndKeepsReqOK DEF Delete, ReactInv
    <2>2. PICK q \in Of(Owner[c], req[c].target) : rows' = rows \ {q}
      BY <1>5, <2>1 DEF Delete, DeleteOne
    <2> QED BY <2>2 DEF Of, ReactInv, Unique
  <1>6. CASE ViewCount(d) \/ Fail(d)
    BY <1>6 DEF ViewCount, Fail
  <1> QED BY <1>2, <1>3, <1>4, <1>5, <1>6 DEF Continue

\* A request that removes a reaction leaves its user none on that target, where
\* every user has one client: there was only the one.
THEOREM DeletesAreComplete ==
    ASSUME ReactionsAssumption, OneClientPerUser
    PROVE  Spec => DeleteIsComplete
  <1>1. ReactInv /\ [Next]_vars => ReactInv'
    BY StepReact
  <1>2. ReactInv /\ [Next]_vars =>
          [\A c \in Clients :
             (At(c, "delete") /\ req[c] # req'[c] /\ rows # rows')
               => \A r \in rows' : ~(r.user = Owner[c] /\ r.target = req[c].target)]_vars
    BY DeleteStep
  <1> QED BY <1>1, <1>2, InitReact, PTL DEF Spec, DeleteIsComplete
-----------------------------------------------------------------------------
Mine(c) == {r \in rows : r.user = Owner[c] /\ r.target = req[c].target}

\* What a list has read of the user's own reaction still holds when it counts.
LikedHolds == \A c \in Clients : At(c, "count") => (req[c].liked <=> Mine(c) # {})

\* The reactions to a target are at most as many as the users who may have one.
LEMMA LikesAtMost ==
    ASSUME RowsOK, Unique, IsFiniteSet(Users), NEW t, NEW U \in SUBSET Users,
           \A r \in rows : r.target = t => r.user \in U
    PROVE  /\ IsFiniteSet({r \in rows : r.target = t})
           /\ Cardinality({r \in rows : r.target = t}) <= Cardinality(U)
  <1> DEFINE S == {r \in rows : r.target = t}
             f == [r \in S |-> r.user]
  <1>1. IsFiniteSet(U)
    BY FS_Subset
  <1>2. f \in Injection(S, U)
    <2>1. f \in [S -> U]
      OBVIOUS
    <2>2. ASSUME NEW q \in S, NEW r \in S, f[q] = f[r] PROVE q = r
      BY <2>2 DEF Unique
    <2> HIDE DEF f, S
    <2> QED BY <2>1, <2>2 DEF Injection, IsInjective
  <1> HIDE DEF f, S
  <1>3. IsFiniteSet(S) /\ Cardinality(S) <= Cardinality(U)
    BY <1>1, <1>2, FS_Injection
  <1> QED BY <1>3 DEF S

\* One count and the other.
LEMMA CountsAgree ==
    ASSUME ReactionsAssumption, ReactInv, IsFiniteSet(Users), NEW c \in Clients,
           LikedHolds, At(c, "count")
    PROVE  LET n == Cardinality({r \in rows : r.target = req[c].target})
           IN  IF req[c].liked THEN n >= 1 ELSE n < Cardinality(Users)
  <1> DEFINE t == req[c].target
             S == {r \in rows : r.target = t}
  <1>1. \A r \in rows : r.user \in Users
    BY DEF ReactInv, RowsOK, Row
  <1>2. IsFiniteSet(S)
    BY <1>1, LikesAtMost DEF ReactInv
  <1>3. Cardinality(S) \in Nat
    BY <1>2, FS_CardinalityType
  <1>4. CASE req[c].liked
    <2>1. S # {}
      BY <1>4 DEF LikedHolds, Mine
    <2>2. Cardinality(S) # 0
      BY <1>2, <2>1, FS_EmptySet
    <2> QED BY <1>3, <1>4, <2>2
  <1>5. CASE ~req[c].liked
    <2> DEFINE U == Users \ {Owner[c]}
    <2>1. Owner[c] \in Users
      BY DEF ReactionsAssumption
    <2>2. \A r \in rows : r.target = t => r.user \in U
      BY <1>1, <1>5 DEF LikedHolds, Mine
    <2>3. Cardinality(S) <= Cardinality(U)
      BY <2>2, LikesAtMost DEF ReactInv
    <2>4. Cardinality(U) = Cardinality(Users) - 1 /\ Cardinality(Users) \in Nat
      BY <2>1, FS_RemoveElement, FS_CardinalityType
    <2> QED BY <1>3, <1>5, <2>3, <2>4
  <1> QED BY <1>4, <1>5

LEMMA LikedStep ==
    ASSUME ReactionsAssumption, OneClientPerUser, IsFiniteSet(Users), ReactInv, LikedHolds,
           LikedIsCounted, [Next]_vars
    PROVE  LikedHolds' /\ LikedIsCounted'
  <1> USE DEF ReactInv
  <1>1. ASSUME NEW c \in Clients, NEW t \in Targets, NEW p, NEW b, Goto(c, p, t, b),
               p = "count" => b = (Of(Owner[c], t) # {}), UNCHANGED <<rows, shown>>
        PROVE  LikedHolds' /\ LikedIsCounted'
    <2>1. /\ req'[c].pc = p /\ req'[c].target = t /\ req'[c].liked = b
          /\ \A d \in Clients \ {c} : req'[d] = req[d]
      BY <1>1 DEF ReqOK, Goto
    <2>2. ASSUME NEW d \in Clients, At(d, "count")' PROVE req'[d].liked <=> Mine(d)' # {}
      <3>1. CASE d = c
        BY <1>1, <2>1, <2>2, <3>1 DEF At, Of, Mine
      <3>2. CASE d # c
        BY <1>1, <2>1, <2>2, <3>2 DEF At, LikedHolds, Mine
      <3> QED BY <3>1, <3>2
    <2> QED BY <1>1, <2>2 DEF LikedHolds, LikedIsCounted
  <1>2. ASSUME NEW c \in Clients, End(c), shown' = shown,
               \A r \in (rows \ rows') \cup (rows' \ rows) : r.user = Owner[c]
        PROVE  LikedHolds' /\ LikedIsCounted'
    <2>1. req'[c].pc = "idle" /\ \A d \in Clients \ {c} : req'[d] = req[d]
      BY <1>2, EndKeepsReqOK
    <2>2. ASSUME NEW d \in Clients, At(d, "count")' PROVE req'[d].liked <=> Mine(d)' # {}
      <3>1. d # c /\ Owner[d] # Owner[c] /\ req'[d] = req[d]
        BY <2>1, <2>2 DEF At, OneClientPerUser
      <3>2. Mine(d)' = Mine(d)
        BY <1>2, <3>1 DEF Mine
      <3> QED BY <2>2, <3>1, <3>2 DEF At, LikedHolds
    <2> QED BY <1>2, <2>2 DEF LikedHolds, LikedIsCounted
  <1>3. ASSUME NEW c \in Clients, Insert(c) PROVE LikedHolds' /\ LikedIsCounted'
    <2>1. PICK i \in 1..MaxRows :
            rows' = rows \cup {[id |-> i, user |-> Owner[c], target |-> req[c].target]}
      BY <1>3 DEF Insert
    <2>2. \A r \in (rows \ rows') \cup (rows' \ rows) : r.user = Owner[c]
      BY <2>1
    <2> QED BY <1>2, <1>3, <2>2 DEF Insert
  <1>4. ASSUME NEW c \in Clients, Delete(c) PROVE LikedHolds' /\ LikedIsCounted'
    <2>1. \A r \in (rows \ rows') \cup (rows' \ rows) : r.user = Owner[c]
      BY <1>4 DEF Delete, DeleteOne, Of
    <2> QED BY <1>2, <1>4, <2>1 DEF Delete
  <1>5. ASSUME NEW c \in Clients, ViewCount(c) PROVE LikedHolds' /\ LikedIsCounted'
    <2> DEFINE n == Cardinality({r \in rows : r.target = req[c].target})
               v == [liked |-> req[c].liked, likeCount |-> n]
    <2>1. shown' = shown \cup {v} /\ End(c) /\ rows' = rows /\ At(c, "count")
      BY <1>5 DEF ViewCount
    <2>2. IF req[c].liked THEN n >= 1 ELSE n < Cardinality(Users)
      BY <2>1, CountsAgree
    <2>3. v.liked = req[c].liked /\ v.likeCount = n
      OBVIOUS
    <2> HIDE DEF v, n
    <2>4. IF v.liked THEN v.likeCount >= 1 ELSE v.likeCount < Cardinality(Users)
      BY <2>2, <2>3
    <2>5. LikedIsCounted'
      BY <2>1, <2>4 DEF LikedIsCounted
    <2>6. req'[c].pc = "idle" /\ \A d \in Clients \ {c} : req'[d] = req[d]
      BY <2>1, EndKeepsReqOK
    <2>7. LikedHolds'
      BY <2>1, <2>6 DEF LikedHolds, At, Mine
    <2> QED BY <2>5, <2>7
  <1>6. ASSUME NEW c \in Clients, Fail(c) PROVE LikedHolds' /\ LikedIsCounted'
    BY <1>2, <1>6 DEF Fail
  <1>7. ASSUME NEW c \in Clients, NEW t \in Targets, Begin(c, t)
        PROVE  LikedHolds' /\ LikedIsCounted'
    <2>1. CASE CreateRead(c, t)
      BY <1>1, <2>1 DEF CreateRead
    <2>2. CASE DeleteRead(c, t) \/ DeletePost(c, t)
      BY <1>1, <2>2 DEF DeleteRead, DeletePost
    <2>3. CASE ViewLiked(c, t)
      BY <1>1, <2>3 DEF ViewLiked
    <2> QED BY <1>7, <2>1, <2>2, <2>3 DEF Begin
  <1>8. CASE UNCHANGED vars
    BY <1>8 DEF vars, LikedHolds, LikedIsCounted, At, Mine
  <1> QED BY <1>3, <1>4, <1>5, <1>6, <1>7, <1>8 DEF Next, Continue

\* A list counts the like it says the user has given, and leaves room for the
\* one it says the user has not, whatever other users do between its queries.
THEOREM LikesAreCounted ==
    ASSUME ReactionsAssumption, OneClientPerUser, IsFiniteSet(Users)
    PROVE  Spec => []LikedIsCounted
  <1>1. Init => LikedHolds /\ LikedIsCounted
    BY DEF Init, Idle, LikedHolds, LikedIsCounted, At
  <1>2. ReactInv /\ LikedHolds /\ LikedIsCounted /\ [Next]_vars => LikedHolds' /\ LikedIsCounted'
    BY LikedStep
  <1>3. ReactInv /\ [Next]_vars => ReactInv'
    BY StepReact
  <1> QED BY <1>1, <1>2, <1>3, InitReact, PTL DEF Spec
=============================================================================
