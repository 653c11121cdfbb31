-------------------------- MODULE PasswordsProofs --------------------------
(***************************************************************************)
(* That a password answered as set stays set (Passwords, SettledHolds),    *)
(* proved with TLAPS for any users, passwords and clients.  The argument   *)
(* is the pair of histories: as long as one request alone changes a        *)
(* password, nobody else writes it between its write and its answer.       *)
(***************************************************************************)
EXTENDS Passwords, TLAPS

Requests == [pc : {"idle", "write", "answer"}, user : Users \cup {None}, new : Passwords \cup {None}]

\* A request under way is about a user, an idle client about nobody.
RequestsHold == /\ req \in [Clients -> Requests]
                /\ \A c \in Clients : IF At(c, "idle") THEN req[c].user = None
                                      ELSE req[c].user \in Users /\ req[c].new \in Passwords

\* The request recorded as alone is, and once it has written nothing has
\* overwritten it.
AloneHolds == \A u \in Users : \A c \in Clients : sole[u] = c =>
                  /\ ChangesOf(u) = {c}
                  /\ At(c, "answer") => password[u] = req[c].new

\* No change is under way of a password that is settled.
AtRest == \A u \in Users : settled[u] # None => ChangesOf(u) = {}

PasswordInv == SettledHolds /\ RequestsHold /\ AloneHolds /\ AtRest

NoneIsNobody == None \notin Users \cup Clients \cup Passwords

LEMMA InitHolds == ASSUME NoneIsNobody, Init PROVE PasswordInv
<1>1. RequestsHold
  BY DEF NoneIsNobody, Init, RequestsHold, Requests, Idle, At
<1>2. \A u \in Users : ChangesOf(u) = {}
  BY DEF NoneIsNobody, Init, ChangesOf, Idle
<1>3. SettledHolds
  BY DEF Init, SettledHolds, TypeOK, Idle
<1> QED
  BY <1>1, <1>2, <1>3 DEF NoneIsNobody, Init, PasswordInv, AloneHolds, AtRest

\* A change begins.
LEMMA StartStep ==
    ASSUME NoneIsNobody, PasswordInv, NEW d \in Clients, NEW v \in Users, NEW p \in Passwords,
           Start(d, v, p)
    PROVE  PasswordInv'
<1> USE DEF PasswordInv
<1>1. RequestsHold'
  BY DEF NoneIsNobody, Start, RequestsHold, Requests, At
<1>2. \A u \in Users : ChangesOf(u)' = IF u = v THEN ChangesOf(u) \cup {d} ELSE ChangesOf(u)
  BY DEF NoneIsNobody, Start, RequestsHold, At, ChangesOf
<1>3. TypeOK'
  BY DEF Start, SettledHolds, TypeOK, RequestsHold, Requests
<1>4. SettledHolds'
  BY <1>3 DEF Start, SettledHolds, TypeOK
<1>5. AloneHolds'
  <2> SUFFICES ASSUME NEW u \in Users, NEW c \in Clients, sole'[u] = c
               PROVE  /\ ChangesOf(u)' = {c}
                      /\ At(c, "answer")' => password'[u] = req'[c].new
    BY DEF AloneHolds
  <2>1. CASE u = v
    <3>1. ChangesOf(u) = {} /\ c = d
      BY <2>1 DEF NoneIsNobody, Start, SettledHolds, TypeOK
    <3> QED BY <1>2, <2>1, <3>1 DEF Start, At, RequestsHold
  <2>2. CASE u # v
    <3>1. sole[u] = c
      BY <2>2 DEF Start, SettledHolds, TypeOK
    <3>2. ChangesOf(u) = {c} /\ c # d
      BY <3>1, <2>2 DEF AloneHolds, Start, RequestsHold, At, ChangesOf, NoneIsNobody
    <3> QED BY <1>2, <2>2, <3>1, <3>2 DEF Start, At, AloneHolds, RequestsHold
  <2> QED BY <2>1, <2>2
<1>6. AtRest'
  BY <1>2 DEF AtRest, Start, SettledHolds, TypeOK
<1> QED BY <1>1, <1>4, <1>5, <1>6

\* The hash is written.
LEMMA WriteStep ==
    ASSUME NoneIsNobody, PasswordInv, NEW d \in Clients, Write(d)
    PROVE  PasswordInv'
<1> USE DEF PasswordInv
<1>1. req[d].user \in Users /\ req[d].new \in Passwords /\ d \in ChangesOf(req[d].user)
  BY DEF Write, At, RequestsHold, ChangesOf
<1>2. RequestsHold'
  BY <1>1 DEF Write, RequestsHold, Requests, At
<1>3. \A u \in Users : ChangesOf(u)' = ChangesOf(u)
  BY DEF Write, RequestsHold, ChangesOf
<1>4. settled[req[d].user] = None
  BY <1>1 DEF AtRest
<1>5. SettledHolds'
  <2>1. TypeOK'
    BY <1>1, <1>2 DEF Write, SettledHolds, TypeOK, RequestsHold, Requests
  <2> QED BY <1>1, <1>4, <2>1 DEF Write, SettledHolds, TypeOK
<1>6. AloneHolds'
  <2> SUFFICES ASSUME NEW u \in Users, NEW c \in Clients, sole'[u] = c
               PROVE  /\ ChangesOf(u)' = {c}
                      /\ At(c, "answer")' => password'[u] = req'[c].new
    BY DEF AloneHolds
  <2>1. ChangesOf(u)' = {c}
    BY <1>3 DEF Write, AloneHolds
  <2>2. CASE u = req[d].user
    <3>1. c = d
      BY <1>1, <1>3, <2>1, <2>2
    <3> QED BY <2>1, <2>2, <3>1 DEF Write, SettledHolds, TypeOK, RequestsHold
  <2>3. CASE u # req[d].user
    <3>1. c # d
      BY <1>3, <2>1, <2>3 DEF ChangesOf
    <3> QED BY <2>1, <2>3, <3>1 DEF Write, SettledHolds, TypeOK, RequestsHold, AloneHolds, At
  <2> QED BY <2>2, <2>3
<1>7. AtRest'
  BY <1>3 DEF AtRest, Write
<1> QED BY <1>2, <1>5, <1>6, <1>7

\* A request ends, and what it leaves settled, if anything, is what is stored.
LEMMA EndStep ==
    ASSUME NoneIsNobody, PasswordInv, NEW d \in Clients, ~At(d, "idle"), End(d),
           \/ settled' = settled
           \/ At(d, "answer") /\ settled' = [u \in Users |-> IF sole[u] = d THEN req[d].new ELSE settled[u]]
    PROVE  PasswordInv'
<1> USE DEF PasswordInv
<1>1. RequestsHold'
  BY DEF End, Idle, RequestsHold, Requests, At
<1>2. \A u \in Users : ChangesOf(u)' = ChangesOf(u) \ {d}
  BY DEF NoneIsNobody, End, Idle, RequestsHold, ChangesOf
<1>3. \A u \in Users : settled'[u] # None =>
          \/ settled[u] # None /\ settled'[u] = settled[u]
          \/ sole[u] = d /\ At(d, "answer") /\ settled'[u] = req[d].new
  BY DEF SettledHolds, TypeOK
<1>4. TypeOK'
  <2>1. req[d].new \in Passwords
    BY DEF RequestsHold
  <2>2. settled' \in [Users -> Passwords \cup {None}]
    BY <2>1 DEF SettledHolds, TypeOK
  <2>3. sole' \in [Users -> Clients \cup {None}]
    BY DEF End, SettledHolds, TypeOK
  <2> QED BY <1>1, <2>2, <2>3 DEF End, SettledHolds, TypeOK, RequestsHold, Requests
<1>5. SettledHolds'
  BY <1>3, <1>4 DEF End, SettledHolds, AloneHolds
<1>6. AloneHolds'
  <2> SUFFICES ASSUME NEW u \in Users, NEW c \in Clients, sole'[u] = c
               PROVE  /\ ChangesOf(u)' = {c}
                      /\ At(c, "answer")' => password'[u] = req'[c].new
    BY DEF AloneHolds
  <2>1. sole[u] = c /\ c # d
    BY DEF NoneIsNobody, End
  <2>2. ChangesOf(u)' = {c}
    BY <1>2, <2>1 DEF AloneHolds
  <2> QED BY <2>1, <2>2 DEF End, AloneHolds, At, RequestsHold
<1>7. AtRest'
  BY <1>2, <1>3 DEF AtRest, AloneHolds
<1> QED BY <1>1, <1>5, <1>6, <1>7

LEMMA StepHolds == ASSUME NoneIsNobody, PasswordInv, [Next]_vars PROVE PasswordInv'
<1>1. CASE UNCHANGED vars
  BY <1>1 DEF vars, PasswordInv, SettledHolds, TypeOK, RequestsHold, AloneHolds, AtRest, ChangesOf, At
<1>2. ASSUME NEW c \in Clients, Begin(c) PROVE PasswordInv'
  <2>1. PICK u \in Users, p \in Passwords : Start(c, u, p)
    BY <1>2 DEF Begin, Reset, Change
  <2> QED BY <2>1, StartStep
<1>3. ASSUME NEW c \in Clients, Write(c) PROVE PasswordInv'
  BY <1>3, WriteStep
<1>4. ASSUME NEW c \in Clients, Answer(c) PROVE PasswordInv'
  <2>1. ~At(c, "idle")
    BY <1>4 DEF Answer, At
  <2> QED BY <1>4, <2>1, EndStep DEF Answer
<1>5. ASSUME NEW c \in Clients, Fail(c) PROVE PasswordInv'
  BY <1>5, EndStep DEF Fail
<1> QED BY <1>1, <1>2, <1>3, <1>4, <1>5 DEF Next

\* A password answered as set, by a request that overlapped no other change of
\* it, is the one stored until the next change begins, for any number of users
\* and of requests under way (resetPassword, updatePassword).
THEOREM SettledPasswordsHold == ASSUME NoneIsNobody PROVE Spec => []SettledHolds
<1>1. Init => PasswordInv
  BY InitHolds
<1>2. PasswordInv /\ [Next]_vars => PasswordInv'
  BY StepHolds
<1>3. PasswordInv => SettledHolds
  BY DEF PasswordInv
<1> QED BY <1>1, <1>2, <1>3, PTL DEF Spec
=============================================================================
