--------------------------- MODULE PresenceProofs ---------------------------
(***************************************************************************)
(* That nobody stays online without a session (Presence,                   *)
(* NobodyStaysOnline), proved with TLAPS for any users with any sessions.  *)
(***************************************************************************)
EXTENDS Presence, TLAPS

SessionsHaveUsers == UserOf \in [Sessions -> Users]

\* A session whose announcement waits is still there, or its user left in haste.
HasteIsKnown == \A s \in Sessions : announce[s] = "add" => client[s] = "here" \/ UserOf[s] \in hasty

OnlineInv == NobodyStaysOnline /\ HasteIsKnown

LEMMA OnlineStep == ASSUME SessionsHaveUsers, OnlineInv, [Next]_vars PROVE OnlineInv'
<1> USE DEF OnlineInv, NobodyStaysOnline, HasteIsKnown, TypeOK, SessionsHaveUsers,
            Client, Announcement
<1>1. ASSUME NEW s \in Sessions, Connect(s) PROVE OnlineInv'
  BY <1>1 DEF Connect
<1>2. ASSUME NEW s \in Sessions, Announce(s) PROVE OnlineInv'
  BY <1>2 DEF Announce
<1>3. ASSUME NEW s \in Sessions, AddUser(s) PROVE OnlineInv'
  BY <1>3 DEF AddUser
<1>4. ASSUME NEW s \in Sessions, SendList(s) PROVE OnlineInv'
  <2>1. TypeOK'
    BY <1>4 DEF SendList
  <2>2. \A t \in Sessions : /\ announce'[t] = "add" => announce[t] = "add"
                            /\ client[t] \in {"here", "remove"} => client'[t] = client[t]
    BY <1>4 DEF SendList
  <2>3. online' = online /\ hasty' = hasty
    BY <1>4 DEF SendList
  <2>4. HasteIsKnown'
    BY <2>2, <2>3
  <2>5. ASSUME NEW u \in online' \ hasty'
        PROVE  \E t \in Sessions : UserOf[t] = u /\ client'[t] \in {"here", "remove"}
    BY <2>2, <2>3
  <2> QED BY <2>1, <2>4, <2>5
<1>5. ASSUME NEW s \in Sessions, RemoveUser(s) PROVE OnlineInv'
  BY <1>5 DEF RemoveUser
<1>6. ASSUME NEW s \in Sessions, Leave(s) PROVE OnlineInv'
  BY <1>6 DEF Leave
<1>7. ASSUME NEW list \in flight, Deliver(list) PROVE OnlineInv'
  BY <1>7 DEF Deliver
<1>8. CASE UNCHANGED vars
  BY <1>8 DEF vars
<1> QED BY <1>1, <1>2, <1>3, <1>4, <1>5, <1>6, <1>7, <1>8 DEF Next, Handle

\* However announcements and disconnections overlap, fair or not, a user in the set who did
\* not leave in a haste has a session that has not been taken off it yet.
THEOREM NobodyIsLeftOnline == ASSUME SessionsHaveUsers PROVE Init /\ [][Next]_vars => []NobodyStaysOnline
<1>1. Init => OnlineInv
  BY DEF Init, OnlineInv, NobodyStaysOnline, HasteIsKnown, TypeOK
<1>2. OnlineInv /\ [Next]_vars => OnlineInv'
  BY OnlineStep
<1>3. OnlineInv => NobodyStaysOnline
  BY DEF OnlineInv
<1> QED BY <1>1, <1>2, <1>3, PTL
=============================================================================
