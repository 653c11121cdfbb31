-------------------------- MODULE RelationshipGraph --------------------------
(***************************************************************************)
(* What the relationship service promises to its clients: between every    *)
(* ordered pair of accounts there is one edge, every request changes one   *)
(* edge in one step, and an edge moves only as below.  Nothing is said of  *)
(* rows, identifiers, queries or events.                                   *)
(***************************************************************************)
CONSTANTS Registered, PrivateUsers
VARIABLE edge

Pairs == Registered \X Registered
States == {"none", "pending", "following", "blocked"}

Init == edge = [p \in Pairs |-> "none"]

Move(p, from, to) == edge[p] \in from /\ edge' = [edge EXCEPT ![p] = to]

\* A public account is followed at once, a private one is asked, or followed
\* at once by someone it follows.
Follow(p) ==
    \/ Move(p, {"none"}, "following")
    \/ p[2] \in PrivateUsers /\ Move(p, {"none"}, "pending")

\* A request becomes a follow only by the receiver's accept.
Accept(p) == Move(p, {"pending"}, "following")

\* unfollow, reject, unblock.
Remove(p) == Move(p, {"pending", "following", "blocked"}, "none")

\* Nobody blocks themself; a blocked edge leaves only through Remove.
Block(p) == p[1] # p[2] /\ Move(p, {"none", "pending", "following"}, "blocked")

Next == \E p \in Pairs : Follow(p) \/ Accept(p) \/ Remove(p) \/ Block(p)

Spec == Init /\ [][Next]_edge
=============================================================================
