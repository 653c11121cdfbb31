--------------------------- MODULE MCRelationship ---------------------------
(* Instances of Relationship for TLC. *)
EXTENDS RelationshipInvariant, TLC

CONSTANTS ann, bob, eve, a1, a2, b1, r1, r2, r3, r4, r5

\* One client per account.
OneClientEach == a1 :> ann @@ b1 :> bob
\* ann uses two devices.
TwoDevices == a1 :> ann @@ a2 :> ann @@ b1 :> bob

\* Nobody names their own id.
Others == [s \in Sessions |-> Users \ {Owner[s]}]
\* ann names any id, her own and an unregistered one included.
AnnAnyone == a1 :> Users @@ b1 :> {ann}

RowSymmetry == Permutations(RowIds)
\* The two devices of ann are alike too.
DeviceSymmetry == RowSymmetry \cup Permutations({a1, a2})
=============================================================================
