---------------------------- MODULE AddressBook ----------------------------
(***************************************************************************)
(* What the user service promises of e-mail addresses: an account takes an *)
(* address nobody has, or exchanges its own for one nobody has, in one     *)
(* step, and an account that was confirmed stays so.  Nothing is said of   *)
(* reads before writes, links or tokens.                                   *)
(***************************************************************************)
CONSTANTS Emails, Ids, None
VARIABLES
    address,  \* the address of each account, None before it signs up
    verified  \* the accounts confirmed

Init == address = [i \in Ids |-> None] /\ verified = {}

Free(e) == \A i \in Ids : address[i] # e

\* Sign-up by form or through a provider, or a change of address.
Take(i, e) == /\ Free(e)
              /\ address' = [address EXCEPT ![i] = e]
              /\ UNCHANGED verified

Confirm(i) == /\ address[i] # None
              /\ verified' = verified \cup {i}
              /\ UNCHANGED address

Next == \E i \in Ids : Confirm(i) \/ \E e \in Emails : Take(i, e)
Spec == Init /\ [][Next]_<<address, verified>>

\* No two accounts have one address.
Distinct == \A i, j \in Ids : (i # j /\ address[i] # None) => address[i] # address[j]
=============================================================================
