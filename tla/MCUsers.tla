------------------------------ MODULE MCUsers ------------------------------
(***************************************************************************)
(* What a user does in the user service, for TLC: keep an account with a   *)
(* confirmed address and sign in to it, ask for a reset code, set the      *)
(* password, and send pictures.  No property is about more than one of     *)
(* them, so each is run with the others at rest: part, set in the first    *)
(* state and never changed, says which one moves.                          *)
(***************************************************************************)
EXTENDS Accounts, TLC

CONSTANTS Users, Codes, Lifetime, MaxCodes, MaxTime, Passwords, Names, MaxUploads

VARIABLES
    part,
    clock, otps, alive, granted, mailed, reset,
    password, sole, settled, change,
    bucket, objects, profileImg, upload

Resets == INSTANCE PasswordReset WITH MaxRows <- MaxCodes, rows <- otps, req <- reset
Changing == INSTANCE Passwords WITH Clients <- 1..3, req <- change
Pictures == INSTANCE Avatars

resetVars == <<otps, alive, granted, mailed, reset>>
passwordVars == <<password, sole, settled, change>>
pictureVars == <<bucket, objects, profileImg, upload>>
all == <<part, clock, vars, resetVars, passwordVars, pictureVars>>

MCInit == /\ part \in {"accounts", "resets", "passwords", "pictures"}
          /\ Init /\ Resets!Init /\ Changing!Init /\ Pictures!Init
          /\ part = "passwords" \/ \A u \in Users : password[u] = CHOOSE p \in Passwords : TRUE
          /\ part = "pictures" \/ bucket

MCNext ==
    /\ UNCHANGED part
    /\ \/ /\ part = "accounts" /\ Next
          /\ UNCHANGED <<clock, resetVars, passwordVars, pictureVars>>
       \/ /\ part = "resets" /\ Resets!Next
          /\ UNCHANGED <<vars, passwordVars, pictureVars>>
       \/ /\ part = "passwords" /\ Changing!Next
          /\ UNCHANGED <<clock, vars, resetVars, pictureVars>>
       \/ /\ part = "pictures" /\ Pictures!Next
          /\ UNCHANGED <<vars, resetVars, passwordVars>>

MCSpec == MCInit /\ [][MCNext]_all

Symmetry == Permutations(Users) \cup Permutations(Codes)
                \cup Permutations(Emails) \cup Permutations(Clients)

\* The properties of the parts that are instances.
CodeUsedOnce == Resets!CodeUsedOnce
SettledHolds == Changing!SettledHolds
ImageIsOwn == Pictures!ImageIsOwn
=============================================================================
