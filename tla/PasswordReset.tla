---------------------------- MODULE PasswordReset ----------------------------
(***************************************************************************)
(* Forgotten passwords in the user service (auth.service.ts): a one-time   *)
(* code is mailed and its hash stored (forgotPassword), and the newest     *)
(* code of the user is checked and exchanged for a token (verifyOTP),      *)
(* which is good for setting a password (module Passwords).  The service   *)
(* is one Node process: an action runs from one await on the database to   *)
(* the next.                                                               *)
(***************************************************************************)
EXTENDS Naturals

CONSTANTS
    Users,      \* accounts with a verified e-mail address
    Codes,      \* the codes generateRandomNumber draws from
    Clients,    \* each with one request at a time
    Lifetime,   \* OTP_EXPIRES_IN
    MaxRows,    \* bound: the codes ever stored
    MaxTime,    \* bound: the clock
    None

VARIABLES
    clock,
    rows,      \* history: the rows of UserOTP in the order of createdAt
    alive,     \* the rows not deleted
    granted,   \* history: the tokens given for each row
    mailed,    \* history: <<user, code>> mailed
    req

vars == <<clock, rows, alive, granted, mailed, req>>

Ids == 1..MaxRows
Row == [user : Users, code : Codes, at : Nat]
Idle == [pc |-> "idle", user |-> None, row |-> 0, code |-> None]

Init == /\ clock = 0
        /\ rows = [i \in Ids |-> None] /\ alive = {}
        /\ granted = [i \in Ids |-> 0]
        /\ mailed = {}
        /\ req = [c \in Clients |-> Idle]

At(c, stage) == req[c].pc = stage
Start(c, r) == At(c, "idle") /\ req' = [req EXCEPT ![c] = r]
End(c) == req' = [req EXCEPT ![c] = Idle]

RowsOf(u) == {i \in Ids : rows[i] # None /\ rows[i].user = u}
Newest(S) == CHOOSE i \in S : \A j \in S : j <= i
Stored == {i \in Ids : rows[i] # None}
-----------------------------------------------------------------------------
\* forgotPassword: the code is handed to Kafka before its hash is stored.
ForgotMail(c, u) ==
    /\ \E k \in Codes :
         /\ Start(c, [Idle EXCEPT !.pc = "create", !.user = u, !.code = k])
         /\ mailed' = mailed \cup {<<u, k>>}
    /\ UNCHANGED <<clock, rows, alive, granted>>

ForgotCreate(c) ==
    /\ At(c, "create")
    /\ \E i \in Ids :
         /\ rows[i] = None /\ (\A j \in 1..i - 1 : rows[j] # None)
         /\ rows' = [rows EXCEPT ![i] = [user |-> req[c].user, code |-> req[c].code, at |-> clock]]
         /\ alive' = alive \cup {i}
    /\ End(c)
    /\ UNCHANGED <<clock, granted, mailed>>

\* verifyOTP: the newest row of the user is read; an expired row or another
\* code ends the request.
VerifyRead(c, u, k) ==
    /\ alive \cap RowsOf(u) # {}
    /\ LET i == Newest(alive \cap RowsOf(u))
       IN  /\ clock - rows[i].at <= Lifetime
           /\ rows[i].code = k
           /\ Start(c, [Idle EXCEPT !.pc = "delete", !.user = u, !.row = i])
    /\ UNCHANGED <<clock, rows, alive, granted, mailed>>

\* Slip: deleteMany instead of delete, which does not mind a row that is gone.
VerifyDelete_Many(c) ==
    /\ At(c, "delete")
    /\ alive' = alive \ {req[c].row}
    /\ granted' = [granted EXCEPT ![req[c].row] = @ + 1]
    /\ End(c)
    /\ UNCHANGED <<clock, rows, mailed>>

\* The token is signed, then the row deleted; the delete of a row that is
\* gone throws and the token is not answered.
VerifyDelete(c) ==
    /\ At(c, "delete")
    /\ IF req[c].row \in alive
       THEN /\ alive' = alive \ {req[c].row}
            /\ granted' = [granted EXCEPT ![req[c].row] = @ + 1]
       ELSE UNCHANGED <<alive, granted>>
    /\ End(c)
    /\ UNCHANGED <<clock, rows, mailed>>

\* A query throws or the process dies.
Fail(c) == ~At(c, "idle") /\ End(c)
           /\ UNCHANGED <<clock, rows, alive, granted, mailed>>

Tick == /\ clock < MaxTime
        /\ clock' = clock + 1
        /\ UNCHANGED <<rows, alive, granted, mailed, req>>

Begin(c) == \E u \in Users :
               ForgotMail(c, u) \/ \E k \in Codes : VerifyRead(c, u, k)
Continue(c) == ForgotCreate(c) \/ VerifyDelete(c)
Next == Tick \/ \E c \in Clients : Begin(c) \/ Continue(c) \/ Fail(c)
Spec == Init /\ [][Next]_vars
-----------------------------------------------------------------------------
TypeOK == /\ clock \in 0..MaxTime
          /\ \A i \in Ids : rows[i] \in Row \cup {None}
          /\ alive \subseteq Stored
          /\ granted \in [Ids -> Nat]
          /\ mailed \subseteq Users \X Codes
          /\ \A c \in Clients : req[c].pc \in {"idle", "create", "delete"}

\* A code is exchanged for one token at most, however often it is sent, and
\* only when it was mailed to its user, whatever overlaps and fails.
CodeUsedOnce ==
    /\ TypeOK
    /\ \A i \in Stored : /\ granted[i] + (IF i \in alive THEN 1 ELSE 0) <= 1
                         /\ <<rows[i].user, rows[i].code>> \in mailed
=============================================================================
