----------------------------- MODULE Passwords -----------------------------
(***************************************************************************)
(* The password of an account in the user service, set with a token for a  *)
(* forgotten one (auth.service.ts, resetPassword) or by somebody signed in *)
(* who gives the old one (user.service.ts, updatePassword).  Several       *)
(* requests may be under way for one account; an action runs from one      *)
(* await to the next.                                                      *)
(***************************************************************************)
CONSTANTS
    Users,
    Passwords,
    Clients,   \* each with one request at a time
    None

VARIABLES
    password,
    sole,      \* history: the request that alone has been changing each password
    settled,   \* history: the password last answered as set, if nothing overlapped
    req

vars == <<password, sole, settled, req>>

Idle == [pc |-> "idle", user |-> None, new |-> None]
Init == /\ password \in [Users -> Passwords] /\ settled = password
        /\ sole = [u \in Users |-> None]
        /\ req = [c \in Clients |-> Idle]

At(c, stage) == req[c].pc = stage
ChangesOf(u) == {c \in Clients : req[c].user = u}
-----------------------------------------------------------------------------
\* A request goes on to hash the new password, which takes a while.
Start(c, u, p) ==
    /\ At(c, "idle")
    /\ req' = [req EXCEPT ![c] = [pc |-> "write", user |-> u, new |-> p]]
    /\ sole' = [sole EXCEPT ![u] = IF ChangesOf(u) = {} THEN c ELSE None]
    /\ settled' = [settled EXCEPT ![u] = None]
    /\ UNCHANGED password

\* resetPassword: any token the service signed for u is good, at any time.
Reset(c, u, p) == Start(c, u, p)

\* updatePassword: the old password is compared with the one stored.
Change(c, u, old, p) == password[u] = old /\ Start(c, u, p)

\* Slip: the update is not awaited.
Write_Later(c) == /\ At(c, "write")
                  /\ req' = [req EXCEPT ![c].pc = "answer"]
                  /\ UNCHANGED <<password, sole, settled>>

\* The hash is written by the id of the user ...
Write(c) == /\ At(c, "write")
            /\ password' = [password EXCEPT ![req[c].user] = req[c].new]
            /\ req' = [req EXCEPT ![c].pc = "answer"]
            /\ UNCHANGED <<sole, settled>>

End(c) == /\ req' = [req EXCEPT ![c] = Idle]
          /\ sole' = [u \in Users |-> IF sole[u] = c THEN None ELSE sole[u]]
          /\ UNCHANGED password

\* ... and the request answered.
Answer(c) == /\ At(c, "answer")
             /\ settled' = [u \in Users |-> IF sole[u] = c THEN req[c].new ELSE settled[u]]
             /\ End(c)

\* A query throws or the process dies, before the write or after it.
Fail(c) == ~At(c, "idle") /\ End(c) /\ UNCHANGED settled

Begin(c) == \E u \in Users, p \in Passwords :
                Reset(c, u, p) \/ \E old \in Passwords : Change(c, u, old, p)
Next == \E c \in Clients : Begin(c) \/ Write(c) \/ Answer(c) \/ Fail(c)
Spec == Init /\ [][Next]_vars
-----------------------------------------------------------------------------
TypeOK == /\ password \in [Users -> Passwords]
          /\ settled \in [Users -> Passwords \cup {None}]
          /\ sole \in [Users -> Clients \cup {None}]
          /\ \A c \in Clients : req[c].pc \in {"idle", "write", "answer"}

\* A password answered as set, by a request that overlapped no other change of
\* it, is the one stored until the next change begins, whatever fails.
SettledHolds == /\ TypeOK
                /\ \A u \in Users : settled[u] # None => password[u] = settled[u]
=============================================================================
