------------------------------ MODULE Accounts ------------------------------
(***************************************************************************)
(* Accounts, their e-mail addresses and their tokens in the user service:  *)
(* sign-up with a form, sign-in with a password or through Google or       *)
(* Facebook, refresh of a token, change of the address, confirmation of it *)
(* by a mailed link, and the mail of a reset code, which is for confirmed  *)
(* addresses only.  An action runs from one await on the database to the   *)
(* next; accounts are never deleted and tokens are never revoked.  Each    *)
(* account has a password of its own, known by the account's number.       *)
(***************************************************************************)
EXTENDS Naturals

CONSTANTS
    Emails,
    Clients,     \* each with one request at a time
    MaxAccounts, \* bound: the accounts ever created
    None

VARIABLES
    account,   \* the rows of User, in the order they were created
    tokens,    \* the access and refresh tokens signed, those in mailed links too
    confirmed, \* history: <<account, address>> that was confirmed
    resets,    \* history: <<account, address>> a reset code was mailed to
    req

vars == <<account, tokens, confirmed, resets, req>>
mails == <<confirmed, resets>>

Ids == 1..MaxAccounts
Accounts == [email : Emails, verified : BOOLEAN]

\* The claims of a token, and whose password or provider account it was given
\* for, or whom it was mailed to.
Tokens == [sub : Ids, email : Emails, for : Ids]
Idle == [pc |-> "idle", id |-> 0, email |-> None, for |-> 0]

Init == /\ account = [i \in Ids |-> None]
        /\ tokens = {} /\ confirmed = {} /\ resets = {}
        /\ req = [c \in Clients |-> Idle]

At(c, stage) == req[c].pc = stage
Goto(c, stage, i, e) == req' = [req EXCEPT ![c] = [pc |-> stage, id |-> i, email |-> e, for |-> i]]
End(c) == req' = [req EXCEPT ![c] = Idle]

\* findByEmail
With(e) == {i \in Ids : account[i] # None /\ account[i].email = e}
-----------------------------------------------------------------------------
\* createUser: the address must be free.
SignUpRead(c, e) == /\ At(c, "idle") /\ With(e) = {}
                    /\ Goto(c, "create", 0, e)
                    /\ UNCHANGED <<account, tokens, mails>>

\* The Google and Facebook strategies look for the account and sign it in;
\* when there is none they call createUser, which looks again.
OAuthRead(c, e) == /\ At(c, "idle")
                   /\ IF With(e) = {} THEN Goto(c, "again", 0, e)
                      ELSE \E i \in With(e) : Goto(c, "sign in", i, e)
                   /\ UNCHANGED <<account, tokens, mails>>

OAuthReadAgain(c) ==
    /\ At(c, "again")
    /\ IF With(req[c].email) = {} THEN Goto(c, "enrol", 0, req[c].email) ELSE End(c)
    /\ UNCHANGED <<account, tokens, mails>>

Insert(i, e) == /\ account[i] = None /\ (\A j \in 1..i - 1 : account[j] # None)
                /\ account' = [account EXCEPT ![i] = [email |-> e, verified |-> FALSE]]

\* Slip: the column is not unique.
Create_Unindexed(c) ==
    /\ At(c, "create") \/ At(c, "enrol")
    /\ \E i \in Ids : Insert(i, req[c].email)
    /\ End(c)
    /\ UNCHANGED <<tokens, mails>>

\* The insert fails on the unique index when the address was taken since.  A
\* form is answered; a provider's user is signed in.
Create(c) ==
    /\ At(c, "create") \/ At(c, "enrol")
    /\ IF With(req[c].email) = {}
       THEN \E i \in Ids : /\ Insert(i, req[c].email)
                           /\ IF At(c, "enrol") THEN Goto(c, "sign in", i, req[c].email) ELSE End(c)
       ELSE UNCHANGED account /\ End(c)
    /\ UNCHANGED <<tokens, mails>>

\* verifyUser: the account at the address, if the password is its own.
SignInRead(c, e, i) == /\ At(c, "idle")
                       /\ i \in With(e)
                       /\ Goto(c, "sign in", i, e)
                       /\ UNCHANGED <<account, tokens, mails>>

\* The refresh strategy reads the account of the token.
RefreshRead(c, t) == /\ At(c, "idle")
                     /\ req' = [req EXCEPT ![c] = [pc |-> "sign in", id |-> t.sub, for |-> t.for,
                                                  email |-> account[t.sub].email]]
                     /\ UNCHANGED <<account, tokens, mails>>

\* Slip: the account is looked up by its address once more.
SignIn_ByEmail(c) ==
    /\ At(c, "sign in")
    /\ \E i \in With(req[c].email) :
         tokens' = tokens \cup {[sub |-> i, email |-> req[c].email, for |-> req[c].for]}
    /\ End(c)
    /\ UNCHANGED <<account, mails>>

\* createToken asks for the role of the account and signs what was read of it,
\* which may have changed since.
SignIn(c) ==
    /\ At(c, "sign in")
    /\ tokens' = tokens \cup {[sub |-> req[c].id, email |-> req[c].email, for |-> req[c].for]}
    /\ End(c)
    /\ UNCHANGED <<account, mails>>

\* update: the new address must be free or the caller's own.
UpdateRead(c, t, e) ==
    /\ At(c, "idle")
    /\ With(e) \subseteq {t.sub}
    /\ Goto(c, "update", t.sub, e)
    /\ UNCHANGED <<account, tokens, mails>>

\* isEmailVerified is left as it was.
UpdateWrite(c) ==
    /\ At(c, "update")
    /\ LET r == req[c]
       IN  account' = IF With(r.email) \subseteq {r.id}
                      THEN [account EXCEPT ![r.id].email = r.email] ELSE account
    /\ End(c)
    /\ UNCHANGED <<tokens, mails>>

\* sendVerifyEmail: the account that has the address in the caller's token,
\* which need not be the caller any more.
SendRead(c, t) ==
    /\ At(c, "idle")
    /\ \E j \in With(t.email) : /\ ~account[j].verified
                                /\ Goto(c, "link", j, t.email)
    /\ UNCHANGED <<account, tokens, mails>>

\* The link carries an access token like any other.
SendLink(c) ==
    /\ At(c, "link")
    /\ tokens' = tokens \cup {[sub |-> req[c].id, email |-> req[c].email, for |-> req[c].for]}
    /\ End(c)
    /\ UNCHANGED <<account, mails>>

\* confirmEmail takes any access token, of a link or of a sign-in: somebody must
\* have the address in it ...
\* createToken signs iat: Date.now(), milliseconds where the library counts
\* seconds, so the expiry it computes is out of reach and a token stays good.
ConfirmRead(c, t) ==
    /\ At(c, "idle")
    /\ With(t.email) # {}
    /\ Goto(c, "confirm", t.sub, t.email)
    /\ UNCHANGED <<account, tokens, mails>>

\* ... and the account the token was made for is verified.
ConfirmWrite(c) ==
    /\ At(c, "confirm")
    /\ account' = [account EXCEPT ![req[c].id].verified = TRUE]
    /\ confirmed' = confirmed \cup {<<req[c].id, req[c].email>>}
    /\ End(c)
    /\ UNCHANGED <<tokens, resets>>

\* forgotPassword up to the mail; PasswordReset has the rest.
Forgot(e) == /\ \E i \in With(e) : /\ account[i].verified
                                   /\ resets' = resets \cup {<<i, e>>}
             /\ UNCHANGED <<account, tokens, confirmed, req>>

\* A query throws or the process dies.
Fail(c) == /\ ~At(c, "idle")
           /\ End(c)
           /\ UNCHANGED <<account, tokens, mails>>

Begin(c) == \/ \E e \in Emails : \/ SignUpRead(c, e) \/ OAuthRead(c, e)
                                 \/ \E i \in Ids : SignInRead(c, e, i)
                                 \/ \E t \in tokens : UpdateRead(c, t, e)
            \/ \E t \in tokens : RefreshRead(c, t) \/ SendRead(c, t) \/ ConfirmRead(c, t)
Continue(c) == \/ OAuthReadAgain(c) \/ Create(c) \/ SignIn(c) \/ UpdateWrite(c)
               \/ SendLink(c) \/ ConfirmWrite(c) \/ Fail(c)
Next == \/ (\E e \in Emails : Forgot(e))
        \/ (\E c \in Clients : Begin(c) \/ Continue(c))
Spec == Init /\ [][Next]_vars
-----------------------------------------------------------------------------
TypeOK == /\ \A i \in Ids : account[i] \in Accounts \cup {None}
          /\ tokens \subseteq Tokens
          /\ confirmed \subseteq Ids \X Emails /\ resets \subseteq Ids \X Emails

\* However addresses change hands between the steps of a sign-in, a token is
\* for the account whose password was given.
TokensAreOwn == /\ TypeOK
                /\ \A t \in tokens : t.sub = t.for

\* However sign-ups and changes of address overlap, the rows implement the
\* book of addresses.
Book == INSTANCE AddressBook WITH
            address <- [i \in Ids |-> IF account[i] = None THEN None ELSE account[i].email],
            verified <- {i \in Ids : account[i] # None /\ account[i].verified}
ImplementsAddressBook == Book!Spec

\* A reset code goes to an address only when its account has confirmed it.
ResetsGoToConfirmed == resets \subseteq confirmed
=============================================================================
