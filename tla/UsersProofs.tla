---------------------------- MODULE UsersProofs ----------------------------
(***************************************************************************)
(* What a user does in the user service (MCUsers), proved with TLAPS for   *)
(* any addresses, accounts, codes, uploads and clients: that a token is    *)
(* for the account whose password was given, that the rows implement the   *)
(* book of addresses, that a reset code is good once, that a password      *)
(* stays as it was answered, and that a profile shows the user's picture.  *)
(***************************************************************************)
EXTENDS MCUsers, TLAPS

-----------------------------------------------------------------------------
(* Accounts and e-mail addresses: Accounts *)

Requests == [pc : {"idle", "create", "again", "enrol", "sign in", "update", "link", "confirm"},
             id : {0} \cup Ids, email : Emails \cup {None}, for : {0} \cup Ids]

SignedUp(i) == i \in Ids /\ account[i] # None

\* What a request has found is there, and stays there.
RequestsHold ==
    /\ req \in [Clients -> Requests]
    /\ \A c \in Clients :
         /\ ~At(c, "idle") => req[c].email \in Emails
         /\ req[c].pc \in {"sign in", "link"} => SignedUp(req[c].id) /\ req[c].for = req[c].id
         /\ req[c].pc \in {"update", "confirm"} => SignedUp(req[c].id)

\* Tokens name accounts that are there.
SubjectsHold == \A t \in tokens : SignedUp(t.sub)

AccountsHold == account \in [Ids -> Accounts \cup {None}]

AccountsInv == TokensAreOwn /\ AccountsHold /\ RequestsHold /\ SubjectsHold

NoneIsNoEmail == None \notin Emails /\ None \notin Accounts

LEMMA InitHolds == ASSUME NoneIsNoEmail, Init PROVE AccountsInv
BY DEF Init, AccountsInv, TokensAreOwn, TypeOK, AccountsHold, RequestsHold, Requests, Idle, At, SubjectsHold

\* An account that is there stays.
Stay == \A i \in Ids : account[i] # None => account'[i] # None

\* A request moves on, from what it has found.
LEMMA MoveStep ==
    ASSUME AccountsInv, NEW c \in Clients, NEW r \in Requests, req' = [req EXCEPT ![c] = r],
           r.pc # "idle" => r.email \in Emails,
           r.pc \in {"sign in", "link"} => SignedUp(r.id)' /\ r.for = r.id,
           r.pc \in {"update", "confirm"} => SignedUp(r.id)',
           Stay
    PROVE  RequestsHold'
<1>1. \A d \in Clients : req'[d] = IF d = c THEN r ELSE req[d]
  BY DEF AccountsInv, RequestsHold
<1>2. req' \in [Clients -> Requests]
  BY DEF AccountsInv, RequestsHold
<1> QED BY <1>1, <1>2 DEF AccountsInv, RequestsHold, SignedUp, Stay, At

LEMMA GotoStep ==
    ASSUME AccountsInv, NEW c \in Clients,
           NEW stage \in {"create", "again", "enrol", "sign in", "update", "link", "confirm"},
           NEW i \in {0} \cup Ids, NEW e \in Emails, Goto(c, stage, i, e), Stay,
           stage \in {"sign in", "update", "link", "confirm"} => SignedUp(i)'
    PROVE  RequestsHold'
<1> DEFINE r == [pc |-> stage, id |-> i, email |-> e, for |-> i]
<1>1. r \in Requests /\ req' = [req EXCEPT ![c] = r]
  BY DEF Requests, Goto
<1> QED BY <1>1, MoveStep

LEMMA EndStep ==
    ASSUME AccountsInv, NEW c \in Clients, End(c), Stay
    PROVE  RequestsHold'
<1>1. Idle \in Requests
  BY DEF Idle, Requests
<1>2. req' = [req EXCEPT ![c] = Idle] /\ Idle.pc = "idle"
  BY DEF End, Idle
<1> HIDE DEF Idle
<1> QED BY <1>1, <1>2, MoveStep

\* Whatever else a step does, these conditions are enough.
LEMMA KeepStep ==
    ASSUME AccountsInv, AccountsHold', Stay, RequestsHold',
           \A t \in tokens' \ tokens : t \in Tokens /\ t.sub = t.for /\ SignedUp(t.sub)',
           confirmed' \subseteq Ids \X Emails, resets' \subseteq Ids \X Emails
    PROVE  AccountsInv'
<1>1. TypeOK'
  BY DEF AccountsInv, TokensAreOwn, TypeOK, AccountsHold
<1>2. SubjectsHold'
  BY DEF AccountsInv, SubjectsHold, SignedUp, Stay
<1> QED BY <1>1, <1>2 DEF AccountsInv, TokensAreOwn

\* Where only requests change, only requests are to be looked at.
LEMMA ReadStep ==
    ASSUME AccountsInv, UNCHANGED <<account, tokens, mails>>, Stay => RequestsHold'
    PROVE  AccountsInv'
<1>1. Stay /\ AccountsHold'
  BY DEF AccountsInv, AccountsHold, Stay
<1> QED BY <1>1, KeepStep DEF mails, AccountsInv, TokensAreOwn, TypeOK

\* A new row.
LEMMA InsertStep ==
    ASSUME NoneIsNoEmail, AccountsInv, NEW i \in Ids, NEW e \in Emails, Insert(i, e)
    PROVE  AccountsHold' /\ Stay /\ SignedUp(i)'
<1> DEFINE a == [email |-> e, verified |-> FALSE]
<1>1. a \in Accounts /\ account' = [account EXCEPT ![i] = a]
  BY DEF Accounts, Insert
<1> HIDE DEF a
<1>2. a # None
  BY <1>1 DEF NoneIsNoEmail
<1> QED BY <1>1, <1>2 DEF AccountsInv, AccountsHold, Insert, Stay, SignedUp

\* A change of a row that is there.
LEMMA ChangeStep ==
    ASSUME NoneIsNoEmail, AccountsInv, NEW i \in Ids, NEW a \in Accounts,
           account[i] # None, account' = [account EXCEPT ![i] = a]
    PROVE  AccountsHold' /\ Stay
BY DEF NoneIsNoEmail, AccountsInv, AccountsHold, Stay

LEMMA CreateStep ==
    ASSUME NoneIsNoEmail, AccountsInv, NEW c \in Clients, Create(c)
    PROVE  AccountsInv'
<1>1. req[c].email \in Emails
  BY DEF Create, At, AccountsInv, RequestsHold
<1>2. CASE With(req[c].email) = {}
  <2>1. PICK i \in Ids : /\ Insert(i, req[c].email)
                         /\ \/ Goto(c, "sign in", i, req[c].email)
                            \/ End(c)
    BY <1>2 DEF Create
  <2>2. AccountsHold' /\ Stay /\ SignedUp(i)'
    BY <1>1, <2>1, InsertStep
  <2>3. RequestsHold'
    BY <1>1, <2>1, <2>2, GotoStep, EndStep
  <2> QED BY <2>2, <2>3, KeepStep DEF Create, mails, AccountsInv, TokensAreOwn, TypeOK
<1>3. CASE With(req[c].email) # {}
  BY <1>3, EndStep, ReadStep DEF Create
<1> QED BY <1>2, <1>3

\* A sign-in and a mailed link sign a token of the account the request is for.
LEMMA SignStep ==
    ASSUME AccountsInv, NEW c \in Clients, SignIn(c) \/ SendLink(c)
    PROVE  AccountsInv'
<1>0. /\ At(c, "sign in") \/ At(c, "link")
      /\ tokens' = tokens \cup {[sub |-> req[c].id, email |-> req[c].email, for |-> req[c].for]}
      /\ End(c) /\ UNCHANGED <<account, mails>>
  BY DEF SignIn, SendLink
<1>1. /\ SignedUp(req[c].id) /\ req[c].id \in Ids
      /\ req[c].for = req[c].id /\ req[c].email \in Emails
  BY <1>0 DEF At, AccountsInv, RequestsHold, SignedUp
<1>2. Stay /\ AccountsHold'
  BY <1>0 DEF AccountsInv, AccountsHold, Stay
<1>3. RequestsHold'
  BY <1>0, <1>2, EndStep
<1>4. \A t \in tokens' \ tokens : t \in Tokens /\ t.sub = t.for /\ SignedUp(t.sub)'
  <2> SUFFICES ASSUME NEW t \in tokens' \ tokens
               PROVE  t \in Tokens /\ t.sub = t.for /\ SignedUp(t.sub)'
    OBVIOUS
  <2>1. t = [sub |-> req[c].id, email |-> req[c].email, for |-> req[c].for]
    BY <1>0
  <2>2. t \in Tokens /\ t.sub = t.for
    BY <1>1, <2>1 DEF Tokens
  <2>3. t.sub = req[c].id
    BY <2>1
  <2>4. account'[t.sub] # None
    BY <1>1, <1>2, <2>3 DEF SignedUp, Stay
  <2> QED BY <1>1, <2>2, <2>3, <2>4 DEF SignedUp
<1>5. confirmed' \subseteq Ids \X Emails /\ resets' \subseteq Ids \X Emails
  BY <1>0 DEF mails, AccountsInv, TokensAreOwn, TypeOK
<1> QED BY <1>2, <1>3, <1>4, <1>5, KeepStep

LEMMA UpdateStep ==
    ASSUME NoneIsNoEmail, AccountsInv, NEW c \in Clients, UpdateWrite(c)
    PROVE  AccountsInv'
<1>1. req[c].id \in Ids /\ account[req[c].id] # None /\ req[c].email \in Emails
  BY DEF UpdateWrite, At, AccountsInv, RequestsHold, SignedUp
<1>2. CASE account' = [account EXCEPT ![req[c].id].email = req[c].email]
  <2>1. account[req[c].id] \in Accounts
    BY <1>1 DEF AccountsInv, AccountsHold
  <2>2. [account[req[c].id] EXCEPT !.email = req[c].email] \in Accounts
    BY <1>1, <2>1 DEF Accounts
  <2>3. AccountsHold' /\ Stay
    BY <1>1, <1>2, <2>2, ChangeStep
  <2>4. RequestsHold'
    BY <2>3, EndStep DEF UpdateWrite
  <2> QED BY <2>3, <2>4, KeepStep DEF UpdateWrite, mails, AccountsInv, TokensAreOwn, TypeOK
<1>3. CASE account' = account
  BY <1>3, EndStep, ReadStep DEF UpdateWrite
<1> QED BY <1>2, <1>3 DEF UpdateWrite

LEMMA ConfirmStep ==
    ASSUME NoneIsNoEmail, AccountsInv, NEW c \in Clients, ConfirmWrite(c)
    PROVE  AccountsInv'
<1>1. req[c].id \in Ids /\ account[req[c].id] # None /\ req[c].email \in Emails
  BY DEF ConfirmWrite, At, AccountsInv, RequestsHold, SignedUp
<1>2. [account[req[c].id] EXCEPT !.verified = TRUE] \in Accounts
  BY <1>1 DEF AccountsInv, AccountsHold, Accounts
<1>3. AccountsHold' /\ Stay
  BY <1>1, <1>2, ChangeStep DEF ConfirmWrite
<1>4. RequestsHold'
  BY <1>3, EndStep DEF ConfirmWrite
<1>5. confirmed' \subseteq Ids \X Emails
  BY <1>1 DEF ConfirmWrite, AccountsInv, TokensAreOwn, TypeOK
<1> QED BY <1>3, <1>4, <1>5, KeepStep DEF ConfirmWrite, AccountsInv, TokensAreOwn, TypeOK

LEMMA BeginStep ==
    ASSUME NoneIsNoEmail, AccountsInv, NEW c \in Clients, Begin(c)
    PROVE  AccountsInv'
<1>1. ASSUME NEW e \in Emails, SignUpRead(c, e) PROVE AccountsInv'
  BY <1>1, GotoStep, ReadStep DEF SignUpRead
<1>2. ASSUME NEW e \in Emails, OAuthRead(c, e) PROVE AccountsInv'
  <2>1. CASE With(e) = {}
    BY <1>2, <2>1, GotoStep, ReadStep DEF OAuthRead
  <2>2. CASE With(e) # {}
    <3>1. PICK i \in With(e) : Goto(c, "sign in", i, e)
      BY <1>2, <2>2 DEF OAuthRead
    <3>2. i \in Ids /\ SignedUp(i)'
      BY <1>2, <3>1 DEF With, SignedUp, OAuthRead
    <3> QED BY <1>2, <3>1, <3>2, GotoStep, ReadStep DEF OAuthRead
  <2> QED BY <2>1, <2>2
<1>3. ASSUME NEW e \in Emails, NEW i \in Ids, SignInRead(c, e, i) PROVE AccountsInv'
  <2>1. SignedUp(i)'
    BY <1>3 DEF SignInRead, With, SignedUp
  <2> QED BY <1>3, <2>1, GotoStep, ReadStep DEF SignInRead
<1>4. ASSUME NEW e \in Emails, NEW t \in tokens, UpdateRead(c, t, e) PROVE AccountsInv'
  <2>1. t.sub \in Ids /\ SignedUp(t.sub)'
    BY <1>4 DEF UpdateRead, AccountsInv, SubjectsHold, SignedUp
  <2> QED BY <1>4, <2>1, GotoStep, ReadStep DEF UpdateRead
<1>5. ASSUME NEW t \in tokens, RefreshRead(c, t) PROVE AccountsInv'
  <2> DEFINE r == [pc |-> "sign in", id |-> t.sub, for |-> t.for, email |-> account[t.sub].email]
  <2>1. t.sub \in Ids /\ SignedUp(t.sub) /\ t.for = t.sub
    BY DEF AccountsInv, SubjectsHold, TokensAreOwn, SignedUp
  <2>2. account[t.sub].email \in Emails
    BY <2>1 DEF AccountsInv, AccountsHold, SignedUp, Accounts
  <2>3. r \in Requests
    BY <2>1, <2>2 DEF Requests
  <2>4. PICK q \in Requests : q = r
    BY <2>3
  <2>5. /\ SignedUp(q.id)' /\ q.for = q.id /\ q.email \in Emails /\ q.pc = "sign in"
        /\ req' = [req EXCEPT ![c] = q]
    BY <1>5, <2>1, <2>2, <2>4 DEF RefreshRead, SignedUp
  <2>6. Stay => RequestsHold'
    BY <2>5, MoveStep
  <2> QED BY <1>5, <2>6, ReadStep DEF RefreshRead
<1>6. ASSUME NEW t \in tokens, SendRead(c, t) PROVE AccountsInv'
  <2>1. PICK j \in With(t.email) : Goto(c, "link", j, t.email)
    BY <1>6 DEF SendRead
  <2>2. j \in Ids /\ SignedUp(j)' /\ t.email \in Emails
    BY <1>6, <2>1 DEF SendRead, With, SignedUp, AccountsInv, TokensAreOwn, TypeOK, Tokens
  <2> QED BY <1>6, <2>1, <2>2, GotoStep, ReadStep DEF SendRead
<1>7. ASSUME NEW t \in tokens, ConfirmRead(c, t) PROVE AccountsInv'
  <2>1. t.sub \in Ids /\ SignedUp(t.sub)' /\ t.email \in Emails
    BY <1>7 DEF ConfirmRead, AccountsInv, SubjectsHold, SignedUp, TokensAreOwn, TypeOK, Tokens
  <2> QED BY <1>7, <2>1, GotoStep, ReadStep DEF ConfirmRead
<1> QED BY <1>1, <1>2, <1>3, <1>4, <1>5, <1>6, <1>7 DEF Begin

LEMMA StepHolds == ASSUME NoneIsNoEmail, AccountsInv, [Next]_vars PROVE AccountsInv'
<1>1. CASE UNCHANGED vars
  <2>1. RequestsHold'
    BY <1>1 DEF vars, AccountsInv, RequestsHold, At, SignedUp
  <2> QED BY <1>1, <2>1, ReadStep DEF vars, mails
<1>2. ASSUME NEW e \in Emails, Forgot(e) PROVE AccountsInv'
  <2>1. RequestsHold' /\ Stay /\ AccountsHold'
    BY <1>2 DEF Forgot, AccountsInv, RequestsHold, At, SignedUp, Stay, AccountsHold
  <2>2. resets' \subseteq Ids \X Emails
    BY <1>2 DEF Forgot, With, AccountsInv, TokensAreOwn, TypeOK
  <2> QED BY <1>2, <2>1, <2>2, KeepStep DEF Forgot, AccountsInv, TokensAreOwn, TypeOK
<1>3. ASSUME NEW c \in Clients, OAuthReadAgain(c) PROVE AccountsInv'
  <2>1. req[c].email \in Emails
    BY <1>3 DEF OAuthReadAgain, At, AccountsInv, RequestsHold
  <2> QED BY <1>3, <2>1, GotoStep, EndStep, ReadStep DEF OAuthReadAgain
<1>4. ASSUME NEW c \in Clients, Fail(c) PROVE AccountsInv'
  BY <1>4, EndStep, ReadStep DEF Fail
<1> QED
  BY <1>1, <1>2, <1>3, <1>4, BeginStep, CreateStep, SignStep, UpdateStep, ConfirmStep
  DEF Next, Continue

LEMMA InvariantHolds == ASSUME NoneIsNoEmail PROVE Spec => []AccountsInv
<1>1. Init => AccountsInv
  BY InitHolds
<1>2. AccountsInv /\ [Next]_vars => AccountsInv'
  BY StepHolds
<1> QED BY <1>1, <1>2, PTL DEF Spec

\* A token is for the account whose password or provider was given, for any
\* number of clients, whatever happens to addresses while it is signed.
THEOREM TokensStayOwn == ASSUME NoneIsNoEmail PROVE Spec => []TokensAreOwn
<1>1. AccountsInv => TokensAreOwn
  BY DEF AccountsInv
<1> QED BY <1>1, InvariantHolds, PTL
-----------------------------------------------------------------------------
Address == [i \in Ids |-> IF account[i] = None THEN None ELSE account[i].email]
Verified == {i \in Ids : account[i] # None /\ account[i].verified}
BookNext == [Book!Next]_<<Address, Verified>>

LEMMA AddressAt ==
    ASSUME NEW i \in Ids
    PROVE  /\ Address[i] = IF account[i] = None THEN None ELSE account[i].email
           /\ Address'[i] = IF account'[i] = None THEN None ELSE account'[i].email
BY DEF Address

LEMMA BookBegins == ASSUME Init PROVE Book!Init
BY DEF Init, Book!Init

\* Nobody has an address the query does not find.
LEMMA FreeAddress ==
    ASSUME NoneIsNoEmail, NEW i \in Ids, NEW e \in Emails, With(e) \subseteq {i}
    PROVE  (account[i] = None \/ account[i].email # e) => Book!Free(e)
BY DEF NoneIsNoEmail, With, Book!Free

\* Nothing is written in the book where no row changes.
LEMMA BookStays == ASSUME UNCHANGED account PROVE BookNext
BY DEF BookNext, Address, Verified

LEMMA BookInsert ==
    ASSUME NoneIsNoEmail, AccountsInv, NEW i \in Ids, NEW e \in Emails,
           With(e) = {}, Insert(i, e)
    PROVE  BookNext
<1> DEFINE a == [email |-> e, verified |-> FALSE]
<1>1. /\ a \in Accounts /\ account' = [account EXCEPT ![i] = a]
      /\ account[i] = None /\ a.email = e /\ ~a.verified
  BY DEF Accounts, Insert
<1> HIDE DEF a
<1>2. a # None
  BY <1>1 DEF NoneIsNoEmail
<1>3. \A j \in Ids : account'[j] = IF j = i THEN a ELSE account[j]
  BY <1>1 DEF AccountsInv, AccountsHold
<1>4. Address' = [Address EXCEPT ![i] = e] /\ Verified' = Verified
  <2>1. \A j \in Ids : (j \in Verified') <=> (j \in Verified)
    BY <1>1, <1>2, <1>3 DEF Verified
  <2>2. Verified' = Verified
    BY <2>1 DEF Verified
  <2>3. \A j \in Ids : Address'[j] = IF j = i THEN e ELSE Address[j]
    BY <1>1, <1>2, <1>3 DEF Address
  <2>4. Address' = [Address EXCEPT ![i] = e]
    BY <2>3 DEF Address
  <2> QED BY <2>2, <2>4
<1>5. Book!Free(e)
  BY <1>1, FreeAddress
<1>6. Book!Take(i, e)
  BY <1>4, <1>5 DEF Book!Take, Address, Verified
<1> QED BY <1>6 DEF BookNext, Book!Next

LEMMA BookMove ==
    ASSUME NoneIsNoEmail, AccountsInv, NEW i \in Ids, NEW e \in Emails,
           account[i] # None, With(e) \subseteq {i}, account' = [account EXCEPT ![i].email = e]
    PROVE  BookNext
<1> DEFINE a == [account[i] EXCEPT !.email = e]
<1>1. account[i] \in Accounts
  BY DEF AccountsInv, AccountsHold
<1>2. a \in Accounts /\ a.email = e /\ a.verified = account[i].verified
  BY <1>1 DEF Accounts
<1>3. \A j \in Ids : account'[j] = IF j = i THEN a ELSE account[j]
  BY DEF AccountsInv, AccountsHold
<1> HIDE DEF a
<1>4. a # None
  BY <1>2 DEF NoneIsNoEmail
<1>5. Address' = [Address EXCEPT ![i] = e] /\ Verified' = Verified
  <2>1. \A j \in Ids : (j \in Verified') <=> (j \in Verified)
    BY <1>2, <1>3, <1>4 DEF Verified
  <2>2. Verified' = Verified
    BY <2>1 DEF Verified
  <2>3. \A j \in Ids : Address'[j] = IF j = i THEN e ELSE Address[j]
    BY <1>2, <1>3, <1>4 DEF Address
  <2>4. Address' = [Address EXCEPT ![i] = e]
    BY <2>3 DEF Address
  <2> QED BY <2>2, <2>4
<1>6. CASE account[i].email = e
  <2>1. Address[i] = e
    BY <1>6 DEF Address
  <2>2. Address' = Address
    BY <1>5, <2>1 DEF Address
  <2> QED BY <1>5, <2>2 DEF BookNext
<1>7. CASE account[i].email # e
  <2>1. Book!Free(e)
    BY <1>7, FreeAddress
  <2>2. Book!Take(i, e)
    BY <1>5, <2>1 DEF Book!Take, Address, Verified
  <2> QED BY <2>2 DEF BookNext, Book!Next
<1> QED BY <1>6, <1>7

LEMMA BookConfirm ==
    ASSUME NoneIsNoEmail, AccountsInv, NEW i \in Ids,
           account[i] # None, account' = [account EXCEPT ![i].verified = TRUE]
    PROVE  BookNext
<1> DEFINE a == [account[i] EXCEPT !.verified = TRUE]
<1>1. account[i] \in Accounts
  BY DEF AccountsInv, AccountsHold
<1>2. a \in Accounts /\ a.email = account[i].email /\ a.verified
  BY <1>1 DEF Accounts
<1>3. \A j \in Ids : account'[j] = IF j = i THEN a ELSE account[j]
  BY DEF AccountsInv, AccountsHold
<1> HIDE DEF a
<1>4. a # None
  BY <1>2 DEF NoneIsNoEmail
<1>5. Address' = Address /\ Verified' = Verified \cup {i}
  <2>1. \A j \in Ids : (j \in Verified') <=> (j \in Verified \/ j = i)
    <3>1. ASSUME NEW j \in Ids, j # i PROVE (j \in Verified') <=> (j \in Verified)
      BY <1>3, <3>1 DEF Verified
    <3>2. account'[i] = a
      BY <1>3
    <3>3. i \in Verified'
      BY <1>2, <1>4, <3>2 DEF Verified
    <3> QED BY <3>1, <3>3
  <2>2. Verified' = Verified \cup {i}
    BY <2>1 DEF Verified
  <2>3. \A j \in Ids : Address'[j] = Address[j]
    <3>1. \A j \in Ids : j # i => account'[j] = account[j]
      BY <1>3
    <3>2. account'[i] = a
      BY <1>3
    <3>3. Address'[i] = Address[i]
      BY <1>2, <1>4, <3>2, AddressAt
    <3>4. ASSUME NEW j \in Ids, j # i PROVE Address'[j] = Address[j]
      BY <3>1, <3>4, AddressAt
    <3> QED BY <3>3, <3>4
  <2>4. Address' = Address
    BY <2>3 DEF Address
  <2> QED BY <2>2, <2>4
<1>6. Address[i] # None
  BY <1>1 DEF Address, Accounts, NoneIsNoEmail
<1>7. Book!Confirm(i)
  BY <1>5, <1>6 DEF Book!Confirm, Address, Verified
<1> QED BY <1>7 DEF BookNext, Book!Next

LEMMA BookStep == ASSUME NoneIsNoEmail, AccountsInv, [Next]_vars PROVE BookNext
<1>1. CASE UNCHANGED account
  BY <1>1, BookStays
<1>2. ASSUME NEW c \in Clients, Create(c) PROVE BookNext
  <2>1. req[c].email \in Emails
    BY <1>2 DEF Create, At, AccountsInv, RequestsHold
  <2> QED BY <1>1, <1>2, <2>1, BookInsert DEF Create
<1>3. ASSUME NEW c \in Clients, UpdateWrite(c) PROVE BookNext
  <2>1. req[c].id \in Ids /\ account[req[c].id] # None /\ req[c].email \in Emails
    BY <1>3 DEF UpdateWrite, At, AccountsInv, RequestsHold, SignedUp
  <2> QED BY <1>1, <1>3, <2>1, BookMove DEF UpdateWrite
<1>4. ASSUME NEW c \in Clients, ConfirmWrite(c) PROVE BookNext
  <2>1. req[c].id \in Ids /\ account[req[c].id] # None
    BY <1>4 DEF ConfirmWrite, At, AccountsInv, RequestsHold, SignedUp
  <2> QED BY <1>4, <2>1, BookConfirm DEF ConfirmWrite
<1>5. ASSUME NEW c \in Clients, Begin(c) PROVE UNCHANGED account
  BY <1>5 DEF Begin, SignUpRead, OAuthRead, SignInRead, UpdateRead, RefreshRead, SendRead, ConfirmRead
<1>6. ASSUME NEW c \in Clients, OAuthReadAgain(c) \/ SignIn(c) \/ SendLink(c) \/ Fail(c)
      PROVE  UNCHANGED account
  BY <1>6 DEF OAuthReadAgain, SignIn, SendLink, Fail
<1>7. ASSUME NEW e \in Emails, Forgot(e) PROVE UNCHANGED account
  BY <1>7 DEF Forgot
<1>8. UNCHANGED vars => UNCHANGED account
  BY DEF vars
<1> QED BY <1>1, <1>2, <1>3, <1>4, <1>5, <1>6, <1>7, <1>8 DEF Next, Continue

\* However sign-ups and changes of address overlap, each row takes an address
\* nobody has, in one step: the rows implement the book of addresses.
THEOREM AccountsImplementBook == ASSUME NoneIsNoEmail PROVE Spec => ImplementsAddressBook
<1>1. Init => Book!Init
  BY BookBegins
<1>2. AccountsInv /\ [Next]_vars => [Book!Next]_<<Address, Verified>>
  BY BookStep DEF BookNext
<1>3. Spec => []AccountsInv
  BY InvariantHolds
<1> QED BY <1>1, <1>2, <1>3, PTL DEF Spec, ImplementsAddressBook, Book!Spec, Address, Verified

LEMMA FormOfAddress == ASSUME NEW i \in Ids, NEW e \in Emails, Book!Take(i, e)
                       PROVE  Book!Free(e) /\ Address' = [Address EXCEPT ![i] = e]
BY DEF Book!Take, Address

LEMMA DistinctStays == ASSUME BookNext, Book!Distinct PROVE Book!Distinct'
<1>1. (Book!Distinct <=> \A i, j \in Ids : (i # j /\ Address[i] # None) => Address[i] # Address[j])
  BY DEF Book!Distinct, Address
<1>2. (Book!Distinct' <=> \A i, j \in Ids : (i # j /\ Address'[i] # None) => Address'[i] # Address'[j])
  BY DEF Book!Distinct, Address
<1>3. CASE Address' = Address
  BY <1>1, <1>2, <1>3
<1>4. ASSUME NEW i \in Ids, NEW e \in Emails, Book!Take(i, e) PROVE Book!Distinct'
  <2>1. \A j \in Ids : Address[j] # e
    BY <1>4, FormOfAddress DEF Book!Free, Address
  <2>2. \A j \in Ids : Address'[j] = IF j = i THEN e ELSE Address[j]
    BY <1>4, FormOfAddress DEF Address
  <2> QED BY <1>1, <1>2, <2>1, <2>2
<1>5. ASSUME NEW i \in Ids, Book!Confirm(i) PROVE Address' = Address
  BY <1>5 DEF Book!Confirm, Address
<1> QED BY <1>3, <1>4, <1>5 DEF BookNext, Book!Next

\* What the book promises, said of the rows: no two accounts have one address.
THEOREM AddressesDiffer == ASSUME NoneIsNoEmail PROVE Spec => []Book!Distinct
<1>1. Init => Book!Distinct
  BY DEF Init, Book!Distinct
<1>2. AccountsInv /\ [Next]_vars /\ Book!Distinct => Book!Distinct'
  BY BookStep, DistinctStays
<1> QED BY <1>1, <1>2, InvariantHolds, PTL DEF Spec

-----------------------------------------------------------------------------
(* Reset codes: PasswordReset *)

\* A code is mailed before it is stored, and no token given for a row before
\* there is one.
ResetInv ==
    /\ CodeUsedOnce
    /\ DOMAIN otps = Resets!Ids /\ DOMAIN reset = Clients
    /\ \A c \in Clients : reset[c].pc = "create" => <<reset[c].user, reset[c].code>> \in mailed
    /\ \A i \in Resets!Ids : otps[i] = None => granted[i] = 0

ResetBounds == None \notin Resets!Row /\ MaxTime \in Nat

LEMMA ResetBegins == ASSUME ResetBounds, Resets!Init PROVE ResetInv
BY DEF ResetBounds, Resets!Init, ResetInv, CodeUsedOnce, Resets!CodeUsedOnce, Resets!TypeOK,
       Resets!Stored, Resets!Idle

\* Another request begins or ends: the rows are left alone.
LEMMA RequestMoves ==
    ASSUME ResetInv, UNCHANGED <<otps, alive, granted>>, clock' \in 0..MaxTime,
           mailed \subseteq mailed', mailed' \subseteq Users \X Codes,
           NEW d \in Clients, reset' = [reset EXCEPT ![d] = reset'[d]],
           reset'[d].pc \in {"idle", "create", "delete"},
           reset'[d].pc = "create" => <<reset'[d].user, reset'[d].code>> \in mailed'
    PROVE  ResetInv'
<1>1. DOMAIN reset' = Clients /\ \A c \in Clients \ {d} : reset'[c] = reset[c]
  BY DEF ResetInv
<1>2. \A c \in Clients : /\ reset'[c].pc \in {"idle", "create", "delete"}
                         /\ reset'[c].pc = "create" => <<reset'[c].user, reset'[c].code>> \in mailed'
  BY <1>1 DEF ResetInv, CodeUsedOnce, Resets!CodeUsedOnce, Resets!TypeOK
<1> QED BY <1>1, <1>2 DEF ResetInv, CodeUsedOnce, Resets!CodeUsedOnce, Resets!TypeOK, Resets!Stored

LEMMA ResetStep == ASSUME ResetBounds, ResetInv, [Resets!Next]_(Resets!vars) PROVE ResetInv'
<1> USE DEF Resets!At, Resets!Idle, Resets!Start, Resets!End
<1>0. clock \in 0..MaxTime /\ mailed \subseteq Users \X Codes /\ DOMAIN reset = Clients
  BY DEF ResetInv, CodeUsedOnce, Resets!CodeUsedOnce, Resets!TypeOK
<1>1. ASSUME NEW c \in Clients, NEW u \in Users, Resets!ForgotMail(c, u) PROVE ResetInv'
  <2>1. PICK k \in Codes :
          /\ reset' = [reset EXCEPT ![c] = [pc |-> "create", user |-> u, row |-> 0, code |-> k]]
          /\ mailed' = mailed \cup {<<u, k>>}
    BY <1>1 DEF Resets!ForgotMail
  <2>2. UNCHANGED <<clock, otps, alive, granted>>
    BY <1>1 DEF Resets!ForgotMail
  <2>3. /\ reset'[c].pc = "create" /\ <<reset'[c].user, reset'[c].code>> = <<u, k>>
        /\ reset' = [reset EXCEPT ![c] = reset'[c]]
    BY <1>0, <2>1
  <2>4. mailed \subseteq mailed' /\ mailed' \subseteq Users \X Codes /\ <<u, k>> \in mailed'
    BY <1>0, <2>1
  <2> QED BY <1>0, <2>2, <2>3, <2>4, RequestMoves
<1>2. ASSUME NEW c \in Clients, Resets!ForgotCreate(c) PROVE ResetInv'
  <2> DEFINE r == [user |-> reset[c].user, code |-> reset[c].code, at |-> clock]
  <2>1. PICK i \in Resets!Ids : /\ otps[i] = None /\ otps' = [otps EXCEPT ![i] = r]
                                /\ alive' = alive \cup {i}
    BY <1>2 DEF Resets!ForgotCreate
  <2>2. /\ reset[c].pc = "create" /\ UNCHANGED <<clock, granted, mailed>>
        /\ reset' = [reset EXCEPT ![c] = [pc |-> "idle", user |-> None, row |-> 0, code |-> None]]
    BY <1>2 DEF Resets!ForgotCreate
  <2>3. <<reset[c].user, reset[c].code>> \in mailed
    BY <2>2 DEF ResetInv
  <2>4. r \in Resets!Row /\ r # None /\ r.user = reset[c].user /\ r.code = reset[c].code
    BY <1>0, <2>3 DEF Resets!Row, ResetBounds
  <2> HIDE DEF r
  <2>5. DOMAIN otps' = Resets!Ids /\ \A j \in Resets!Ids : otps'[j] = IF j = i THEN r ELSE otps[j]
    BY <2>1 DEF ResetInv
  <2>6. \A d \in Clients : /\ reset'[d].pc \in {"idle", "create", "delete"}
                           /\ reset'[d].pc = "create" => <<reset'[d].user, reset'[d].code>> \in mailed'
    BY <2>2 DEF ResetInv, CodeUsedOnce, Resets!CodeUsedOnce, Resets!TypeOK
  <2>7. Resets!Stored' = Resets!Stored \cup {i} /\ i \notin Resets!Stored
    BY <2>1, <2>4, <2>5 DEF Resets!Stored
  <2>8. granted[i] = 0 /\ i \notin alive
    BY <2>1, <2>7 DEF ResetInv, CodeUsedOnce, Resets!CodeUsedOnce, Resets!TypeOK
  <2>9. Resets!TypeOK'
    BY <2>1, <2>2, <2>4, <2>5, <2>6, <2>7
    DEF ResetInv, CodeUsedOnce, Resets!CodeUsedOnce, Resets!TypeOK
  <2>10. \A j \in Resets!Stored' : /\ granted'[j] + (IF j \in alive' THEN 1 ELSE 0) <= 1
                                   /\ <<otps'[j].user, otps'[j].code>> \in mailed'
    BY <2>1, <2>2, <2>3, <2>4, <2>5, <2>7, <2>8
    DEF ResetInv, CodeUsedOnce, Resets!CodeUsedOnce, Resets!Stored
  <2>11. \A j \in Resets!Ids : otps'[j] = None => granted'[j] = 0
    BY <2>2, <2>4, <2>5 DEF ResetInv
  <2>12. DOMAIN reset' = Clients
    BY <1>0, <2>2
  <2> QED BY <2>5, <2>6, <2>9, <2>10, <2>11, <2>12 DEF ResetInv, CodeUsedOnce, Resets!CodeUsedOnce
<1>3. ASSUME NEW c \in Clients, NEW u \in Users, NEW k \in Codes, Resets!VerifyRead(c, u, k)
      PROVE  ResetInv'
  <2>1. UNCHANGED <<clock, otps, alive, granted, mailed>>
    BY <1>3 DEF Resets!VerifyRead
  <2> DEFINE i == Resets!Newest(alive \cap Resets!RowsOf(u))
  <2>2. reset' = [reset EXCEPT ![c] = [[pc |-> "idle", user |-> None, row |-> 0, code |-> None]
                                          EXCEPT !.pc = "delete", !.user = u, !.row = i]]
    BY <1>3, Zenon DEF Resets!VerifyRead
  <2> HIDE DEF i
  <2>3. reset'[c].pc = "delete" /\ reset' = [reset EXCEPT ![c] = reset'[c]]
    BY <1>0, <2>2
  <2> QED BY <1>0, <2>1, <2>3, RequestMoves
<1>4. ASSUME NEW c \in Clients, Resets!VerifyDelete(c) PROVE ResetInv'
  <2> DEFINE idle == [pc |-> "idle", user |-> None, row |-> 0, code |-> None]
  <2>1. UNCHANGED <<clock, otps, mailed>> /\ reset' = [reset EXCEPT ![c] = idle]
    BY <1>4 DEF Resets!VerifyDelete
  <2>2. reset'[c].pc = "idle"
    BY <1>0, <2>1
  <2>3. CASE UNCHANGED <<alive, granted>>
    BY <1>0, <2>1, <2>2, <2>3, RequestMoves
  <2>4. CASE reset[c].row \in alive
    <3>1. PICK i \in alive : i = reset[c].row
      BY <2>4
    <3>2. alive' = alive \ {i} /\ granted' = [granted EXCEPT ![i] = @ + 1]
      BY <1>4, <3>1 DEF Resets!VerifyDelete
    <3>3. i \in Resets!Stored /\ i \in Resets!Ids /\ otps[i] # None
      BY DEF ResetInv, CodeUsedOnce, Resets!CodeUsedOnce, Resets!TypeOK, Resets!Stored
    <3>4. granted \in [Resets!Ids -> Nat] /\ granted[i] + 1 <= 1
      BY <3>1, <3>3 DEF ResetInv, CodeUsedOnce, Resets!CodeUsedOnce, Resets!TypeOK
    <3>5. granted' \in [Resets!Ids -> Nat] /\ granted'[i] = 1
          /\ \A j \in Resets!Ids \ {i} : granted'[j] = granted[j]
      BY <3>2, <3>3, <3>4
    <3>6. \A d \in Clients : /\ reset'[d].pc \in {"idle", "create", "delete"}
                             /\ reset'[d].pc = "create" => <<reset'[d].user, reset'[d].code>> \in mailed'
      BY <2>1 DEF ResetInv, CodeUsedOnce, Resets!CodeUsedOnce, Resets!TypeOK
    <3>7. Resets!TypeOK'
      BY <2>1, <3>2, <3>5, <3>6
      DEF ResetInv, CodeUsedOnce, Resets!CodeUsedOnce, Resets!TypeOK, Resets!Stored
    <3>8. \A j \in Resets!Stored' : /\ granted'[j] + (IF j \in alive' THEN 1 ELSE 0) <= 1
                                    /\ <<otps'[j].user, otps'[j].code>> \in mailed'
      BY <2>1, <3>2, <3>5 DEF ResetInv, CodeUsedOnce, Resets!CodeUsedOnce, Resets!Stored
    <3>9. \A j \in Resets!Ids : otps'[j] = None => granted'[j] = 0
      BY <2>1, <3>3, <3>5 DEF ResetInv
    <3>10. DOMAIN reset' = Clients
      BY <1>0, <2>1
    <3> QED BY <2>1, <3>6, <3>7, <3>8, <3>9, <3>10 DEF ResetInv, CodeUsedOnce, Resets!CodeUsedOnce
  <2> QED BY <1>4, <2>3, <2>4 DEF Resets!VerifyDelete
<1>5. ASSUME NEW c \in Clients, Resets!Fail(c) PROVE ResetInv'
  <2>1. /\ UNCHANGED <<clock, otps, alive, granted, mailed>>
        /\ reset' = [reset EXCEPT ![c] = [pc |-> "idle", user |-> None, row |-> 0, code |-> None]]
    BY <1>5 DEF Resets!Fail
  <2>2. reset'[c].pc = "idle"
    BY <1>0, <2>1
  <2> QED BY <1>0, <2>1, <2>2, RequestMoves
<1>6. CASE Resets!Tick
  <2>1. clock' \in 0..MaxTime /\ UNCHANGED <<otps, alive, granted, mailed, reset>>
    BY <1>0, <1>6 DEF Resets!Tick, ResetBounds
  <2> QED BY <2>1 DEF ResetInv, CodeUsedOnce, Resets!CodeUsedOnce, Resets!TypeOK, Resets!Stored
<1>7. CASE UNCHANGED Resets!vars
  BY <1>7 DEF Resets!vars, ResetInv, CodeUsedOnce, Resets!CodeUsedOnce, Resets!TypeOK, Resets!Stored
<1> QED BY <1>1, <1>2, <1>3, <1>4, <1>5, <1>6, <1>7 DEF Resets!Next, Resets!Begin, Resets!Continue

\* However often a code is sent, by however many requests at once, it is good
\* for one token, and only a code that was mailed to the user is.
THEOREM CodesAreUsedOnce == ASSUME ResetBounds PROVE Resets!Spec => []CodeUsedOnce
<1>1. Resets!Init => ResetInv
  BY ResetBegins
<1>2. ResetInv /\ [Resets!Next]_(Resets!vars) => ResetInv'
  BY ResetStep
<1>3. ResetInv => CodeUsedOnce
  BY DEF ResetInv
<1> QED BY <1>1, <1>2, <1>3, PTL DEF Resets!Spec

-----------------------------------------------------------------------------
(* Profile pictures: Avatars *)

Stages == {"unused", "bucket", "make", "put", "write", "done", "gone"}
Upload == [pc : Stages, user : Users \cup {None}, name : Names \cup {None},
           key : Pictures!Keys \cup {None}]

\* An upload that was begun has its user and name, one that puts its image a
\* key and a bucket, and one that writes its key an image under it.
UploadInv(i) ==
    /\ upload[i] \in Upload
    /\ upload[i].pc # "unused" => upload[i].user \in Users /\ upload[i].name \in Names
    /\ upload[i].pc \in {"put", "write"} => bucket /\ upload[i].key \in Pictures!Keys
    /\ upload[i].pc = "write" => objects[upload[i].key] # 0

\* The image under a key is of an upload that has it and keeps it.
ObjectInv(k) == objects[k] # 0 => /\ bucket /\ upload[objects[k]].key = k
                                  /\ upload[objects[k]].pc \notin {"unused", "bucket", "make"}

\* The key in a profile has an image and was of an upload of the user.
ProfileInv(u) == profileImg[u] # None =>
    /\ profileImg[u] \in Pictures!Keys /\ objects[profileImg[u]] # 0
    /\ \E j \in Pictures!Uploads : /\ upload[j].user = u /\ upload[j].key = profileImg[u]
                                   /\ upload[j].pc \notin {"unused", "bucket", "make"}

PictureTypes ==
    /\ clock \in 0..MaxTime /\ bucket \in BOOLEAN
    /\ objects \in [Pictures!Keys -> {0} \cup Pictures!Uploads]
    /\ profileImg \in [Users -> Pictures!Keys \cup {None}]
    /\ DOMAIN upload = Pictures!Uploads

PictureInv == /\ PictureTypes
              /\ \A i \in Pictures!Uploads : UploadInv(i)
              /\ \A k \in Pictures!Keys : ObjectInv(k)
              /\ \A u \in Users : ProfileInv(u)

PictureBounds == None \notin Pictures!Keys /\ MaxTime \in Nat /\ MaxUploads \in Nat

LEMMA PictureBegins == ASSUME PictureBounds, Pictures!Init PROVE PictureInv
<1>1. PictureTypes
  BY DEF PictureBounds, Pictures!Init, PictureTypes
<1>2. ASSUME NEW i \in Pictures!Uploads PROVE UploadInv(i)
  BY DEF Pictures!Init, Pictures!Unused, UploadInv, Upload, Stages
<1>3. ASSUME NEW k \in Pictures!Keys PROVE ObjectInv(k)
  BY DEF Pictures!Init, ObjectInv
<1>4. ASSUME NEW u \in Users PROVE ProfileInv(u)
  BY DEF Pictures!Init, ProfileInv
<1> QED BY <1>1, <1>2, <1>3, <1>4 DEF PictureInv

\* One upload goes on, or all stay or end, with its user and, once it has one,
\* its key; nothing else moves but the bucket that is made.
LEMMA UploadsMove ==
    ASSUME PictureInv, UNCHANGED <<objects, profileImg>>, clock' \in 0..MaxTime,
           bucket' \in BOOLEAN, bucket => bucket', DOMAIN upload' = Pictures!Uploads,
           \A i \in Pictures!Uploads : UploadInv(i)',
           \A i \in Pictures!Uploads :
              upload[i].pc \notin {"unused", "bucket", "make"} =>
                 /\ upload'[i].pc \notin {"unused", "bucket", "make"}
                 /\ upload'[i].key = upload[i].key /\ upload'[i].user = upload[i].user
    PROVE  PictureInv'
<1>1. PictureTypes'
  BY DEF PictureInv, PictureTypes
<1>2. ASSUME NEW k \in Pictures!Keys PROVE ObjectInv(k)'
  <2>1. objects[k] # 0 => objects[k] \in Pictures!Uploads
    BY DEF PictureInv, PictureTypes
  <2> QED BY <2>1 DEF PictureInv, ObjectInv
<1>3. ASSUME NEW u \in Users PROVE ProfileInv(u)'
  BY DEF PictureInv, ProfileInv
<1> QED BY <1>1, <1>2, <1>3 DEF PictureInv

LEMMA PictureStep == ASSUME PictureBounds, PictureInv, [Pictures!Next]_(Pictures!vars) PROVE PictureInv'
<1>0. PictureTypes /\ \A i \in Pictures!Uploads : UploadInv(i)
  BY DEF PictureInv
<1>1. ASSUME NEW i \in Pictures!Uploads, NEW u \in Users, NEW n \in Names, Pictures!Answer(i, u, n)
      PROVE  PictureInv'
  <2> DEFINE r == [pc |-> "bucket", user |-> u, name |-> n, key |-> None]
  <2>1. /\ upload[i].pc = "unused" /\ upload' = [upload EXCEPT ![i] = r]
        /\ UNCHANGED <<clock, bucket, objects, profileImg>>
    BY <1>1 DEF Pictures!Answer, Pictures!At
  <2>2. /\ r \in Upload /\ r.pc = "bucket" /\ r.user \in Users /\ r.name \in Names
    BY DEF Upload, Stages
  <2> HIDE DEF r
  <2>3. DOMAIN upload' = Pictures!Uploads
        /\ \A j \in Pictures!Uploads : upload'[j] = IF j = i THEN r ELSE upload[j]
    BY <1>0, <2>1 DEF PictureTypes
  <2>4. ASSUME NEW j \in Pictures!Uploads PROVE UploadInv(j)'
    BY <1>0, <2>1, <2>2, <2>3 DEF UploadInv
  <2>5. \A j \in Pictures!Uploads : upload[j].pc # "unused" => upload'[j] = upload[j]
    BY <2>1, <2>3
  <2> QED BY <1>0, <2>1, <2>3, <2>4, <2>5, UploadsMove DEF PictureTypes
<1>2. ASSUME NEW i \in Pictures!Uploads, Pictures!Goto(i, "make"), upload[i].pc = "bucket",
             UNCHANGED <<clock, bucket, objects, profileImg>>
      PROVE  PictureInv'
  <2> DEFINE r == [upload[i] EXCEPT !.pc = "make"]
  <2>1. upload' = [upload EXCEPT ![i] = r]
    BY <1>2 DEF Pictures!Goto
  <2>2. /\ r \in Upload /\ r.pc = "make" /\ r.user = upload[i].user /\ r.name = upload[i].name
    BY <1>0 DEF Upload, Stages, UploadInv
  <2> HIDE DEF r
  <2>3. DOMAIN upload' = Pictures!Uploads
        /\ \A j \in Pictures!Uploads : upload'[j] = IF j = i THEN r ELSE upload[j]
    BY <1>0, <2>1 DEF PictureTypes
  <2>4. ASSUME NEW j \in Pictures!Uploads PROVE UploadInv(j)'
    BY <1>0, <1>2, <2>2, <2>3 DEF UploadInv
  <2>5. \A j \in Pictures!Uploads : upload[j].pc # "bucket" => upload'[j] = upload[j]
    BY <1>2, <2>3
  <2> QED BY <1>0, <1>2, <2>3, <2>4, <2>5, UploadsMove DEF PictureTypes
<1>3. ASSUME NEW i \in Pictures!Uploads, Pictures!GotoPut(i), upload[i].pc \in {"bucket", "make"},
             bucket' = TRUE, UNCHANGED <<clock, objects, profileImg>>
      PROVE  PictureInv'
  <2> DEFINE k == <<upload[i].name, clock>>
             r == [upload[i] EXCEPT !.pc = "put", !.key = k]
  <2>1. upload' = [upload EXCEPT ![i] = r]
    BY <1>3 DEF Pictures!GotoPut
  <2>2. k \in Pictures!Keys
    BY <1>0, <1>3 DEF UploadInv, PictureTypes, Pictures!Keys
  <2>3. /\ r \in Upload /\ r.pc = "put" /\ r.user = upload[i].user /\ r.name = upload[i].name
        /\ r.key = k
    BY <1>0, <2>2 DEF Upload, Stages, UploadInv
  <2> HIDE DEF r
  <2>4. DOMAIN upload' = Pictures!Uploads
        /\ \A j \in Pictures!Uploads : upload'[j] = IF j = i THEN r ELSE upload[j]
    BY <1>0, <2>1 DEF PictureTypes
  <2>5. ASSUME NEW j \in Pictures!Uploads PROVE UploadInv(j)'
    BY <1>0, <1>3, <2>2, <2>3, <2>4 DEF UploadInv
  <2>6. \A j \in Pictures!Uploads : upload[j].pc \notin {"bucket", "make"} => upload'[j] = upload[j]
    BY <1>3, <2>4
  <2> QED BY <1>0, <1>3, <2>4, <2>5, <2>6, UploadsMove DEF PictureTypes
<1>4. ASSUME NEW i \in Pictures!Uploads, Pictures!Reject(i) PROVE PictureInv'
  <2>1. /\ UNCHANGED <<clock, bucket, objects, profileImg>>
        /\ upload' = [j \in Pictures!Uploads |-> IF Pictures!Working(j)
                                                 THEN [upload[j] EXCEPT !.pc = "gone"] ELSE upload[j]]
    BY <1>4 DEF Pictures!Reject
  <2>2. DOMAIN upload' = Pictures!Uploads
    BY <2>1
  <2>3. ASSUME NEW j \in Pictures!Uploads
        PROVE  /\ upload'[j] \in Upload /\ upload'[j].user = upload[j].user
               /\ upload'[j].name = upload[j].name /\ upload'[j].key = upload[j].key
               /\ upload'[j].pc \in {upload[j].pc, "gone"}
               /\ upload'[j].pc = "gone" => upload[j].pc # "unused"
    BY <1>0, <2>1 DEF UploadInv, Upload, Stages, Pictures!Working
  <2>4. ASSUME NEW j \in Pictures!Uploads PROVE UploadInv(j)'
    BY <1>0, <2>1, <2>3 DEF UploadInv
  <2> QED BY <1>0, <2>1, <2>2, <2>3, <2>4, UploadsMove DEF PictureTypes
<1>5. ASSUME NEW i \in Pictures!Uploads, Pictures!Put(i) PROVE PictureInv'
  <2> DEFINE r == [upload[i] EXCEPT !.pc = "write"]
             k == upload[i].key
  <2>1. /\ upload[i].pc = "put" /\ upload' = [upload EXCEPT ![i] = r]
        /\ objects' = [objects EXCEPT ![k] = i]
        /\ UNCHANGED <<clock, bucket, profileImg>>
    BY <1>5 DEF Pictures!Put, Pictures!At, Pictures!Goto
  <2>2. /\ k \in Pictures!Keys /\ bucket /\ r \in Upload /\ r.pc = "write" /\ r.key = k
        /\ r.user = upload[i].user /\ r.name = upload[i].name
        /\ upload[i].user \in Users /\ upload[i].name \in Names
    BY <1>0, <2>1 DEF Upload, Stages, UploadInv
  <2> HIDE DEF r, k
  <2>3. DOMAIN upload' = Pictures!Uploads
        /\ \A j \in Pictures!Uploads : upload'[j] = IF j = i THEN r ELSE upload[j]
    BY <1>0, <2>1 DEF PictureTypes
  <2>4. /\ objects' \in [Pictures!Keys -> {0} \cup Pictures!Uploads] /\ i # 0
        /\ \A l \in Pictures!Keys : objects'[l] = IF l = k THEN i ELSE objects[l]
    BY <1>0, <2>1, <2>2 DEF PictureTypes, Pictures!Uploads
  <2>5. PictureTypes'
    BY <1>0, <2>1, <2>3, <2>4 DEF PictureTypes
  <2>6. ASSUME NEW j \in Pictures!Uploads PROVE UploadInv(j)'
    BY <1>0, <2>1, <2>2, <2>3, <2>4 DEF UploadInv
  <2>7. \A j \in Pictures!Uploads : /\ upload'[j].key = upload[j].key /\ upload'[j].user = upload[j].user
                                    /\ upload[j].pc \notin {"unused", "bucket", "make"} =>
                                          upload'[j].pc \notin {"unused", "bucket", "make"}
    BY <2>1, <2>2, <2>3 DEF k
  <2>8. ASSUME NEW l \in Pictures!Keys PROVE ObjectInv(l)'
    <3>1. objects[l] # 0 => objects[l] \in Pictures!Uploads
      BY <1>0 DEF PictureTypes
    <3>2. CASE l = k
      BY <2>1, <2>2, <2>3, <2>4, <3>2 DEF ObjectInv
    <3>3. CASE l # k
      BY <2>1, <2>4, <2>7, <3>1, <3>3 DEF PictureInv, ObjectInv
    <3> QED BY <3>2, <3>3
  <2>9. ASSUME NEW u \in Users PROVE ProfileInv(u)'
    BY <2>1, <2>4, <2>7 DEF PictureInv, ProfileInv
  <2> QED BY <2>5, <2>6, <2>8, <2>9 DEF PictureInv
<1>6. ASSUME NEW i \in Pictures!Uploads, Pictures!Write(i) PROVE PictureInv'
  <2> DEFINE r == [upload[i] EXCEPT !.pc = "done"]
             k == upload[i].key
             v == upload[i].user
  <2>1. /\ upload[i].pc = "write" /\ upload' = [upload EXCEPT ![i] = r]
        /\ profileImg' = [profileImg EXCEPT ![v] = k]
        /\ UNCHANGED <<clock, bucket, objects>>
    BY <1>6 DEF Pictures!Write, Pictures!At, Pictures!Goto
  <2>2. /\ k \in Pictures!Keys /\ v \in Users /\ objects[k] # 0
        /\ r \in Upload /\ r.pc = "done" /\ r.key = k
        /\ r.user = v /\ r.name = upload[i].name /\ upload[i].name \in Names
    BY <1>0, <2>1 DEF Upload, Stages, UploadInv
  <2>3. DOMAIN upload' = Pictures!Uploads
        /\ \A j \in Pictures!Uploads : upload'[j] = IF j = i THEN r ELSE upload[j]
    BY <1>0, <2>1 DEF PictureTypes
  <2>4. \A j \in Pictures!Uploads : /\ upload'[j].key = upload[j].key /\ upload'[j].user = upload[j].user
                                    /\ upload[j].pc \notin {"unused", "bucket", "make"} =>
                                          upload'[j].pc \notin {"unused", "bucket", "make"}
    BY <2>1, <2>2, <2>3
  <2> HIDE DEF r, k, v
  <2>5. /\ profileImg' \in [Users -> Pictures!Keys \cup {None}]
        /\ \A u \in Users : profileImg'[u] = IF u = v THEN k ELSE profileImg[u]
    BY <1>0, <2>1, <2>2 DEF PictureTypes
  <2>6. PictureTypes'
    BY <1>0, <2>1, <2>3, <2>5 DEF PictureTypes
  <2>7. ASSUME NEW j \in Pictures!Uploads PROVE UploadInv(j)'
    BY <1>0, <2>1, <2>2, <2>3 DEF UploadInv
  <2>8. ASSUME NEW l \in Pictures!Keys PROVE ObjectInv(l)'
    <3>1. objects[l] # 0 => objects[l] \in Pictures!Uploads
      BY <1>0 DEF PictureTypes
    <3> QED BY <2>1, <2>4, <3>1 DEF PictureInv, ObjectInv
  <2>9. ASSUME NEW u \in Users PROVE ProfileInv(u)'
    <3>1. CASE u = v
      <4>1. upload'[i].user = u /\ upload'[i].key = k /\ upload'[i].pc = "done"
        BY <2>2, <2>3, <3>1
      <4> QED BY <2>1, <2>2, <2>5, <3>1, <4>1 DEF ProfileInv
    <3>2. CASE u # v
      BY <2>1, <2>4, <2>5, <3>2 DEF PictureInv, ProfileInv
    <3> QED BY <3>1, <3>2
  <2> QED BY <2>6, <2>7, <2>8, <2>9 DEF PictureInv
<1>7. CASE Pictures!Tick
  <2>1. clock' \in 0..MaxTime /\ UNCHANGED <<bucket, objects, profileImg, upload>>
    BY <1>0, <1>7 DEF Pictures!Tick, PictureBounds, PictureTypes
  <2> QED BY <2>1 DEF PictureInv, PictureTypes, UploadInv, ObjectInv, ProfileInv
<1>8. CASE UNCHANGED Pictures!vars
  BY <1>8 DEF Pictures!vars, PictureInv, PictureTypes, UploadInv, ObjectInv, ProfileInv
<1>9. ASSUME NEW i \in Pictures!Uploads, Pictures!BucketExists(i) \/ Pictures!MakeBucket(i) PROVE PictureInv'
  <2>1. CASE bucket /\ Pictures!BucketExists(i)
    BY <1>0, <1>3, <2>1 DEF Pictures!BucketExists, Pictures!At, PictureTypes
  <2>2. CASE ~bucket /\ Pictures!BucketExists(i)
    BY <1>2, <2>2 DEF Pictures!BucketExists, Pictures!At
  <2>3. CASE Pictures!MakeBucket(i)
    BY <1>3, <2>3 DEF Pictures!MakeBucket, Pictures!At
  <2> QED BY <1>9, <2>1, <2>2, <2>3
<1> QED BY <1>1, <1>4, <1>5, <1>6, <1>7, <1>8, <1>9 DEF Pictures!Next, Pictures!Handle

LEMMA PictureSafe == ASSUME PictureBounds, PictureInv PROVE ImageIsOwn
<1>1. Pictures!TypeOK
  BY DEF PictureInv, PictureTypes, UploadInv, Upload, Stages, Pictures!TypeOK, Pictures!Working
<1>2. ASSUME NEW u \in Users, profileImg[u] # None
      PROVE  /\ bucket /\ objects[profileImg[u]] \in Pictures!Uploads
             /\ LET i == objects[profileImg[u]]
                IN  upload[i].user = u \/ \E j \in Pictures!Uploads : upload[j].user = u /\ Pictures!Clash(i, j)
  <2> DEFINE k == profileImg[u]
             i == objects[k]
  <2>1. k \in Pictures!Keys /\ i # 0
    BY <1>2 DEF PictureInv, ProfileInv
  <2>2. PICK j \in Pictures!Uploads : upload[j].user = u /\ upload[j].key = k
    BY <1>2 DEF PictureInv, ProfileInv
  <2>3. i \in Pictures!Uploads
    BY <2>1 DEF PictureInv, PictureTypes
  <2>4. bucket /\ upload[i].key = k
    BY <2>1 DEF PictureInv, ObjectInv
  <2> QED BY <2>2, <2>3, <2>4 DEF Pictures!Clash
<1> QED BY <1>1, <1>2 DEF ImageIsOwn, Pictures!ImageIsOwn

\* The picture a profile shows is there and is the user's own, or one of a file
\* that got the same key, however uploads overlap and whenever the process ends.
THEOREM PicturesAreOwn == ASSUME PictureBounds PROVE Pictures!Spec => []ImageIsOwn
<1>1. Pictures!Init => PictureInv
  BY PictureBegins
<1>2. PictureInv /\ [Pictures!Next]_(Pictures!vars) => PictureInv'
  BY PictureStep
<1>3. PictureInv => ImageIsOwn
  BY PictureSafe
<1> QED BY <1>1, <1>2, <1>3, PTL DEF Pictures!Spec

-----------------------------------------------------------------------------
(* Passwords: an instance of the theorem about any clients *)

Anyone == INSTANCE PasswordsProofs WITH Clients <- 1..3, req <- change

\* A password answered as set, by a request that overlapped no other change of
\* it, is the one stored until the next change begins.
THEOREM PasswordsAreSettled ==
    ASSUME None \notin Users \cup 1..3 \cup Passwords PROVE Changing!Spec => []SettledHolds
<1>1. Anyone!Spec => []Anyone!SettledHolds
  BY Anyone!SettledPasswordsHold DEF Anyone!NoneIsNobody
<1>2. Changing!Init => Anyone!Init
  BY DEF Changing!Init, Anyone!Init, Changing!Idle, Anyone!Idle
<1>3. [Changing!Next]_(Changing!vars) => [Anyone!Next]_(Anyone!vars)
  BY DEF Changing!Next, Changing!Begin, Changing!Reset, Changing!Change, Changing!Start,
         Changing!Write, Changing!Answer, Changing!Fail, Changing!End, Changing!At,
         Changing!Idle, Changing!ChangesOf, Changing!vars,
         Anyone!Next, Anyone!Begin, Anyone!Reset, Anyone!Change, Anyone!Start,
         Anyone!Write, Anyone!Answer, Anyone!Fail, Anyone!End, Anyone!At,
         Anyone!Idle, Anyone!ChangesOf, Anyone!vars
<1>4. Anyone!SettledHolds => SettledHolds
  BY DEF SettledHolds, Changing!SettledHolds, Changing!TypeOK, Anyone!SettledHolds, Anyone!TypeOK
<1> QED BY <1>1, <1>2, <1>3, <1>4, PTL DEF Changing!Spec, Anyone!Spec
=============================================================================
