---------------------------- MODULE Notifications ----------------------------
(***************************************************************************)
(* The notification service listens to the topics of the other services    *)
(* (EmailController) and records or mails what they say                    *)
(* (EmailService.sendEmail).  Each listener has a consumer of its own: it  *)
(* polls a batch, hands over one record after the other, and an exception  *)
(* makes it seek back and try that record again, MaxTries times in all,    *)
(* before it is passed over (Spring's DefaultErrorHandler).  Offsets are   *)
(* committed by the polls that follow (enable-auto-commit), so a restart   *)
(* handles some records again.                                             *)
(***************************************************************************)
EXTENDS Naturals

CONSTANTS
    Topics,    \* the topics with a listener
    Kind,      \* Kind[t]: "member", "mail", or "logged" for one that is only logged
    MaxTries,  \* how often a record is handed over: 10 by default
    MaxEvents, \* bound: MaxEvents[t] records of topic t
    MaxCrash   \* bound: the restarts of the service

VARIABLES
    produced,  \* the records of each topic, numbered 1..produced[t]
    committed, \* how many of them the group has committed
    done,      \* how many the consumer is past: it hands over done + 1
    fetched,   \* the last record of its batch
    tries,     \* failed attempts at the record at hand
    recorded,  \* history: Notification documents saved for each record
    mailed,    \* history: the records whose mail went out
    dropped,   \* history: the records passed over after MaxTries
    crashes

vars == <<produced, committed, done, fetched, tries, recorded, mailed, dropped, crashes>>
cursors == <<committed, done, fetched, tries>>

Events(t) == 1..MaxEvents[t]
Zero == [t \in Topics |-> 0]
Init == /\ produced = Zero /\ committed = Zero /\ done = Zero /\ fetched = Zero /\ tries = Zero
        /\ recorded = [t \in Topics |-> [e \in Events(t) |-> 0]]
        /\ mailed = [t \in Topics |-> {}]
        /\ dropped = [t \in Topics |-> {}]
        /\ crashes = 0

\* Another service sends a record.
Produce(t) == /\ produced[t] < MaxEvents[t]
              /\ produced' = [produced EXCEPT ![t] = @ + 1]
              /\ UNCHANGED <<cursors, recorded, mailed, dropped, crashes>>

\* The next poll, once the batch is handled, brings at least one record.
Poll(t) == /\ done[t] = fetched[t]
           /\ \E n \in done[t] + 1 .. produced[t] : fetched' = [fetched EXCEPT ![t] = n]
           /\ UNCHANGED <<produced, committed, done, tries, recorded, mailed, dropped, crashes>>

\* Slip: the batch is committed as it is fetched.
Commit_Early(t) == /\ committed' = [committed EXCEPT ![t] = fetched[t]]
                   /\ UNCHANGED <<produced, done, fetched, tries, recorded, mailed, dropped, crashes>>

\* A poll that finds the commit interval over commits what is done.
Commit(t) == /\ done[t] = fetched[t]
             /\ committed' = [committed EXCEPT ![t] = done[t]]
             /\ UNCHANGED <<produced, done, fetched, tries, recorded, mailed, dropped, crashes>>

\* The listener returns.
Returns(t) == /\ done' = [done EXCEPT ![t] = @ + 1]
              /\ tries' = [tries EXCEPT ![t] = 0]
              /\ UNCHANGED <<fetched, dropped>>

\* Slip: a record that fails is passed over at once.
Throws_Skips(t) == Returns(t)

\* Slip: the record is tried again without end.
Throws_Again(t) == /\ fetched' = [fetched EXCEPT ![t] = done[t]]
                   /\ UNCHANGED <<done, dropped, tries>>

\* The listener throws: seek back to the record, or past it to give it up.
Throws(t) == /\ IF tries[t] + 1 < MaxTries
                THEN /\ tries' = [tries EXCEPT ![t] = @ + 1]
                     /\ UNCHANGED <<done, dropped>>
                ELSE /\ tries' = [tries EXCEPT ![t] = 0]
                     /\ done' = [done EXCEPT ![t] = @ + 1]
                     /\ dropped' = [dropped EXCEPT ![t] = @ \cup {done[t] + 1}]
             /\ fetched' = [fetched EXCEPT ![t] = done'[t]]

\* create-post, create-comment, relationship-notification: logged.
Log(t) == /\ Kind[t] = "logged" /\ done[t] < fetched[t]
          /\ Returns(t)
          /\ UNCHANGED <<produced, committed, recorded, mailed, crashes>>

\* add-member: the notification is saved, unless the database fails, and the
\* check of content, recipient and subject then throws, for they are empty.
RecordMember(t) == /\ Kind[t] = "member" /\ done[t] < fetched[t]
                   /\ \E saved \in {0, 1} :
                        recorded' = [recorded EXCEPT ![t][done[t] + 1] = @ + saved]
                   /\ Throws(t)
                   /\ UNCHANGED <<produced, committed, mailed, crashes>>

\* get-otp, verify-email: the mail goes out or not, and the mail server's
\* answer may be lost.
SendMail(t) == /\ Kind[t] = "mail" /\ done[t] < fetched[t]
               /\ \/ mailed' = [mailed EXCEPT ![t] = @ \cup {done[t] + 1}] /\ Returns(t)
                  \/ mailed' = [mailed EXCEPT ![t] = @ \cup {done[t] + 1}] /\ Throws(t)
                  \/ UNCHANGED mailed /\ Throws(t)
               /\ UNCHANGED <<produced, committed, recorded, crashes>>

\* The service restarts at the committed offsets; attempts are forgotten.
Crash == /\ crashes < MaxCrash
         /\ crashes' = crashes + 1
         /\ done' = committed /\ fetched' = committed /\ tries' = Zero
         /\ UNCHANGED <<produced, committed, recorded, mailed, dropped>>

Handle(t) == Log(t) \/ RecordMember(t) \/ SendMail(t)
Move == Crash \/ \E t \in Topics : Poll(t) \/ Commit(t)
Next == Move \/ \E t \in Topics : Produce(t) \/ Handle(t)
Spec == Init /\ [][Next]_vars

\* The listener threads keep polling and calling.
Fairness == \A t \in Topics : WF_vars(Poll(t)) /\ WF_vars(Handle(t))
FairSpec == Spec /\ Fairness
-----------------------------------------------------------------------------
TypeOK == /\ DOMAIN produced = Topics /\ DOMAIN committed = Topics
          /\ \A t \in Topics : /\ produced[t] \in 0..MaxEvents[t]
                               /\ recorded[t] \in [Events(t) -> Nat]
                               /\ mailed[t] \subseteq Events(t) /\ dropped[t] \subseteq Events(t)
          /\ tries \in [Topics -> 0..MaxTries - 1]
          /\ crashes \in 0..MaxCrash

\* No mail is skipped: a record the group is past, restarts included, was
\* mailed or was tried MaxTries times in a row; nothing is committed before
\* it is dealt with.
NothingSkipped ==
    /\ TypeOK
    /\ \A t \in Topics :
         /\ committed[t] <= done[t] /\ done[t] <= fetched[t] /\ fetched[t] <= produced[t]
         /\ Kind[t] = "mail" => 1..done[t] \subseteq mailed[t] \cup dropped[t]

\* Every record of every topic is dealt with, whatever the others do.
EventDealtWith == \A t \in Topics : \A e \in Events(t) : produced[t] >= e ~> done[t] >= e

\* add-member throws after it has saved: the retries save again, and stop.
SavedByTries == \A t \in Topics : \A e \in Events(t) :
                   recorded[t][e] <= MaxTries * (crashes + 1)
=============================================================================
