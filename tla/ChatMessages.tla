---------------------------- MODULE ChatMessages ----------------------------
(***************************************************************************)
(* The chat service posts a message: it takes the next number of a counter *)
(* kept in MongoDB (CounterGenerator), uploads the picture under that      *)
(* number, stamps and stores the message, announces it on the topic of the *)
(* chat and copies it into the chat as its latest message                  *)
(* (MessageService.createMessage).  Every step is one call to MongoDB,     *)
(* MinIO or the broker, and requests interleave between them.  A request   *)
(* for an unknown chat is answered 404 before it changes anything.         *)
(***************************************************************************)
EXTENDS Naturals, FiniteSets

CONSTANTS
    Requests,  \* the threads of the server: each works on one request
    Chats,     \* the chats that exist: no operation removes one
    Steps,     \* how far the clock may move from one stamp to the next
    MaxId,     \* bound: the number of the last message
    Warm,      \* is there a counter document before the first request?
    None       \* no chat, no message, no file yet

VARIABLES
    counter,   \* sequenceValue of "message_id"; 0 when there is no document
    clock,     \* Instant.now()
    messages,  \* the collection of messages, by id
    files,     \* the pictures, by the id in their name: who uploaded each
    topic,     \* the messages announced in each chat
    latest,    \* latest_message of each chat
    req        \* the request each thread works on

vars == <<counter, clock, messages, files, topic, latest, req>>

Ids == 1..MaxId
Message == [id : Ids, chat : Chats, by : Requests, at : Nat]

ASSUME ChatAssumption == /\ Steps \subseteq Nat
                         /\ MaxId \in Nat \ {0}
                         /\ Warm \in BOOLEAN
                         /\ None \notin Chats \cup Requests \cup Message

Stages == {"idle", "count", "first", "upload", "stamp", "save", "announce", "latest"}

\* A request; id is 0 until it has a number.
Request == [pc : Stages, chat : Chats \cup {None}, media : BOOLEAN,
            id : 0..MaxId, at : Nat]
Idle == [pc |-> "idle", chat |-> None, media |-> FALSE, id |-> 0, at |-> 0]

\* The message a request has built.
Built(r) == [id |-> req[r].id, chat |-> req[r].chat, by |-> r, at |-> req[r].at]

Init == /\ counter = IF Warm THEN 1 ELSE 0
        /\ clock = 0
        /\ messages = [i \in Ids |-> None]
        /\ files = [i \in Ids |-> None]
        /\ topic = [c \in Chats |-> {}]
        /\ latest = [c \in Chats |-> None]
        /\ req = [r \in Requests |-> Idle]

At(r, stage) == req[r].pc = stage
GoTo(r, stage) == req' = [req EXCEPT ![r].pc = stage]
End(r) == req' = [req EXCEPT ![r] = Idle]
-----------------------------------------------------------------------------
(***************************************************************************)
(* createMessage, one action per call                                      *)
(***************************************************************************)
\* The bound MaxId: a request starts only when a number is left for it.
Room == counter + Cardinality({q \in Requests : At(q, "count")}) < MaxId

Find(r, c) == /\ At(r, "idle")
              /\ Room
              /\ \E m \in BOOLEAN :
                   req' = [req EXCEPT ![r] = [pc |-> "count", chat |-> c, media |-> m,
                                              id |-> 0, at |-> 0]]
              /\ UNCHANGED <<counter, clock, messages, files, topic, latest>>

\* The number is known: a message with a picture is uploaded first.
Number(r, n) == req' = [req EXCEPT ![r] =
                   [@ EXCEPT !.pc = IF req[r].media THEN "upload" ELSE "stamp",
                             !.id = n]]

\* Slip: the update of findAndModify is lost, the number is still answered.
Count_NoInc(r) == /\ At(r, "count")
                  /\ counter > 0
                  /\ Number(r, counter + 1)
                  /\ UNCHANGED <<counter, clock, messages, files, topic, latest>>

\* findAndModify: one atomic increment, or null when there is no document.
Count(r) == /\ At(r, "count")
            /\ counter < MaxId
            /\ IF counter = 0
               THEN GoTo(r, "first") /\ UNCHANGED counter
               ELSE Number(r, counter + 1) /\ counter' = counter + 1
            /\ UNCHANGED <<clock, messages, files, topic, latest>>

\* Slip: the request that finds no counter expects another to make it.
FirstCount_Retries(r) == /\ At(r, "first")
                         /\ GoTo(r, "count")
                         /\ UNCHANGED <<counter, clock, messages, files, topic, latest>>

\* save of a new counter: it replaces one that another request has made.
FirstCount(r) == /\ At(r, "first")
                 /\ counter' = 1
                 /\ Number(r, 1)
                 /\ UNCHANGED <<clock, messages, files, topic, latest>>

Upload(r) == /\ At(r, "upload")
             /\ files' = [files EXCEPT ![req[r].id] = r]
             /\ GoTo(r, "stamp")
             /\ UNCHANGED <<counter, clock, messages, topic, latest>>

Stamp(r) == /\ At(r, "stamp")
            /\ \E d \in Steps :
                 /\ clock' = clock + d
                 /\ req' = [req EXCEPT ![r] = [@ EXCEPT !.pc = "save", !.at = clock + d]]
            /\ UNCHANGED <<counter, messages, files, topic, latest>>

\* Slip: the chat is given its latest message before the topic is.
Save_ThenLatest(r) == /\ At(r, "save")
                      /\ messages' = [messages EXCEPT ![req[r].id] = Built(r)]
                      /\ GoTo(r, "latest")
                      /\ UNCHANGED <<counter, clock, files, topic, latest>>

\* save of a message with an id: MongoDB inserts it or replaces that id.
Save(r) == /\ At(r, "save")
           /\ messages' = [messages EXCEPT ![req[r].id] = Built(r)]
           /\ GoTo(r, "announce")
           /\ UNCHANGED <<counter, clock, files, topic, latest>>

Announce(r) == /\ At(r, "announce")
               /\ topic' = [topic EXCEPT ![req[r].chat] = @ \cup {Built(r)}]
               /\ GoTo(r, "latest")
               /\ UNCHANGED <<counter, clock, messages, files, latest>>

\* Slip: the latest message is set where there is none.
SetLatest_Once(r) == /\ At(r, "latest")
                     /\ latest' = [latest EXCEPT ![req[r].chat] =
                                      IF @ = None THEN Built(r) ELSE @]
                     /\ End(r)
                     /\ UNCHANGED <<counter, clock, messages, files, topic>>

\* addLatestMessageToChat
SetLatest(r) == /\ At(r, "latest")
                /\ latest' = [latest EXCEPT ![req[r].chat] = Built(r)]
                /\ End(r)
                /\ UNCHANGED <<counter, clock, messages, files, topic>>

\* Slip: a request that fails gives its number back.
Fail_GivesBack(r) == /\ ~At(r, "idle")
                     /\ counter' = IF req[r].id = 0 THEN counter ELSE counter - 1
                     /\ End(r)
                     /\ UNCHANGED <<clock, messages, files, topic, latest>>

\* A call throws or the process dies: the request ends where it stands.
Fail(r) == /\ ~At(r, "idle")
           /\ End(r)
           /\ UNCHANGED <<counter, clock, messages, files, topic, latest>>

Answer(r) == \/ Count(r) \/ FirstCount(r) \/ Upload(r) \/ Stamp(r)
             \/ Save(r) \/ Announce(r) \/ SetLatest(r)
RequestNext(r) == (\E c \in Chats : Find(r, c)) \/ Answer(r) \/ Fail(r)
Next == \E r \in Requests : RequestNext(r)

Spec == Init /\ [][Next]_vars

\* A thread runs its request; nothing obliges a client to send one.
FairSpec == Spec /\ \A r \in Requests : WF_vars(Answer(r))

\* One request at a time, and no call fails.
Alone(r) == \A q \in Requests \ {r} : At(q, "idle")
CalmNext == \E r \in Requests : Alone(r) /\ ((\E c \in Chats : Find(r, c)) \/ Answer(r))
CalmSpec == Init /\ [][CalmNext]_vars
-----------------------------------------------------------------------------
(***************************************************************************)
(* Properties                                                              *)
(***************************************************************************)
TypeOK == /\ counter \in 0..MaxId
          /\ clock \in Nat
          /\ messages \in [Ids -> Message \cup {None}]
          /\ files \in [Ids -> Requests \cup {None}]
          /\ topic \in [Chats -> SUBSET Message]
          /\ latest \in [Chats -> Message \cup {None}]
          /\ req \in [Requests -> Request]

\* Two requests at work never hold the same number.
DistinctIds == \A r, q \in Requests : req[r].id = req[q].id /\ req[r].id # 0 => r = q

\* A message once stored keeps its id and its content, and so does a picture,
\* although both are saved by upserts.
Keeps == \A i \in Ids : /\ messages[i] # None => messages'[i] = messages[i]
                        /\ files[i] # None => files'[i] = files[i]
NothingOverwritten == [][Keeps]_vars

\* What the subscribers of a chat have been shown, its latest message
\* included, is a message of that chat that the history still holds.
ShownIsStored == \A c \in Chats :
                    /\ \A m \in topic[c] : m.chat = c /\ messages[m.id] = m
                    /\ latest[c] # None => latest[c] \in topic[c]

(***************************************************************************)
(* With the counter in place the following holds in every reachable state  *)
(* and is preserved by every step: the three properties above follow.  A   *)
(* number is above every number in use when it is given, so nothing is     *)
(* stored under it before its own request stores it.                       *)
(***************************************************************************)
Numbered == \A r \in Requests :
               /\ req[r].id <= counter
               /\ req[r].pc \in {"idle", "count"} <=> req[r].id = 0
               /\ req[r].pc # "idle" => req[r].chat \in Chats
               /\ req[r].pc # "first"

NotYetStored == /\ \A i \in Ids : i > counter => messages[i] = None /\ files[i] = None
                /\ \A r \in Requests :
                     /\ req[r].pc \in {"upload", "stamp", "save"} => messages[req[r].id] = None
                     /\ At(r, "upload") => files[req[r].id] = None

StoredOnTheWay == \A r \in Requests :
                     /\ req[r].pc \in {"announce", "latest"} => messages[req[r].id] = Built(r)
                     /\ At(r, "latest") => Built(r) \in topic[req[r].chat]

ChatInv == /\ TypeOK
           /\ counter > 0
           /\ Numbered /\ DistinctIds /\ NotYetStored
           /\ StoredOnTheWay /\ ShownIsStored

\* When the chat is at rest its latest message is the newest in its history.
LatestIsNewest ==
    (\A r \in Requests : At(r, "idle")) =>
        \A i \in Ids : messages[i] # None =>
            LET c == messages[i].chat
            IN  latest[c] # None /\ latest[c].at >= messages[i].at

\* Every request is answered: a message with no picture, a failed upload and
\* the very first number included.
RequestAnswered == \A r \in Requests : ~At(r, "idle") ~> At(r, "idle")
=============================================================================
