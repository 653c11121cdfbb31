----------------------------- MODULE ChatProofs -----------------------------
(***************************************************************************)
(* Proofs about the chat: once the counter document exists, the number of  *)
(* a message is its own, and nothing stored under a number is ever         *)
(* replaced, for any number of requests, chats and failures; a walk back   *)
(* through a chat shows each message once and leaves none out; of requests *)
(* that do not overlap the latest message is the newest; and members are   *)
(* listed where they were said to be added.                                *)
(***************************************************************************)
EXTENDS MCChat, Sequences, FiniteSetTheorems, WellFoundedInduction, TLAPS

\* A step of one request leaves the others' requests as they are.
Others(r) == \A q \in Requests \ {r} : req'[q] = req[q]

LEMMA InitChatInv == ASSUME Warm, Init PROVE ChatInv
<1>1. TypeOK
  BY ChatAssumption DEF Init, TypeOK, Request, Idle, Stages, Ids
<1> QED
  BY <1>1, ChatAssumption
     DEF Init, ChatInv, Numbered, DistinctIds, NotYetStored, StoredOnTheWay,
         ShownIsStored, Idle, At, Ids

LEMMA FindKeeps ==
  ASSUME ChatInv, NEW r \in Requests, NEW c \in Chats, Find(r, c) PROVE ChatInv'
<1> USE DEF ChatInv
<1>1. PICK m \in BOOLEAN :
        req' = [req EXCEPT ![r] = [pc |-> "count", chat |-> c, media |-> m, id |-> 0, at |-> 0]]
  BY DEF Find
<1>2. UNCHANGED <<counter, clock, messages, files, topic, latest>>
  BY DEF Find
<1>5. TypeOK'
  <2>1. [pc |-> "count", chat |-> c, media |-> m, id |-> 0, at |-> 0] \in Request
    BY ChatAssumption DEF Request, Stages
  <2> QED
    BY <1>1, <1>2, <2>1 DEF TypeOK, Ids, Message
<1>6. /\ req'[r].pc = "count" /\ req'[r].id = 0 /\ req'[r].chat = c
      /\ Others(r)
  BY <1>1 DEF TypeOK, Others
<1>7. Numbered'
  BY <1>2, <1>6 DEF Numbered, Others, TypeOK
<1>8. DistinctIds'
  BY <1>6 DEF DistinctIds, Others
<1>9. NotYetStored'
  BY <1>2, <1>6 DEF NotYetStored, Others, At
<1>10. StoredOnTheWay'
  BY <1>2, <1>6 DEF StoredOnTheWay, Others, At, Built
<1>11. ShownIsStored'
  BY <1>2 DEF ShownIsStored
<1> QED
  BY <1>2, <1>5, <1>7, <1>8, <1>9, <1>10, <1>11

LEMMA NumberKeeps ==
  ASSUME ChatInv, NEW r \in Requests, Count(r) PROVE ChatInv'
<1> USE DEF ChatInv
<1> DEFINE n == counter + 1
           next == IF req[r].media THEN "upload" ELSE "stamp"
<1>1. /\ At(r, "count") /\ counter < MaxId
      /\ counter' = n /\ n \in Ids
      /\ req' = [req EXCEPT ![r] = [@ EXCEPT !.pc = next, !.id = n]]
      /\ UNCHANGED <<clock, messages, files, topic, latest>>
  BY ChatAssumption DEF Count, Number, TypeOK, Ids
<1>2. req[r] \in Request /\ req[r].chat \in Chats /\ req[r].at \in Nat
  BY <1>1 DEF TypeOK, Request, Numbered, At
<1>3. /\ req'[r].pc = next /\ req'[r].id = n /\ req'[r].chat = req[r].chat
      /\ req'[r].at = req[r].at /\ Others(r)
  BY <1>1, <1>2 DEF TypeOK, Request, Others
<1>4. next \in {"upload", "stamp"} /\ n \in 1..MaxId /\ n > counter /\ counter \in Nat
  BY <1>1, ChatAssumption DEF TypeOK, Ids
<1> HIDE DEF next, n
<1>5. TypeOK'
  <2>1. [req[r] EXCEPT !.pc = next, !.id = n] \in Request
    <3>1. next \in Stages /\ n \in 0..MaxId
      BY <1>4, ChatAssumption DEF Stages
    <3>2. \A q \in Request : [q EXCEPT !.pc = next] \in Request
      BY <3>1 DEF Request
    <3>3. \A q \in Request : [q EXCEPT !.id = n] \in Request
      BY <3>1 DEF Request
    <3>4. [req[r] EXCEPT !.pc = next, !.id = n] = [[req[r] EXCEPT !.pc = next] EXCEPT !.id = n]
      BY <1>2 DEF Request
    <3> QED
      BY <1>2, <3>2, <3>3, <3>4
  <2>2. req' \in [Requests -> Request]
    BY <1>1, <2>1 DEF TypeOK
  <2>3. counter' \in 0..MaxId
    BY <1>1, <1>4
  <2> QED
    BY <1>1, <2>2, <2>3 DEF TypeOK, Ids, Message
<1>6. \A q \in Requests : req[q].id \in Nat /\ req[q].id <= counter
  BY ChatAssumption DEF TypeOK, Request, Numbered
<1>7. Numbered'
  <2> SUFFICES ASSUME NEW q \in Requests PROVE Numbered!(q)'
    BY DEF Numbered
  <2>1. CASE q = r
    BY <2>1, <1>1, <1>2, <1>3, <1>4
  <2>2. CASE q # r
    BY <2>2, <1>1, <1>3, <1>4, <1>6 DEF Numbered, Others
  <2> QED
    BY <2>1, <2>2
<1>8. DistinctIds'
  BY <1>3, <1>4, <1>6 DEF DistinctIds, Others
<1>9. NotYetStored'
  <2>1. \A i \in Ids : i > counter' => messages'[i] = None /\ files'[i] = None
    BY <1>1, <1>4 DEF NotYetStored, Ids
  <2>2. messages[n] = None /\ files[n] = None
    BY <1>1, <1>4 DEF NotYetStored
  <2> QED
    BY <1>1, <1>3, <2>1, <2>2 DEF NotYetStored, Others, At
<1>10. StoredOnTheWay'
  BY <1>1, <1>3, <1>4 DEF StoredOnTheWay, Others, At, Built
<1>11. ShownIsStored'
  BY <1>1 DEF ShownIsStored
<1> QED
  BY <1>1, <1>4, <1>5, <1>7, <1>8, <1>9, <1>10, <1>11

\* Steps that move a request on and give no number keep what is said of them.
LEMMA MoveKeeps ==
  ASSUME ChatInv, NEW r \in Requests, NEW stage \in Stages,
         req[r].pc \notin {"idle", "count"}, stage \notin {"idle", "count", "first"},
         GoTo(r, stage), UNCHANGED counter
  PROVE  /\ req' \in [Requests -> Request]
         /\ Numbered' /\ DistinctIds'
         /\ req'[r].pc = stage /\ Built(r)' = Built(r)
         /\ req'[r].id = req[r].id /\ req'[r].chat = req[r].chat
         /\ Others(r)
<1> USE DEF ChatInv
<1>1. req' = [req EXCEPT ![r] = [req[r] EXCEPT !.pc = stage]] /\ req[r] \in Request
  BY DEF GoTo, TypeOK
<1>2. /\ req'[r].pc = stage /\ req'[r].id = req[r].id /\ req'[r].chat = req[r].chat
      /\ req'[r].at = req[r].at /\ Others(r)
  BY <1>1 DEF TypeOK, Request, Others
<1>3. [req[r] EXCEPT !.pc = stage] \in Request
  BY <1>1 DEF Request
<1>4. Numbered'
  BY <1>2 DEF Numbered, Others
<1>5. DistinctIds'
  BY <1>2 DEF DistinctIds, Others
<1> QED
  BY <1>1, <1>2, <1>3, <1>4, <1>5 DEF TypeOK, Built

LEMMA UploadKeeps ==
  ASSUME ChatInv, NEW r \in Requests, Upload(r) PROVE ChatInv'
<1> USE DEF ChatInv
<1>1. /\ req[r].pc = "upload" /\ GoTo(r, "stamp")
      /\ files' = [files EXCEPT ![req[r].id] = r]
      /\ UNCHANGED <<counter, clock, messages, topic, latest>>
  BY DEF Upload, At
<1>2. "stamp" \in Stages
  BY DEF Stages
<1>3. /\ req' \in [Requests -> Request] /\ Numbered' /\ DistinctIds'
      /\ req'[r].pc = "stamp" /\ req'[r].id = req[r].id /\ Others(r)
  BY <1>1, <1>2, MoveKeeps
<1>4. req[r].id \in Ids /\ req[r].id <= counter
  BY <1>1, ChatAssumption DEF Numbered, TypeOK, Request, Ids
<1>5. TypeOK'
  BY <1>1, <1>3, <1>4 DEF TypeOK
<1>6. NotYetStored'
  <2>1. \A i \in Ids : i > counter => files'[i] = None
    BY <1>1, <1>4, ChatAssumption DEF NotYetStored, TypeOK, Ids
  <2>2. \A q \in Requests : req'[q].pc = "upload" => files'[req'[q].id] = None
    <3> SUFFICES ASSUME NEW q \in Requests, req'[q].pc = "upload"
                 PROVE  files'[req'[q].id] = None
      OBVIOUS
    <3>1. q # r /\ req'[q] = req[q]
      BY <1>3 DEF Others
    <3>2. req[q].id # req[r].id
      BY <1>4, <3>1, ChatAssumption DEF DistinctIds, Ids
    <3>3. req[q].id \in Ids
      BY <3>1, ChatAssumption DEF Numbered, TypeOK, Request, Ids
    <3>4. files[req[q].id] = None
      BY <3>1 DEF NotYetStored, At
    <3> QED
      BY <1>1, <3>1, <3>2, <3>3, <3>4 DEF TypeOK
  <2> QED
    BY <1>1, <1>3, <2>1, <2>2 DEF NotYetStored, Others, At
<1>7. StoredOnTheWay'
  BY <1>1, <1>3 DEF StoredOnTheWay, Others, At, Built
<1> QED
  BY <1>1, <1>3, <1>5, <1>6, <1>7 DEF ShownIsStored

LEMMA StampKeeps ==
  ASSUME ChatInv, NEW r \in Requests, Stamp(r) PROVE ChatInv'
<1> USE DEF ChatInv
<1>1. PICK d \in Steps : /\ clock' = clock + d
                         /\ req' = [req EXCEPT ![r] = [@ EXCEPT !.pc = "save", !.at = clock + d]]
  BY DEF Stamp
<1>2. /\ req[r].pc = "stamp" /\ req[r] \in Request
      /\ UNCHANGED <<counter, messages, files, topic, latest>>
  BY DEF Stamp, At, TypeOK
<1>3. clock + d \in Nat
  BY ChatAssumption DEF TypeOK
<1>4. /\ req'[r].pc = "save" /\ req'[r].id = req[r].id /\ req'[r].chat = req[r].chat
      /\ Others(r)
  BY <1>1, <1>2 DEF TypeOK, Request, Others
<1>5. TypeOK'
  <2>1. [req[r] EXCEPT !.pc = "save", !.at = clock + d] \in Request
    BY <1>2, <1>3 DEF Request, Stages
  <2> QED
    BY <1>1, <1>2, <1>3, <2>1 DEF TypeOK
<1>6. Numbered'
  BY <1>2, <1>4 DEF Numbered, Others
<1>7. DistinctIds'
  BY <1>4 DEF DistinctIds, Others
<1>8. NotYetStored'
  BY <1>2, <1>4 DEF NotYetStored, Others, At
<1>9. StoredOnTheWay'
  BY <1>2, <1>4 DEF StoredOnTheWay, Others, At, Built
<1> QED
  BY <1>2, <1>5, <1>6, <1>7, <1>8, <1>9 DEF ShownIsStored

LEMMA SaveKeeps ==
  ASSUME ChatInv, NEW r \in Requests, Save(r) PROVE ChatInv'
<1> USE DEF ChatInv
<1>1. /\ req[r].pc = "save" /\ GoTo(r, "announce")
      /\ messages' = [messages EXCEPT ![req[r].id] = Built(r)]
      /\ UNCHANGED <<counter, clock, files, topic, latest>>
  BY DEF Save, At
<1>2. "announce" \in Stages
  BY DEF Stages
<1>3. /\ req' \in [Requests -> Request] /\ Numbered' /\ DistinctIds'
      /\ req'[r].pc = "announce" /\ req'[r].id = req[r].id /\ Built(r)' = Built(r) /\ Others(r)
  BY <1>1, <1>2, MoveKeeps
<1>4. /\ req[r].id \in Ids /\ req[r].id <= counter /\ messages[req[r].id] = None
      /\ Built(r) \in Message /\ Built(r) # None
  <2>1. /\ req[r].id \in Ids /\ req[r].id <= counter /\ messages[req[r].id] = None
        /\ req[r].chat \in Chats /\ req[r].at \in Nat
    BY <1>1, ChatAssumption DEF Numbered, TypeOK, Request, Ids, NotYetStored
  <2> QED
    BY <2>1, ChatAssumption DEF Built, Message
<1>5. TypeOK'
  BY <1>1, <1>3, <1>4 DEF TypeOK
<1>6. NotYetStored'
  <2>1. \A i \in Ids : i > counter => messages'[i] = None
    BY <1>1, <1>4, ChatAssumption DEF NotYetStored, TypeOK, Ids
  <2>2. \A q \in Requests : req'[q].pc \in {"upload", "stamp", "save"} => messages'[req'[q].id] = None
    <3> SUFFICES ASSUME NEW q \in Requests, req'[q].pc \in {"upload", "stamp", "save"}
                 PROVE  messages'[req'[q].id] = None
      OBVIOUS
    <3>1. q # r /\ req'[q] = req[q]
      BY <1>3 DEF Others
    <3>2. req[q].id # req[r].id
      BY <1>4, <3>1, ChatAssumption DEF DistinctIds, Ids
    <3>3. req[q].id \in Ids
      BY <3>1, ChatAssumption DEF Numbered, TypeOK, Request, Ids
    <3>4. messages[req[q].id] = None
      BY <3>1 DEF NotYetStored, At
    <3> QED
      BY <1>1, <3>1, <3>2, <3>3, <3>4 DEF TypeOK
  <2> QED
    BY <1>1, <1>3, <2>1, <2>2 DEF NotYetStored, Others, At
<1>7. StoredOnTheWay'
  <2> SUFFICES ASSUME NEW q \in Requests
               PROVE  /\ req'[q].pc \in {"announce", "latest"} => messages'[req'[q].id] = Built(q)'
                      /\ req'[q].pc = "latest" => Built(q)' \in topic'[req'[q].chat]
    BY DEF StoredOnTheWay, At
  <2>1. CASE q = r
    BY <2>1, <1>1, <1>3, <1>4 DEF TypeOK
  <2>2. CASE q # r
    <3>1. req'[q] = req[q] /\ Built(q)' = Built(q)
      BY <1>3, <2>2 DEF Others, Built
    <3>2. req[q].id # req[r].id
      BY <1>4, <2>2, ChatAssumption DEF DistinctIds, Ids
    <3> QED
      BY <1>1, <1>4, <3>1, <3>2 DEF StoredOnTheWay, At, TypeOK
  <2> QED
    BY <2>1, <2>2
<1>8. ShownIsStored'
  <2> SUFFICES ASSUME NEW c \in Chats, NEW m \in topic[c] PROVE messages'[m.id] = m
    BY <1>1 DEF ShownIsStored
  <2>1. m \in Message /\ m.id \in Ids /\ messages[m.id] = m
    BY DEF ShownIsStored, TypeOK, Message
  <2>2. m.id # req[r].id
    BY <1>4, <2>1, ChatAssumption
  <2> QED
    BY <1>1, <2>1, <2>2 DEF TypeOK
<1> QED
  BY <1>1, <1>3, <1>5, <1>6, <1>7, <1>8

LEMMA AnnounceKeeps ==
  ASSUME ChatInv, NEW r \in Requests, Announce(r) PROVE ChatInv'
<1> USE DEF ChatInv
<1>1. /\ req[r].pc = "announce" /\ GoTo(r, "latest")
      /\ topic' = [topic EXCEPT ![req[r].chat] = @ \cup {Built(r)}]
      /\ UNCHANGED <<counter, clock, messages, files, latest>>
  BY DEF Announce, At
<1>2. "latest" \in Stages
  BY DEF Stages
<1>3. /\ req' \in [Requests -> Request] /\ Numbered' /\ DistinctIds'
      /\ req'[r].pc = "latest" /\ req'[r].id = req[r].id /\ req'[r].chat = req[r].chat
      /\ Built(r)' = Built(r) /\ Others(r)
  BY <1>1, <1>2, MoveKeeps
<1>4. /\ req[r].chat \in Chats /\ Built(r) \in Message
      /\ Built(r).id = req[r].id /\ Built(r).chat = req[r].chat
      /\ messages[req[r].id] = Built(r)
  BY <1>1, ChatAssumption DEF Numbered, TypeOK, Request, Ids, Built, Message, StoredOnTheWay
<1>5. TypeOK'
  BY <1>1, <1>3, <1>4 DEF TypeOK
<1>6. NotYetStored'
  BY <1>1, <1>3 DEF NotYetStored, Others, At
<1>7. /\ Built(r) \in topic'[req[r].chat]
      /\ \A c \in Chats : topic[c] \subseteq topic'[c]
      /\ \A c \in Chats : \A m \in topic'[c] : m \in topic[c] \/ (c = req[r].chat /\ m = Built(r))
  BY <1>1, <1>4 DEF TypeOK
<1>8. StoredOnTheWay'
  <2> SUFFICES ASSUME NEW q \in Requests
               PROVE  /\ req'[q].pc \in {"announce", "latest"} => messages'[req'[q].id] = Built(q)'
                      /\ req'[q].pc = "latest" => Built(q)' \in topic'[req'[q].chat]
    BY DEF StoredOnTheWay, At
  <2>1. CASE q = r
    BY <2>1, <1>1, <1>3, <1>4, <1>7
  <2>2. CASE q # r
    <3>1. req'[q] = req[q] /\ Built(q)' = Built(q)
      BY <1>3, <2>2 DEF Others, Built
    <3>2. req[q].pc = "latest" => req[q].chat \in Chats
      BY DEF Numbered
    <3> QED
      BY <1>1, <1>7, <3>1, <3>2 DEF StoredOnTheWay, At
  <2> QED
    BY <2>1, <2>2
<1>9. ShownIsStored'
  BY <1>1, <1>4, <1>7 DEF ShownIsStored
<1> QED
  BY <1>1, <1>3, <1>5, <1>6, <1>8, <1>9

\* A request that ends leaves nothing to be kept of it.
LEMMA EndKeeps ==
  ASSUME ChatInv, NEW r \in Requests, End(r), UNCHANGED <<counter, messages, files, topic>>
  PROVE  /\ req' \in [Requests -> Request]
         /\ Numbered' /\ DistinctIds' /\ NotYetStored' /\ StoredOnTheWay'
<1> USE DEF ChatInv
<1>1. req' = [req EXCEPT ![r] = Idle]
  BY DEF End
<1>2. Idle \in Request /\ Idle.pc = "idle" /\ Idle.id = 0
  BY ChatAssumption DEF Idle, Request, Stages
<1>3. req'[r] = Idle /\ Others(r)
  BY <1>1 DEF TypeOK, Others
<1>4. Numbered'
  BY <1>2, <1>3 DEF Numbered, Others, TypeOK
<1>5. DistinctIds'
  BY <1>2, <1>3 DEF DistinctIds, Others
<1>6. NotYetStored'
  BY <1>2, <1>3 DEF NotYetStored, Others, At
<1>7. StoredOnTheWay'
  BY <1>2, <1>3 DEF StoredOnTheWay, Others, At, Built
<1> QED
  BY <1>1, <1>2, <1>4, <1>5, <1>6, <1>7 DEF TypeOK

LEMMA SetLatestKeeps ==
  ASSUME ChatInv, NEW r \in Requests, SetLatest(r) PROVE ChatInv'
<1> USE DEF ChatInv
<1>1. /\ req[r].pc = "latest" /\ End(r)
      /\ latest' = [latest EXCEPT ![req[r].chat] = Built(r)]
      /\ UNCHANGED <<counter, clock, messages, files, topic>>
  BY DEF SetLatest, At
<1>2. /\ req[r].chat \in Chats /\ Built(r) \in topic[req[r].chat]
  BY <1>1 DEF Numbered, StoredOnTheWay, At
<1>3. Built(r) \in Message
  BY <1>2 DEF TypeOK
<1>4. TypeOK'
  BY <1>1, <1>2, <1>3, EndKeeps DEF TypeOK
<1>5. ShownIsStored'
  BY <1>1, <1>2 DEF ShownIsStored, TypeOK
<1> QED
  BY <1>1, <1>4, <1>5, EndKeeps

LEMMA FailKeeps ==
  ASSUME ChatInv, NEW r \in Requests, Fail(r) PROVE ChatInv'
<1>1. End(r) /\ UNCHANGED <<counter, clock, messages, files, topic, latest>>
  BY DEF Fail
<1>2. TypeOK'
  BY <1>1, EndKeeps DEF TypeOK, ChatInv
<1> QED
  BY <1>1, <1>2, EndKeeps DEF ChatInv, ShownIsStored

\* With the counter in place no request makes one.
LEMMA NoFirst == ASSUME ChatInv, NEW r \in Requests PROVE ~FirstCount(r)
BY DEF ChatInv, Numbered, FirstCount, At

LEMMA StepKeeps == ChatInv /\ [Next]_vars => ChatInv'
<1> SUFFICES ASSUME ChatInv, [Next]_vars PROVE ChatInv'
  OBVIOUS
<1>1. CASE UNCHANGED vars
  BY <1>1 DEF vars, ChatInv, TypeOK, Numbered, DistinctIds, NotYetStored,
              StoredOnTheWay, ShownIsStored, At, Built
<1>2. CASE Next
  <2> PICK r \in Requests : RequestNext(r)
    BY <1>2 DEF Next
  <2>1. CASE \E c \in Chats : Find(r, c)
    BY <2>1, FindKeeps
  <2>2. CASE Count(r)
    BY <2>2, NumberKeeps
  <2>3. CASE Upload(r)
    BY <2>3, UploadKeeps
  <2>4. CASE Stamp(r)
    BY <2>4, StampKeeps
  <2>5. CASE Save(r)
    BY <2>5, SaveKeeps
  <2>6. CASE Announce(r)
    BY <2>6, AnnounceKeeps
  <2>7. CASE SetLatest(r)
    BY <2>7, SetLatestKeeps
  <2>8. CASE Fail(r)
    BY <2>8, FailKeeps
  <2> QED
    BY <2>1, <2>2, <2>3, <2>4, <2>5, <2>6, <2>7, <2>8, NoFirst DEF RequestNext, Answer
<1> QED
  BY <1>1, <1>2

\* The invariant holds of every run that starts with a counter document.
THEOREM NumbersHold == Warm /\ Spec => []ChatInv
<1>1. Warm /\ Init => ChatInv
  BY InitChatInv
<1> QED
  BY <1>1, StepKeeps, PTL DEF Spec

\* Two posts at work never share a number (generateSequenceValue).
THEOREM NumbersAreDistinct == Warm /\ Spec => []DistinctIds
<1>1. ChatInv => DistinctIds
  BY DEF ChatInv
<1> QED
  BY <1>1, NumbersHold, PTL

\* What a chat shows, its latest message included, is in its history.
THEOREM ShownMessagesAreStored == Warm /\ Spec => []ShownIsStored
<1>1. ChatInv => ShownIsStored
  BY DEF ChatInv
<1> QED
  BY <1>1, NumbersHold, PTL

LEMMA StepKeepsStored == ChatInv /\ [Next]_vars => [Keeps]_vars
<1> SUFFICES ASSUME ChatInv, Next PROVE Keeps
  BY DEF Keeps, vars
<1> PICK r \in Requests : RequestNext(r)
  BY DEF Next
<1>1. CASE Save(r)
  BY <1>1 DEF Save, Keeps, At, ChatInv, NotYetStored, TypeOK
<1>2. CASE Upload(r)
  BY <1>2 DEF Upload, Keeps, At, ChatInv, NotYetStored, TypeOK
<1>3. CASE UNCHANGED <<messages, files>>
  BY <1>3 DEF Keeps
<1> QED
  BY <1>1, <1>2, <1>3 DEF RequestNext, Answer, Find, Count, FirstCount, Stamp,
                          Announce, SetLatest, Fail

\* No message and no picture is ever replaced, although both are saved by
\* upserts under the number of the message.
THEOREM NothingIsOverwritten == Warm /\ Spec => NothingOverwritten
BY NumbersHold, StepKeepsStored, PTL DEF Spec, NothingOverwritten
-----------------------------------------------------------------------------
(***************************************************************************)
(* Members.  A thread that is at "list" has saved the row of its member,   *)
(* one at "send" has put it into the array, and the members it has dealt   *)
(* with have been announced: rows, arrays and events only grow, so that    *)
(* what other threads do takes none of it away.                            *)
(***************************************************************************)
\* The lists of requests are lists of users.
MemberBounds == Lists \subseteq Seq(People) /\ MaxRows \in Nat

AddRequest == [pc : {"idle", "create", "save", "list", "send"}, chat : Groups \cup {None},
               list : Seq(People), done : Nat]

AddTypeOK == /\ chats \subseteq avatars /\ avatars \subseteq Groups
             /\ rows \in [Groups -> [People -> 0..MaxRows]]
             /\ ids \in [Groups -> SUBSET People]
             /\ events \subseteq Groups \X People
             /\ told \subseteq Groups \X Seq(People)
             /\ adding \in [Requests -> AddRequest]

RowsFirst == \A k \in Groups : \A u \in ids[k] : rows[k][u] > 0
ArraysFirst == \A k \in Groups, u \in People : <<k, u>> \in events => u \in ids[k]
ToldAreSent == \A k \in Groups, s \in Seq(People) :
                  <<k, s>> \in told => \A i \in 1..Len(s) : <<k, s[i]>> \in events

\* What holds of a thread, its request being q.
Adding(q) == /\ q.pc # "idle" => q.chat \in Groups
             /\ q.pc = "create" => q.chat \in avatars
             /\ q.done <= Len(q.list)
             /\ q.pc \in {"list", "send"} => q.done < Len(q.list)
             /\ q.pc = "list" => rows[q.chat][q.list[q.done + 1]] > 0
             /\ q.pc = "send" => q.list[q.done + 1] \in ids[q.chat]
             /\ q.pc # "idle" => \A i \in 1..q.done : <<q.chat, q.list[i]>> \in events

MembersInv == /\ AddTypeOK
              /\ RowsFirst /\ ArraysFirst /\ ToldAreSent
              /\ \A t \in Requests : Adding(adding[t])

\* No step takes a row, a member of an array or an event away.
Grows == /\ \A k \in Groups, u \in People : rows'[k][u] >= rows[k][u]
         /\ \A k \in Groups : ids[k] \subseteq ids'[k]
         /\ events \subseteq events' /\ avatars \subseteq avatars'

\* So what holds of a request still does when others have moved.
LEMMA GrowthKeeps ==
  ASSUME AddTypeOK, AddTypeOK', Grows, NEW q \in AddRequest, Adding(q)
  PROVE  Adding(q)'
<1>1. q.list \in Seq(People) /\ q.done \in Nat /\ q.chat \in Groups \cup {None}
  BY DEF AddRequest
<1>2. q.pc = "list" => rows'[q.chat][q.list[q.done + 1]] > 0
  <2> SUFFICES ASSUME q.pc = "list" PROVE rows'[q.chat][q.list[q.done + 1]] > 0
    OBVIOUS
  <2> DEFINE k == q.chat
             u == q.list[q.done + 1]
  <2>1. k \in Groups /\ u \in People /\ rows[k][u] > 0
    BY <1>1 DEF Adding
  <2>2. rows[k][u] \in Nat /\ rows'[k][u] \in Nat /\ rows'[k][u] >= rows[k][u]
    BY <2>1 DEF AddTypeOK, Grows
  <2> QED
    BY <2>1, <2>2
<1>3. q.pc = "send" => q.list[q.done + 1] \in ids'[q.chat]
  BY <1>1 DEF Adding, Grows
<1> QED
  BY <1>2, <1>3 DEF Adding, Grows

\* A step of thread t: what it writes keeps the sets in order, and its own
\* request holds.
LEMMA ThreadKeeps ==
  ASSUME MembersInv, NEW t \in Requests, NEW q \in AddRequest,
         adding' = [adding EXCEPT ![t] = q],
         AddTypeOK', Grows, Adding(q)', RowsFirst', ArraysFirst', ToldAreSent'
  PROVE  MembersInv'
<1>1. \A s \in Requests \ {t} : adding'[s] = adding[s] /\ adding[s] \in AddRequest
  BY DEF MembersInv, AddTypeOK
<1>2. \A p \in AddRequest : Adding(p) => Adding(p)'
  BY GrowthKeeps DEF MembersInv
<1>3. \A s \in Requests \ {t} : Adding(adding[s])'
  <2> SUFFICES ASSUME NEW s \in Requests \ {t} PROVE Adding(adding[s])'
    OBVIOUS
  <2> DEFINE p == adding[s]
  <2>1. p \in AddRequest /\ Adding(p)
    BY <1>1 DEF MembersInv
  <2>2. p' = p
    BY <1>1
  <2> QED
    BY <1>2, <2>1, <2>2 DEF Adding
<1>4. Adding(adding[t])'
  BY DEF Adding, MembersInv, AddTypeOK
<1> QED
  BY <1>3, <1>4 DEF MembersInv

\* A request that writes nothing but itself.
LEMMA QuietKeeps ==
  ASSUME MembersInv, NEW t \in Requests, NEW q \in AddRequest, Adding(q),
         adding' = [adding EXCEPT ![t] = q],
         UNCHANGED <<avatars, chats, rows, ids, events, told>>
  PROVE  MembersInv'
<1>1. AddTypeOK'
  BY DEF MembersInv, AddTypeOK
<1>2. Grows
  BY DEF MembersInv, AddTypeOK, Grows
<1>3. Adding(q)'
  BY <1>1, <1>2, GrowthKeeps DEF MembersInv
<1>4. RowsFirst' /\ ArraysFirst' /\ ToldAreSent'
  BY DEF MembersInv, RowsFirst, ArraysFirst, ToldAreSent
<1> QED
  BY <1>1, <1>2, <1>3, <1>4, ThreadKeeps

LEMMA IdleHolds == Members!Idle \in AddRequest /\ Adding(Members!Idle)
<1>1. <<>> \in Seq(People)
  OBVIOUS
<1> QED
  BY <1>1 DEF AddRequest, Members!Idle, Adding

LEMMA FailedKeeps ==
  ASSUME MembersInv, NEW t \in Requests, Members!Fail(t) PROVE MembersInv'
<1> PICK q \in AddRequest : q = Members!Idle
  BY IdleHolds
<1> QED
  BY IdleHolds, QuietKeeps DEF Members!Fail, Members!End

LEMMA AddKeeps ==
  ASSUME MembersInv, Lists \subseteq Seq(People),
         NEW t \in Requests, NEW k \in Groups, NEW list \in Lists, Members!Add(t, k, list)
  PROVE  MembersInv'
<1> DEFINE q == [pc |-> "save", chat |-> k, list |-> list, done |-> 0]
<1>1. q \in AddRequest
  BY DEF AddRequest
<1>2. Adding(q)
  BY DEF Adding
<1>3. adding' = [adding EXCEPT ![t] = q] /\ UNCHANGED <<avatars, chats, rows, ids, events, told>>
  BY DEF Members!Add
<1> HIDE DEF q
<1> QED
  BY <1>1, <1>2, <1>3, QuietKeeps

LEMMA ChatUploadKeeps ==
  ASSUME MembersInv, NEW t \in Requests, NEW k \in Groups, Members!Upload(t, k)
  PROVE  MembersInv'
<1> DEFINE q == [pc |-> "create", chat |-> k, list |-> <<>>, done |-> 0]
<1>1. <<>> \in Seq(People) /\ Len(<<>>) = 0
  OBVIOUS
<1>2. q \in AddRequest
  BY <1>1 DEF AddRequest
<1>3. /\ adding' = [adding EXCEPT ![t] = q] /\ avatars' = avatars \cup {k}
      /\ UNCHANGED <<chats, rows, ids, events, told>>
  <2> DEFINE begun == [pc |-> "create", chat |-> None, list |-> <<>>, done |-> 0]
  <2>1. /\ [Members!Idle EXCEPT !.pc = "create"] = begun
        /\ [begun EXCEPT !.chat = k] = q
    BY DEF Members!Idle
  <2>2. [Members!Idle EXCEPT !.pc = "create", !.chat = k]
           = [[Members!Idle EXCEPT !.pc = "create"] EXCEPT !.chat = k]
    OBVIOUS
  <2> QED
    BY <2>1, <2>2 DEF Members!Upload
<1>4. Adding(q)'
  BY <1>1, <1>3 DEF Adding
<1> HIDE DEF q
<1>5. AddTypeOK'
  BY <1>2, <1>3 DEF MembersInv, AddTypeOK
<1>6. Grows
  BY <1>3 DEF MembersInv, AddTypeOK, Grows
<1>7. RowsFirst' /\ ArraysFirst' /\ ToldAreSent'
  BY <1>3 DEF MembersInv, RowsFirst, ArraysFirst, ToldAreSent
<1> QED
  BY <1>2, <1>3, <1>4, <1>5, <1>6, <1>7, ThreadKeeps

LEMMA SaveChatKeeps ==
  ASSUME MembersInv, NEW t \in Requests, Members!SaveChat(t) PROVE MembersInv'
<1> PICK q \in AddRequest : q = Members!Idle
  BY IdleHolds
<1>1. /\ adding' = [adding EXCEPT ![t] = q] /\ chats' = chats \cup {adding[t].chat}
      /\ UNCHANGED <<avatars, rows, ids, events, told>>
  BY DEF Members!SaveChat, Members!End, Members!Chat
<1>2. adding[t].chat \in avatars
  BY DEF MembersInv, Adding, Members!SaveChat, Members!At
<1>3. AddTypeOK'
  BY <1>1, <1>2 DEF MembersInv, AddTypeOK
<1>4. Grows
  BY <1>1 DEF MembersInv, AddTypeOK, Grows
<1>5. Adding(q)'
  BY <1>3, <1>4, IdleHolds, GrowthKeeps DEF MembersInv
<1>6. RowsFirst' /\ ArraysFirst' /\ ToldAreSent'
  BY <1>1 DEF MembersInv, RowsFirst, ArraysFirst, ToldAreSent
<1> QED
  BY <1>1, <1>3, <1>4, <1>5, <1>6, ThreadKeeps

\* The member a thread is at, and the request it goes on with.
LEMMA MemberIsUser ==
  ASSUME MembersInv, NEW t \in Requests, adding[t].pc # "idle", Members!More(t)
  PROVE  /\ adding[t] \in AddRequest /\ Adding(adding[t])
         /\ adding[t].chat \in Groups /\ Members!Member(t) \in People
         /\ adding[t].list \in Seq(People) /\ adding[t].done \in Nat
         /\ adding[t].done + 1 \in 1..Len(adding[t].list)
         /\ Members!Member(t) = adding[t].list[adding[t].done + 1]
<1>1. adding[t] \in AddRequest /\ Adding(adding[t])
  BY DEF MembersInv, AddTypeOK
<1>2. /\ adding[t].chat \in Groups
      /\ adding[t].list \in Seq(People) /\ adding[t].done \in Nat
  BY <1>1 DEF AddRequest, Adding
<1>3. adding[t].done + 1 \in 1..Len(adding[t].list)
  BY <1>2 DEF Members!More
<1> QED
  BY <1>1, <1>2, <1>3 DEF Members!Member

LEMMA AddedKeeps ==
  ASSUME MembersInv, NEW t \in Requests, Members!Added(t) PROVE MembersInv'
<1> PICK q \in AddRequest : q = Members!Idle
  BY IdleHolds
<1> DEFINE k == adding[t].chat
           s == adding[t].list
<1>1. /\ adding' = [adding EXCEPT ![t] = q] /\ told' = told \cup {<<k, s>>}
      /\ UNCHANGED <<avatars, chats, rows, ids, events>>
      /\ adding[t].pc = "save" /\ ~(adding[t].done < Len(s))
  BY DEF Members!Added, Members!End, Members!Chat, Members!At, Members!More
<1>2. adding[t] \in AddRequest /\ Adding(adding[t])
  BY DEF MembersInv, AddTypeOK
<1>3. /\ k \in Groups /\ s \in Seq(People) /\ adding[t].done = Len(s)
      /\ \A i \in 1..Len(s) : <<k, s[i]>> \in events
  BY <1>1, <1>2 DEF AddRequest, Adding
<1> HIDE DEF k, s
<1>4. AddTypeOK'
  BY <1>1, <1>3 DEF MembersInv, AddTypeOK
<1>5. Grows
  BY <1>1 DEF MembersInv, AddTypeOK, Grows
<1>6. Adding(q)'
  BY <1>4, <1>5, IdleHolds, GrowthKeeps DEF MembersInv
<1>7. ToldAreSent'
  BY <1>1, <1>3 DEF MembersInv, ToldAreSent
<1>8. RowsFirst' /\ ArraysFirst'
  BY <1>1 DEF MembersInv, RowsFirst, ArraysFirst
<1> QED
  BY <1>1, <1>4, <1>5, <1>6, <1>7, <1>8, ThreadKeeps

\* A step that moves a thread on to another stage.
LEMMA GotoMoves ==
  ASSUME MembersInv, NEW t \in Requests, Members!Goto(t, "list") \/ Members!Goto(t, "send")
  PROVE  \E q \in AddRequest :
            /\ adding' = [adding EXCEPT ![t] = q]
            /\ q.chat = adding[t].chat /\ q.list = adding[t].list /\ q.done = adding[t].done
            /\ Members!Goto(t, "list") => q.pc = "list"
            /\ Members!Goto(t, "send") => q.pc = "send"
<1>1. adding[t] \in AddRequest
  BY DEF MembersInv, AddTypeOK
<1>2. CASE Members!Goto(t, "list")
  <2>1. ~Members!Goto(t, "send")
    BY <1>1, <1>2 DEF Members!Goto, MembersInv, AddTypeOK, AddRequest
  <2>2. [adding[t] EXCEPT !.pc = "list"] \in AddRequest
    BY <1>1 DEF AddRequest
  <2> QED
    BY <1>1, <1>2, <2>1, <2>2 DEF Members!Goto, AddRequest
<1>3. CASE Members!Goto(t, "send")
  <2>1. ~Members!Goto(t, "list")
    BY <1>1, <1>3 DEF Members!Goto, MembersInv, AddTypeOK, AddRequest
  <2>2. [adding[t] EXCEPT !.pc = "send"] \in AddRequest
    BY <1>1 DEF AddRequest
  <2> QED
    BY <1>1, <1>3, <2>1, <2>2 DEF Members!Goto, AddRequest
<1> QED
  BY <1>2, <1>3

LEMMA RowKeeps ==
  ASSUME MembersInv, MaxRows \in Nat, NEW t \in Requests, Members!Save(t) PROVE MembersInv'
<1> DEFINE k == adding[t].chat
           u == Members!Member(t)
<1>1. /\ adding[t].pc = "save" /\ Members!More(t) /\ rows[k][u] < MaxRows
      /\ rows' = [rows EXCEPT ![k][u] = @ + 1]
      /\ Members!Goto(t, "list")
      /\ UNCHANGED <<avatars, chats, ids, events, told>>
  BY DEF Members!Save, Members!At, Members!Chat
<1>2. PICK q \in AddRequest :
        /\ adding' = [adding EXCEPT ![t] = q] /\ q.pc = "list"
        /\ q.chat = k /\ q.list = adding[t].list /\ q.done = adding[t].done
  BY <1>1, GotoMoves
<1>3. /\ k \in Groups /\ u \in People /\ u = q.list[q.done + 1]
      /\ Adding(adding[t]) /\ q.done \in Nat /\ q.done + 1 \in 1..Len(q.list)
  BY <1>1, <1>2, MemberIsUser
<1> HIDE DEF k, u
<1>4. rows[k] \in [People -> 0..MaxRows] /\ rows[k][u] \in 0..MaxRows
  BY <1>3 DEF MembersInv, AddTypeOK
<1>5. /\ rows' \in [Groups -> [People -> 0..MaxRows]]
      /\ rows'[k][u] = rows[k][u] + 1
      /\ \A j \in Groups, v \in People : j # k \/ v # u => rows'[j][v] = rows[j][v]
  <2> DEFINE row == [rows[k] EXCEPT ![u] = @ + 1]
  <2>1. rows' = [rows EXCEPT ![k] = row]
    BY <1>1
  <2>2. /\ row \in [People -> 0..MaxRows] /\ row[u] = rows[k][u] + 1
        /\ \A v \in People \ {u} : row[v] = rows[k][v]
    BY <1>1, <1>3, <1>4
  <2> HIDE DEF row
  <2> QED
    BY <1>3, <2>1, <2>2 DEF MembersInv, AddTypeOK
<1>6. AddTypeOK'
  BY <1>1, <1>2, <1>5 DEF MembersInv, AddTypeOK
<1>7. \A j \in Groups, v \in People : rows[j][v] \in Nat /\ rows'[j][v] >= rows[j][v]
  <2> SUFFICES ASSUME NEW j \in Groups, NEW v \in People
               PROVE  rows[j][v] \in Nat /\ rows'[j][v] >= rows[j][v]
    OBVIOUS
  <2>1. rows[j][v] \in 0..MaxRows
    BY DEF MembersInv, AddTypeOK
  <2>2. CASE j = k /\ v = u
    BY <1>4, <1>5, <2>1, <2>2
  <2>3. CASE j # k \/ v # u
    BY <1>5, <2>1, <2>3
  <2> QED
    BY <2>2, <2>3
<1>8. Grows
  BY <1>1, <1>7 DEF Grows
<1>9. Adding(q)'
  <2>1. \A i \in 1..q.done : <<q.chat, q.list[i]>> \in events'
    BY <1>1, <1>2, <1>3 DEF Adding, k
  <2>2. rows'[q.chat][q.list[q.done + 1]] > 0
    BY <1>2, <1>3, <1>4, <1>5
  <2> QED
    BY <1>2, <1>3, <2>1, <2>2 DEF Adding
<1>10. RowsFirst'
  <2> SUFFICES ASSUME NEW j \in Groups, NEW v \in ids[j] PROVE rows'[j][v] > 0
    BY <1>1 DEF RowsFirst
  <2>1. v \in People /\ rows[j][v] > 0 /\ rows[j][v] \in 0..MaxRows
    BY DEF MembersInv, AddTypeOK, RowsFirst
  <2>2. rows'[j][v] \in 0..MaxRows
    BY <1>5, <2>1
  <2> QED
    BY <1>7, <2>1, <2>2
<1>11. ArraysFirst' /\ ToldAreSent'
  BY <1>1 DEF MembersInv, ArraysFirst, ToldAreSent
<1> QED
  BY <1>2, <1>6, <1>8, <1>9, <1>10, <1>11, ThreadKeeps

LEMMA ArrayKeeps ==
  ASSUME MembersInv, NEW t \in Requests, Members!AddToSet(t) PROVE MembersInv'
<1> DEFINE k == adding[t].chat
           u == Members!Member(t)
<1>1. /\ adding[t].pc = "list"
      /\ ids' = [ids EXCEPT ![k] = @ \cup {u}]
      /\ Members!Goto(t, "send")
      /\ UNCHANGED <<avatars, chats, rows, events, told>>
  BY DEF Members!AddToSet, Members!At, Members!Chat
<1>2. PICK q \in AddRequest :
        /\ adding' = [adding EXCEPT ![t] = q] /\ q.pc = "send"
        /\ q.chat = k /\ q.list = adding[t].list /\ q.done = adding[t].done
  BY <1>1, GotoMoves
<1>3. Members!More(t)
  BY <1>1 DEF MembersInv, Adding, Members!More
<1>4. /\ k \in Groups /\ u \in People /\ u = q.list[q.done + 1]
      /\ Adding(adding[t]) /\ q.done \in Nat /\ q.done + 1 \in 1..Len(q.list)
  BY <1>1, <1>2, <1>3, MemberIsUser
<1>5. rows[k][u] > 0
  BY <1>1, <1>2, <1>4 DEF Adding
<1> HIDE DEF k, u
<1>6. AddTypeOK'
  BY <1>1, <1>2, <1>4 DEF MembersInv, AddTypeOK
<1>7. \A j \in Groups, v \in People : rows[j][v] \in Nat
  BY DEF MembersInv, AddTypeOK
<1>8. Grows
  BY <1>1, <1>7 DEF Grows, MembersInv, AddTypeOK
<1>9. Adding(q)'
  <2>1. \A i \in 1..q.done : <<q.chat, q.list[i]>> \in events'
    BY <1>1, <1>2, <1>4 DEF Adding, k
  <2>2. q.list[q.done + 1] \in ids'[q.chat]
    BY <1>1, <1>2, <1>4 DEF MembersInv, AddTypeOK
  <2> QED
    BY <1>2, <1>4, <2>1, <2>2 DEF Adding
<1>10. RowsFirst'
  BY <1>1, <1>4, <1>5 DEF RowsFirst, MembersInv, AddTypeOK
<1>11. ArraysFirst' /\ ToldAreSent'
  BY <1>1, <1>4 DEF MembersInv, AddTypeOK, ArraysFirst, ToldAreSent
<1> QED
  BY <1>2, <1>6, <1>8, <1>9, <1>10, <1>11, ThreadKeeps

LEMMA SendKeeps ==
  ASSUME MembersInv, NEW t \in Requests, Members!Send(t) PROVE MembersInv'
<1> DEFINE k == adding[t].chat
           u == Members!Member(t)
<1>1. /\ adding[t].pc = "send"
      /\ events' = events \cup {<<k, u>>}
      /\ adding' = [adding EXCEPT ![t].pc = "save", ![t].done = @ + 1]
      /\ UNCHANGED <<avatars, chats, rows, ids, told>>
  BY DEF Members!Send, Members!At, Members!Chat
<1>2. Members!More(t)
  BY <1>1 DEF MembersInv, Adding, Members!More
<1>3. /\ adding[t] \in AddRequest /\ Adding(adding[t])
      /\ k \in Groups /\ u \in People /\ u = adding[t].list[adding[t].done + 1]
      /\ adding[t].done \in Nat /\ adding[t].done + 1 \in 1..Len(adding[t].list)
  BY <1>1, <1>2, MemberIsUser
<1>4. PICK q \in AddRequest :
        /\ adding' = [adding EXCEPT ![t] = q] /\ q.pc = "save"
        /\ q.chat = k /\ q.list = adding[t].list /\ q.done = adding[t].done + 1
  <2> DEFINE q == [pc |-> "save", chat |-> k, list |-> adding[t].list, done |-> adding[t].done + 1]
             sent == [pc |-> "save", chat |-> k, list |-> adding[t].list, done |-> adding[t].done]
  <2>1. [adding[t] EXCEPT !.pc = "save"] = sent
    BY <1>3 DEF AddRequest
  <2>2. [sent EXCEPT !.done = @ + 1] = q
    OBVIOUS
  <2>3. q \in AddRequest
    BY <1>3 DEF AddRequest
  <2>4. adding \in [Requests -> AddRequest]
    BY DEF MembersInv, AddTypeOK
  <2> DEFINE mid == [adding EXCEPT ![t] = sent]
  <2>5. [adding EXCEPT ![t].pc = "save"] = mid
    BY <2>1, <2>4
  <2>6. [mid EXCEPT ![t].done = @ + 1] = [adding EXCEPT ![t] = q]
    BY <2>2, <2>4
  <2>7. adding' = [[adding EXCEPT ![t].pc = "save"] EXCEPT ![t].done = @ + 1]
    BY <1>1
  <2> QED
    BY <2>3, <2>5, <2>6, <2>7
<1>5. u \in ids[k]
  BY <1>1, <1>3 DEF Adding
<1> HIDE DEF k, u
<1>6. AddTypeOK'
  <2>1. adding' \in [Requests -> AddRequest]
    BY <1>4 DEF MembersInv, AddTypeOK
  <2>2. events' \subseteq Groups \X People
    BY <1>1, <1>3 DEF MembersInv, AddTypeOK
  <2>3. UNCHANGED <<avatars, chats, rows, ids, told>>
    BY <1>1
  <2> QED
    BY <2>1, <2>2, <2>3 DEF MembersInv, AddTypeOK
<1>7. \A j \in Groups, v \in People : rows[j][v] \in Nat
  BY DEF MembersInv, AddTypeOK
<1>8. Grows
  BY <1>1, <1>7 DEF Grows, MembersInv, AddTypeOK
<1>9. Adding(q)'
  <2>1. \A i \in 1..adding[t].done : <<k, q.list[i]>> \in events'
    BY <1>1, <1>3, <1>4 DEF Adding, k
  <2>2. <<k, q.list[q.done]>> \in events'
    BY <1>1, <1>3, <1>4
  <2>3. \A i \in 1..q.done : i \in 1..adding[t].done \/ i = q.done
    BY <1>3, <1>4
  <2> QED
    BY <1>3, <1>4, <2>1, <2>2, <2>3 DEF Adding
<1>10. ArraysFirst'
  BY <1>1, <1>5 DEF ArraysFirst, MembersInv
<1>11. RowsFirst' /\ ToldAreSent'
  BY <1>1 DEF MembersInv, RowsFirst, ToldAreSent
<1> QED
  BY <1>4, <1>6, <1>8, <1>9, <1>10, <1>11, ThreadKeeps

LEMMA MembersKeep ==
  ASSUME MemberBounds PROVE MembersInv /\ [Members!Next]_(Members!vars) => MembersInv'
<1> SUFFICES ASSUME MembersInv, [Members!Next]_(Members!vars) PROVE MembersInv'
  OBVIOUS
<1>1. CASE UNCHANGED Members!vars
  BY <1>1 DEF Members!vars, MembersInv, AddTypeOK, RowsFirst, ArraysFirst, ToldAreSent, Adding
<1>2. CASE Members!Next
  <2> PICK t \in Requests : Members!Begin(t) \/ Members!Continue(t) \/ Members!Fail(t)
    BY <1>2 DEF Members!Next
  <2>1. CASE Members!Begin(t)
    BY <2>1, AddKeeps, ChatUploadKeeps DEF Members!Begin, MemberBounds
  <2>2. CASE Members!Continue(t)
    BY <2>2, SaveChatKeeps, RowKeeps, ArrayKeeps, SendKeeps, AddedKeeps
       DEF Members!Continue, MemberBounds
  <2>3. CASE Members!Fail(t)
    BY <2>3, FailedKeeps
  <2> QED
    BY <2>1, <2>2, <2>3
<1> QED
  BY <1>1, <1>2

LEMMA MembersBegin == ASSUME MemberBounds, Members!Init PROVE MembersInv
<1>1. AddTypeOK
  BY IdleHolds DEF Members!Init, AddTypeOK, MemberBounds
<1>2. \A t \in Requests : adding[t] = Members!Idle
  BY DEF Members!Init
<1> QED
  BY <1>1, <1>2, IdleHolds DEF MembersInv, Members!Init, RowsFirst, ArraysFirst, ToldAreSent

LEMMA MembersInvariant == ASSUME MemberBounds PROVE Members!Spec => []MembersInv
<1>1. Members!Init => MembersInv
  BY MembersBegin
<1>2. MembersInv /\ [Members!Next]_(Members!vars) => MembersInv'
  BY MembersKeep
<1> QED
  BY <1>1, <1>2, PTL DEF Members!Spec

\* A user whose list of chats shows a chat is in its list of members, whatever
\* fails between the row and the array (ChatMemberService.addChatMemberList).
THEOREM ArraysHaveRows == ASSUME MemberBounds PROVE Members!Spec => []IdsHaveRows
<1>1. MembersInv => IdsHaveRows
  BY DEF MembersInv, AddTypeOK, AddRequest, RowsFirst, IdsHaveRows, Members!IdsHaveRows,
         Members!TypeOK
<1> QED
  BY <1>1, MembersInvariant, PTL

\* Members announced or answered as added stay in the array of the chat,
\* whatever other requests for the same chat do meanwhile.
THEOREM AddedStayListed == ASSUME MemberBounds PROVE Members!Spec => []AddedIsListed
<1>1. MembersInv => AddedIsListed
  <2> SUFFICES ASSUME MembersInv PROVE AddedIsListed
    OBVIOUS
  <2>1. \A e \in events : e[2] \in ids[e[1]]
    BY DEF MembersInv, AddTypeOK, ArraysFirst
  <2>2. \A a \in told : \A i \in DOMAIN a[2] : <<a[1], a[2][i]>> \in events
    BY DEF MembersInv, AddTypeOK, ToldAreSent
  <2> QED
    BY <2>1, <2>2 DEF AddedIsListed, Members!AddedIsListed
<1> QED
  BY <1>1, MembersInvariant, PTL
-----------------------------------------------------------------------------
(***************************************************************************)
(* One request at a time, from a database with or without a counter.  The  *)
(* request at work has the latest stamp of all, so the message it copies   *)
(* into its chat is no older than any the chat holds; until it has copied  *)
(* it, the chat may hold one message newer than its latest: that one.      *)
(***************************************************************************)
OneAtATime == \A r, q \in Requests : ~At(r, "idle") /\ ~At(q, "idle") => r = q

Written == {"announce", "latest"}

\* What holds of a request.
AtWork(r) == /\ req[r].pc # "idle" => req[r].chat \in Chats
             /\ req[r].pc \notin {"idle", "count", "first"} => req[r].id \in Ids
             /\ req[r].pc \in Written \cup {"save"} => req[r].at = clock

\* The message is no newer than the latest of its chat, or its request is
\* still at work.
Covered(m) == \/ latest[m.chat] # None /\ latest[m.chat].at >= m.at
              \/ \E r \in Requests : req[r].pc \in Written /\ req[r].chat = m.chat

CalmInv == /\ TypeOK
           /\ OneAtATime
           /\ \A r \in Requests : AtWork(r)
           /\ \A i \in Ids : messages[i] # None => messages[i].at <= clock /\ Covered(messages[i])

LEMMA EmptyBeginsCalm == ASSUME Empty!Init PROVE CalmInv
<1>1. /\ counter = 0 /\ clock = 0
      /\ messages = [i \in Ids |-> None] /\ files = [i \in Ids |-> None]
      /\ topic = [c \in Chats |-> {}] /\ latest = [c \in Chats |-> None]
      /\ req = [r \in Requests |-> Idle]
  BY DEF Empty!Init, Empty!Ids, Empty!Idle, Ids, Idle
<1>2. Idle \in Request /\ Idle.pc = "idle"
  BY ChatAssumption DEF Idle, Request, Stages
<1>3. TypeOK
  BY <1>1, <1>2, ChatAssumption DEF TypeOK
<1> QED
  BY <1>1, <1>2, <1>3 DEF CalmInv, OneAtATime, AtWork, At, Written

\* A step of the one request at work that stores nothing and sets no latest
\* message; q is what becomes of the request.
LEMMA CalmMoves ==
  ASSUME CalmInv, NEW r \in Requests, Alone(r), NEW q \in Request,
         req' = [req EXCEPT ![r] = q],
         TypeOK', UNCHANGED <<messages, latest>>, clock' >= clock,
         q.pc # "idle" => q.chat \in Chats,
         q.pc \notin {"idle", "count", "first"} => q.id \in Ids,
         q.pc \in Written \cup {"save"} => q.at = clock',
         req[r].pc \in Written => q.pc \in Written /\ q.chat = req[r].chat
  PROVE  CalmInv'
<1>1. req'[r] = q /\ \A s \in Requests \ {r} : req'[s] = req[s] /\ req[s].pc = "idle"
  BY DEF CalmInv, TypeOK, Alone, At
<1>2. OneAtATime'
  BY <1>1 DEF OneAtATime, At
<1>3. \A s \in Requests : AtWork(s)'
  <2> SUFFICES ASSUME NEW s \in Requests PROVE AtWork(s)'
    OBVIOUS
  <2>1. CASE s = r
    BY <1>1, <2>1 DEF AtWork
  <2>2. CASE s # r
    BY <1>1, <2>2 DEF AtWork, Written
  <2> QED
    BY <2>1, <2>2
<1>4. ASSUME NEW i \in Ids, messages'[i] # None
      PROVE  messages'[i].at <= clock' /\ Covered(messages[i])'
  <2>1. /\ messages[i] \in Message /\ messages[i].at <= clock
        /\ messages[i].at \in Nat /\ clock \in Nat /\ clock' \in Nat
        /\ Covered(messages[i])
    BY <1>4 DEF CalmInv, TypeOK, Message
  <2>2. Covered(messages[i])'
    BY <1>1, <2>1 DEF Covered, Written
  <2> QED
    BY <2>1, <2>2
<1> QED
  BY <1>2, <1>3, <1>4 DEF CalmInv

LEMMA CalmFind ==
  ASSUME CalmInv, NEW r \in Requests, Alone(r), NEW c \in Chats, Find(r, c) PROVE CalmInv'
<1>1. PICK m \in BOOLEAN :
        req' = [req EXCEPT ![r] = [pc |-> "count", chat |-> c, media |-> m, id |-> 0, at |-> 0]]
  BY DEF Find
<1>2. /\ UNCHANGED <<counter, clock, messages, files, topic, latest>>
      /\ req[r].pc = "idle"
  BY DEF Find, At
<1> DEFINE q == [pc |-> "count", chat |-> c, media |-> m, id |-> 0, at |-> 0]
<1>3. /\ q \in Request /\ q.pc = "count" /\ q.chat = c
      /\ req' = [req EXCEPT ![r] = q]
  BY <1>1, ChatAssumption DEF Request, Stages
<1> HIDE DEF q
<1>4. TypeOK' /\ clock' >= clock
  BY <1>2, <1>3 DEF CalmInv, TypeOK
<1> QED
  BY <1>2, <1>3, <1>4, CalmMoves DEF Written

\* The request a thread goes on with.
LEMMA WentTo ==
  ASSUME TypeOK, NEW r \in Requests, NEW stage \in Stages, GoTo(r, stage)
  PROVE  \E q \in Request : /\ req' = [req EXCEPT ![r] = q] /\ q.pc = stage
                            /\ q.chat = req[r].chat /\ q.id = req[r].id /\ q.at = req[r].at
<1>1. req[r] \in Request
  BY DEF TypeOK
<1>2. [req[r] EXCEPT !.pc = stage] \in Request
  BY <1>1 DEF Request
<1> QED
  BY <1>1, <1>2 DEF GoTo, Request

LEMMA CalmNumber ==
  ASSUME CalmInv, NEW r \in Requests, Alone(r), NEW n \in Ids, req[r].pc \in {"count", "first"},
         Number(r, n), counter' = n, UNCHANGED <<clock, messages, files, topic, latest>>
  PROVE  CalmInv'
<1> DEFINE next == IF req[r].media THEN "upload" ELSE "stamp"
           q == [req[r] EXCEPT !.pc = next, !.id = n]
<1>1. req' = [req EXCEPT ![r] = q]
  BY DEF Number
<1>2. req[r] \in Request /\ next \in {"upload", "stamp"} /\ next \in Stages
  BY DEF CalmInv, TypeOK, Stages
<1> HIDE DEF next
<1>3. n \in 0..MaxId
  BY ChatAssumption DEF Ids
<1>4. q \in Request /\ q.pc = next /\ q.id = n /\ q.chat = req[r].chat
  <2>1. /\ [req[r] EXCEPT !.pc = next] \in Request
        /\ \A p \in Request : [p EXCEPT !.id = n] \in Request
    BY <1>2, <1>3 DEF Request
  <2>2. q = [[req[r] EXCEPT !.pc = next] EXCEPT !.id = n]
    BY <1>2 DEF Request
  <2> QED
    BY <1>2, <2>1, <2>2 DEF Request
<1> HIDE DEF q
<1>5. TypeOK' /\ clock' >= clock
  BY <1>1, <1>3, <1>4 DEF CalmInv, TypeOK
<1>6. req[r].chat \in Chats
  BY DEF CalmInv, AtWork
<1> QED
  BY <1>1, <1>2, <1>4, <1>5, <1>6, CalmMoves DEF Written

LEMMA CalmCount ==
  ASSUME CalmInv, NEW r \in Requests, Alone(r), Count(r) PROVE CalmInv'
<1>1. /\ req[r].pc = "count" /\ counter < MaxId /\ counter \in 0..MaxId
      /\ UNCHANGED <<clock, messages, files, topic, latest>>
  BY DEF Count, At, CalmInv, TypeOK
<1>2. CASE counter = 0
  <2>1. GoTo(r, "first") /\ UNCHANGED counter /\ "first" \in Stages
    BY <1>2 DEF Count, Stages
  <2>2. PICK q \in Request :
          /\ req' = [req EXCEPT ![r] = q] /\ q.pc = "first" /\ q.chat = req[r].chat
    BY <2>1, WentTo DEF CalmInv
  <2>3. TypeOK' /\ clock' >= clock
    BY <1>1, <2>1, <2>2 DEF CalmInv, TypeOK
  <2>4. req[r].chat \in Chats
    BY <1>1 DEF CalmInv, AtWork
  <2> QED
    BY <1>1, <2>2, <2>3, <2>4, CalmMoves DEF Written
<1>3. CASE counter # 0
  <2>1. counter + 1 \in Ids
    BY <1>1, ChatAssumption DEF Ids
  <2> QED
    BY <1>1, <1>3, <2>1, CalmNumber DEF Count
<1> QED
  BY <1>2, <1>3

LEMMA CalmFirst ==
  ASSUME CalmInv, NEW r \in Requests, Alone(r), FirstCount(r) PROVE CalmInv'
<1>1. 1 \in Ids
  BY ChatAssumption DEF Ids
<1> QED
  BY <1>1, CalmNumber DEF FirstCount, At

LEMMA CalmUpload ==
  ASSUME CalmInv, NEW r \in Requests, Alone(r), Upload(r) PROVE CalmInv'
<1>1. /\ req[r].pc = "upload" /\ GoTo(r, "stamp") /\ "stamp" \in Stages
      /\ files' = [files EXCEPT ![req[r].id] = r]
      /\ UNCHANGED <<counter, clock, messages, topic, latest>>
  BY DEF Upload, At, Stages
<1>2. PICK q \in Request : /\ req' = [req EXCEPT ![r] = q] /\ q.pc = "stamp"
                           /\ q.chat = req[r].chat /\ q.id = req[r].id
  BY <1>1, WentTo DEF CalmInv
<1>3. req[r].chat \in Chats /\ req[r].id \in Ids
  BY <1>1 DEF CalmInv, AtWork
<1>4. TypeOK' /\ clock' >= clock
  BY <1>1, <1>2, <1>3 DEF CalmInv, TypeOK
<1> QED
  BY <1>1, <1>2, <1>3, <1>4, CalmMoves DEF Written

LEMMA CalmStamp ==
  ASSUME CalmInv, NEW r \in Requests, Alone(r), Stamp(r) PROVE CalmInv'
<1>1. PICK d \in Steps : /\ clock' = clock + d
                         /\ req' = [req EXCEPT ![r] = [@ EXCEPT !.pc = "save", !.at = clock + d]]
  BY DEF Stamp
<1>2. /\ req[r].pc = "stamp" /\ req[r] \in Request
      /\ UNCHANGED <<counter, messages, files, topic, latest>>
      /\ req[r].chat \in Chats /\ req[r].id \in Ids
  BY DEF Stamp, At, CalmInv, TypeOK, AtWork
<1>3. clock + d \in Nat /\ clock + d >= clock
  BY ChatAssumption DEF CalmInv, TypeOK
<1> DEFINE q == [req[r] EXCEPT !.pc = "save", !.at = clock + d]
<1>4. /\ q \in Request /\ q.pc = "save" /\ q.at = clock'
      /\ q.chat = req[r].chat /\ q.id = req[r].id
      /\ req' = [req EXCEPT ![r] = q]
  BY <1>1, <1>2, <1>3 DEF Request, Stages
<1> HIDE DEF q
<1>5. TypeOK'
  BY <1>1, <1>2, <1>3, <1>4 DEF CalmInv, TypeOK
<1> QED
  BY <1>1, <1>2, <1>3, <1>4, <1>5, CalmMoves DEF Written

LEMMA CalmAnnounce ==
  ASSUME CalmInv, NEW r \in Requests, Alone(r), Announce(r) PROVE CalmInv'
<1>1. /\ req[r].pc = "announce" /\ GoTo(r, "latest") /\ "latest" \in Stages
      /\ topic' = [topic EXCEPT ![req[r].chat] = @ \cup {Built(r)}]
      /\ UNCHANGED <<counter, clock, messages, files, latest>>
  BY DEF Announce, At, Stages
<1>2. PICK q \in Request : /\ req' = [req EXCEPT ![r] = q] /\ q.pc = "latest"
                           /\ q.chat = req[r].chat /\ q.id = req[r].id /\ q.at = req[r].at
  BY <1>1, WentTo DEF CalmInv
<1>3. req[r].chat \in Chats /\ req[r].id \in Ids /\ req[r].at = clock /\ clock \in Nat
  BY <1>1 DEF CalmInv, AtWork, Written, TypeOK
<1>4. Built(r) \in Message
  BY <1>3 DEF Built, Message
<1>5. TypeOK' /\ clock' >= clock
  BY <1>1, <1>2, <1>3, <1>4 DEF CalmInv, TypeOK
<1> QED
  BY <1>1, <1>2, <1>3, <1>5, CalmMoves DEF Written

LEMMA CalmSave ==
  ASSUME CalmInv, NEW r \in Requests, Alone(r), Save(r) PROVE CalmInv'
<1> DEFINE m == Built(r)
<1>1. /\ req[r].pc = "save" /\ GoTo(r, "announce") /\ "announce" \in Stages
      /\ messages' = [messages EXCEPT ![req[r].id] = m]
      /\ UNCHANGED <<counter, clock, files, topic, latest>>
  BY DEF Save, At, Stages
<1>2. PICK q \in Request : /\ req' = [req EXCEPT ![r] = q] /\ q.pc = "announce"
                           /\ q.chat = req[r].chat /\ q.id = req[r].id /\ q.at = req[r].at
  BY <1>1, WentTo DEF CalmInv
<1>3. req[r].chat \in Chats /\ req[r].id \in Ids /\ req[r].at = clock /\ clock \in Nat
  BY <1>1 DEF CalmInv, AtWork, TypeOK
<1>4. m \in Message /\ m.at = clock /\ m.chat = req[r].chat
  BY <1>3 DEF Built, Message
<1> HIDE DEF m
<1>5. TypeOK'
  BY <1>1, <1>2, <1>3, <1>4 DEF CalmInv, TypeOK
<1>6. req'[r] = q /\ \A s \in Requests \ {r} : req'[s] = req[s] /\ req[s].pc = "idle"
  BY <1>2 DEF CalmInv, TypeOK, Alone, At
<1>7. OneAtATime'
  BY <1>6 DEF OneAtATime, At
<1>8. \A s \in Requests : AtWork(s)'
  <2> SUFFICES ASSUME NEW s \in Requests PROVE AtWork(s)'
    OBVIOUS
  <2>1. CASE s = r
    BY <1>1, <1>2, <1>3, <1>6, <2>1 DEF AtWork
  <2>2. CASE s # r
    BY <1>6, <2>2 DEF AtWork, Written
  <2> QED
    BY <2>1, <2>2
<1>9. ASSUME NEW i \in Ids, messages'[i] # None
      PROVE  messages'[i].at <= clock' /\ Covered(messages[i])'
  <2>1. CASE i = req[r].id
    <3>1. messages'[i] = m
      BY <1>1, <2>1 DEF CalmInv, TypeOK
    <3>2. req'[r].pc \in Written /\ req'[r].chat = m.chat
      BY <1>2, <1>4, <1>6 DEF Written
    <3> QED
      BY <1>1, <1>3, <1>4, <3>1, <3>2 DEF Covered
  <2>2. CASE i # req[r].id
    <3>1. messages'[i] = messages[i]
      BY <1>1, <2>2 DEF CalmInv, TypeOK
    <3>2. messages[i].at <= clock /\ Covered(messages[i])
      BY <1>9, <3>1 DEF CalmInv
    <3>3. \A s \in Requests : req[s].pc \notin Written
      BY <1>1, <1>6 DEF Written
    <3> QED
      BY <1>1, <3>1, <3>2, <3>3 DEF Covered
  <2> QED
    BY <2>1, <2>2
<1> QED
  BY <1>5, <1>7, <1>8, <1>9 DEF CalmInv

LEMMA CalmLatest ==
  ASSUME CalmInv, NEW r \in Requests, Alone(r), SetLatest(r) PROVE CalmInv'
<1> DEFINE m == Built(r)
<1>1. /\ req[r].pc = "latest" /\ End(r)
      /\ latest' = [latest EXCEPT ![req[r].chat] = m]
      /\ UNCHANGED <<counter, clock, messages, files, topic>>
  BY DEF SetLatest, At
<1>2. req[r].chat \in Chats /\ req[r].id \in Ids /\ req[r].at = clock /\ clock \in Nat
  BY <1>1 DEF CalmInv, AtWork, Written, TypeOK
<1>3. m \in Message /\ m.at = clock /\ m # None
  BY <1>2, ChatAssumption DEF Built, Message
<1> HIDE DEF m
<1>4. Idle \in Request /\ Idle.pc = "idle"
  BY ChatAssumption DEF Idle, Request, Stages
<1>5. TypeOK'
  BY <1>1, <1>2, <1>3, <1>4 DEF CalmInv, TypeOK, End
<1>6. \A s \in Requests : req'[s].pc = "idle"
  BY <1>1, <1>4 DEF CalmInv, TypeOK, Alone, At, End
<1>7. OneAtATime' /\ \A s \in Requests : AtWork(s)'
  BY <1>6 DEF OneAtATime, At, AtWork, Written
<1>8. ASSUME NEW i \in Ids, messages'[i] # None
      PROVE  messages'[i].at <= clock' /\ Covered(messages[i])'
  <2>1. /\ messages'[i] = messages[i] /\ messages[i].at <= clock
        /\ messages[i] \in Message /\ messages[i].chat \in Chats /\ messages[i].at \in Nat
        /\ Covered(messages[i])
    BY <1>1, <1>8 DEF CalmInv, TypeOK, Message
  <2>2. CASE messages[i].chat = req[r].chat
    <3>1. latest'[messages[i].chat] = m
      BY <1>1, <1>2, <2>2 DEF CalmInv, TypeOK
    <3> QED
      BY <1>1, <1>2, <1>3, <2>1, <3>1 DEF Covered
  <2>3. CASE messages[i].chat # req[r].chat
    <3>1. latest'[messages[i].chat] = latest[messages[i].chat]
      BY <1>1, <2>1, <2>3 DEF CalmInv, TypeOK
    <3>2. ~\E s \in Requests : req[s].pc \in Written /\ req[s].chat = messages[i].chat
      BY <2>3 DEF Alone, At, Written
    <3> QED
      BY <1>1, <2>1, <3>1, <3>2 DEF Covered
  <2> QED
    BY <2>2, <2>3
<1> QED
  BY <1>5, <1>7, <1>8 DEF CalmInv

LEMMA CalmKeeps == CalmInv /\ [CalmNext]_vars => CalmInv'
<1> SUFFICES ASSUME CalmInv, [CalmNext]_vars PROVE CalmInv'
  OBVIOUS
<1>1. CASE UNCHANGED vars
  BY <1>1 DEF vars, CalmInv, TypeOK, OneAtATime, AtWork, Covered, At
<1>2. CASE CalmNext
  <2> PICK r \in Requests : Alone(r) /\ ((\E c \in Chats : Find(r, c)) \/ Answer(r))
    BY <1>2 DEF CalmNext
  <2>1. CASE \E c \in Chats : Find(r, c)
    BY <2>1, CalmFind
  <2>2. CASE Answer(r)
    BY <2>2, CalmCount, CalmFirst, CalmUpload, CalmStamp, CalmSave, CalmAnnounce, CalmLatest
       DEF Answer
  <2> QED
    BY <2>1, <2>2
<1> QED
  BY <1>1, <1>2

\* The steps do not depend on the counter there is at first.
LEMMA EmptySteps == [Empty!CalmNext]_(Empty!vars) => [CalmNext]_vars
<1>1. ASSUME NEW r \in Requests PROVE Empty!Alone(r) => Alone(r)
  BY DEF Empty!Alone, Empty!At, Alone, At
<1>2. ASSUME NEW r \in Requests, NEW c \in Chats PROVE Empty!Find(r, c) => Find(r, c)
  <2>1. Empty!Room = Room
    <3>1. \A S : Empty!Cardinality(S) = Cardinality(S)
      BY DEF Empty!Cardinality, Cardinality
    <3> QED
      BY <3>1 DEF Empty!Room, Room, Empty!At, At
  <2> QED
    BY <2>1 DEF Empty!Find, Empty!At, Find, At
<1>3. ASSUME NEW r \in Requests PROVE Empty!Answer(r) => Answer(r)
  BY DEF Empty!At, Empty!Answer, Empty!Count, Empty!Number, Empty!FirstCount, Empty!Upload,
         Empty!Stamp, Empty!Save, Empty!Announce, Empty!SetLatest, Empty!Built, Empty!GoTo,
         Empty!End, Empty!Idle, At, Answer, Count, Number, FirstCount, Upload,
         Stamp, Save, Announce, SetLatest, Built, GoTo, End, Idle
<1>4. Empty!CalmNext => CalmNext
  BY <1>1, <1>2, <1>3 DEF Empty!CalmNext, CalmNext
<1>5. UNCHANGED Empty!vars => UNCHANGED vars
  BY DEF Empty!vars, vars
<1> QED
  BY <1>4, <1>5

\* When no two requests overlap, the latest message a chat shows at rest is the
\* newest in its history (MessageService.addLatestMessageToChat).
THEOREM LatestIsTheNewest == Empty!CalmSpec => []LatestWhenCalm
<1>1. Empty!Init => CalmInv
  BY EmptyBeginsCalm
<1>2. CalmInv => LatestWhenCalm
  BY DEF CalmInv, Covered, Written, LatestWhenCalm, LatestIsNewest, At
<1> QED
  BY <1>1, <1>2, CalmKeeps, EmptySteps, PTL DEF Empty!CalmSpec
-----------------------------------------------------------------------------
(***************************************************************************)
(* The walk back through a chat, no two stamps being equal.  Everything on *)
(* a page is at or after the cursor, and everything the chat held at first *)
(* that is at or after the cursor is on a page: the next page is taken     *)
(* from before the cursor and takes the latest there, so both still hold   *)
(* when the cursor moves to the oldest message of that page.               *)
(***************************************************************************)
\* The counter document is in place, the clock moves between two stamps, and a
\* stamp is not "no cursor".
WalkBounds == Warm /\ 0 \notin Steps /\ None \notin Nat

Waiting(r) == At(r, "save")

\* No two messages, stored or about to be, have one stamp.
StampInv == /\ \A i \in Ids : messages[i] # None => messages[i].at <= clock
            /\ \A r \in Requests : Waiting(r) => req[r].at <= clock
            /\ \A i, j \in Ids : messages[i] # None /\ messages[j] # None
                                  /\ messages[i].at = messages[j].at => i = j
            /\ \A i \in Ids, r \in Requests : messages[i] # None /\ Waiting(r)
                                              => messages[i].at # req[r].at
            /\ \A r, q \in Requests : Waiting(r) /\ Waiting(q) /\ req[r].at = req[q].at => r = q

\* A step after which no other request is about to store keeps the stamps.
LEMMA QuietStamps ==
  ASSUME TypeOK, StampInv, UNCHANGED <<clock, messages>>,
         \A q \in Requests : Waiting(q)' => Waiting(q) /\ req'[q].at = req[q].at
  PROVE  StampInv'
BY DEF StampInv, Waiting, At

LEMMA StampsMove ==
  ASSUME ChatInv, StampInv, WalkBounds, NEW r \in Requests, Stamp(r) PROVE StampInv'
<1>1. PICK d \in Steps : /\ clock' = clock + d
                         /\ req' = [req EXCEPT ![r] = [@ EXCEPT !.pc = "save", !.at = clock + d]]
  BY DEF Stamp
<1>2. /\ UNCHANGED messages /\ clock \in Nat /\ d \in Nat /\ d # 0 /\ req[r] \in Request
  BY ChatAssumption DEF Stamp, ChatInv, TypeOK, WalkBounds
<1>3. /\ req'[r].at = clock' /\ clock' > clock /\ clock' \in Nat
      /\ \A q \in Requests \ {r} : req'[q] = req[q]
  BY <1>1, <1>2 DEF ChatInv, TypeOK, Request
<1>4. /\ \A i \in Ids : messages[i] # None => messages[i].at \in Nat
      /\ \A q \in Requests : req[q].at \in Nat
  BY DEF ChatInv, TypeOK, Message, Request
<1>5. /\ \A i \in Ids : messages'[i] # None => messages'[i].at <= clock'
      /\ \A i, j \in Ids : messages'[i] # None /\ messages'[j] # None
                            /\ messages'[i].at = messages'[j].at => i = j
  BY <1>2, <1>3, <1>4 DEF StampInv
<1>6. \A q \in Requests : Waiting(q)' => req'[q].at <= clock'
  BY <1>2, <1>3, <1>4 DEF StampInv, Waiting, At
<1>7. \A i \in Ids, q \in Requests : messages'[i] # None /\ Waiting(q)' => messages'[i].at # req'[q].at
  <2> SUFFICES ASSUME NEW i \in Ids, NEW q \in Requests, messages[i] # None, Waiting(q)'
               PROVE  messages[i].at # req'[q].at
    BY <1>2
  <2>1. CASE q = r
    BY <1>2, <1>3, <1>4, <2>1 DEF StampInv
  <2>2. CASE q # r
    BY <1>3, <2>2 DEF StampInv, Waiting, At
  <2> QED
    BY <2>1, <2>2
<1>8. \A s, q \in Requests : Waiting(s)' /\ Waiting(q)' /\ req'[s].at = req'[q].at => s = q
  <2> SUFFICES ASSUME NEW s \in Requests, NEW q \in Requests, Waiting(s)', Waiting(q)',
                      req'[s].at = req'[q].at
               PROVE  s = q
    OBVIOUS
  <2>1. CASE s # r /\ q # r
    BY <1>3, <2>1 DEF StampInv, Waiting, At
  <2>2. \A p \in Requests \ {r} : Waiting(p)' => req'[p].at <= clock
    BY <1>3 DEF StampInv, Waiting, At
  <2>3. CASE s = r \/ q = r
    BY <1>2, <1>3, <1>4, <2>2, <2>3
  <2> QED
    BY <2>1, <2>3
<1> QED
  BY <1>5, <1>6, <1>7, <1>8 DEF StampInv

LEMMA StampsStored ==
  ASSUME ChatInv, StampInv, NEW r \in Requests, Save(r) PROVE StampInv'
<1> DEFINE n == req[r].id
           t == req[r].at
<1>1. /\ Waiting(r) /\ messages' = [messages EXCEPT ![n] = Built(r)]
      /\ req' = [req EXCEPT ![r].pc = "announce"] /\ UNCHANGED clock
  BY DEF Save, GoTo, Waiting
<1>2. /\ ~Waiting(r)' /\ \A q \in Requests \ {r} : req'[q] = req[q]
  BY <1>1 DEF ChatInv, TypeOK, Waiting, At, Request
<1>3. /\ \A i \in Ids : i # n => messages'[i] = messages[i]
      /\ n \in Ids => messages'[n].at = t
  BY <1>1 DEF ChatInv, TypeOK, Built
<1>4. t <= clock /\ \A i \in Ids : messages[i] # None => messages[i].at # t
  BY <1>1 DEF StampInv
<1>5. \A q \in Requests : Waiting(q)' => Waiting(q) /\ req'[q].at = req[q].at /\ req[q].at # t
  BY <1>1, <1>2 DEF Waiting, At, StampInv
<1> HIDE DEF n, t
<1> QED
  BY <1>1, <1>3, <1>4, <1>5 DEF StampInv

LEMMA StampsKeep ==
  ASSUME ChatInv, StampInv, WalkBounds, [Next]_vars PROVE StampInv'
<1>1. CASE UNCHANGED vars
  BY <1>1 DEF vars, StampInv, Waiting, At
<1>2. CASE Next
  <2> PICK r \in Requests : RequestNext(r)
    BY <1>2 DEF Next
  <2> DEFINE Quiet == /\ UNCHANGED <<clock, messages>>
                      /\ \A q \in Requests : Waiting(q)' => Waiting(q) /\ req'[q].at = req[q].at
  <2>1. CASE \E c \in Chats : Find(r, c)
    <3>1. Quiet
      BY <2>1 DEF Find, Waiting, At, ChatInv, TypeOK
    <3> QED
      BY <3>1, QuietStamps DEF ChatInv
  <2>2. CASE Count(r)
    <3>1. ~Waiting(r)'
      <4> DEFINE next == IF req[r].media THEN "upload" ELSE "stamp"
      <4>1. next # "save" /\ req[r] \in Request /\ req \in [Requests -> Request]
        BY DEF ChatInv, TypeOK
      <4>2. \/ req' = [req EXCEPT ![r] = [req[r] EXCEPT !.pc = next, !.id = counter + 1]]
            \/ req' = [req EXCEPT ![r] = [req[r] EXCEPT !.pc = "first"]]
        BY <2>2 DEF Count, Number, GoTo
      <4> HIDE DEF next
      <4>3. req'[r].pc \in {next, "first"}
        BY <4>1, <4>2 DEF Request
      <4> QED
        BY <4>1, <4>3 DEF Waiting, At
    <3>2. \A q \in Requests \ {r} : req'[q] = req[q]
      BY <2>2 DEF Count, Number, GoTo, ChatInv, TypeOK
    <3>3. Quiet
      BY <2>2, <3>1, <3>2 DEF Count, Waiting, At
    <3> QED
      BY <3>3, QuietStamps DEF ChatInv
  <2>3. CASE Upload(r) \/ Announce(r)
    <3>1. Quiet
      BY <2>3 DEF Upload, Announce, GoTo, Waiting, At, ChatInv, TypeOK, Request
    <3> QED
      BY <3>1, QuietStamps DEF ChatInv
  <2>4. CASE Stamp(r)
    BY <2>4, StampsMove
  <2>5. CASE Save(r)
    BY <2>5, StampsStored
  <2>6. CASE SetLatest(r) \/ Fail(r)
    <3>1. Quiet
      BY <2>6 DEF SetLatest, Fail, End, Idle, Waiting, At, ChatInv, TypeOK
    <3> QED
      BY <3>1, QuietStamps DEF ChatInv
  <2> QED
    BY <2>1, <2>2, <2>3, <2>4, <2>5, <2>6, NoFirst DEF RequestNext, Answer
<1> QED
  BY <1>1, <1>2

\* The cursor a page leaves is the stamp of its oldest message.
LEMMA OldestIsLeast ==
  ASSUME NEW p, p # {}, \A m \in p : m.at \in Nat
  PROVE  Oldest(p) \in {m.at : m \in p} /\ \A m \in p : Oldest(p) <= m.at
<1> DEFINE T == {m.at : m \in p}
           R == OpToRel(<, Nat)
<1>1. T \subseteq Nat /\ T # {}
  OBVIOUS
<1>2. IsWellFoundedOn(R, Nat)
  BY NatLessThanWellFounded
<1>3. \A a, b \in Nat : a < b => <<a, b>> \in R
  BY DEF OpToRel
<1> HIDE DEF R, T
<1>4. PICK t \in T : \A u \in T : ~(<<u, t>> \in R)
  BY <1>1, <1>2, WFMin
<1>5. \A u \in T : t <= u
  <2> SUFFICES ASSUME NEW u \in T PROVE t <= u
    OBVIOUS
  <2>1. u \in Nat /\ t \in Nat
    BY <1>1
  <2>2. ~(u < t)
    BY <1>3, <1>4, <2>1
  <2> QED
    BY <2>1, <2>2
<1>6. t \in {m.at : m \in p} /\ \A m \in p : t <= m.at
  BY <1>5 DEF T
<1> QED
  BY <1>6 DEF Oldest

Shown == UNION pages

WalkInv ==
    /\ walk = None => cursor = None /\ pages = {} /\ held = {} /\ ~over
    /\ held \subseteq InChat(walk)
    /\ \A p \in pages : p \subseteq InChat(walk)
    /\ cursor = None => pages = {}
    /\ cursor # None => /\ cursor \in Nat
                        /\ \A m \in Shown : m.at >= cursor
                        /\ \A m \in held : m.at >= cursor => m \in Shown
    /\ WalkIsExact

LEMMA HeldIsShown ==
  ASSUME WalkInv, cursor # None PROVE \A m \in held : m.at >= cursor => m \in Shown
BY Zenon DEF WalkInv

\* What the chat holds it keeps holding.
LEMMA ChatGrows == ASSUME ChatInv, [Next]_vars, NEW c PROVE InChat(c) \subseteq InChat(c)'
<1>1. Keeps \/ UNCHANGED vars
  BY StepKeepsStored
<1>2. \A i \in Ids : messages[i] # None => messages'[i] = messages[i]
  BY <1>1 DEF Keeps, vars
<1> QED
  BY <1>2 DEF InChat

LEMMA StampsAreDistinct ==
  ASSUME ChatInv, StampInv, NEW c
  PROVE  /\ \A m \in InChat(c) : m.at \in Nat
         /\ \A m, n \in InChat(c) : m.at = n.at => m = n
BY DEF InChat, StampInv, ChatInv, TypeOK, Message

LEMMA PageKeeps ==
  ASSUME ChatInv, StampInv, WalkInv, WalkBounds, NEW p \in SUBSET Older, IsPage(p, Older),
         p # {}, ~over, cursor' = Oldest(p), pages' = pages \cup {p}, over' = over,
         UNCHANGED <<walk, held, vars>>
  PROVE  WalkInv'
<1>1. /\ \A m \in InChat(walk) : m.at \in Nat
      /\ \A m, n \in InChat(walk) : m.at = n.at => m = n
  BY StampsAreDistinct
<1>2. p \subseteq InChat(walk) /\ \A m \in p : cursor # None => m.at < cursor
  BY DEF Older
<1> DEFINE t == Oldest(p)
<1>3. t \in {m.at : m \in p} /\ \A m \in p : t <= m.at
  BY <1>1, <1>2, OldestIsLeast
<1> HIDE DEF t
<1>4. t \in Nat /\ cursor' = t /\ (cursor # None => t < cursor)
  BY <1>1, <1>2, <1>3 DEF t
<1>5. InChat(walk)' = InChat(walk)
  BY DEF InChat, vars
<1>6. \A m \in Shown' : m.at >= t
  <2> SUFFICES ASSUME NEW m \in Shown' PROVE m.at >= t
    OBVIOUS
  <2>1. CASE m \in p
    BY <1>1, <1>2, <1>3, <1>4, <2>1
  <2>2. CASE m \in Shown
    <3>1. cursor # None /\ cursor \in Nat /\ m.at >= cursor /\ m \in InChat(walk)
      BY <2>2 DEF WalkInv, Shown
    <3> QED
      BY <1>1, <1>4, <3>1
  <2> QED
    BY <2>1, <2>2 DEF Shown
<1>7. \A m \in held : m.at >= t => m \in Shown'
  <2> SUFFICES ASSUME NEW m \in held, m.at >= t PROVE m \in Shown'
    OBVIOUS
  <2>1. m \in InChat(walk) /\ m.at \in Nat
    BY <1>1 DEF WalkInv
  <2>2. CASE cursor # None /\ m.at >= cursor
    <3>1. m \in Shown
      BY <2>2, HeldIsShown
    <3> QED
      BY <3>1 DEF Shown
  <2>3. CASE cursor # None => m.at < cursor
    <3>1. m \in Older
      BY <2>1, <2>3 DEF Older
    <3>2. CASE m \in p
      BY <3>2 DEF Shown
    <3>3. CASE m \notin p
      <4>1. PICK n \in p : n.at = t
        BY <1>3
      <4>2. n.at >= m.at
        BY <3>1, <3>3 DEF IsPage
      <4>3. m = n
        BY <1>1, <1>2, <1>4, <2>1, <4>1, <4>2
      <4> QED
        BY <3>3, <4>3
    <3> QED
      BY <3>2, <3>3
  <2>4. cursor # None => cursor \in Nat
    BY DEF WalkInv
  <2> QED
    BY <2>1, <2>2, <2>3, <2>4
<1>8. \A q \in pages : p \cap q = {}
  <2> SUFFICES ASSUME NEW q \in pages, NEW m \in p, m \in q PROVE FALSE
    OBVIOUS
  <2>1. cursor # None /\ cursor \in Nat /\ m.at >= cursor
    BY DEF WalkInv, Shown
  <2> QED
    BY <1>1, <1>2, <2>1
<1>9. WalkIsExact'
  BY <1>8 DEF WalkInv, WalkIsExact
<1>10. t # None /\ walk' = walk /\ held' = held
  BY <1>4 DEF WalkBounds
<1>11. walk # None
  BY <1>2, ChatAssumption DEF InChat, ChatInv, TypeOK, Message
<1> QED
  BY <1>2, <1>4, <1>5, <1>6, <1>7, <1>9, <1>10, <1>11 DEF WalkInv

LEMMA WalkKeeps ==
  ASSUME ChatInv, StampInv, WalkBounds, WalkInv, [HistoryNext]_<<vars, reader>>
  PROVE  WalkInv'
<1>1. CASE [Next]_vars /\ UNCHANGED reader
  <2>1. InChat(walk) \subseteq InChat(walk)'
    <3>1. PICK c : c = walk
      OBVIOUS
    <3>2. InChat(c) \subseteq InChat(c)'
      BY <1>1, ChatGrows
    <3> QED
      BY <1>1, <3>1, <3>2 DEF reader, InChat
  <2>2. /\ walk' = walk /\ cursor' = cursor /\ pages' = pages /\ held' = held /\ over' = over
    BY <1>1 DEF reader
  <2>3. Shown' = Shown /\ WalkIsExact'
    BY <2>2 DEF Shown, WalkIsExact, WalkInv
  <2> QED
    BY <2>1, <2>2, <2>3 DEF WalkInv
<1>2. CASE \E c \in Chats : Begin(c)
  <2> PICK c \in Chats : Begin(c)
    BY <1>2
  <2>1. /\ walk' = c /\ c # None /\ held' = InChat(c)
        /\ cursor' = None /\ pages' = {} /\ ~over' /\ messages' = messages
    BY ChatAssumption DEF Begin, WalkInv, vars
  <2>2. InChat(walk)' = InChat(c)
    BY <2>1 DEF InChat
  <2> QED
    BY <2>1, <2>2 DEF WalkInv, WalkIsExact
<1>3. CASE GetMessages
  <2> PICK p \in SUBSET Older :
        /\ IsPage(p, Older)
        /\ IF p = {} THEN over' = TRUE /\ UNCHANGED <<cursor, pages>>
           ELSE cursor' = Oldest(p) /\ pages' = pages \cup {p} /\ UNCHANGED over
    BY <1>3 DEF GetMessages
  <2>1. walk # None /\ ~over /\ UNCHANGED <<walk, held, vars>>
    BY <1>3 DEF GetMessages
  <2>2. CASE p = {}
    <3>1. Cardinality(p) < Size
      BY <2>2, FS_EmptySet, SizeAssumption
    <3>2. Older = {}
      BY <2>2, <3>1 DEF IsPage
    <3>3. held \subseteq Shown
      <4> SUFFICES ASSUME NEW m \in held PROVE m \in Shown
        OBVIOUS
      <4>1. m \in InChat(walk) /\ m.at \in Nat
        BY StampsAreDistinct DEF WalkInv
      <4>2. cursor # None /\ ~(m.at < cursor)
        BY <3>2, <4>1 DEF Older
      <4>3. cursor \in Nat
        BY <4>2 DEF WalkInv
      <4>4. m.at >= cursor
        BY <4>1, <4>2, <4>3
      <4> QED
        BY <4>2, <4>4, HeldIsShown
    <3>4. /\ walk' = walk /\ cursor' = cursor /\ pages' = pages /\ held' = held /\ over'
          /\ messages' = messages
      BY <2>1, <2>2 DEF vars
    <3>5. Shown' = Shown /\ InChat(walk)' = InChat(walk)
      BY <3>4 DEF Shown, InChat
    <3>6. WalkIsExact'
      BY <3>3, <3>4 DEF WalkInv, WalkIsExact, Shown
    <3> QED
      BY <2>1, <3>4, <3>5, <3>6 DEF WalkInv
  <2>3. CASE p # {}
    BY <2>1, <2>3, PageKeeps
  <2> QED
    BY <2>2, <2>3
<1> QED
  BY <1>1, <1>2, <1>3 DEF HistoryNext, reader

LEMMA HistoryRunsChat ==
  HistorySpec => Spec
<1>1. InitHistory => Init
  BY DEF InitHistory
<1>2. [HistoryNext]_<<vars, reader>> => [Next]_vars
  BY DEF HistoryNext, Begin, GetMessages
<1> QED
  BY <1>1, <1>2, PTL DEF HistorySpec, Spec

\* No message is on two pages of a walk back through a chat, whatever is posted
\* meanwhile, and a walk that has ended has shown all the chat held when it
\* began (MessageService.getMessagesByChatId), provided that stamps differ.
THEOREM WalksAreExact == ASSUME WalkBounds PROVE HistorySpec => []WalkIsExact
<1>1. Warm
  BY DEF WalkBounds
<1>2. InitHistory => StampInv /\ WalkInv
  BY DEF InitHistory, NoWalk, Init, StampInv, WalkInv, WalkIsExact, Shown, InChat, Idle, Waiting, At
<1>3. ChatInv /\ StampInv /\ [HistoryNext]_<<vars, reader>> => StampInv'
  <2>1. [HistoryNext]_<<vars, reader>> => [Next]_vars
    BY DEF HistoryNext, Begin, GetMessages
  <2> QED
    BY <2>1, StampsKeep
<1>4. ChatInv /\ StampInv /\ WalkInv /\ [HistoryNext]_<<vars, reader>> => WalkInv'
  BY WalkKeeps
<1>5. HistorySpec => []ChatInv
  BY <1>1, HistoryRunsChat, NumbersHold, PTL
<1>6. HistorySpec => [](StampInv /\ WalkInv)
  BY <1>2, <1>3, <1>4, <1>5, PTL DEF HistorySpec
<1>7. WalkInv => WalkIsExact
  BY DEF WalkInv
<1> QED
  BY <1>6, <1>7, PTL
=============================================================================
