--------------------------- MODULE ContentProofs ---------------------------
(***************************************************************************)
(* What users publish (MCContent), proved with TLAPS for any posts,        *)
(* comments, clients, topics and bounds: each theorem is about the         *)
(* specification of one of the parts.                                      *)
(***************************************************************************)
EXTENDS MCContent, SequenceTheorems, TLAPS

-----------------------------------------------------------------------------
(* Comments: CommentPublish *)

\* A file was put before its comment is inserted, a comment inserted before it
\* is announced.
CommentInv ==
    /\ AnnouncedIsStored
    /\ stage \in [Comments -> {"read", "moderate", "insert", "send", "created", "failed"}]
    /\ \A k \in Comments : /\ (stage[k] = "insert" /\ k \in WithFile) => object[k] # "absent"
                           /\ stage[k] = "send" => k \in inserted

LEMMA CommentBegins == ASSUME Commenting!Init PROVE CommentInv
BY DEF Commenting!Init, CommentInv, AnnouncedIsStored, Commenting!AnnouncedIsStored,
       Commenting!TypeOK, Commenting!Working

LEMMA CommentStep ==
    ASSUME CommentInv, [Commenting!Next]_commentVars PROVE CommentInv'
<1> USE DEF CommentInv, AnnouncedIsStored, Commenting!AnnouncedIsStored, Commenting!TypeOK,
            Commenting!Working, Commenting!edits, Commenting!Goto
<1>1. ASSUME NEW k \in Comments, Commenting!ReadFile(k) PROVE CommentInv'
  BY <1>1 DEF Commenting!ReadFile
<1>2. ASSUME NEW k \in Comments, Commenting!Put(k) PROVE CommentInv'
  BY <1>2 DEF Commenting!Put
<1>3. ASSUME NEW k \in Comments, Commenting!Insert(k) PROVE CommentInv'
  BY <1>3 DEF Commenting!Insert
<1>4. ASSUME NEW k \in Comments, Commenting!Send(k) PROVE CommentInv'
  BY <1>4 DEF Commenting!Send
<1>5. ASSUME NEW k \in Comments, Commenting!Fail(k) PROVE CommentInv'
  BY <1>5 DEF Commenting!Fail
<1>6. ASSUME NEW k \in Comments, Commenting!Deliver(k) PROVE CommentInv'
  BY <1>6 DEF Commenting!Deliver
<1>7. ASSUME NEW k \in Comments, Commenting!Find(k) PROVE CommentInv'
  BY <1>7 DEF Commenting!Find
<1>8. ASSUME NEW k \in Comments, Commenting!Update(k) PROVE CommentInv'
  BY <1>8 DEF Commenting!Update
<1>9. CASE Commenting!Crash
  BY <1>9 DEF Commenting!Crash
<1>10. CASE UNCHANGED commentVars
  BY <1>10 DEF commentVars
<1> QED
  BY <1>1, <1>2, <1>3, <1>4, <1>5, <1>6, <1>7, <1>8, <1>9, <1>10
  DEF Commenting!Next, Commenting!Handle, Commenting!Create

\* A comment is announced or changed only when it is stored, and stored only
\* when something was put for its file, whatever fails and however often the
\* process dies.
THEOREM AnnouncedCommentsAreStored == Commenting!Spec => []AnnouncedIsStored
<1>1. Commenting!Init => CommentInv
  BY CommentBegins
<1>2. CommentInv /\ [Commenting!Next]_commentVars => CommentInv'
  BY CommentStep
<1>3. CommentInv => AnnouncedIsStored
  BY DEF CommentInv
<1> QED BY <1>1, <1>2, <1>3, PTL DEF Commenting!Spec, Commenting!vars, commentVars

-----------------------------------------------------------------------------
(* Edits of a post one at a time: PostEdits *)

Request == [pc : {"answer"}, id : 1..MaxEdits, edit : Editing!Edits]

\* Whatever has been read and whatever is in the pool is all that is under way,
\* and the post is as the last answer has it but for the update in the pool.
CalmInv ==
    /\ post \in Editing!Doc /\ last \in Editing!Doc /\ made \in 0..MaxEdits
    /\ pending \subseteq Editing!Writes
    /\ edit \in [Clients -> {[pc |-> "idle"]} \cup Request]
    /\ \A c \in Clients : edit[c].pc = "answer" =>
           /\ pending = {} /\ post = last
           /\ \A d \in Clients : edit[d].pc = "answer" => d = c
    /\ \A w \in pending : /\ pending = {w} /\ Editing!Set(post, w.edit) = last
                          /\ \A d \in Clients : edit[d].pc # "answer"
    /\ pending = {} => post = last

LEMMA CalmBegins == ASSUME MaxEdits \in Nat, Editing!Init PROVE CalmInv
<1>1. edit = [c \in Clients |-> [pc |-> "idle"]]
  BY DEF Editing!Init
<1>2. edit \in [Clients -> {[pc |-> "idle"]} \cup Request]
  BY <1>1
<1>3. \A c \in Clients : edit[c].pc = "idle"
  BY <1>1
<1> QED BY <1>2, <1>3 DEF Editing!Init, CalmInv

\* What an edit makes of a document is a document.
LEMMA EditedIsDoc ==
    ASSUME NEW d \in Editing!Doc, NEW e \in Editing!Edits PROVE Editing!Edited(d, e) \in Editing!Doc
BY DEF Editing!Edited, Editing!Doc, Editing!Edits

\* A client is answering with its request, or idle.
LEMMA RequestOrIdle ==
    ASSUME CalmInv, NEW c \in Clients
    PROVE  \/ edit[c] \in Request /\ edit[c].pc = "answer"
           \/ edit[c] = [pc |-> "idle"] /\ edit[c].pc = "idle"
<1>1. edit[c] \in {[pc |-> "idle"]} \cup Request
  BY DEF CalmInv
<1>2. CASE edit[c] \in Request
  BY <1>2 DEF Request
<1>3. CASE edit[c] = [pc |-> "idle"]
  BY <1>3
<1> QED BY <1>1, <1>2, <1>3

LEMMA CalmStep ==
    ASSUME MaxEdits \in Nat, CalmInv, [Editing!CalmNext]_editVars PROVE CalmInv'
<1>1. ASSUME NEW c \in Clients, NEW e \in Editing!Edits, pending = {},
             \A d \in Clients : Editing!Idle(d), Editing!Read(c, e)
      PROVE  CalmInv'
  <2> DEFINE r == [pc |-> "answer", id |-> made + 1, edit |-> e]
  <2>1. made \in 0..MaxEdits /\ made < MaxEdits /\ made' = made + 1
    BY <1>1 DEF CalmInv, Editing!Read
  <2>2. r \in Request /\ r.pc = "answer"
    BY <2>1 DEF Request
  <2>3. edit' = [edit EXCEPT ![c] = r] /\ UNCHANGED <<post, pending, last>>
    BY <1>1 DEF Editing!Read
  <2> HIDE DEF r
  <2>4. \A d \in Clients : edit'[d] = IF d = c THEN r ELSE edit[d]
    BY <2>3 DEF CalmInv
  <2>5. edit' \in [Clients -> {[pc |-> "idle"]} \cup Request]
    BY <2>2, <2>3 DEF CalmInv
  <2>6. \A d \in Clients : edit'[d].pc = "answer" => d = c
    BY <1>1, <2>4 DEF Editing!Idle
  <2>7. made' \in 0..MaxEdits
    BY <2>1
  <2>8. pending' = {} /\ post' = last'
    BY <1>1, <2>3 DEF CalmInv
  <2>9. post' \in Editing!Doc /\ last' \in Editing!Doc
    BY <2>3 DEF CalmInv
  <2> QED BY <2>5, <2>6, <2>7, <2>8, <2>9 DEF CalmInv
<1>2. ASSUME NEW c \in Clients, Editing!AnswerEdit(c) PROVE CalmInv'
  <2> DEFINE w == [id |-> edit[c].id, edit |-> edit[c].edit]
  <2>1. edit[c].pc = "answer" /\ edit[c] \in Request
    BY <1>2, RequestOrIdle DEF Editing!AnswerEdit
  <2>2. pending = {} /\ post = last /\ \A d \in Clients : edit[d].pc = "answer" => d = c
    BY <2>1 DEF CalmInv
  <2>3. edit[c].edit \in Editing!Edits /\ w \in Editing!Writes
    BY <2>1 DEF Request, Editing!Writes
  <2>4. /\ pending' = {w} /\ w.edit = edit[c].edit /\ last' = Editing!Edited(last, w.edit)
        /\ edit' = [edit EXCEPT ![c] = [pc |-> "idle"]] /\ UNCHANGED <<post, made>>
    BY <1>2, <2>2 DEF Editing!AnswerEdit
  <2> HIDE DEF w
  <2>5. last' = Editing!Set(post', w.edit)
    BY <2>2, <2>4 DEF Editing!Set
  <2>6. edit' \in [Clients -> {[pc |-> "idle"]} \cup Request]
    BY <2>4 DEF CalmInv
  <2>7. \A d \in Clients : edit'[d].pc # "answer"
    BY <2>2, <2>4 DEF CalmInv
  <2>8. last' \in Editing!Doc
    BY <2>3, <2>4, EditedIsDoc DEF CalmInv
  <2> QED BY <2>3, <2>4, <2>5, <2>6, <2>7, <2>8 DEF CalmInv
<1>3. ASSUME NEW w \in pending, Editing!Apply(w) PROVE CalmInv'
  <2>1. /\ pending = {w} /\ Editing!Set(post, w.edit) = last
        /\ \A d \in Clients : edit[d].pc # "answer"
    BY <1>3 DEF CalmInv
  <2>2. pending' = {} /\ post' = last /\ UNCHANGED <<made, last, edit>>
    BY <1>3, <2>1 DEF Editing!Apply
  <2> QED BY <2>1, <2>2 DEF CalmInv
<1>4. CASE UNCHANGED editVars
  BY <1>4 DEF editVars, CalmInv
<1> QED BY <1>1, <1>2, <1>3, <1>4 DEF Editing!CalmNext

\* Changes of a post made one at a time, each when the update before it has
\* landed: what the last of them was answered with is what the post is.
THEOREM LastAnswerIsThePost ==
    ASSUME MaxEdits \in Nat PROVE Editing!CalmSpec => []LastAnswerHolds
<1>1. Editing!Init => CalmInv
  BY CalmBegins
<1>2. CalmInv /\ [Editing!CalmNext]_editVars => CalmInv'
  BY CalmStep
<1>3. CalmInv => LastAnswerHolds
  BY RequestOrIdle DEF CalmInv, LastAnswerHolds, Editing!LastAnswerHolds, Editing!Settled, Editing!Idle, Editing!TypeOK
<1> QED BY <1>1, <1>2, <1>3, PTL DEF Editing!CalmSpec, Editing!vars, editVars

-----------------------------------------------------------------------------
(* The listeners of the notification service: Notifications *)

ListenerBounds == MaxEvents \in [Topics -> Nat] /\ MaxTries \in Nat \ {0} /\ MaxCrash \in Nat

ListenerTypes ==
    /\ produced \in [Topics -> Nat] /\ committed \in [Topics -> Nat]
    /\ done \in [Topics -> Nat] /\ fetched \in [Topics -> Nat]
    /\ tries \in [Topics -> 0..MaxTries - 1]
    /\ DOMAIN recorded = Topics /\ DOMAIN mailed = Topics /\ DOMAIN dropped = Topics
    /\ crashes \in 0..MaxCrash

\* The cursors of a topic are in order, and no mail was skipped.
Cursors(t) ==
    /\ committed[t] <= done[t] /\ done[t] <= fetched[t] /\ fetched[t] <= produced[t]
    /\ produced[t] <= MaxEvents[t]
    /\ mailed[t] \subseteq 1..MaxEvents[t] /\ dropped[t] \subseteq 1..MaxEvents[t]
    /\ Kind[t] = "mail" => 1..done[t] \subseteq mailed[t] \cup dropped[t]

\* How often a record can have been tried: in full for each restart and once it
\* is passed, and as often as it failed while it is at hand.
Tried(t, e) == MaxTries * crashes + (IF e <= done[t] THEN MaxTries
                                     ELSE IF e = done[t] + 1 THEN tries[t] ELSE 0)

\* A record is saved no more often than it is tried.
Saves(t) == /\ recorded[t] \in [1..MaxEvents[t] -> Nat]
            /\ \A e \in 1..MaxEvents[t] : recorded[t][e] <= Tried(t, e)

ListenerInv == ListenerTypes /\ \A t \in Topics : Cursors(t) /\ Saves(t)

LEMMA ListenerBegins == ASSUME ListenerBounds, Listener!Init PROVE ListenerInv
<1>1. /\ Listener!Zero \in [Topics -> Nat] /\ Listener!Zero \in [Topics -> 0..MaxTries - 1]
      /\ \A t \in Topics : Listener!Zero[t] = 0
  BY DEF Listener!Zero, ListenerBounds
<1>2. ListenerTypes
  BY <1>1 DEF Listener!Init, ListenerTypes, ListenerBounds
<1>3. ASSUME NEW t \in Topics PROVE Cursors(t)
  BY <1>1 DEF Listener!Init, Cursors, ListenerBounds
<1>4. ASSUME NEW t \in Topics PROVE Saves(t)
  <2>1. recorded[t] = [e \in 1..MaxEvents[t] |-> 0]
    BY DEF Listener!Init, Listener!Events
  <2>2. crashes = 0 /\ tries[t] = 0 /\ done[t] = 0
    BY <1>1 DEF Listener!Init
  <2>3. \A e \in 1..MaxEvents[t] : Tried(t, e) = 0
    BY <2>2 DEF Tried, ListenerBounds
  <2> QED BY <2>1, <2>3 DEF Saves
<1> QED BY <1>2, <1>3, <1>4 DEF ListenerInv

\* A step that leaves a topic's part of the state alone.
LEMMA TopicLeftAlone ==
    ASSUME NEW t \in Topics, Cursors(t), Saves(t), crashes' = crashes,
           produced'[t] = produced[t], committed'[t] = committed[t], done'[t] = done[t],
           fetched'[t] = fetched[t], tries'[t] = tries[t], recorded'[t] = recorded[t],
           mailed'[t] = mailed[t], dropped'[t] = dropped[t]
    PROVE  Cursors(t)' /\ Saves(t)'
BY DEF Cursors, Saves, Tried

\* A step that saves nothing, restarts nothing and hands nothing over.
LEMMA NothingSaved ==
    ASSUME NEW t \in Topics, Saves(t), crashes' = crashes, done'[t] = done[t],
           tries'[t] = tries[t], recorded'[t] = recorded[t]
    PROVE  Saves(t)'
BY DEF Saves, Tried

\* An attempt at the record at hand: it is tried again, or passed.
LEMMA OneMoreTry ==
    ASSUME ListenerBounds, NEW t \in Topics, ListenerTypes, ListenerTypes', Cursors(t), Saves(t),
           crashes' = crashes,
           recorded'[t] \in [1..MaxEvents[t] -> Nat],
           \A e \in 1..MaxEvents[t] :
              /\ e # done[t] + 1 => recorded'[t][e] = recorded[t][e]
              /\ e = done[t] + 1 => recorded'[t][e] <= recorded[t][e] + 1,
           \/ done'[t] = done[t] /\ tries'[t] = tries[t] + 1
           \/ done'[t] = done[t] + 1 /\ tries'[t] = 0
    PROVE  Saves(t)'
<1> DEFINE b == MaxTries * crashes
<1>1. b \in Nat
  BY DEF ListenerTypes, ListenerBounds
<1>2. done[t] \in Nat /\ tries[t] \in 0..MaxTries - 1 /\ tries'[t] \in 0..MaxTries - 1
  BY DEF ListenerTypes
<1>3. ASSUME NEW e \in 1..MaxEvents[t] PROVE recorded'[t][e] <= Tried(t, e)'
  <2>1. recorded[t][e] \in Nat /\ recorded'[t][e] \in Nat /\ e \in Nat
    BY DEF Saves, ListenerBounds
  <2>2. recorded[t][e] <= b + (IF e <= done[t] THEN MaxTries
                               ELSE IF e = done[t] + 1 THEN tries[t] ELSE 0)
    BY DEF Saves, Tried
  <2>3. Tried(t, e)' = b + (IF e <= done'[t] THEN MaxTries
                            ELSE IF e = done'[t] + 1 THEN tries'[t] ELSE 0)
    BY DEF Tried
  <2>4. /\ e # done[t] + 1 => recorded'[t][e] = recorded[t][e]
        /\ e = done[t] + 1 => recorded'[t][e] <= recorded[t][e] + 1
    OBVIOUS
  <2> HIDE DEF b
  <2>5. CASE e = done[t] + 1
    <3>0. recorded[t][e] <= b + tries[t] /\ recorded'[t][e] <= recorded[t][e] + 1
      BY <1>2, <2>2, <2>4, <2>5
    <3>1. recorded'[t][e] <= b + tries[t] + 1
      BY <1>1, <1>2, <2>1, <3>0
    <3>2. CASE done'[t] = done[t] /\ tries'[t] = tries[t] + 1
      <4>1. Tried(t, e)' = b + (tries[t] + 1)
        BY <1>2, <2>1, <2>3, <2>5, <3>2
      <4> QED BY <1>1, <1>2, <2>1, <3>1, <4>1
    <3>3. CASE done'[t] = done[t] + 1
      <4>1. Tried(t, e)' = b + MaxTries
        BY <1>2, <2>1, <2>3, <2>5, <3>3
      <4> QED BY <1>1, <1>2, <2>1, <3>1, <4>1 DEF ListenerBounds
    <3> QED BY <3>2, <3>3
  <2>6. CASE e # done[t] + 1
    BY <1>1, <1>2, <2>1, <2>2, <2>3, <2>4, <2>6 DEF ListenerBounds
  <2> QED BY <2>5, <2>6
<1> QED BY <1>3 DEF Saves

\* The record at hand is one of the topic's.
LEMMA RecordAtHand ==
    ASSUME ListenerBounds, ListenerTypes, NEW t \in Topics, Cursors(t), done[t] < fetched[t]
    PROVE  /\ done[t] + 1 \in 1..MaxEvents[t] /\ done[t] + 1 <= fetched[t]
           /\ 1..done[t] + 1 \subseteq 1..done[t] \cup {done[t] + 1}
BY DEF ListenerBounds, ListenerTypes, Cursors

\* Other steps than the listener's leave a topic's types alone.
LEMMA ThrowsTypes ==
    ASSUME ListenerBounds, ListenerTypes, NEW t \in Topics, Listener!Throws(t)
    PROVE  /\ done' \in [Topics -> Nat] /\ fetched' \in [Topics -> Nat]
           /\ tries' \in [Topics -> 0..MaxTries - 1] /\ DOMAIN dropped' = Topics
           /\ fetched'[t] = done'[t]
           /\ \/ done'[t] = done[t] /\ tries'[t] = tries[t] + 1 /\ dropped' = dropped
              \/ /\ done'[t] = done[t] + 1 /\ tries'[t] = 0
                 /\ dropped'[t] = dropped[t] \cup {done[t] + 1}
           /\ \A u \in Topics \ {t} : /\ done'[u] = done[u] /\ tries'[u] = tries[u]
                                      /\ fetched'[u] = fetched[u] /\ dropped'[u] = dropped[u]
<1>1. tries[t] \in 0..MaxTries - 1 /\ MaxTries \in Nat \ {0} /\ done[t] \in Nat
  BY DEF ListenerTypes, ListenerBounds
<1>2. CASE tries[t] + 1 < MaxTries
  <2>1. tries' = [tries EXCEPT ![t] = tries[t] + 1] /\ done' = done /\ dropped' = dropped
        /\ fetched' = [fetched EXCEPT ![t] = done[t]]
    BY <1>2 DEF Listener!Throws
  <2>2. tries[t] + 1 \in 0..MaxTries - 1
    BY <1>1, <1>2
  <2> QED BY <1>1, <2>1, <2>2 DEF ListenerTypes
<1>3. CASE ~(tries[t] + 1 < MaxTries)
  <2>1. /\ tries' = [tries EXCEPT ![t] = 0] /\ done' = [done EXCEPT ![t] = done[t] + 1]
        /\ dropped' = [dropped EXCEPT ![t] = dropped[t] \cup {done[t] + 1}]
        /\ fetched' = [fetched EXCEPT ![t] = done'[t]]
    BY <1>3 DEF Listener!Throws
  <2>2. 0 \in 0..MaxTries - 1 /\ done'[t] = done[t] + 1
    BY <1>1, <2>1 DEF ListenerTypes
  <2> QED BY <1>1, <2>1, <2>2 DEF ListenerTypes
<1> QED BY <1>2, <1>3

LEMMA ReturnsTypes ==
    ASSUME ListenerBounds, ListenerTypes, NEW t \in Topics, Listener!Returns(t)
    PROVE  /\ done' \in [Topics -> Nat] /\ tries' \in [Topics -> 0..MaxTries - 1]
           /\ UNCHANGED <<fetched, dropped>>
           /\ done'[t] = done[t] + 1 /\ tries'[t] = 0
           /\ \A u \in Topics \ {t} : done'[u] = done[u] /\ tries'[u] = tries[u]
<1>1. done[t] + 1 \in Nat /\ 0 \in 0..MaxTries - 1
  BY DEF ListenerTypes, ListenerBounds
<1> QED BY <1>1 DEF ListenerTypes, Listener!Returns

\* Every topic but t is left alone, with what is said of it.
LEMMA OthersKept ==
    ASSUME NEW t \in Topics, ListenerInv, crashes' = crashes,
           \A u \in Topics \ {t} :
              /\ produced'[u] = produced[u] /\ committed'[u] = committed[u]
              /\ done'[u] = done[u] /\ fetched'[u] = fetched[u] /\ tries'[u] = tries[u]
              /\ recorded'[u] = recorded[u] /\ mailed'[u] = mailed[u] /\ dropped'[u] = dropped[u],
           ListenerTypes', Cursors(t)', Saves(t)'
    PROVE  ListenerInv'
<1>1. ASSUME NEW u \in Topics \ {t} PROVE Cursors(u)' /\ Saves(u)'
  BY TopicLeftAlone DEF ListenerInv
<1> QED BY <1>1 DEF ListenerInv

LEMMA TriedAtMost ==
    ASSUME ListenerBounds, ListenerTypes, NEW t \in Topics, NEW e \in 1..MaxEvents[t]
    PROVE  /\ Tried(t, e) \in Nat /\ MaxTries * crashes <= Tried(t, e)
           /\ Tried(t, e) <= MaxTries * (crashes + 1)
<1>1. MaxTries * (crashes + 1) = MaxTries * crashes + MaxTries /\ MaxTries * crashes \in Nat
  BY DEF ListenerTypes, ListenerBounds
<1>2. tries[t] \in 0..MaxTries - 1 /\ done[t] \in Nat
  BY DEF ListenerTypes
<1> QED BY <1>1, <1>2 DEF Tried, ListenerBounds

LEMMA ListenerStep ==
    ASSUME ListenerBounds, ListenerInv, [Listener!Next]_listenerVars PROVE ListenerInv'
<1> USE DEF ListenerInv
<1>1. ASSUME NEW t \in Topics, Listener!Produce(t) PROVE ListenerInv'
  <2>1. /\ produced[t] < MaxEvents[t] /\ produced' = [produced EXCEPT ![t] = produced[t] + 1]
        /\ UNCHANGED <<committed, done, fetched, tries, recorded, mailed, dropped, crashes>>
    BY <1>1 DEF Listener!Produce, Listener!cursors
  <2>2. produced[t] \in Nat /\ fetched[t] \in Nat /\ MaxEvents[t] \in Nat
    BY DEF ListenerTypes, ListenerBounds
  <2>3. /\ produced' \in [Topics -> Nat] /\ produced'[t] = produced[t] + 1
        /\ \A u \in Topics \ {t} : produced'[u] = produced[u]
    BY <2>1, <2>2 DEF ListenerTypes
  <2>4. ListenerTypes'
    BY <2>1, <2>3 DEF ListenerTypes
  <2>5. Cursors(t)'
    BY <2>1, <2>2, <2>3 DEF Cursors
  <2>6. Saves(t)'
    BY <2>1, NothingSaved
  <2> QED BY <2>1, <2>3, <2>4, <2>5, <2>6, OthersKept
<1>2. ASSUME NEW t \in Topics, Listener!Poll(t) PROVE ListenerInv'
  <2>1. PICK n \in done[t] + 1 .. produced[t] : fetched' = [fetched EXCEPT ![t] = n]
    BY <1>2 DEF Listener!Poll
  <2>2. UNCHANGED <<produced, committed, done, tries, recorded, mailed, dropped, crashes>>
    BY <1>2 DEF Listener!Poll
  <2>3. done[t] \in Nat /\ produced[t] \in Nat /\ n \in Nat /\ done[t] <= n /\ n <= produced[t]
    BY <2>1 DEF ListenerTypes
  <2>4. /\ fetched' \in [Topics -> Nat] /\ fetched'[t] = n
        /\ \A u \in Topics \ {t} : fetched'[u] = fetched[u]
    BY <2>1, <2>3 DEF ListenerTypes
  <2>5. ListenerTypes'
    BY <2>2, <2>4 DEF ListenerTypes
  <2>6. Cursors(t)'
    BY <2>2, <2>3, <2>4 DEF Cursors
  <2>7. Saves(t)'
    BY <2>2, NothingSaved
  <2> QED BY <2>2, <2>4, <2>5, <2>6, <2>7, OthersKept
<1>3. ASSUME NEW t \in Topics, Listener!Commit(t) PROVE ListenerInv'
  <2>1. /\ committed' = [committed EXCEPT ![t] = done[t]]
        /\ UNCHANGED <<produced, done, fetched, tries, recorded, mailed, dropped, crashes>>
    BY <1>3 DEF Listener!Commit
  <2>2. /\ committed' \in [Topics -> Nat] /\ committed'[t] = done[t] /\ done[t] \in Nat
        /\ \A u \in Topics \ {t} : committed'[u] = committed[u]
    BY <2>1 DEF ListenerTypes
  <2>3. ListenerTypes'
    BY <2>1, <2>2 DEF ListenerTypes
  <2>4. Cursors(t)'
    BY <2>1, <2>2 DEF Cursors
  <2>5. Saves(t)'
    BY <2>1, NothingSaved
  <2> QED BY <2>1, <2>2, <2>3, <2>4, <2>5, OthersKept
<1>4. ASSUME NEW t \in Topics, Listener!Log(t) PROVE ListenerInv'
  <2>1. /\ Kind[t] = "logged" /\ done[t] < fetched[t] /\ Listener!Returns(t)
        /\ UNCHANGED <<produced, committed, recorded, mailed, crashes>>
    BY <1>4 DEF Listener!Log
  <2>2. /\ done' \in [Topics -> Nat] /\ tries' \in [Topics -> 0..MaxTries - 1]
        /\ UNCHANGED <<fetched, dropped>>
        /\ done'[t] = done[t] + 1 /\ tries'[t] = 0
        /\ \A u \in Topics \ {t} : done'[u] = done[u] /\ tries'[u] = tries[u]
    BY <2>1, ReturnsTypes
  <2>3. ListenerTypes'
    BY <2>1, <2>2 DEF ListenerTypes
  <2>4. Cursors(t)'
    BY <2>1, <2>2, RecordAtHand DEF Cursors, ListenerTypes
  <2>5. /\ recorded'[t] \in [1..MaxEvents[t] -> Nat]
        /\ \A e \in 1..MaxEvents[t] : recorded'[t][e] = recorded[t][e] /\ recorded[t][e] \in Nat
    BY <2>1 DEF Saves
  <2>6. Saves(t)'
    BY <2>1, <2>2, <2>3, <2>5, OneMoreTry
  <2> QED BY <2>1, <2>2, <2>3, <2>4, <2>6, OthersKept
<1>5. ASSUME NEW t \in Topics, Listener!RecordMember(t) PROVE ListenerInv'
  <2>1. /\ Kind[t] = "member" /\ done[t] < fetched[t] /\ Listener!Throws(t)
        /\ UNCHANGED <<produced, committed, mailed, crashes>>
    BY <1>5 DEF Listener!RecordMember
  <2>2. PICK n \in {0, 1} : recorded' = [recorded EXCEPT ![t][done[t] + 1] = @ + n]
    BY <1>5 DEF Listener!RecordMember
  <2>3. done[t] + 1 \in 1..MaxEvents[t] /\ done[t] + 1 <= fetched[t]
    BY <2>1, RecordAtHand
  <2>4. recorded[t] \in [1..MaxEvents[t] -> Nat] /\ DOMAIN recorded = Topics
    BY DEF Saves, ListenerTypes
  <2>5. /\ DOMAIN recorded' = Topics
        /\ recorded'[t] = [recorded[t] EXCEPT ![done[t] + 1] = @ + n]
        /\ \A u \in Topics \ {t} : recorded'[u] = recorded[u]
    BY <2>2, <2>4
  <2>6. /\ recorded'[t] \in [1..MaxEvents[t] -> Nat]
        /\ \A e \in 1..MaxEvents[t] :
              /\ e # done[t] + 1 => recorded'[t][e] = recorded[t][e]
              /\ e = done[t] + 1 => recorded'[t][e] <= recorded[t][e] + 1
    BY <2>3, <2>4, <2>5
  <2>7. /\ done' \in [Topics -> Nat] /\ fetched' \in [Topics -> Nat]
        /\ tries' \in [Topics -> 0..MaxTries - 1] /\ DOMAIN dropped' = Topics
        /\ fetched'[t] = done'[t]
        /\ \/ done'[t] = done[t] /\ tries'[t] = tries[t] + 1 /\ dropped' = dropped
           \/ /\ done'[t] = done[t] + 1 /\ tries'[t] = 0
              /\ dropped'[t] = dropped[t] \cup {done[t] + 1}
        /\ \A u \in Topics \ {t} : /\ done'[u] = done[u] /\ tries'[u] = tries[u]
                                   /\ fetched'[u] = fetched[u] /\ dropped'[u] = dropped[u]
    BY <2>1, ThrowsTypes
  <2>8. ListenerTypes'
    BY <2>1, <2>5, <2>7 DEF ListenerTypes
  <2>9. Cursors(t)'
    BY <2>1, <2>3, <2>7 DEF Cursors, ListenerTypes, ListenerBounds
  <2>10. Saves(t)'
    BY <2>1, <2>6, <2>7, <2>8, OneMoreTry
  <2> QED BY <2>1, <2>5, <2>7, <2>8, <2>9, <2>10, OthersKept
<1>6. ASSUME NEW t \in Topics, Listener!SendMail(t) PROVE ListenerInv'
  <2> DEFINE sent == mailed' = [mailed EXCEPT ![t] = @ \cup {done[t] + 1}]
  <2>1. /\ Kind[t] = "mail" /\ done[t] < fetched[t]
        /\ UNCHANGED <<produced, committed, recorded, crashes>>
        /\ \/ sent /\ Listener!Returns(t)
           \/ sent /\ Listener!Throws(t)
           \/ mailed' = mailed /\ Listener!Throws(t)
    BY <1>6 DEF Listener!SendMail
  <2>2. /\ done[t] + 1 \in 1..MaxEvents[t] /\ done[t] + 1 <= fetched[t]
        /\ 1..done[t] + 1 \subseteq 1..done[t] \cup {done[t] + 1}
    BY <2>1, RecordAtHand
  <2>3. /\ recorded'[t] \in [1..MaxEvents[t] -> Nat]
        /\ \A e \in 1..MaxEvents[t] :
              /\ e # done[t] + 1 => recorded'[t][e] = recorded[t][e]
              /\ e = done[t] + 1 => recorded'[t][e] <= recorded[t][e] + 1
    <3>1. \A e \in 1..MaxEvents[t] : recorded'[t][e] = recorded[t][e] /\ recorded[t][e] \in Nat
      BY <2>1 DEF Saves
    <3> QED BY <2>1, <3>1 DEF Saves
  <2>4. /\ DOMAIN mailed' = Topics /\ \A u \in Topics \ {t} : mailed'[u] = mailed[u]
        /\ sent => mailed'[t] = mailed[t] \cup {done[t] + 1}
        /\ mailed[t] \subseteq mailed'[t] /\ mailed'[t] \subseteq 1..MaxEvents[t]
    BY <2>1, <2>2 DEF ListenerTypes, Cursors
  <2>5. CASE sent /\ Listener!Returns(t)
    <3>1. /\ done' \in [Topics -> Nat] /\ tries' \in [Topics -> 0..MaxTries - 1]
          /\ UNCHANGED <<fetched, dropped>>
          /\ done'[t] = done[t] + 1 /\ tries'[t] = 0
          /\ \A u \in Topics \ {t} : done'[u] = done[u] /\ tries'[u] = tries[u]
      BY <2>5, ReturnsTypes
    <3>2. ListenerTypes'
      BY <2>1, <2>4, <3>1 DEF ListenerTypes
    <3>3. Cursors(t)'
      BY <2>1, <2>2, <2>4, <2>5, <3>1 DEF Cursors, ListenerTypes, ListenerBounds
    <3>4. Saves(t)'
      BY <2>1, <2>3, <3>1, <3>2, OneMoreTry
    <3> QED BY <2>1, <2>4, <3>1, <3>2, <3>3, <3>4, OthersKept
  <2>6. CASE Listener!Throws(t)
    <3>1. /\ done' \in [Topics -> Nat] /\ fetched' \in [Topics -> Nat]
          /\ tries' \in [Topics -> 0..MaxTries - 1] /\ DOMAIN dropped' = Topics
          /\ fetched'[t] = done'[t]
          /\ \/ done'[t] = done[t] /\ tries'[t] = tries[t] + 1 /\ dropped' = dropped
             \/ /\ done'[t] = done[t] + 1 /\ tries'[t] = 0
                /\ dropped'[t] = dropped[t] \cup {done[t] + 1}
          /\ \A u \in Topics \ {t} : /\ done'[u] = done[u] /\ tries'[u] = tries[u]
                                     /\ fetched'[u] = fetched[u] /\ dropped'[u] = dropped[u]
      BY <2>6, ThrowsTypes
    <3>2. ListenerTypes'
      BY <2>1, <2>4, <3>1 DEF ListenerTypes
    <3>3. Cursors(t)'
      BY <2>1, <2>2, <2>4, <3>1 DEF Cursors, ListenerTypes, ListenerBounds
    <3>4. Saves(t)'
      BY <2>1, <2>3, <3>1, <3>2, OneMoreTry
    <3> QED BY <2>1, <2>4, <3>1, <3>2, <3>3, <3>4, OthersKept
  <2> QED BY <2>1, <2>5, <2>6
<1>7. CASE Listener!Crash
  <2>1. /\ crashes < MaxCrash /\ crashes' = crashes + 1
        /\ done' = committed /\ fetched' = committed /\ tries' = Listener!Zero
        /\ UNCHANGED <<produced, committed, recorded, mailed, dropped>>
    BY <1>7 DEF Listener!Crash
  <2>2. Listener!Zero \in [Topics -> 0..MaxTries - 1]
    BY DEF Listener!Zero, ListenerBounds
  <2>3. ListenerTypes'
    BY <2>1, <2>2 DEF ListenerTypes, ListenerBounds
  <2>4. ASSUME NEW t \in Topics PROVE Cursors(t)'
    BY <2>1 DEF Cursors, ListenerTypes
  <2>5. ASSUME NEW t \in Topics PROVE Saves(t)'
    <3>1. MaxTries * crashes' \in Nat /\ crashes' = crashes + 1
      BY <2>1, <2>3 DEF ListenerTypes, ListenerBounds
    <3>2. ASSUME NEW e \in 1..MaxEvents[t] PROVE recorded[t][e] <= Tried(t, e)'
      <4>1. recorded[t][e] \in Nat /\ recorded[t][e] <= Tried(t, e)
        BY DEF Saves
      <4>2. Tried(t, e) \in Nat /\ Tried(t, e) <= MaxTries * crashes'
        BY <3>1, TriedAtMost
      <4>3. Tried(t, e)' \in Nat /\ MaxTries * crashes' <= Tried(t, e)'
        <5>1. tries'[t] \in 0..MaxTries - 1 /\ done'[t] \in Nat
          BY <2>3 DEF ListenerTypes
        <5> QED BY <3>1, <5>1 DEF Tried, ListenerBounds
      <4> QED BY <3>1, <4>1, <4>2, <4>3
    <3> QED BY <2>1, <3>2 DEF Saves
  <2> QED BY <2>3, <2>4, <2>5
<1>8. CASE UNCHANGED listenerVars
  BY <1>8 DEF listenerVars, ListenerTypes, Cursors, Saves, Tried
<1> QED BY <1>1, <1>2, <1>3, <1>4, <1>5, <1>6, <1>7, <1>8
        DEF Listener!Next, Listener!Move, Listener!Handle

LEMMA ListenerSafe == ASSUME ListenerBounds, ListenerInv PROVE NothingSkipped /\ SavedByTries
<1>1. ListenerTypes
  BY DEF ListenerInv
<1>2. ASSUME NEW t \in Topics
      PROVE  /\ produced[t] \in 0..MaxEvents[t] /\ recorded[t] \in [1..MaxEvents[t] -> Nat]
             /\ mailed[t] \subseteq 1..MaxEvents[t] /\ dropped[t] \subseteq 1..MaxEvents[t]
             /\ committed[t] <= done[t] /\ done[t] <= fetched[t] /\ fetched[t] <= produced[t]
             /\ Kind[t] = "mail" => 1..done[t] \subseteq mailed[t] \cup dropped[t]
  <2>1. produced[t] \in Nat /\ MaxEvents[t] \in Nat
    BY <1>1 DEF ListenerTypes, ListenerBounds
  <2> QED BY <2>1 DEF ListenerInv, Cursors, Saves
<1>3. ASSUME NEW t \in Topics, NEW e \in 1..MaxEvents[t]
      PROVE  recorded[t][e] <= MaxTries * (crashes + 1)
  <2>1. recorded[t][e] <= Tried(t, e) /\ recorded[t][e] \in Nat
    BY DEF ListenerInv, Saves
  <2>2. Tried(t, e) \in Nat /\ Tried(t, e) <= MaxTries * (crashes + 1)
    BY <1>1, TriedAtMost
  <2>3. MaxTries * (crashes + 1) \in Nat
    BY <1>1 DEF ListenerTypes, ListenerBounds
  <2> QED BY <2>1, <2>2, <2>3
<1>4. NothingSkipped
  BY <1>1, <1>2 DEF NothingSkipped, Listener!NothingSkipped, Listener!TypeOK, Listener!Events, ListenerTypes
<1>5. SavedByTries
  BY <1>3 DEF SavedByTries, Listener!SavedByTries, Listener!Events
<1> QED BY <1>4, <1>5

LEMMA ListenerInvariant == ASSUME ListenerBounds PROVE Listener!Spec => []ListenerInv
<1>1. Listener!Init => ListenerInv
  BY ListenerBegins
<1>2. ListenerInv /\ [Listener!Next]_listenerVars => ListenerInv'
  BY ListenerStep
<1> QED BY <1>1, <1>2, PTL DEF Listener!Spec, Listener!vars, listenerVars

\* Whatever fails and however often the service restarts, nothing is committed
\* before it is dealt with: a mail the group is past went out or was tried to
\* the last attempt.
THEOREM NoMailIsSkipped == ASSUME ListenerBounds PROVE Listener!Spec => []NothingSkipped
<1>1. ListenerInv => NothingSkipped
  BY ListenerSafe
<1> QED BY <1>1, ListenerInvariant, PTL

\* A new member's notification, which is saved by every attempt and never
\* acknowledged, is saved at most once for each attempt.
THEOREM SavesAreBounded == ASSUME ListenerBounds PROVE Listener!Spec => []SavedByTries
<1>1. ListenerInv => SavedByTries
  BY ListenerSafe
<1> QED BY <1>1, ListenerInvariant, PTL

-----------------------------------------------------------------------------
(* New posts: PostPublish *)

PostTypes ==
    /\ stored \subseteq Posts /\ buffer \subseteq Posts /\ topic \subseteq Posts /\ lost \subseteq Posts
    /\ media \in [Posts -> Seq(Names)] /\ bucket \subseteq Names
    /\ req \in [Posts -> [pc : {"new", "media", "row", "commit", "created", "failed", "gone"},
                          done : Seq(Names)]]

\* MinIO has the first n files of a post.
HasFirst(p, n) == \A i \in 1..n : Files[p][i] \in bucket

\* A request has put the files whose rows are written, and the next one before
\* its row, and it has come to the commit with all of them.
RequestInv(p) ==
    LET n == Len(req[p].done)
    IN /\ n <= Len(Files[p]) /\ (\A i \in 1..n : req[p].done[i] = Files[p][i])
       /\ HasFirst(p, n)
       /\ Working(p) => Types[p] = Len(Files[p])
       /\ At(p, "row") => n < Len(Files[p]) /\ Files[p][n + 1] \in bucket
       /\ At(p, "commit") => AllDone(p)

\* What is stored is whole, what is announced has its files.
OutcomeInv(p) ==
    /\ p \in stored => Types[p] = Len(Files[p]) /\ media[p] = Files[p]
    /\ p \notin stored => media[p] = <<>>
    /\ p \in buffer \cup topic => HasFirst(p, Len(Files[p]))

PostInv == PostTypes /\ \A p \in Posts : RequestInv(p) /\ OutcomeInv(p)

LEMMA FileSeq ==
    ASSUME NEW p \in Posts
    PROVE  /\ Files[p] \in Seq(Names) /\ Files[p] # <<>> /\ Len(Files[p]) \in Nat
           /\ DOMAIN Files[p] = 1..Len(Files[p])
           /\ \A i \in 1..Len(Files[p]) : Files[p][i] \in Names
BY PublishAssumption, LenProperties, ElementOfSeq

LEMMA PostBegins == ASSUME Init PROVE PostInv
<1>1. <<>> \in Seq(Names) /\ Len(<<>>) = 0
  OBVIOUS
<1>2. PostTypes
  BY <1>1 DEF Init, Waiting, PostTypes
<1>3. ASSUME NEW p \in Posts PROVE RequestInv(p) /\ OutcomeInv(p)
  <2>1. req[p].pc = "new" /\ req[p].done = <<>>
    BY DEF Init, Waiting
  <2>2. Len(req[p].done) = 0 /\ Len(req[p].done) <= Len(Files[p])
    BY <2>1, FileSeq
  <2>3. RequestInv(p)
    BY <2>1, <2>2 DEF RequestInv, Working, At, HasFirst
  <2>4. OutcomeInv(p)
    BY DEF Init, OutcomeInv
  <2> QED BY <2>3, <2>4
<1> QED BY <1>2, <1>3 DEF PostInv

\* What Goto writes.
LEMMA GotoTypes ==
    ASSUME PostTypes, NEW p \in Posts, NEW names \in Seq(Names),
           NEW s \in {"new", "media", "row", "commit", "created", "failed", "gone"}, Goto(p, s, names)
    PROVE  /\ req' \in [Posts -> [pc : {"new", "media", "row", "commit", "created", "failed", "gone"},
                                  done : Seq(Names)]]
           /\ req'[p].pc = s /\ req'[p].done = names
           /\ \A q \in Posts \ {p} : req'[q] = req[q]
BY DEF PostTypes, Goto

\* A request that is left alone, or whose place is, whatever MinIO gets more.
LEMMA RequestLeftAlone ==
    ASSUME NEW p \in Posts, RequestInv(p), req'[p] = req[p], bucket \subseteq bucket'
    PROVE  RequestInv(p)'
BY DEF RequestInv, HasFirst, Working, At, AllDone

LEMMA OutcomeLeftAlone ==
    ASSUME NEW p \in Posts, OutcomeInv(p), bucket \subseteq bucket',
           p \in stored' <=> p \in stored, media'[p] = media[p],
           p \in (buffer \cup topic)' => p \in buffer \cup topic
    PROVE  OutcomeInv(p)'
BY DEF OutcomeInv, HasFirst

\* A request that has ended.
LEMMA RequestEnded ==
    ASSUME NEW p \in Posts, req'[p].pc \in {"created", "failed", "gone"}, req'[p].done = <<>>
    PROVE  RequestInv(p)'
<1>1. Len(req'[p].done) = 0
  OBVIOUS
<1> QED BY <1>1, FileSeq DEF RequestInv, HasFirst, Working, At

LEMMA PostStep == ASSUME PostInv, [Next]_vars PROVE PostInv'
<1> USE DEF PostInv
<1>0. <<>> \in Seq(Names)
  OBVIOUS
<1>1. ASSUME NEW p \in Posts, Insert(p) PROVE PostInv'
  <2>1. /\ UNCHANGED <<stored, media, bucket, buffer, topic, lost>>
        /\ \/ Goto(p, "media", <<>>) /\ Types[p] = Len(Files[p])
           \/ Goto(p, "failed", <<>>)
    BY <1>1 DEF Insert, Answer
  <2>2. PICK s \in {"media", "failed"} : Goto(p, s, <<>>) /\ (s = "media" => Types[p] = Len(Files[p]))
    BY <2>1
  <2>3. /\ PostTypes' /\ req'[p].pc = s /\ req'[p].done = <<>>
        /\ \A q \in Posts \ {p} : req'[q] = req[q]
    BY <1>0, <2>1, <2>2, GotoTypes DEF PostTypes
  <2>4. Len(req'[p].done) = 0
    BY <2>3
  <2>5. RequestInv(p)'
    BY <2>2, <2>3, <2>4, FileSeq DEF RequestInv, HasFirst, Working, At
  <2>6. ASSUME NEW q \in Posts \ {p} PROVE RequestInv(q)'
    BY <2>1, <2>3, RequestLeftAlone
  <2>7. ASSUME NEW q \in Posts PROVE OutcomeInv(q)'
    BY <2>1, OutcomeLeftAlone
  <2> QED BY <2>3, <2>5, <2>6, <2>7
<1>2. ASSUME NEW p \in Posts, Put(p) PROVE PostInv'
  <2> DEFINE n == Len(req[p].done)
  <2>1. /\ req[p].pc = "media" /\ n # Len(Files[p]) /\ bucket' = bucket \cup {Files[p][n + 1]}
        /\ Goto(p, "row", req[p].done) /\ UNCHANGED <<stored, media, buffer, topic, lost>>
    BY <1>2 DEF Put, At, AllDone, Next1
  <2>2. /\ req[p].done \in Seq(Names) /\ n \in Nat /\ n < Len(Files[p]) /\ n + 1 \in 1..Len(Files[p])
        /\ Types[p] = Len(Files[p])
    BY <2>1, FileSeq, LenProperties DEF PostTypes, RequestInv, Working
  <2>3. /\ PostTypes' /\ req'[p].pc = "row" /\ req'[p].done = req[p].done
        /\ \A q \in Posts \ {p} : req'[q] = req[q]
    BY <2>1, <2>2, GotoTypes, FileSeq DEF PostTypes
  <2>4. bucket \subseteq bucket'
    BY <2>1
  <2>5. RequestInv(p)'
    BY <2>1, <2>2, <2>3 DEF RequestInv, HasFirst, Working, At
  <2>6. ASSUME NEW q \in Posts \ {p} PROVE RequestInv(q)'
    BY <2>3, <2>4, RequestLeftAlone
  <2>7. ASSUME NEW q \in Posts PROVE OutcomeInv(q)'
    BY <2>1, <2>4, OutcomeLeftAlone
  <2> QED BY <2>3, <2>5, <2>6, <2>7
<1>3. ASSUME NEW p \in Posts, InsertMedia(p) PROVE PostInv'
  <2> DEFINE n == Len(req[p].done)
             more == Append(req[p].done, Files[p][n + 1])
  <2>1. /\ req[p].pc = "row" /\ Goto(p, "media", more)
        /\ UNCHANGED <<stored, media, bucket, buffer, topic, lost>>
    BY <1>3 DEF InsertMedia, At, Next1
  <2>2. /\ req[p].done \in Seq(Names) /\ n \in Nat /\ n < Len(Files[p]) /\ n + 1 \in 1..Len(Files[p])
        /\ Types[p] = Len(Files[p]) /\ Files[p][n + 1] \in bucket
        /\ Files[p][n + 1] \in Names
    BY <2>1, FileSeq, LenProperties DEF PostTypes, RequestInv, Working, At
  <2>3. /\ more \in Seq(Names) /\ Len(more) = n + 1 /\ more[n + 1] = Files[p][n + 1]
        /\ \A i \in 1..n : more[i] = req[p].done[i]
    BY <2>2, AppendProperties
  <2> HIDE DEF more
  <2>4. /\ PostTypes' /\ req'[p].pc = "media" /\ req'[p].done = more
        /\ \A q \in Posts \ {p} : req'[q] = req[q]
    BY <2>1, <2>3, GotoTypes DEF PostTypes
  <2>5. RequestInv(p)'
    <3>1. \A i \in 1..n + 1 : more[i] = Files[p][i] /\ Files[p][i] \in bucket
      BY <2>2, <2>3 DEF RequestInv, HasFirst
    <3> QED BY <2>1, <2>2, <2>3, <2>4, <3>1, FileSeq DEF RequestInv, HasFirst, Working, At
  <2>6. ASSUME NEW q \in Posts \ {p} PROVE RequestInv(q)'
    BY <2>1, <2>4, RequestLeftAlone
  <2>7. ASSUME NEW q \in Posts PROVE OutcomeInv(q)'
    BY <2>1, OutcomeLeftAlone
  <2> QED BY <2>4, <2>5, <2>6, <2>7
<1>4. ASSUME NEW p \in Posts, Send(p) PROVE PostInv'
  <2>1. /\ req[p].pc = "media" /\ AllDone(p) /\ buffer' = buffer \cup {p}
        /\ Goto(p, "commit", req[p].done) /\ UNCHANGED <<stored, media, bucket, topic, lost>>
    BY <1>4 DEF Send, At
  <2>2. req[p].done \in Seq(Names)
    BY DEF PostTypes
  <2>3. /\ PostTypes' /\ req'[p].pc = "commit" /\ req'[p].done = req[p].done
        /\ \A q \in Posts \ {p} : req'[q] = req[q]
    BY <2>1, <2>2, GotoTypes DEF PostTypes
  <2>4. RequestInv(p)'
    BY <2>1, <2>3 DEF RequestInv, HasFirst, Working, At, AllDone
  <2>5. ASSUME NEW q \in Posts \ {p} PROVE RequestInv(q)' /\ OutcomeInv(q)'
    BY <2>1, <2>3, RequestLeftAlone, OutcomeLeftAlone
  <2>6. OutcomeInv(p)'
    BY <2>1 DEF OutcomeInv, RequestInv, HasFirst, AllDone
  <2> QED BY <2>3, <2>4, <2>5, <2>6
<1>5. ASSUME NEW p \in Posts, Commit(p) PROVE PostInv'
  <2>1. /\ req[p].pc = "commit" /\ stored' = stored \cup {p}
        /\ media' = [media EXCEPT ![p] = req[p].done]
        /\ UNCHANGED <<bucket, buffer, topic, lost>>
    BY <1>5 DEF Commit, At
  <2>2. PICK s \in {"created", "failed"} : Goto(p, s, <<>>)
    BY <1>5 DEF Commit, Answer
  <2>3. Types[p] = Len(Files[p]) /\ req[p].done \in Seq(Names) /\ Len(req[p].done) = Len(Files[p])
        /\ \A i \in 1..Len(req[p].done) : req[p].done[i] = Files[p][i]
    BY <2>1 DEF RequestInv, Working, At, AllDone, PostTypes
  <2>4. req[p].done = Files[p]
    BY <2>3, FileSeq, SeqEqual
  <2>5. /\ req' \in [Posts -> [pc : {"new", "media", "row", "commit", "created", "failed", "gone"},
                               done : Seq(Names)]]
        /\ req'[p].pc = s /\ req'[p].done = <<>>
        /\ \A q \in Posts \ {p} : req'[q] = req[q]
    BY <1>0, <2>2, GotoTypes DEF PostInv
  <2>6. /\ media' \in [Posts -> Seq(Names)] /\ media'[p] = Files[p]
        /\ \A q \in Posts \ {p} : media'[q] = media[q]
    BY <2>1, <2>3, <2>4 DEF PostTypes
  <2>7. PostTypes'
    BY <2>1, <2>5, <2>6 DEF PostTypes
  <2>8. RequestInv(p)'
    BY <2>2, <2>5, RequestEnded
  <2>9. ASSUME NEW q \in Posts \ {p} PROVE RequestInv(q)' /\ OutcomeInv(q)'
    BY <2>1, <2>5, <2>6, RequestLeftAlone, OutcomeLeftAlone
  <2>10. OutcomeInv(p)'
    BY <2>1, <2>3, <2>6 DEF OutcomeInv, HasFirst
  <2> QED BY <2>7, <2>8, <2>9, <2>10
<1>6. ASSUME NEW p \in Posts, Abort(p) PROVE PostInv'
  <2>1. Goto(p, "failed", <<>>) /\ UNCHANGED <<stored, media, bucket, buffer, topic, lost>>
    BY <1>6 DEF Abort, Answer
  <2>2. /\ PostTypes' /\ req'[p].pc = "failed" /\ req'[p].done = <<>>
        /\ \A q \in Posts \ {p} : req'[q] = req[q]
    BY <1>0, <2>1, GotoTypes DEF PostTypes
  <2>3. RequestInv(p)'
    BY <2>2, RequestEnded
  <2>4. ASSUME NEW q \in Posts \ {p} PROVE RequestInv(q)'
    BY <2>1, <2>2, RequestLeftAlone
  <2>5. ASSUME NEW q \in Posts PROVE OutcomeInv(q)'
    BY <2>1, OutcomeLeftAlone
  <2> QED BY <2>2, <2>3, <2>4, <2>5
<1>7. ASSUME NEW p \in Posts, Deliver(p) PROVE PostInv'
  <2>1. /\ p \in buffer /\ buffer' = buffer \ {p} /\ topic' = topic \cup {p}
        /\ UNCHANGED <<stored, media, bucket, lost, req>>
    BY <1>7 DEF Deliver
  <2>2. PostTypes'
    BY <2>1 DEF PostTypes
  <2>3. ASSUME NEW q \in Posts PROVE RequestInv(q)' /\ OutcomeInv(q)'
    BY <2>1, RequestLeftAlone, OutcomeLeftAlone
  <2> QED BY <2>2, <2>3
<1>8. CASE Crash
  <2>1. /\ buffer' = {} /\ lost' = lost \cup buffer
        /\ req' = [p \in Posts |-> IF Working(p) THEN [pc |-> "gone", done |-> <<>>] ELSE req[p]]
        /\ UNCHANGED <<stored, media, bucket, topic>>
    BY <1>8 DEF Crash
  <2>2. PostTypes'
    BY <2>1 DEF PostTypes
  <2>3. ASSUME NEW q \in Posts PROVE RequestInv(q)'
    <3>1. req'[q] = req[q] \/ (req'[q].pc = "gone" /\ req'[q].done = <<>>)
      BY <2>1
    <3> QED BY <2>1, <3>1, RequestLeftAlone, RequestEnded
  <2>4. ASSUME NEW q \in Posts PROVE OutcomeInv(q)'
    BY <2>1, OutcomeLeftAlone
  <2> QED BY <2>2, <2>3, <2>4
<1>9. CASE UNCHANGED vars
  <2>1. UNCHANGED <<stored, media, bucket, buffer, topic, lost, req>>
    BY <1>9 DEF vars
  <2>2. PostTypes'
    BY <2>1 DEF PostTypes
  <2>3. ASSUME NEW q \in Posts PROVE RequestInv(q)' /\ OutcomeInv(q)'
    BY <2>1, RequestLeftAlone, OutcomeLeftAlone
  <2> QED BY <2>2, <2>3
<1> QED BY <1>1, <1>2, <1>3, <1>4, <1>5, <1>6, <1>7, <1>8, <1>9 DEF Next, Create

LEMMA PostInvariant == Spec => []PostInv
<1>1. Init => PostInv
  BY PostBegins
<1>2. PostInv /\ [Next]_vars => PostInv'
  BY PostStep
<1> QED BY <1>1, <1>2, PTL DEF Spec

LEMMA PostSafe == ASSUME PostInv PROVE PostIsWhole
<1>1. TypeOK
  BY DEF PostInv, PostTypes, RequestInv, TypeOK
<1> QED BY <1>1, FileSeq DEF PostInv, PostTypes, OutcomeInv, HasFirst, PostIsWhole

\* A stored post has all its media and no other post has any, wherever the
\* request, the process or the answer of the commit is lost, and no post is
\* announced before its last file was accepted.
THEOREM PostsAreWhole == Spec => []PostIsWhole
<1>1. PostInv => PostIsWhole
  BY PostSafe
<1> QED BY <1>1, PostInvariant, PTL

-----------------------------------------------------------------------------
(* The two services together: EventPath *)

LEMMA PathStep ==
    ASSUME Announced \in Topics, [PathNext]_pathVars
    PROVE  [Next]_vars /\ [Listener!Next]_listenerVars
<1>1. CASE Publish
  BY <1>1 DEF Publish, Next
<1>2. ASSUME NEW p \in Posts, Transport(p) PROVE [Next]_vars /\ [Listener!Next]_listenerVars
  BY <1>2 DEF Transport, Next, Listener!Next
<1>3. CASE Hand
  BY <1>3 DEF Hand, Listener!Next
<1>4. CASE Poll
  BY <1>4 DEF Poll, Listener!Next
<1>5. CASE Others
  BY <1>5 DEF Others, Listener!Next
<1>6. CASE UNCHANGED pathVars
  BY <1>6 DEF pathVars
<1> QED BY <1>1, <1>2, <1>3, <1>4, <1>5, <1>6 DEF PathNext

\* Joined by the topic, the post service and the notification service each do
\* what they do alone: what is proved of either holds on the whole path.
THEOREM PathRunsBoth == ASSUME Announced \in Topics PROVE PathSpec => Spec /\ Listener!Spec
<1>1. PathInit => Init /\ Listener!Init
  BY DEF PathInit
<1>2. [PathNext]_pathVars => [Next]_vars /\ [Listener!Next]_listenerVars
  BY PathStep
<1> QED BY <1>1, <1>2, PTL DEF PathSpec, Spec, Listener!Spec, Listener!vars, listenerVars

\* A post has a record only if the producer has sent it, and the listener is
\* handed only posts that have one.
HandledInv == /\ place \in [Posts -> Nat]
              /\ \A p \in Posts : place[p] # 0 \/ p \in handled => p \in topic

\* The posts the notification service has heard of have all their files, even
\* one whose transaction was never committed.
HandledHasFiles == \A p \in Posts \cap handled : \A i \in DOMAIN Files[p] : Files[p][i] \in bucket

LEMMA HandledStep ==
    ASSUME Announced \in Topics, ListenerInv, HandledInv, [PathNext]_pathVars, ListenerInv'
    PROVE  HandledInv'
<1>1. CASE Publish
  <2>1. topic' = topic /\ UNCHANGED <<place, handled>>
    BY <1>1 DEF Publish, Crash, Create, Insert, Put, InsertMedia, Send, Commit, Abort
  <2> QED BY <2>1 DEF HandledInv
<1>2. ASSUME NEW p \in Posts, Transport(p) PROVE HandledInv'
  <2>1. /\ topic' = topic \cup {p} /\ handled' = handled
        /\ place' = [place EXCEPT ![p] = produced'[Announced]]
    BY <1>2 DEF Transport, Deliver
  <2>2. produced'[Announced] \in Nat
    BY DEF ListenerInv, ListenerTypes
  <2>3. \A q \in Posts \ {p} : place'[q] = place[q]
    BY <2>1
  <2> QED BY <2>1, <2>2, <2>3 DEF HandledInv
<1>3. CASE Hand
  <2>1. /\ handled' = handled \cup {p \in Posts : place[p] = done[Announced] + 1}
        /\ topic' = topic /\ place' = place
    BY <1>3 DEF Hand, vars
  <2>2. done[Announced] + 1 # 0
    BY DEF ListenerInv, ListenerTypes
  <2> QED BY <2>1, <2>2 DEF HandledInv
<1>4. CASE Poll \/ Others \/ UNCHANGED pathVars
  BY <1>4 DEF Poll, Others, pathVars, vars, HandledInv
<1> QED BY <1>1, <1>2, <1>3, <1>4 DEF PathNext

\* A post the notification service has handled has every one of its files in
\* MinIO, whatever became of the request that made it: it was announced after
\* the last of them was accepted.
THEOREM HandledPostsHaveFiles ==
    ASSUME ListenerBounds, Announced \in Topics PROVE PathSpec => []HandledHasFiles
<1>1. PathInit => HandledInv
  BY DEF PathInit, HandledInv
<1>2. ListenerInv /\ ListenerInv' /\ HandledInv /\ [PathNext]_pathVars => HandledInv'
  BY HandledStep
<1>3. PostIsWhole /\ HandledInv => HandledHasFiles
  <2>1. ASSUME PostIsWhole, HandledInv, NEW p \in Posts \cap handled
        PROVE  \A i \in DOMAIN Files[p] : Files[p][i] \in bucket
    <3>1. p \in topic
      BY <2>1 DEF HandledInv
    <3> QED BY <2>1, <3>1 DEF PostIsWhole
  <2> QED BY <2>1 DEF HandledHasFiles
<1>4. PathSpec => []ListenerInv
  BY PathRunsBoth, ListenerInvariant, PTL
<1>5. PathSpec => []PostIsWhole
  BY PathRunsBoth, PostsAreWhole, PTL
<1> QED BY <1>1, <1>2, <1>3, <1>4, <1>5, PTL DEF PathSpec

-----------------------------------------------------------------------------
(* Who is online: the two instances of Presence, by the theorem about any *)

TwoUsers == INSTANCE PresenceProofs WITH Users <- {ann, bob}, Sessions <- {s1, s2}, UserOf <- Owner
OneUser == INSTANCE PresenceProofs WITH Users <- {ann}, Sessions <- {s1, s2},
                                        UserOf <- [s \in {s1, s2} |-> ann]

\* The two users with a device each, and the one with two, are in the set only
\* with a session of theirs that has not been taken off it, but for a user who
\* left in a haste.
THEOREM UsersAreOnlineWithSessions ==
    /\ Online!Spec /\ [](part # "devices") => []NobodyStaysOnline
    /\ Devices!Spec /\ [](part = "devices") => []NobodyStaysOnline
<1>1. TwoUsers!SessionsHaveUsers /\ OneUser!SessionsHaveUsers
  BY DEF Owner, TwoUsers!SessionsHaveUsers, OneUser!SessionsHaveUsers
<1>2. TwoUsers!Init /\ [][TwoUsers!Next]_(TwoUsers!vars) => []TwoUsers!NobodyStaysOnline
  BY <1>1, TwoUsers!NobodyIsLeftOnline
<1>3. OneUser!Init /\ [][OneUser!Next]_(OneUser!vars) => []OneUser!NobodyStaysOnline
  BY <1>1, OneUser!NobodyIsLeftOnline
<1>4. (part # "devices" /\ TwoUsers!NobodyStaysOnline) => NobodyStaysOnline
  BY DEF NobodyStaysOnline, Online!NobodyStaysOnline, Online!TypeOK,
         TwoUsers!NobodyStaysOnline, TwoUsers!TypeOK
<1>5. (part = "devices" /\ OneUser!NobodyStaysOnline) => NobodyStaysOnline
  BY DEF NobodyStaysOnline, Devices!NobodyStaysOnline, Devices!TypeOK,
         OneUser!NobodyStaysOnline, OneUser!TypeOK
<1>6. Online!Init => TwoUsers!Init
  BY DEF Online!Init, TwoUsers!Init
<1>7. [Online!Next]_onlineVars => [TwoUsers!Next]_onlineVars
  BY SMT DEF Online!Next, Online!Connect, Online!Announce, Online!Leave, Online!Handle, Online!AddUser,
         Online!SendList, Online!RemoveUser, Online!Deliver, Online!Client, Online!Announcement,
         TwoUsers!Next, TwoUsers!Connect, TwoUsers!Announce, TwoUsers!Leave, TwoUsers!Handle,
         TwoUsers!AddUser, TwoUsers!SendList, TwoUsers!RemoveUser, TwoUsers!Deliver,
         TwoUsers!Client, TwoUsers!Announcement
<1>8. Devices!Init => OneUser!Init
  BY DEF Devices!Init, OneUser!Init
<1>9. [Devices!Next]_onlineVars => [OneUser!Next]_onlineVars
  BY SMT DEF Devices!Next, Devices!Connect, Devices!Announce, Devices!Leave, Devices!Handle, Devices!AddUser,
         Devices!SendList, Devices!RemoveUser, Devices!Deliver, Devices!Client, Devices!Announcement,
         OneUser!Next, OneUser!Connect, OneUser!Announce, OneUser!Leave, OneUser!Handle,
         OneUser!AddUser, OneUser!SendList, OneUser!RemoveUser, OneUser!Deliver,
         OneUser!Client, OneUser!Announcement
<1> QED BY <1>2, <1>3, <1>4, <1>5, <1>6, <1>7, <1>8, <1>9, PTL
       DEF Online!Spec, Devices!Spec, Online!vars, Devices!vars, TwoUsers!vars, OneUser!vars,
           onlineVars
=============================================================================
