--------------------------- MODULE CommentPublish ---------------------------
(***************************************************************************)
(* A new comment of the comment service (Comment.py, create): the file is  *)
(* read for moderation and put to MinIO, the comment inserted and the      *)
(* announcement given to Kafka, with no transaction around them; and a     *)
(* change of a comment (update), which marks it deleted as well.           *)
(***************************************************************************)
CONSTANTS
    Comments,
    WithFile    \* the comments sent with a file, a subset of Comments

VARIABLES
    unread,  \* the comments whose upload has bytes left to read
    object,  \* what MinIO has of the file of each comment
    stored,  \* the comments inserted
    buffer,  \* announcements the producer has not sent yet
    topic,   \* announcements in create-comment
    lost,    \* history: announcements a crash found in the buffer
    pc,
    deleted, \* the comments marked deleted
    found    \* the comments an update has found and not written

vars == <<unread, object, stored, buffer, topic, lost, pc, deleted, found>>
edits == <<deleted, found>>

Init == /\ unread = WithFile
        /\ object = [k \in Comments |-> "absent"]
        /\ stored = {} /\ buffer = {} /\ topic = {} /\ lost = {}
        /\ pc = [k \in Comments |-> "read"]
        /\ deleted = {} /\ found = {}

Goto(k, stage) == pc' = [pc EXCEPT ![k] = stage]
Working(k) == pc[k] \in {"moderate", "insert", "send"}
-----------------------------------------------------------------------------
\* media_file.read() takes the upload to its end.
ReadFile(k) == /\ pc[k] = "read"
               /\ unread' = unread \ {k}
               /\ Goto(k, "moderate")
               /\ UNCHANGED <<object, stored, buffer, topic, lost, edits>>

\* The comment is accepted; put_object reads what is left of the upload.
Put(k) == /\ pc[k] = "moderate"
          /\ object' = IF k \notin WithFile THEN object
                       ELSE [object EXCEPT ![k] = IF k \in unread THEN "whole" ELSE "empty"]
          /\ Goto(k, "insert")
          /\ UNCHANGED <<unread, stored, buffer, topic, lost, edits>>

\* Slip: the comment is announced before it is inserted.
Insert_After(k) == /\ pc[k] = "insert"
                   /\ buffer' = buffer \cup {k}
                   /\ Goto(k, "send")
                   /\ UNCHANGED <<unread, object, stored, topic, lost, edits>>

Insert(k) == /\ pc[k] = "insert"
             /\ stored' = stored \cup {k}
             /\ Goto(k, "send")
             /\ UNCHANGED <<unread, object, buffer, topic, lost, edits>>

\* Slip: the answer does not wait for the announcement to be taken.
Send_Later(k) == /\ pc[k] = "send"
                 /\ Goto(k, "created")
                 /\ UNCHANGED <<unread, object, stored, buffer, topic, lost, edits>>

\* The producer takes the announcement and the request is answered.
Send(k) == /\ pc[k] = "send"
           /\ buffer' = buffer \cup {k}
           /\ Goto(k, "created")
           /\ UNCHANGED <<unread, object, stored, topic, lost, edits>>

\* Moderation refuses the comment or a call fails; nothing is undone.
Fail(k) == /\ pc[k] = "read" \/ Working(k)
           /\ Goto(k, "failed")
           /\ UNCHANGED <<unread, object, stored, buffer, topic, lost, edits>>

\* The broker takes the batch; that it never does is not modelled.
Deliver(k) == /\ k \in buffer
              /\ buffer' = buffer \ {k} /\ topic' = topic \cup {k}
              /\ UNCHANGED <<unread, object, stored, lost, pc, edits>>

\* The process dies and starts again.
Crash == /\ buffer' = {} /\ lost' = lost \cup buffer
         /\ found' = {}
         /\ pc' = [k \in Comments |-> IF Working(k) THEN "failed" ELSE pc[k]]
         /\ UNCHANGED <<unread, object, stored, topic, deleted>>

\* update finds the comment ...
Find(k) == /\ k \in stored
           /\ found' = found \cup {k}
           /\ UNCHANGED <<unread, object, stored, buffer, topic, lost, pc, deleted>>

\* ... and writes the fields the client has set, isDelete among them or not.
Update(k) == /\ k \in found
             /\ found' = found \ {k}
             /\ deleted' \in {deleted, deleted \cup {k}, deleted \ {k}}
             /\ UNCHANGED <<unread, object, stored, buffer, topic, lost, pc>>

Create(k) == ReadFile(k) \/ Put(k) \/ Insert(k) \/ Send(k)
Handle(k) == Create(k) \/ Fail(k) \/ Deliver(k)
Next == Crash \/ \E k \in Comments : Handle(k) \/ Find(k) \/ Update(k)

\* The event loop resumes a request and the producer sends its batches.
Fairness == \A k \in Comments : WF_vars(Create(k) \/ Fail(k)) /\ WF_vars(Deliver(k))
Spec == Init /\ [][Next]_vars /\ Fairness
-----------------------------------------------------------------------------
TypeOK == /\ unread \subseteq WithFile
          /\ object \in [Comments -> {"absent", "empty", "whole"}]
          /\ stored \subseteq Comments /\ buffer \subseteq Comments /\ topic \subseteq Comments
          /\ \A k \in Comments : Working(k) \/ pc[k] \in {"read", "created", "failed"}

\* A comment is announced or changed only when it can be read, and stored only
\* when something was put for its file, crashes included.
AnnouncedIsStored == /\ TypeOK
                     /\ buffer \cup topic \cup found \cup deleted \subseteq stored
                     /\ \A k \in stored \cap WithFile : object[k] # "absent"

\* A comment answered as created is announced, but for what dies with the buffer,
\* if the broker takes the batches of a producer that lives.
CreatedIsAnnounced == \A k \in Comments : pc[k] = "created" ~> k \in topic \cup lost

\* The object of a comment's file has the file, as the comment in the code says
\* that saves it.
FileIsSaved == \A k \in stored \cap WithFile : object[k] = "whole"
=============================================================================
