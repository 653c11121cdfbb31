---------------------------- MODULE PostPublish ----------------------------
(***************************************************************************)
(* A new post of the post service (Post.py, create): one MongoDB           *)
(* transaction stores the post and the rows of its media; the files go to  *)
(* MinIO and the announcement to Kafka, which no transaction undoes.  Each *)
(* request makes the one post that is named after it.  An action runs from *)
(* one await to the next: moderation and MinIO are called without one.     *)
(***************************************************************************)
EXTENDS Naturals, Sequences

CONSTANTS
    Posts,
    Files,  \* Files[p]: the names of the media_files of each request, in order
    Types   \* Types[p]: the length of its media_types

Names == UNION {{Files[p][i] : i \in DOMAIN Files[p]} : p \in Posts}

ASSUME PublishAssumption == \A p \in Posts : Files[p] \in Seq(Names) \ {<<>>} /\ Types[p] \in Nat

VARIABLES
    stored,   \* the posts committed
    media,    \* the committed rows of post_media, as the names of each post
    bucket,   \* the names MinIO has an object of
    buffer,   \* announcements the Kafka producer has not sent yet
    topic,    \* announcements in create-post
    lost,     \* history: announcements a crash found in the buffer
    req       \* done: the media rows written in the transaction

vars == <<stored, media, bucket, buffer, topic, lost, req>>

Waiting == [pc |-> "new", done |-> <<>>]
Init == /\ stored = {} /\ bucket = {} /\ buffer = {} /\ topic = {} /\ lost = {}
        /\ media = [p \in Posts |-> <<>>]
        /\ req = [p \in Posts |-> Waiting]

At(p, stage) == req[p].pc = stage
Goto(p, stage, names) == req' = [req EXCEPT ![p] = [pc |-> stage, done |-> names]]
Answer(p, code) == Goto(p, code, <<>>)
Working(p) == req[p].pc \in {"media", "row", "commit"}
Next1(p) == Files[p][Len(req[p].done) + 1]
AllDone(p) == Len(req[p].done) = Len(Files[p])
-----------------------------------------------------------------------------
\* The content is accepted and the post inserted in the transaction; numbers
\* of files and types that differ abort it.
Insert(p) == /\ At(p, "new")
             /\ IF Types[p] = Len(Files[p]) THEN Goto(p, "media", <<>>) ELSE Answer(p, "failed")
             /\ UNCHANGED <<stored, media, bucket, buffer, topic, lost>>

\* A file is accepted and put under the name it came with.
Put(p) == /\ At(p, "media") /\ ~AllDone(p)
          /\ bucket' = bucket \cup {Next1(p)}
          /\ Goto(p, "row", req[p].done)
          /\ UNCHANGED <<stored, media, buffer, topic, lost>>

\* Slip: the row is inserted outside the transaction.
InsertMedia_NoSession(p) ==
    /\ At(p, "row")
    /\ media' = [media EXCEPT ![p] = Append(@, Next1(p))]
    /\ Goto(p, "media", Append(req[p].done, Next1(p)))
    /\ UNCHANGED <<stored, bucket, buffer, topic, lost>>

InsertMedia(p) == /\ At(p, "row")
                  /\ Goto(p, "media", Append(req[p].done, Next1(p)))
                  /\ UNCHANGED <<stored, media, bucket, buffer, topic, lost>>

\* The producer takes the announcement before the commit.
Send(p) == /\ At(p, "media") /\ AllDone(p)
           /\ buffer' = buffer \cup {p}
           /\ Goto(p, "commit", req[p].done)
           /\ UNCHANGED <<stored, media, bucket, topic, lost>>

\* The answer of the commit may be lost; to abort after it changes nothing.
Commit(p) == /\ At(p, "commit")
             /\ stored' = stored \cup {p}
             /\ media' = [media EXCEPT ![p] = req[p].done]
             /\ \E code \in {"created", "failed"} : Answer(p, code)
             /\ UNCHANGED <<bucket, buffer, topic, lost>>

\* Moderation refuses the content or a file, or a call fails: the transaction
\* is aborted, whatever MinIO and Kafka have been given.
Abort(p) == /\ At(p, "new") \/ Working(p)
            /\ Answer(p, "failed")
            /\ UNCHANGED <<stored, media, bucket, buffer, topic, lost>>

\* The broker takes the producer's batch.  Nobody awaits the outcome: a batch the
\* producer gives up would be lost like one it dies with.
Deliver(p) == /\ p \in buffer
              /\ buffer' = buffer \ {p} /\ topic' = topic \cup {p}
              /\ UNCHANGED <<stored, media, bucket, lost, req>>

\* The process dies with its requests and the announcements not sent.
Crash == /\ buffer' = {} /\ lost' = lost \cup buffer
         /\ req' = [p \in Posts |-> IF Working(p) THEN [pc |-> "gone", done |-> <<>>] ELSE req[p]]
         /\ UNCHANGED <<stored, media, bucket, topic>>

Create(p) == Insert(p) \/ Put(p) \/ InsertMedia(p) \/ Send(p) \/ Commit(p)
Next == Crash \/ \E p \in Posts : Create(p) \/ Abort(p) \/ Deliver(p)

Spec == Init /\ [][Next]_vars
-----------------------------------------------------------------------------
TypeOK == /\ stored \subseteq Posts /\ buffer \subseteq Posts /\ topic \subseteq Posts
          /\ media \in [Posts -> Seq(Names)]
          /\ bucket \subseteq Names /\ lost \subseteq Posts
          /\ \A p \in Posts : /\ req[p].pc \in {"new", "media", "row", "commit", "created", "failed", "gone"}
                              /\ Len(req[p].done) <= Len(Files[p])

\* A stored post has the rows of all its files, as many as their types, in
\* the order they came; a post that is not stored has none.  One that is
\* announced, stored or not, has passed moderation to its last file.
PostIsWhole == /\ TypeOK
               /\ \A p \in stored : /\ Types[p] = Len(Files[p])
                                    /\ media[p] = Files[p]
               /\ \A p \in Posts \ stored : media[p] = <<>>
               /\ \A p \in buffer \cup topic : \A i \in DOMAIN Files[p] : Files[p][i] \in bucket
=============================================================================
