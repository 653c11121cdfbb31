------------------------------ MODULE Avatars ------------------------------
(***************************************************************************)
(* The profile picture in the user service.  The controller answers that   *)
(* it is updated without awaiting the service, which makes the bucket if   *)
(* there is none, puts the image under a hash of its file name and the     *)
(* time, and writes that key to the row of the user.  Whatever throws on   *)
(* the way is a rejection nobody handles: it ends the process, with all    *)
(* other uploads.  An action runs from one await to the next.              *)
(***************************************************************************)
EXTENDS Naturals

CONSTANTS
    Users,
    Names,      \* the names of the files sent
    MaxUploads, \* bound: the requests ever made
    MaxTime,    \* bound: the clock, in milliseconds
    None

VARIABLES
    clock,
    bucket,     \* is there a bucket?
    objects,    \* the image under each key, as the number of its upload
    profileImg, \* the key in the row of each user
    upload      \* the uploads in the order of their requests

vars == <<clock, bucket, objects, profileImg, upload>>

Uploads == 1..MaxUploads
Keys == Names \X (0..MaxTime)
Unused == [pc |-> "unused", user |-> None, name |-> None, key |-> None]

Init == /\ clock = 0 /\ bucket \in BOOLEAN
        /\ objects = [k \in Keys |-> 0]
        /\ profileImg = [u \in Users |-> None]
        /\ upload = [i \in Uploads |-> Unused]

At(i, stage) == upload[i].pc = stage
Goto(i, stage) == upload' = [upload EXCEPT ![i].pc = stage]
Working(i) == upload[i].pc \in {"bucket", "make", "put", "write"}

\* The key is made when the bucket is known to be there.
GotoPut(i) == upload' = [upload EXCEPT ![i].pc = "put", ![i].key = <<upload[i].name, clock>>]
-----------------------------------------------------------------------------
\* The request is answered as its upload begins.
Answer(i, u, n) ==
    /\ At(i, "unused") /\ \A j \in 1..i - 1 : ~At(j, "unused")
    /\ upload' = [upload EXCEPT ![i] = [pc |-> "bucket", user |-> u, name |-> n, key |-> None]]
    /\ UNCHANGED <<clock, bucket, objects, profileImg>>

BucketExists(i) == /\ At(i, "bucket")
                   /\ IF bucket THEN GotoPut(i) ELSE Goto(i, "make")
                   /\ UNCHANGED <<clock, bucket, objects, profileImg>>

\* A bucket another upload has made since is an error.
MakeBucket(i) == /\ At(i, "make") /\ ~bucket
                 /\ bucket' = TRUE
                 /\ GotoPut(i)
                 /\ UNCHANGED <<clock, objects, profileImg>>

\* Slip: the put is not awaited either.
Put_Later(i) == /\ At(i, "put")
                /\ Goto(i, "write")
                /\ UNCHANGED <<clock, bucket, objects, profileImg>>

Put(i) == /\ At(i, "put")
          /\ objects' = [objects EXCEPT ![upload[i].key] = i]
          /\ Goto(i, "write")
          /\ UNCHANGED <<clock, bucket, profileImg>>

Write(i) == /\ At(i, "write")
            /\ profileImg' = [profileImg EXCEPT ![upload[i].user] = upload[i].key]
            /\ Goto(i, "done")
            /\ UNCHANGED <<clock, bucket, objects>>

\* A call fails, and with it the process.
Reject(i) == /\ Working(i)
             /\ upload' = [j \in Uploads |-> IF Working(j) THEN [upload[j] EXCEPT !.pc = "gone"]
                                                           ELSE upload[j]]
             /\ UNCHANGED <<clock, bucket, objects, profileImg>>

Tick == /\ clock < MaxTime
        /\ clock' = clock + 1
        /\ UNCHANGED <<bucket, objects, profileImg, upload>>

Handle(i) == BucketExists(i) \/ MakeBucket(i) \/ Put(i) \/ Write(i) \/ Reject(i)
Next == Tick \/ \E i \in Uploads : Handle(i) \/ \E u \in Users, n \in Names : Answer(i, u, n)
Spec == Init /\ [][Next]_vars
-----------------------------------------------------------------------------
TypeOK == /\ clock \in 0..MaxTime /\ bucket \in BOOLEAN
          /\ objects \in [Keys -> {0} \cup Uploads]
          /\ profileImg \in [Users -> Keys \cup {None}]
          /\ \A i \in Uploads : Working(i) \/ upload[i].pc \in {"unused", "done", "gone"}

\* Two images whose files have one name, sent within a millisecond.
Clash(i, j) == upload[i].key = upload[j].key /\ upload[i].user # upload[j].user

\* A picture a profile shows is in the bucket, and is the user's own but for
\* two files that get one key, however uploads overlap and die.
ImageIsOwn ==
    /\ TypeOK
    /\ \A u \in Users : profileImg[u] # None =>
         /\ bucket /\ objects[profileImg[u]] \in Uploads
         /\ LET i == objects[profileImg[u]]
            IN  upload[i].user = u \/ \E j \in Uploads : upload[j].user = u /\ Clash(i, j)
=============================================================================
