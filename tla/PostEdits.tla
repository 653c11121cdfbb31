----------------------------- MODULE PostEdits -----------------------------
(***************************************************************************)
(* Changes of a stored post (Post.py): PUT replaces its fields, isDeleted  *)
(* included, and PATCH marks it deleted.  Both await the find_one and then *)
(* answer without awaiting the update_one, which a thread of the driver's  *)
(* pool runs when it comes to it.  Updates MongoDB refuses are left out.   *)
(***************************************************************************)
EXTENDS Naturals

CONSTANTS
    Clients,  \* each with one request at a time
    Contents,
    MaxEdits  \* bound: the requests ever made

VARIABLES
    post,     \* the document
    pending,  \* the updates in the pool, by the number of their request
    made,     \* the requests made so far
    last,     \* history: the document as the last answer has it
    said,     \* history: was the last answer that the post is deleted?
    req

vars == <<post, pending, made, last, said, req>>

Doc == [content : Contents, deleted : BOOLEAN]
\* The body of a PUT says of the post whether it is deleted; if not, it is not.
Edits == [kind : {"put"}, doc : Doc] \cup [kind : {"delete"}]
Idle(c) == req[c].pc = "idle"

Init == /\ post \in {d \in Doc : ~d.deleted} /\ last = post
        /\ pending = {} /\ made = 0 /\ said = FALSE
        /\ req = [c \in Clients |-> [pc |-> "idle"]]

Edited(d, e) == IF e.kind = "put" THEN e.doc ELSE [d EXCEPT !.deleted = TRUE]

\* Slip: only the fields a client has set are replaced.
Edited_Partly(d, e) == IF e.kind = "put" THEN [d EXCEPT !.content = e.doc.content]
                       ELSE [d EXCEPT !.deleted = TRUE]

\* $set of the whole request, or of isDeleted alone.
Set(d, e) == Edited(d, e)
-----------------------------------------------------------------------------
\* The post is found.
Read(c, e) == /\ Idle(c) /\ made < MaxEdits
              /\ made' = made + 1
              /\ req' = [req EXCEPT ![c] = [pc |-> "answer", id |-> made + 1, edit |-> e]]
              /\ UNCHANGED <<post, pending, last, said>>

\* Slip: a coroutine nobody awaits, which a driver without threads never runs.
AnswerEdit_Coroutine(c) ==
    /\ req[c].pc = "answer"
    /\ last' = Edited(last, req[c].edit)
    /\ said' = (req[c].edit.kind = "delete")
    /\ req' = [req EXCEPT ![c] = [pc |-> "idle"]]
    /\ UNCHANGED <<post, pending, made>>

\* The update goes to the pool and the request is answered.
AnswerEdit(c) ==
    /\ req[c].pc = "answer"
    /\ pending' = pending \cup {[id |-> req[c].id, edit |-> req[c].edit]}
    /\ last' = Edited(last, req[c].edit)
    /\ said' = (req[c].edit.kind = "delete")
    /\ req' = [req EXCEPT ![c] = [pc |-> "idle"]]
    /\ UNCHANGED <<post, made>>

\* The threads of the pool take updates in any order.
Apply(w) == /\ w \in pending
            /\ pending' = pending \ {w}
            /\ post' = Set(post, w.edit)
            /\ UNCHANGED <<made, last, said, req>>

Handle == \/ (\E c \in Clients, e \in Edits : Read(c, e))
          \/ (\E c \in Clients : AnswerEdit(c))
Next == Handle \/ \E w \in pending : Apply(w)

\* The event loop resumes a request; every update gets a thread of the pool.
Writes == [id : 1..MaxEdits, edit : Edits]
Fairness == /\ \A c \in Clients : WF_vars(AnswerEdit(c))
            /\ \A w \in Writes : WF_vars(Apply(w))
Spec == Init /\ [][Next]_vars /\ Fairness

\* One request at a time, each made when the update before it has landed.
CalmNext == \/ (\E c \in Clients, e \in Edits : /\ pending = {} /\ (\A d \in Clients : Idle(d))
                                                /\ Read(c, e))
            \/ (\E c \in Clients : AnswerEdit(c))
            \/ \E w \in pending : Apply(w)
CalmSpec == Init /\ [][CalmNext]_vars
-----------------------------------------------------------------------------
TypeOK == /\ post \in Doc /\ last \in Doc /\ made \in 0..MaxEdits
          /\ pending \subseteq Writes
          /\ \A c \in Clients : req[c].pc \in {"idle", "answer"}

Settled == pending = {} /\ \A c \in Clients : Idle(c)

\* With nothing under way the post is as the last answer has it.
LastAnswerHolds == /\ TypeOK
                   /\ Settled => post = last

\* With nothing under way, and "Post deleted successfully" the last answer, the
\* post is deleted.
SaidIsDone == (Settled /\ said) => post.deleted

\* A post that was said to be deleted is deleted at some time, however edits
\* overlap.
DeleteLands ==
    \A c \in Clients : (req[c].pc = "answer" /\ req[c].edit.kind = "delete") ~> post.deleted
=============================================================================
