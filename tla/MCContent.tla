----------------------------- MODULE MCContent -----------------------------
(***************************************************************************)
(* What users publish, who hears of it and who is shown to be there, for   *)
(* TLC: new posts up to the listener that is told of them, the mails and   *)
(* members the other listeners are told of, edits of a post, comments, the *)
(* very first messages of a chat, and the list of who is online.  No       *)
(* property is about more than one of them, so each is run with the others *)
(* at rest: part, set in the first state and never changed, says which one *)
(* moves.                                                                  *)
(***************************************************************************)
EXTENDS EventPath, TLC

CONSTANTS otp, member, Clients, Contents, MaxEdits, Comments, WithFile,
          Requests, Chats, Steps, MaxId, Warm, None, ann, bob, s1, s2

VARIABLES
    part,
    post, pending, made, last, said, edit,
    unread, object, inserted, outbox, announced, gone, stage, deleted, found,
    counter, clock, messages, files, told, latest, thread,
    client, announce, online, flight, screen, hasty

editVars == <<post, pending, made, last, said, edit>>
commentVars == <<unread, object, inserted, outbox, announced, gone, stage, deleted, found>>
chatVars == <<counter, clock, messages, files, told, latest, thread>>
onlineVars == <<client, announce, online, flight, screen, hasty>>
others == <<editVars, commentVars, chatVars, onlineVars>>
all == <<part, pathVars, others>>

\* Three posts, one of them with a type too few.
FileNames == <<<<"a", "b">>, <<"c">>, <<"d">>>>
OneTypeShort == <<2, 0, 1>>

\* Two mails and a new member.
AllEvents == otp :> 2 @@ member :> 1 @@ Announced :> 3
AllKinds == otp :> "mail" @@ member :> "member" @@ Announced :> "logged"

Editing == INSTANCE PostEdits WITH req <- edit
Commenting == INSTANCE CommentPublish WITH stored <- inserted, buffer <- outbox,
                  topic <- announced, lost <- gone, pc <- stage
Chatting == INSTANCE ChatMessages WITH topic <- told, req <- thread

\* Two users with a device each, or one with two.
Owner == [s \in {s1, s2} |-> IF s = s1 THEN ann ELSE bob]
Online == INSTANCE Presence WITH Users <- {ann, bob}, Sessions <- {s1, s2}, UserOf <- Owner
Devices == INSTANCE Presence WITH Users <- {ann}, Sessions <- {s1, s2},
                                  UserOf <- [s \in {s1, s2} |-> ann]

MCInit == /\ part \in {"path", "mails", "edits", "calm edits", "comments", "chat", "online", "devices"}
          /\ PathInit /\ Editing!Init /\ Commenting!Init /\ Chatting!Init /\ Online!Init
          /\ post = CHOOSE d \in Editing!Doc : ~d.deleted   \* either content will do

MCNext ==
    /\ UNCHANGED part
    /\ \/ /\ \/ /\ part = "path"
                /\ Publish \/ (\E p \in Posts : Transport(p)) \/ Hand \/ Poll
             \/ part = "mails" /\ (Poll \/ Others)
          /\ UNCHANGED others
       \/ /\ \/ part = "edits" /\ Editing!Next
             \/ part = "calm edits" /\ Editing!CalmNext
          /\ UNCHANGED <<pathVars, commentVars, chatVars, onlineVars>>
       \/ part = "comments" /\ Commenting!Next /\ UNCHANGED <<pathVars, editVars, chatVars, onlineVars>>
       \/ part = "chat" /\ Chatting!Next /\ UNCHANGED <<pathVars, editVars, commentVars, onlineVars>>
       \/ /\ \/ part = "online" /\ Online!Next
             \/ part = "devices" /\ Devices!Next
          /\ UNCHANGED <<pathVars, editVars, commentVars, chatVars>>

\* The fairness of the part that moves.
MCFairness ==
    /\ \A p \in Posts : /\ WF_vars(part = "path" /\ (Create(p) \/ Abort(p)))
                        /\ WF_pathVars(part = "path" /\ Transport(p))
    /\ WF_pathVars(part = "path" /\ Hand)
    /\ \A t \in Topics : WF_listenerVars(part \in {"path", "mails"} /\ Listener!Poll(t))
    /\ \A t \in {otp, member} : WF_listenerVars(part = "mails" /\ Listener!Handle(t))
    /\ \A c \in Clients : WF_editVars(part = "edits" /\ Editing!AnswerEdit(c))
    /\ \A w \in Editing!Writes : WF_editVars(part = "edits" /\ Editing!Apply(w))
    /\ \A k \in Comments : /\ WF_commentVars(/\ part = "comments"
                                             /\ Commenting!Create(k) \/ Commenting!Fail(k))
                           /\ WF_commentVars(part = "comments" /\ Commenting!Deliver(k))
    /\ \A r \in Requests : WF_chatVars(part = "chat" /\ Chatting!Answer(r))
    /\ \A s \in {s1, s2} : /\ WF_onlineVars(part = "online" /\ Online!AddUser(s))
                           /\ WF_onlineVars(part = "online" /\ Online!SendList(s))
    /\ \A list \in SUBSET {ann, bob} : WF_onlineVars(part = "online" /\ Online!Deliver(list))

MCSpec == MCInit /\ [][MCNext]_all /\ MCFairness

\* The properties of the parts that are instances.
NothingSkipped == Listener!NothingSkipped
SavedByTries == Listener!SavedByTries
EventDealtWith == Listener!EventDealtWith
DeleteLands == part # "calm edits" => Editing!DeleteLands
LastAnswerHolds == part = "calm edits" => Editing!LastAnswerHolds
AnnouncedIsStored == Commenting!AnnouncedIsStored
CreatedIsAnnounced == Commenting!CreatedIsAnnounced
RequestAnswered == Chatting!RequestAnswered
NobodyStaysOnline == IF part = "devices" THEN Devices!NobodyStaysOnline
                                         ELSE Online!NobodyStaysOnline
NewcomerIsShown == part # "devices" => Online!NewcomerIsShown
=============================================================================
