------------------------------ MODULE Presence ------------------------------
(***************************************************************************)
(* Who is online, in the chat service: the set of users that               *)
(* WebSocketSessionTracker keeps in memory and the lists of it that go to  *)
(* /topic/online-users.  A client connects with the id of its user,        *)
(* announces itself as often as it likes, and leaves.  Announcements and   *)
(* disconnections are handled by a pool of threads: each changes the set   *)
(* and then sends a copy of it, and a client may leave while its           *)
(* announcement is still on its way.  The simple broker delivers on a pool *)
(* of threads too, in any order.  The set counts no sessions, so a user    *)
(* who leaves on one device is off line on all of them.                    *)
(***************************************************************************)
CONSTANTS
    Users,
    Sessions,  \* WebSocket sessions
    UserOf     \* Sessions -> Users: the header userId

VARIABLES
    client,    \* the connection of each session, and the handler of its end
    announce,  \* the handler of its announcement
    online,    \* onlineUsers
    flight,    \* lists sent and not delivered
    screen,    \* the list delivered last
    hasty      \* history: who left before an announcement was handled

vars == <<client, announce, online, flight, screen, hasty>>

Init == /\ client = [s \in Sessions |-> "away"]
        /\ announce = [s \in Sessions |-> "none"]
        /\ online = {} /\ flight = {} /\ screen = {} /\ hasty = {}

Client(s, from, to) == client[s] = from /\ client' = [client EXCEPT ![s] = to]
Announcement(s, from, to) == announce[s] = from /\ announce' = [announce EXCEPT ![s] = to]
-----------------------------------------------------------------------------
\* CONNECT
Connect(s) == /\ Client(s, "away", "here") /\ announce[s] = "none"
              /\ UNCHANGED <<announce, online, flight, screen, hasty>>

\* /update-online-users
Announce(s) == /\ client[s] = "here"
               /\ Announcement(s, "none", "add")
               /\ UNCHANGED <<client, online, flight, screen, hasty>>

AddUser(s) == /\ Announcement(s, "add", "list")
              /\ online' = online \cup {UserOf[s]}
              /\ UNCHANGED <<client, flight, screen, hasty>>

\* Slip: the list of the others goes to a newcomer.
SendList_Others(s) == /\ \/ Announcement(s, "list", "none") /\ UNCHANGED client
                         \/ Client(s, "relist", "away") /\ UNCHANGED announce
                      /\ flight' = flight \cup {online \ {UserOf[s]}}
                      /\ UNCHANGED <<online, screen, hasty>>

\* getOnlineUsers copies the set, which others may have changed since.
SendList(s) == /\ \/ Announcement(s, "list", "none") /\ UNCHANGED client
                  \/ Client(s, "relist", "away") /\ UNCHANGED announce
               /\ flight' = flight \cup {online}
               /\ UNCHANGED <<online, screen, hasty>>

\* The session ends; SessionDisconnectEvent.
Leave(s) == /\ Client(s, "here", "remove")
            /\ hasty' = IF announce[s] = "add" THEN hasty \cup {UserOf[s]} ELSE hasty
            /\ UNCHANGED <<announce, online, flight, screen>>

\* Slip: the list is sent without the user, who stays in the set.
RemoveUser_Not(s) == /\ Client(s, "remove", "relist")
                     /\ UNCHANGED <<announce, online, flight, screen, hasty>>

RemoveUser(s) == /\ Client(s, "remove", "relist")
                 /\ online' = online \ {UserOf[s]}
                 /\ UNCHANGED <<announce, flight, screen, hasty>>

Deliver(list) == /\ list \in flight
                 /\ flight' = flight \ {list}
                 /\ screen' = list
                 /\ UNCHANGED <<client, announce, online, hasty>>

Handle(s) == AddUser(s) \/ SendList(s) \/ RemoveUser(s)
Next == \/ \E s \in Sessions : Connect(s) \/ Announce(s) \/ Leave(s) \/ Handle(s)
        \/ \E list \in flight : Deliver(list)

\* The threads of the inbound channel and of the broker run.
Fairness == /\ \A s \in Sessions : WF_vars(AddUser(s)) /\ WF_vars(SendList(s))
            /\ \A list \in SUBSET Users : WF_vars(Deliver(list))
Spec == Init /\ [][Next]_vars /\ Fairness
-----------------------------------------------------------------------------
TypeOK == /\ client \in [Sessions -> {"away", "here", "remove", "relist"}]
          /\ announce \in [Sessions -> {"none", "add", "list"}]
          /\ online \subseteq Users /\ screen \subseteq Users /\ hasty \subseteq Users
          /\ flight \subseteq SUBSET Users

\* Nobody stays in the set when the last of their sessions has ended, however
\* announcements and disconnections overlap, but for who left in a haste.
NobodyStaysOnline ==
    /\ TypeOK
    /\ \A u \in online \ hasty :
         \E s \in Sessions : UserOf[s] = u /\ client[s] \in {"here", "remove"}

\* A user with one session who announces itself and stays is on some list
\* that is delivered later, whatever overtakes it.
NewcomerIsShown ==
    \A s \in Sessions :
        (\A t \in Sessions \ {s} : UserOf[t] # UserOf[s]) =>
            (announce[s] = "add" ~> (UserOf[s] \in screen \/ client[s] # "here"))
=============================================================================
