---------------------------- MODULE ChatMembers ----------------------------
(***************************************************************************)
(* Chats and their members in the chat service.  A member is in three      *)
(* places: a row of chat_members, which the member lists read; the array   *)
(* chat_member_ids of the chat, which the chat lists of a user read; and   *)
(* an event in add-member.  addChatMemberList writes them one after the    *)
(* other, member after member, on a thread of its own and with no          *)
(* transaction.                                                            *)
(***************************************************************************)
EXTENDS Naturals, Sequences

CONSTANTS
    Chats, Users,
    Threads,
    Lists,   \* the member lists requests bring, a subset of Seq(Users)
    MaxRows, \* bound: rows of one user in one chat
    None

VARIABLES
    avatars, \* the chats whose picture was uploaded
    chats,   \* the chats stored
    rows,    \* how many rows of chat_members each chat has for each user
    ids,     \* chat_member_ids of each chat
    events,  \* add-member
    told,    \* history: <<chat, list>> answered as added
    req      \* done: the members of the list dealt with

vars == <<avatars, chats, rows, ids, events, told, req>>

Idle == [pc |-> "idle", chat |-> None, list |-> <<>>, done |-> 0]
Init == /\ avatars = {} /\ chats = {} /\ events = {} /\ told = {}
        /\ rows = [k \in Chats |-> [u \in Users |-> 0]]
        /\ ids = [k \in Chats |-> {}]
        /\ req = [t \in Threads |-> Idle]

At(t, stage) == req[t].pc = stage
Goto(t, stage) == req' = [req EXCEPT ![t].pc = stage]
End(t) == req' = [req EXCEPT ![t] = Idle]
Chat(t) == req[t].chat
Member(t) == req[t].list[req[t].done + 1]
More(t) == req[t].done < Len(req[t].list)
-----------------------------------------------------------------------------
\* createChat: the picture is uploaded under the new id, then the chat saved.
Upload(t, k) == /\ At(t, "idle") /\ k \notin avatars
                /\ avatars' = avatars \cup {k}
                /\ req' = [req EXCEPT ![t] = [Idle EXCEPT !.pc = "create", !.chat = k]]
                /\ UNCHANGED <<chats, rows, ids, events, told>>

SaveChat(t) == /\ At(t, "create")
               /\ chats' = chats \cup {Chat(t)}
               /\ End(t)
               /\ UNCHANGED <<avatars, rows, ids, events, told>>

\* addChatMemberList: the chat must exist.
Add(t, k, list) ==
    /\ At(t, "idle") /\ k \in chats
    /\ req' = [req EXCEPT ![t] = [pc |-> "save", chat |-> k, list |-> list, done |-> 0]]
    /\ UNCHANGED <<avatars, chats, rows, ids, events, told>>

\* Slip: the array is written before the row.
Save_ListsFirst(t) ==
    /\ At(t, "save") /\ More(t) /\ rows[Chat(t)][Member(t)] < MaxRows
    /\ ids' = [ids EXCEPT ![Chat(t)] = @ \cup {Member(t)}]
    /\ Goto(t, "list")
    /\ UNCHANGED <<avatars, chats, rows, events, told>>

\* A row is saved whether or not the user has one.
Save(t) ==
    /\ At(t, "save") /\ More(t) /\ rows[Chat(t)][Member(t)] < MaxRows
    /\ rows' = [rows EXCEPT ![Chat(t)][Member(t)] = @ + 1]
    /\ Goto(t, "list")
    /\ UNCHANGED <<avatars, chats, ids, events, told>>

\* Slip: the array is written as it was read, not with addToSet.
AddToSet_Overwrites(t) ==
    /\ At(t, "list")
    /\ ids' = [ids EXCEPT ![Chat(t)] = {req[t].list[i] : i \in 1..req[t].done + 1}]
    /\ Goto(t, "send")
    /\ UNCHANGED <<avatars, chats, rows, events, told>>

AddToSet(t) ==
    /\ At(t, "list")
    /\ ids' = [ids EXCEPT ![Chat(t)] = @ \cup {Member(t)}]
    /\ Goto(t, "send")
    /\ UNCHANGED <<avatars, chats, rows, events, told>>

Send(t) ==
    /\ At(t, "send")
    /\ events' = events \cup {<<Chat(t), Member(t)>>}
    /\ req' = [req EXCEPT ![t].pc = "save", ![t].done = @ + 1]
    /\ UNCHANGED <<avatars, chats, rows, ids, told>>

Added(t) ==
    /\ At(t, "save") /\ ~More(t)
    /\ told' = told \cup {<<Chat(t), req[t].list>>}
    /\ End(t)
    /\ UNCHANGED <<avatars, chats, rows, ids, events>>

\* A call throws or the process dies; what was written stays.
Fail(t) == /\ ~At(t, "idle")
           /\ End(t)
           /\ UNCHANGED <<avatars, chats, rows, ids, events, told>>

Begin(t) == \E k \in Chats : Upload(t, k) \/ \E list \in Lists : Add(t, k, list)
Continue(t) == SaveChat(t) \/ Save(t) \/ AddToSet(t) \/ Send(t) \/ Added(t)
Next == \E t \in Threads : Begin(t) \/ Continue(t) \/ Fail(t)
Spec == Init /\ [][Next]_vars
-----------------------------------------------------------------------------
TypeOK == /\ chats \subseteq avatars /\ avatars \subseteq Chats
          /\ rows \in [Chats -> [Users -> 0..MaxRows]]
          /\ ids \in [Chats -> SUBSET Users]
          /\ events \subseteq Chats \X Users
          /\ \A t \in Threads : req[t].pc \in {"idle", "create", "save", "list", "send"}

\* A user whose list of chats shows a chat is in its list of members: the
\* array never runs ahead of the rows, whatever fails between the two.
IdsHaveRows == /\ TypeOK
               /\ \A k \in Chats : \A u \in ids[k] : rows[k][u] > 0

\* Members announced or answered as added stay in both places, whatever other
\* requests for the same chat do meanwhile.
AddedIsListed ==
    /\ \A e \in events : e[2] \in ids[e[1]]
    /\ \A a \in told : \A i \in DOMAIN a[2] : <<a[1], a[2][i]>> \in events
=============================================================================
