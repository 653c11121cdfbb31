------------------------------- MODULE MCChat -------------------------------
(***************************************************************************)
(* The chat for TLC.  One run asks four questions of it, and part, chosen  *)
(* in the first state and never changed, says which of them a behaviour is *)
(* about:                                                                  *)
(*   "post"    any requests, failures and stamps, with a counter in place; *)
(*   "walk"    a client scrolls back meanwhile, no two stamps are equal;   *)
(*   "empty"   one request at a time, from a database without a counter;   *)
(*   "members" two threads make a chat and add members to it.              *)
(***************************************************************************)
EXTENDS MessageHistory, TLC

CONSTANTS
    Groups,  \* the chats members are added to
    People,  \* the users
    Lists,   \* the member lists of requests
    MaxRows, \* bound: rows of one user in one chat
    ann, bob, cas

VARIABLES part, avatars, chats, rows, ids, events, told, adding

Walk == INSTANCE MessageHistory WITH Steps <- Steps \ {0}
Empty == INSTANCE ChatMessages WITH Warm <- FALSE

Members == INSTANCE ChatMembers WITH Chats <- Groups, Users <- People,
               Threads <- Requests, req <- adding

\* The lists of two requests that add members have one user in common.
TwoLists == {<<ann, bob>>, <<bob, cas>>}

membersVars == <<avatars, chats, rows, ids, events, told, adding>>
all == <<part, vars, reader, membersVars>>

MCInit == /\ \/ part \in {"post", "walk", "members"} /\ InitHistory
             \/ part = "empty" /\ NoWalk /\ Empty!Init
          /\ Members!Init

MCNext == /\ UNCHANGED part
          /\ \/ /\ \/ part = "post" /\ Next /\ UNCHANGED reader
                   \/ part = "walk" /\ Walk!HistoryNext
                   \/ part = "empty" /\ Empty!CalmNext /\ UNCHANGED reader
                /\ UNCHANGED membersVars
             \/ part = "members" /\ Members!Next /\ UNCHANGED <<vars, reader>>

MCSpec == MCInit /\ [][MCNext]_all

Symmetry == Permutations(Requests) \cup Permutations(Chats)

\* LatestIsNewest, of requests that do not overlap.
LatestWhenCalm == part = "empty" => LatestIsNewest

\* The properties of ChatMembers.
IdsHaveRows == Members!IdsHaveRows
AddedIsListed == Members!AddedIsListed
=============================================================================
