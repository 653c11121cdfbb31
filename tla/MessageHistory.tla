--------------------------- MODULE MessageHistory ---------------------------
(***************************************************************************)
(* A client scrolls back through the history of a chat while others post   *)
(* to it (MessageService.getMessagesByChatId).  Each page holds the        *)
(* messages with the latest stamps before the cursor, and the stamp of its *)
(* oldest message is the next cursor; an empty page ends the walk.         *)
(***************************************************************************)
EXTENDS ChatMessages

CONSTANT Size  \* the size of a page

ASSUME SizeAssumption == Size \in Nat \ {0}

VARIABLES
    walk,   \* the chat the client walks through, None when it has not begun
    cursor, \* the next cursor; None for the first page
    pages,  \* the messages it has been given so far, page by page
    held,   \* history: what the chat held when the walk began
    over    \* has it been given an empty page?

reader == <<walk, cursor, pages, held, over>>

InChat(c) == {messages[i] : i \in {j \in Ids : messages[j] # None /\ messages[j].chat = c}}

\* The messages of the chat before the cursor.
Older == {m \in InChat(walk) : cursor # None => m.at < cursor}

\* Slip: the page is sorted upwards, as the answer is.
IsPage_Upwards(p, from) == /\ p \subseteq from
                           /\ Cardinality(p) <= Size
                           /\ Cardinality(p) < Size => p = from
                           /\ \A m \in p, n \in from \ p : m.at <= n.at

\* Sorted by sentAt alone: messages with one stamp come in any order.
IsPage(p, from) == /\ p \subseteq from
                   /\ Cardinality(p) <= Size
                   /\ Cardinality(p) < Size => p = from
                   /\ \A m \in p, n \in from \ p : m.at >= n.at

Oldest(p) == CHOOSE t \in {m.at : m \in p} : \A m \in p : t <= m.at

NoWalk == walk = None /\ cursor = None /\ pages = {} /\ held = {} /\ over = FALSE

InitHistory == Init /\ NoWalk

Begin(c) == /\ walk = None
            /\ walk' = c
            /\ held' = InChat(c)
            /\ UNCHANGED <<cursor, pages, over, vars>>

\* The page is one query; a page whose users cannot be fetched is not
\* answered, and asking for it again changes nothing.
GetMessages == /\ walk # None /\ ~over
               /\ \E p \in SUBSET Older :
                    /\ IsPage(p, Older)
                    /\ IF p = {}
                       THEN over' = TRUE /\ UNCHANGED <<cursor, pages>>
                       ELSE /\ cursor' = Oldest(p)
                            /\ pages' = pages \cup {p}
                            /\ UNCHANGED over
               /\ UNCHANGED <<walk, held, vars>>

HistoryNext == \/ Next /\ UNCHANGED reader
               \/ (\E c \in Chats : Begin(c)) \/ GetMessages
HistorySpec == InitHistory /\ [][HistoryNext]_<<vars, reader>>
-----------------------------------------------------------------------------
\* No message is on two pages of a walk, whatever is posted meanwhile, and one
\* that has ended has shown all the chat held when it began.
WalkIsExact == /\ \A p, q \in pages : p # q => p \cap q = {}
               /\ over => held \subseteq UNION pages
=============================================================================
