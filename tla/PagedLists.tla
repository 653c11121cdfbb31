----------------------------- MODULE PagedLists -----------------------------
(***************************************************************************)
(* Lists that are read by page number while they change:                   *)
(*   "follows"   whom an account follows or who follows it, by Id or by    *)
(*               the column the client names (GetUserFollowingList,        *)
(*               GetUserFollowerList);                                     *)
(*   "posts"     the posts not deleted, newest first;                      *)
(*   "chats"     the chats of a user by their latest message, newest first *)
(*               (getAllByUserId);                                         *)
(*   "users"     the users by their id (findMany);                         *)
(*   "comments"  the comments of a post by their stamp, and the lists that *)
(*               are not sorted: replies, and the posts of one user.       *)
(* Rows of "comments" and "users" never leave, for deleted ones are shown. *)
(* A page is one query and the count of the rows is another; changes fall  *)
(* between the two and between the pages.                                  *)
(***************************************************************************)
EXTENDS Naturals, FiniteSets, Functions

CONSTANTS
    Entries,
    Size,       \* pageSize
    MaxChanges  \* bound: the changes of a list

VARIABLES
    kind,
    place,   \* the rows, and for each the value it is sorted by
    hidden,  \* the rows the list leaves out: pending follows, deleted posts
    changes,
    client,  \* ask: the queries of its page that have not run yet; torn: did the
             \* list change between the two?; over: how it knew the last page
    shown,   \* the rows it has been given
    kept,    \* history: has no row left the list or fallen back since it began?
    due      \* history: the rows listed when it began that have not moved since
             \* and that no row of the list has tied with

vars == <<kind, place, hidden, changes, client, shown, kept, due>>

Stored == DOMAIN place
Listed == Stored \ hidden
Ahead(e) == {x \in Listed : place[x] <= place[e]}
Rank(e) == Cardinality(Ahead(e))
Alone(e) == e \in Listed /\ \A x \in Listed : place[x] = place[e] => x = e

\* The values rows are sorted by: of as many as there are changes, each change
\* finds one in front of, behind or between those in use.  Ids are unique,
\* stamps, a Status and the stamp taken when the comment service starts are not.
Values == 1..MaxChanges
FreeFor(e) == {v \in Values : kind = "users" => \A x \in Stored \ {e} : place[x] # v}

Init == /\ kind \in {"follows", "posts", "chats", "users", "comments"}
        /\ place = [e \in {} |-> 0] /\ hidden = {} /\ changes = 0
        /\ client = [page |-> 0, ask |-> {}, total |-> 0, found |-> {}, torn |-> FALSE, over |-> "no"]
        /\ shown = {} /\ kept = TRUE /\ due = {}

Moves(e) == \E v \in FreeFor(e) : place' = [place EXCEPT ![e] = v]
MovesUp(e) == place'[e] <= place[e]
-----------------------------------------------------------------------------
\* A follow, accepted or pending; a post, a chat, a user, a comment.  Rows differ
\* by their values alone: any stands for all.
Add == /\ Entries # Stored
       /\ LET e == CHOOSE x \in Entries : x \notin Stored
          IN  /\ \E v \in FreeFor(e) : place' = [x \in Stored \cup {e} |-> IF x = e THEN v ELSE place[x]]
              /\ hidden' \in IF kind \in {"follows", "posts"} THEN {hidden, hidden \cup {e}} ELSE {hidden}
       /\ UNCHANGED kept

\* A follow is accepted or turns into a block: the columns written may be what
\* the list is sorted by.
Turn(e) == /\ kind = "follows"
           /\ Moves(e)
           /\ hidden' = hidden \ {e}
           /\ kept' = (kept /\ (e \in hidden \/ MovesUp(e)))

\* Unfollow, reject; a post is marked deleted.
Leave(e) == /\ \/ kind = "follows" /\ place' = Restrict(place, Stored \ {e}) /\ hidden' = hidden \ {e}
               \/ kind = "posts" /\ hidden' = hidden \cup {e} /\ UNCHANGED place
            /\ kept' = (kept /\ e \in hidden)

\* PUT sets createdAt and isDeleted too.
Replace(e) == /\ kind = "posts"
              /\ Moves(e)
              /\ hidden' \in {hidden \ {e}, hidden \cup {e}}
              /\ kept' = (kept /\ (e \in hidden \/ (MovesUp(e) /\ e \notin hidden')))

\* addLatestMessageToChat.
Bump(e) == /\ kind = "chats"
           /\ Moves(e)
           /\ kept' = (kept /\ MovesUp(e))
           /\ UNCHANGED hidden

\* What changes after the last page nobody looks at.
Change == /\ changes < MaxChanges /\ client.over = "no"
          /\ changes' = changes + 1
          /\ Add \/ \E e \in Stored : Turn(e) \/ Leave(e) \/ Replace(e) \/ Bump(e)
          /\ client' = [client EXCEPT !.torn = @ \/ client.ask \in {{"rows"}, {"count"}}]
          /\ due' = {e \in due : Alone(e)' /\ place'[e] = place[e]}
          /\ UNCHANGED <<kind, shown>>
-----------------------------------------------------------------------------
\* The client asks for the first page.
Begin == /\ client.page = 0
         /\ client' = [client EXCEPT !.page = 1, !.ask = {"rows", "count"}]
         /\ kept' = TRUE /\ due' = {e \in Listed : Alone(e)}
         /\ UNCHANGED <<kind, place, hidden, changes, shown>>

\* Slip: the pages are numbered from 0.
Skip_FromZero(k) == k * Size

Skip(k) == (k - 1) * Size

\* The first n rows of R in an order of their values; equal ones come in any
\* order, another one in each query.
FirstOf(R, n) == {S \in SUBSET R : /\ Cardinality(S) <= n
                                   /\ Cardinality(S) < n => S = R
                                   /\ \A x \in S, y \in R \ S : place[x] <= place[y]}

Rows == /\ "rows" \in client.ask
        /\ \E skipped \in FirstOf(Listed, Skip(client.page)) :
             \E page \in FirstOf(Listed \ skipped, Size) :
               client' = [client EXCEPT !.ask = @ \ {"rows"}, !.found = page]
        /\ UNCHANGED <<kind, place, hidden, changes, shown, kept, due>>

\* The count of follows is of all rows, pending ones included.
Count == /\ "count" \in client.ask
         /\ client' = [client EXCEPT !.ask = @ \ {"count"},
                              !.total = Cardinality(IF kind = "follows" THEN Stored ELSE Listed)]
         /\ UNCHANGED <<kind, place, hidden, changes, shown, kept, due>>

\* The client knows the last page by the total of its answer, or by the rows
\* it is short of.
Done(by) == \/ by = "total" /\ client.page * Size >= client.total
            \/ by = "short page" /\ Cardinality(client.found) < Size

Answer == /\ client.page > 0 /\ client.ask = {} /\ client.over = "no"
          /\ shown' = shown \cup client.found
          /\ \E by \in {"total", "short page"} :
               client' = IF Done(by) THEN [client EXCEPT !.over = by]
                         ELSE [client EXCEPT !.page = @ + 1, !.ask = {"rows", "count"}, !.torn = FALSE,
                                             !.found = {}, !.total = 0]
          /\ UNCHANGED <<kind, place, hidden, changes, kept, due>>

Next == Change \/ Begin \/ Rows \/ Count \/ Answer
Spec == Init /\ [][Next]_vars
-----------------------------------------------------------------------------
TypeOK == /\ changes \in 0..MaxChanges
          /\ Stored \subseteq Entries /\ place \in [Stored -> Values]
          /\ hidden \subseteq Stored
          /\ client.found \subseteq Entries /\ client.ask \subseteq {"rows", "count"}

\* A client that reads a list to its last page has been given all that the list
\* held when it began, but for rows that moved since or that tied with another,
\* unless a row left the list or fell back in it: additions, accepted follows,
\* ties of others and rows that move up hide nothing but themselves, whatever
\* pages they fall between.  Of rows that tie the code orders none: the pages of
\* two queries may both leave one out, also of a list at rest.  A client that goes
\* by the total needs the last page and its count to be of the same list.
WalkShowsAll ==
    /\ TypeOK
    /\ (client.over # "no" /\ kept /\ (client.over = "total" => ~client.torn)) => due \subseteq shown
=============================================================================
