------------------------- MODULE RelationshipReads -------------------------
(***************************************************************************)
(* The recommendation of the relationship service, read from the graph of  *)
(* RelationshipGraph while requests of others change it: it awaits three   *)
(* queries one after the other, and the graph may move between them.  Each *)
(* page is put together from a page of the accounts the caller's friends   *)
(* follow and a page of those anybody follows.                             *)
(***************************************************************************)
EXTENDS RelationshipGraph, Naturals, FiniteSets, Sequences

CONSTANTS
    Caller,   \* one of Registered
    Take,     \* pageSize
    Pages,    \* bound: the pages a caller asks for
    MaxMoves  \* bound: the changes of the graph

VARIABLES
    moves,
    req,    \* the recommendation under way; calm: the graph has not moved since
    answer  \* history: the page answered of the graph as it is

vars == <<edge, moves, req, answer>>

Item == [id : Registered, count : Nat]
Idle == [pc |-> "idle", page |-> 0, friends |-> {}, mutuals |-> {}, calm |-> TRUE]
NoAnswer == [items |-> {}, friends |-> {}, page |-> 0, calm |-> FALSE]

\* Type FOLLOW, whatever the Status.
Friends(u) == {b \in Registered : edge[<<u, b>>] \in {"pending", "following"}}

Followers(S, b) == {a \in S : edge[<<a, b>>] = "following"}

\* Slip: the accounts followed already are not left out.
Groups_All(S, hidden) ==
    {[id |-> b, count |-> Cardinality(Followers(S, b))] :
         b \in {x \in Registered \ {Caller} : Followers(S, x) # {}}}

\* groupBy ReceiverId: the accounts somebody of S follows, with how many do.
Groups(S, hidden) ==
    {[id |-> b, count |-> Cardinality(Followers(S, b))] :
         b \in {x \in Registered \ hidden : Followers(S, x) # {}}}

\* The k-th page of the groups in an order of their counts; groupBy leaves
\* equal counts in any order.
PagesOf(groups, k, Before(_, _)) ==
    {{q[i] : i \in DOMAIN q \cap ((k - 1) * Take + 1)..(k * Take)} :
        q \in {s \in [1..Cardinality(groups) -> groups] :
                  \A i, j \in DOMAIN s : i < j => s[i] # s[j] /\ Before(s[i], s[j])}}

Descending(x, y) == x.count >= y.count
Ascending(x, y) == x.count <= y.count

\* Slip: the entry of the more general page wins.
Merge_MostWins(most, mutuals) ==
    most \cup {x \in mutuals : \A y \in most : y.id # x.id}

\* The Map keeps the last entry of an account, which is the one of mutuals.
Merge(most, mutuals) == mutuals \cup {x \in most : \A y \in mutuals : y.id # x.id}
-----------------------------------------------------------------------------
ReadsInit == Init /\ moves = 0 /\ req = Idle /\ answer = NoAnswer

At(stage) == req.pc = stage

\* GetRecommendation reads whom the caller follows or has asked to ...
ReadFriends(k) ==
    /\ At("idle")
    /\ req' = [pc |-> "mutuals", page |-> k, friends |-> Friends(Caller),
               mutuals |-> {}, calm |-> TRUE]
    /\ UNCHANGED <<edge, moves, answer>>

\* ... then whom those follow, most mutual first ...
ReadMutuals ==
    /\ At("mutuals")
    /\ \E P \in PagesOf(Groups(req.friends, req.friends \cup {Caller}), req.page, Descending) :
         req' = [req EXCEPT !.pc = "most", !.mutuals = P]
    /\ UNCHANGED <<edge, moves, answer>>

\* ... then whom anybody else follows, least followed first, and answers.
ReadMost ==
    /\ At("most")
    /\ \E P \in PagesOf(Groups(Registered \ {Caller}, req.friends \cup {Caller}), req.page, Ascending) :
         answer' = [items |-> Merge(P, req.mutuals), friends |-> req.friends,
                    page |-> req.page, calm |-> req.calm]
    /\ req' = Idle
    /\ UNCHANGED <<edge, moves>>

\* A request of anybody changes the graph; what was answered before is of an
\* older graph.
Change == /\ moves < MaxMoves
          /\ moves' = moves + 1
          /\ Next
          /\ req' = [req EXCEPT !.calm = At("idle")]
          /\ answer' = NoAnswer

ReadsNext == \/ (\E k \in 1..Pages : ReadFriends(k))
             \/ ReadMutuals \/ ReadMost \/ Change
ReadsSpec == ReadsInit /\ [][ReadsNext]_vars
-----------------------------------------------------------------------------
TypeOK == /\ edge \in [Pairs -> States]
          /\ moves \in 0..MaxMoves
          /\ req.friends \subseteq Registered /\ req.mutuals \subseteq Item
          /\ answer.items \subseteq Item

\* However the graph moves between the queries, a page has no account twice,
\* and neither the caller nor anybody the caller followed when it asked.
OnlyStrangersOnce ==
    /\ TypeOK
    /\ \A x, y \in answer.items : x.id = y.id => x = y
    /\ \A x \in answer.items : x.id # Caller /\ x.id \notin answer.friends

\* The accounts somebody follows that the caller does not, with the friends
\* who follow it or, if none does, with all who do.
Recommendable ==
    {[id |-> b, count |-> LET mutual == Followers(Friends(Caller), b)
                          IN  Cardinality(IF mutual # {} THEN mutual
                                          ELSE Followers(Registered, b))] :
        b \in {x \in Registered \ ({Caller} \cup Friends(Caller)) :
                  Followers(Registered, x) # {}}}

\* Of a graph at rest, a first page with room for all the accounts that may be
\* recommended shows each of them, whatever it is merged from.
AnswerIsExact ==
    (answer.calm /\ answer.page = 1 /\ Cardinality(Recommendable) <= Take)
        => answer.items = Recommendable
=============================================================================
