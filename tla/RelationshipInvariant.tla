------------------------ MODULE RelationshipInvariant ------------------------
(***************************************************************************)
(* The inductive invariants behind the safety properties of Relationship:  *)
(* what every step keeps true of the table, the requests and the history.  *)
(***************************************************************************)
EXTENDS RelationshipRefinement

\* What a request holds at each point of its handler.
WellFormed(r) ==
    /\ r.pc = "idle" => r = Idle
    /\ r.pc # "idle" => r.op \in Ops /\ r.peer \in Users
    /\ r.pc \in {"check", "read", "reverse"} => r.seen = NoRow
    /\ r.pc = "reverse" => r.op = "follow"
    /\ r.pc = "write" /\ r.op = "follow" => r.seen = NoRow
    /\ r.pc = "write" /\ r.op \in Removals \cup {"accept"} => r.seen # NoRow

RequestsWellFormed == \A s \in Sessions : WellFormed(req[s])

\* The row a request holds is still the one it looked for, or gone.
SeenMatches ==
    \A s \in Sessions : req[s].seen # NoRow =>
        \/ rel[req[s].seen] = NoRow
        \/ <<rel[req[s].seen].sender, rel[req[s].seen].receiver>> = Key(s)

\* A block is accepted from the start: a late accept finds nothing to change.
BlocksAccepted == \A i \in RowIds : Blocks(i) => rel[i].status = "accepted"

\* The history remembers the approvals a follow was given.
MutualRemembered ==
    \A s \in Sessions : req[s].op = "follow" =>
        /\ Following(req[s].peer, Me(s)) => s \in mutual
        /\ req[s].pc = "write" /\ req[s].approved /\ req[s].peer \in PrivateUsers
               => s \in mutual

\* A removal is on its way to being announced by one request, and only once
\* the row is gone.
OneRemover ==
    /\ \A i \in RowIds : Fresh(i) => sent[i] = {}
    /\ \A i \in RowIds : sent[i] \cap Removals # {} => rel[i] = NoRow
    /\ \A s \in Sessions : At(s, "emit", Removals) /\ req[s].seen # NoRow
                               => rel[req[s].seen] = NoRow
    /\ \A s, t \in Sessions :
          /\ At(s, "emit", Removals)
          /\ At(t, "emit", Removals)
          /\ req[s].seen = req[t].seen
          /\ req[s].seen # NoRow
          => s = t

\* For any number of requests per user.
SafeInv ==
    /\ TypeOK
    /\ RequestsWellFormed
    /\ BlocksAccepted
    /\ MutualRemembered
    /\ PrivateConsent
    /\ OneRemover
    /\ RemovalAnnouncedOnce

\* The request is past the query that told it the pair has no row.
Creating(s) ==
    \/ At(s, "reverse", {"follow"})
    \/ At(s, "write", {"follow"})
    \/ At(s, "write", {"block"}) /\ req[s].seen = NoRow

\* With one request per user, nobody else can create the row meanwhile.
NothingToDuplicate ==
    \A s \in Sessions : Creating(s) => Between(Me(s), req[s].peer) = {}

\* A block is of someone else, and a follow still to be approved is of a
\* private account.
AskedWell ==
    \A s \in Sessions :
        /\ req[s].op = "block" => req[s].peer # Me(s)
        /\ At(s, "write", {"follow"}) /\ ~req[s].approved => req[s].peer \in PrivateUsers

OneClientPerUser == \A s, t \in Sessions : Owner[s] = Owner[t] => s = t

PairInv ==
    /\ TypeOK
    /\ RequestsWellFormed
    /\ BlocksAccepted
    /\ SeenMatches
    /\ AskedWell
    /\ NothingToDuplicate
    /\ OneRowPerPair

\* With one request per user, no two requests do the same to one row, what a
\* request is about to announce of its row has not been announced, and what was
\* announced of a row, or is about to be, shows in it.
AnnounceInv ==
    /\ \A s, t \in Sessions : /\ req[s].op = req[t].op
                              /\ req[s].seen = req[t].seen
                              /\ req[s].seen # NoRow
                              => s = t
    /\ \A s \in Sessions : req[s].seen # NoRow => req[s].op \notin sent[req[s].seen]
    /\ \A i \in RowIds : rel[i] # NoRow =>
          /\ "accept" \in sent[i] => rel[i].status = "accepted"
          /\ "block" \in sent[i] => Blocks(i)
    /\ \A s \in Sessions : req[s].seen # NoRow /\ rel[req[s].seen] # NoRow =>
          /\ At(s, "emit", {"accept"}) => rel[req[s].seen].status = "accepted"
          /\ At(s, "emit", {"block"}) => Blocks(req[s].seen)
=============================================================================
