------------------------------ MODULE MCReads ------------------------------
(***************************************************************************)
(* What is read while it changes, for TLC: reactions and the counts that   *)
(* lists show of them, recommendations, the stories of followed accounts,  *)
(* and lists by page number.  They share no variable and no property is    *)
(* about more than one, so each is run with the others at rest: part, set  *)
(* in the first state and never changed, says which one moves.             *)
(***************************************************************************)
EXTENDS Reactions

CONSTANTS Registered, PrivateUsers, Caller, Take, Pages, MaxMoves,
          Followable, Limit, MaxEdits, Entries, Size, MaxChanges

VARIABLES part,
          edge, moves, read, answer,
          follow, public, edits, pc, asked, stories, moments,
          kind, place, hidden, changes, client, listed, kept, due

\* The client of each user.
OnePerUser == Users \X {1}
OwnerOf == [c \in Clients |-> c[1]]

Strangers == INSTANCE RelationshipReads WITH req <- read
Following == INSTANCE Stories WITH
                 Registered <- {Caller} \cup Followable, edge <- follow,
                 MaxChanges <- MaxEdits, changes <- edits, shown <- stories
Lists == INSTANCE PagedLists WITH shown <- listed

readVars == <<edge, moves, read, answer>>
storyVars == <<follow, public, edits, pc, asked, stories, moments>>
listVars == <<kind, place, hidden, changes, client, listed, kept, due>>
all == <<part, vars, readVars, storyVars, listVars>>

MCInit == /\ part \in {"reactions", "recommendation", "stories", "lists"}
          /\ Init /\ Strangers!ReadsInit /\ Following!StoriesInit /\ Lists!Init
          /\ part = "lists" \/ kind = "posts"

MCNext == /\ UNCHANGED part
          /\ \/ part = "reactions" /\ Next /\ UNCHANGED <<readVars, storyVars, listVars>>
             \/ part = "recommendation" /\ Strangers!ReadsNext
                /\ UNCHANGED <<vars, storyVars, listVars>>
             \/ part = "stories" /\ Following!StoriesNext /\ UNCHANGED <<vars, readVars, listVars>>
             \/ part = "lists" /\ Lists!Next /\ UNCHANGED <<vars, readVars, storyVars>>

MCSpec == MCInit /\ [][MCNext]_all

\* The properties of the parts that are instances.
OnlyStrangersOnce == Strangers!OnlyStrangersOnce
AnswerIsExact == Strangers!AnswerIsExact
StoriesWereOpen == Following!StoriesWereOpen
WalkShowsAll == Lists!WalkShowsAll
=============================================================================
