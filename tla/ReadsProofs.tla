---------------------------- MODULE ReadsProofs ----------------------------
(***************************************************************************)
(* What is read while it changes (MCReads), proved with TLAPS for any      *)
(* accounts, pages and number of changes: the stories of followed          *)
(* accounts, the recommendation, and lists by page number.                 *)
(* ReactionsProofs is about the reactions.                                 *)
(***************************************************************************)
EXTENDS MCReads, Sequences, FiniteSetTheorems, TLAPS

-----------------------------------------------------------------------------
(* The stories of the accounts a user follows: Stories *)

Accounts == {Caller} \cup Followable

StoryBounds == IsFiniteSet(Followable) /\ Limit \in Nat /\ MaxEdits \in Nat

Moments == [followed : SUBSET Accounts, blocked : SUBSET Accounts, public : SUBSET Accounts]

StoryTypes ==
    /\ follow \in [Following!Pairs -> Following!States] /\ public \subseteq Accounts
    /\ edits \in 0..MaxEdits /\ stories \subseteq Accounts /\ asked \subseteq Accounts
    /\ pc \in {"idle", "list", "stories"}
    /\ moments \in Seq(Moments)

\* While a request is under way the last moment is the present one, and nothing
\* has been answered.
UnderWay == pc # "idle" => /\ Len(moments) > 0 /\ moments[Len(moments)] = Following!Moment
                           /\ stories = {}

\* Between the two reads: the accounts asked for are those that were followed or
\* blocked at some moment, and all that are followed at every one if there is room.
ListRead ==
    pc = "stories" =>
        /\ \A u \in asked : \E i \in DOMAIN moments : u \in moments[i].followed \cup moments[i].blocked
        /\ Following!Roomy =>
              \A u \in Accounts : (\A i \in DOMAIN moments : u \in moments[i].followed) => u \in asked

\* What was answered last.
ShownHolds ==
    /\ \A u \in stories : \E i, j \in DOMAIN moments :
          i <= j /\ u \in moments[i].followed \cup moments[i].blocked /\ u \in moments[j].public
    /\ (pc = "idle" /\ moments # <<>> /\ Following!Roomy) =>
          \A u \in Accounts :
             (\A i \in DOMAIN moments : u \in moments[i].followed \cap moments[i].public) => u \in stories

StoryInv == StoryTypes /\ UnderWay /\ ListRead /\ ShownHolds

\* The cardinality the instance speaks of is the one the library's theorems do.
LEMMA StoriesCount == ASSUME NEW S PROVE Following!Cardinality(S) = Cardinality(S)
BY DEF Following!Cardinality, Cardinality

LEMMA StoriesBegin == ASSUME StoryBounds, Following!StoriesInit PROVE StoryInv
<1>1. follow \in [Following!Pairs -> Following!States]
  BY DEF Following!StoriesInit, Following!Init, Following!States
<1>2. moments = <<>> /\ moments \in Seq(Moments) /\ pc = "idle"
  BY DEF Following!StoriesInit
<1> QED BY <1>1, <1>2 DEF StoryBounds, Following!StoriesInit, StoryInv, StoryTypes, UnderWay, ListRead, ShownHolds

\* What a moment is, and what one more does to those there are.
LEMMA MomentType == ASSUME public \subseteq Accounts PROVE Following!Moment \in Moments
BY DEF Following!Moment, Following!Followed, Following!Blocked, Moments, Accounts

LEMMA OneMore ==
    ASSUME NEW s \in Seq(Moments), NEW x \in Moments, NEW t, t = Append(s, x)
    PROVE  /\ t \in Seq(Moments) /\ Len(t) = Len(s) + 1 /\ Len(s) \in Nat
           /\ DOMAIN s = 1..Len(s) /\ DOMAIN t = 1..(Len(s) + 1)
           /\ \A i \in DOMAIN s : t[i] = s[i]
           /\ t[Len(t)] = x
OBVIOUS

\* A follow or a story changes: the moment is one more.
LEMMA MomentAdded ==
    ASSUME StoryBounds, StoryInv, follow' \in [Following!Pairs -> Following!States], public' \subseteq Accounts,
           Following!Changed
    PROVE  StoryInv'
<1>1. /\ edits' = edits + 1 /\ edits < MaxEdits /\ UNCHANGED <<pc, asked, stories>>
      /\ pc = "idle" => moments' = moments
      /\ pc # "idle" => moments' = Append(moments, Following!Moment')
  BY DEF Following!Changed
<1>2. edits' \in 0..MaxEdits /\ moments \in Seq(Moments)
  BY <1>1 DEF StoryBounds, StoryInv, StoryTypes
<1>3. CASE pc = "idle"
  <2>1. UNCHANGED <<pc, asked, stories, moments>>
    BY <1>1, <1>3
  <2> QED BY <1>2, <1>3, <2>1 DEF StoryInv, StoryTypes, UnderWay, ListRead, ShownHolds, Following!Roomy
<1>4. CASE pc # "idle"
  <2>1. PICK x, t : x = Following!Moment' /\ t = moments'
    OBVIOUS
  <2>2. x \in Moments
    BY <2>1 DEF Following!Moment, Following!Followed, Following!Blocked, Moments, Accounts
  <2>3. t = Append(moments, x)
    BY <1>1, <1>4, <2>1
  <2>4. PICK s : s = moments
    OBVIOUS
  <2>5. /\ t \in Seq(Moments) /\ Len(t) = Len(s) + 1 /\ Len(s) \in Nat
        /\ DOMAIN s = 1..Len(s) /\ DOMAIN t = 1..(Len(s) + 1)
        /\ \A i \in DOMAIN s : t[i] = s[i]
        /\ t[Len(t)] = x
    BY <1>2, <2>2, <2>3, <2>4, OneMore
  <2>6. DOMAIN s \subseteq DOMAIN t
    BY <2>5
  <2>7. StoryTypes'
    BY <1>1, <1>2, <2>1, <2>5 DEF StoryInv, StoryTypes
  <2>8. UnderWay'
    BY <1>1, <1>4, <2>1, <2>5 DEF StoryInv, UnderWay
  <2>9. Following!Roomy' => Following!Roomy
    BY <2>1, <2>4, <2>5, <2>6 DEF Following!Roomy
  <2>10. ListRead'
    BY <1>1, <2>1, <2>4, <2>5, <2>6, <2>9 DEF StoryInv, ListRead
  <2>11. ShownHolds'
    BY <1>1, <1>4 DEF StoryInv, UnderWay, ShownHolds
  <2> QED BY <2>7, <2>8, <2>10, <2>11 DEF StoryInv
<1> QED BY <1>3, <1>4

\* The page of a list that has room is the whole list.
LEMMA RoomyListIsWhole ==
    ASSUME StoryBounds, NEW ids \in SUBSET Following!Listed, Cardinality(ids) < Limit => ids = Following!Listed,
           Cardinality(Following!Listed) <= Limit
    PROVE  ids = Following!Listed
<1>1. Following!Listed \subseteq Accounts
  BY DEF Following!Listed, Accounts
<1>2. IsFiniteSet(Accounts)
  BY FS_AddElement DEF StoryBounds, Accounts
<1>3. IsFiniteSet(Following!Listed)
  BY <1>1, <1>2, FS_Subset
<1>4. /\ IsFiniteSet(ids) /\ Cardinality(ids) <= Cardinality(Following!Listed)
      /\ Cardinality(Following!Listed) = Cardinality(ids) => Following!Listed = ids
  BY <1>3, FS_Subset
<1>5. Cardinality(ids) \in Nat /\ Cardinality(Following!Listed) \in Nat
  BY <1>3, <1>4, FS_CardinalityType
<1> QED BY <1>4, <1>5 DEF StoryBounds

LEMMA StoriesStep ==
    ASSUME StoryBounds, StoryInv, [Following!StoriesNext]_storyVars PROVE StoryInv'
<1>0. StoryTypes /\ moments \in Seq(Moments) /\ DOMAIN moments = 1..Len(moments) /\ Len(moments) \in Nat
  BY DEF StoryInv, StoryTypes
<1>1. CASE Following!Ask
  <2>1. /\ pc' = "list" /\ moments' = <<Following!Moment>> /\ stories' = {} /\ asked' = {}
        /\ UNCHANGED <<follow, public, edits>>
    BY <1>1 DEF Following!Ask
  <2>2. Following!Moment' = Following!Moment /\ Following!Moment \in Moments
    BY <1>0, <2>1, MomentType DEF StoryTypes, Following!Moment, Following!Followed, Following!Blocked
  <2>3. moments' \in Seq(Moments) /\ Len(moments') = 1 /\ moments'[1] = Following!Moment'
    BY <2>1, <2>2
  <2>4. StoryTypes' /\ UnderWay'
    BY <1>0, <2>1, <2>3 DEF StoryTypes, UnderWay
  <2> QED BY <2>1, <2>4 DEF StoryInv, ListRead, ShownHolds
<1>2. CASE Following!ReadFollowing
  <2>1. /\ pc = "list" /\ pc' = "stories"
        /\ asked' \in SUBSET Following!Listed
        /\ Cardinality(asked') < Limit => asked' = Following!Listed
        /\ UNCHANGED <<follow, public, edits, stories, moments>>
    BY <1>2, StoriesCount DEF Following!ReadFollowing
  <2>2. /\ Len(moments) > 0 /\ Len(moments) \in DOMAIN moments
        /\ moments[Len(moments)].followed \cup moments[Len(moments)].blocked = Following!Listed
        /\ moments[Len(moments)].followed = Following!Followed
        /\ stories = {}
    BY <1>0, <2>1 DEF StoryInv, UnderWay, Following!Moment, Following!Listed, Following!Followed, Following!Blocked
  <2>3. Following!Moment' = Following!Moment
    BY <2>1 DEF Following!Moment, Following!Followed, Following!Blocked
  <2>4. StoryTypes' /\ UnderWay'
    <3>1. Following!Listed \subseteq Accounts
      BY DEF Following!Listed, Accounts
    <3>2. asked' \subseteq Accounts /\ stories' \subseteq Accounts /\ moments' \in Seq(Moments)
      BY <1>0, <2>1, <3>1 DEF StoryTypes
    <3>3. StoryTypes'
      BY <1>0, <2>1, <3>2 DEF StoryTypes, Following!Pairs, Following!States
    <3>4. UnderWay'
      BY <2>1, <2>3 DEF StoryInv, UnderWay
    <3> QED BY <3>3, <3>4
  <2>5. Following!Roomy' => Cardinality(Following!Listed) <= Limit
    BY <2>1, <2>2, StoriesCount DEF Following!Roomy
  <2>6. PICK ids : ids = asked'
    OBVIOUS
  <2>7. Following!Roomy' => ids = Following!Listed
    BY <2>1, <2>5, <2>6, RoomyListIsWhole
  <2>8. ListRead'
    BY <2>1, <2>2, <2>6, <2>7 DEF ListRead
  <2>9. ShownHolds'
    BY <2>1, <2>2 DEF ShownHolds
  <2> QED BY <2>4, <2>8, <2>9 DEF StoryInv
<1>3. CASE Following!ReadStories
  <2>1. /\ pc = "stories" /\ pc' = "idle" /\ stories' = asked \cap public
        /\ UNCHANGED <<follow, public, edits, asked, moments>>
    BY <1>3 DEF Following!ReadStories
  <2>2. Len(moments) \in DOMAIN moments /\ moments[Len(moments)].public = public
    BY <1>0, <2>1 DEF StoryInv, UnderWay, Following!Moment
  <2>3. StoryTypes' /\ UnderWay'
    BY <1>0, <2>1 DEF StoryTypes, UnderWay
  <2>4. ASSUME NEW u \in stories'
        PROVE  \E i, j \in DOMAIN moments' :
                  i <= j /\ u \in moments'[i].followed \cup moments'[i].blocked /\ u \in moments'[j].public
    <3>1. PICK i \in DOMAIN moments : u \in moments[i].followed \cup moments[i].blocked
      BY <2>1, <2>4 DEF StoryInv, ListRead
    <3>2. i <= Len(moments) /\ u \in moments[Len(moments)].public
      BY <1>0, <2>1, <2>2, <2>4
    <3> QED BY <2>1, <2>2, <3>1, <3>2
  <2>5. ASSUME Following!Roomy', NEW u \in Accounts,
               \A i \in DOMAIN moments' : u \in moments'[i].followed \cap moments'[i].public
        PROVE  u \in stories'
    <3>1. Following!Roomy
      BY <2>1, <2>5 DEF Following!Roomy
    <3>2. u \in asked
      BY <2>1, <2>5, <3>1 DEF StoryInv, ListRead
    <3>3. u \in public
      BY <2>1, <2>2, <2>5
    <3> QED BY <2>1, <3>2, <3>3
  <2> QED BY <2>1, <2>3, <2>4, <2>5 DEF StoryInv, ListRead, ShownHolds
<1>4. CASE Following!Relate
  <2>1. PICK u \in Accounts : LET p == <<Caller, u>>
                              IN  \/ Following!Follow(p) \/ Following!Accept(p)
                                  \/ Following!Remove(p) \/ Following!Block(p)
    BY <1>4 DEF Following!Relate, Accounts
  <2>2. PICK to \in Following!States : follow' = [follow EXCEPT ![<<Caller, u>>] = to]
    BY <2>1 DEF Following!Follow, Following!Accept, Following!Remove, Following!Block,
                Following!Move, Following!States
  <2>3. follow' \in [Following!Pairs -> Following!States]
    BY <1>0, <2>2 DEF StoryTypes
  <2>4. public' \subseteq Accounts /\ Following!Changed
    BY <1>0, <1>4 DEF Following!Relate, StoryTypes
  <2> QED BY <2>3, <2>4, MomentAdded
<1>5. ASSUME NEW u \in Accounts, Following!Post(u) PROVE StoryInv'
  <2>1. follow' = follow /\ public' \subseteq Accounts /\ Following!Changed
    BY <1>0, <1>5 DEF Following!Post, StoryTypes
  <2> QED BY <1>0, <2>1, MomentAdded DEF StoryTypes
<1>6. CASE UNCHANGED storyVars
  <2>1. UNCHANGED <<follow, public, edits, pc, asked, stories, moments>>
    BY <1>6 DEF storyVars
  <2> QED BY <2>1 DEF StoryInv, StoryTypes, UnderWay, ListRead, ShownHolds, Following!Roomy,
              Following!Moment, Following!Followed, Following!Blocked
<1> QED BY <1>1, <1>2, <1>3, <1>4, <1>5, <1>6 DEF Following!StoriesNext, Accounts

LEMMA StoriesSafe == ASSUME StoryInv PROVE StoriesWereOpen
<1>1. Following!TypeOK
  BY DEF StoryInv, StoryTypes, Following!TypeOK, Accounts
<1> QED BY <1>1 DEF StoryInv, ShownHolds, StoriesWereOpen, Following!StoriesWereOpen, Accounts

\* Whatever is followed, blocked, posted or hidden while a request reads the list
\* of one service and the stories of another, a story is shown only if its account
\* was followed or blocked at some moment of the request and the story open then
\* or later in it; and it is if the account was followed and its story open
\* throughout and the list has room.
THEOREM ShownStoriesWereOpen == ASSUME StoryBounds PROVE Following!StoriesSpec => []StoriesWereOpen
<1>1. Following!StoriesInit => StoryInv
  BY StoriesBegin
<1>2. StoryInv /\ [Following!StoriesNext]_storyVars => StoryInv'
  BY StoriesStep
<1>3. StoryInv => StoriesWereOpen
  BY StoriesSafe
<1> QED BY <1>1, <1>2, <1>3, PTL DEF Following!StoriesSpec, Following!vars, storyVars

-----------------------------------------------------------------------------
(* The recommendation: RelationshipReads *)

StrangerBounds == IsFiniteSet(Registered) /\ Take \in Nat /\ Pages \in Nat /\ MaxMoves \in Nat

LEMMA StrangersCount == ASSUME NEW S PROVE Strangers!Cardinality(S) = Cardinality(S)
BY DEF Strangers!Cardinality, Cardinality

Reading == [pc : {"idle", "mutuals", "most"}, page : 0..Pages, friends : SUBSET Registered,
            mutuals : SUBSET Strangers!Item, calm : BOOLEAN]
Answered == [items : SUBSET Strangers!Item, friends : SUBSET Registered, page : 0..Pages, calm : BOOLEAN]

\* A page without an account twice, the caller or anybody the caller follows.
Proper(items, friends) == /\ \A x, y \in items : x.id = y.id => x = y
                          /\ \A x \in items : x.id # Caller /\ x.id \notin friends

StrangerInv ==
    /\ edge \in [Strangers!Pairs -> Strangers!States] /\ moves \in 0..MaxMoves
    /\ read \in Reading /\ answer \in Answered
    /\ Proper(read.mutuals, read.friends)
    /\ Proper(answer.items, answer.friends)

LEMMA StrangersBegin == ASSUME StrangerBounds, Strangers!ReadsInit PROVE StrangerInv
BY DEF StrangerBounds, Strangers!ReadsInit, Strangers!Init, Strangers!Idle, Strangers!NoAnswer, Strangers!States,
       StrangerInv, Reading, Answered, Proper

\* The groups are of accounts that are not hidden, each counted once.
LEMMA GroupsProper ==
    ASSUME StrangerBounds, NEW S \in SUBSET Registered, NEW F \in SUBSET Registered
    PROVE  /\ Strangers!Groups(S, F \cup {Caller}) \subseteq Strangers!Item
           /\ Proper(Strangers!Groups(S, F \cup {Caller}), F)
<1>1. ASSUME NEW b \in Registered PROVE Strangers!Cardinality(Strangers!Followers(S, b)) \in Nat
  <2>1. IsFiniteSet(S)
    BY FS_Subset DEF StrangerBounds
  <2>2. IsFiniteSet(Strangers!Followers(S, b))
    BY <2>1, FS_Subset DEF Strangers!Followers
  <2> QED BY <2>2, FS_CardinalityType, StrangersCount
<1> QED BY <1>1 DEF Strangers!Groups, Strangers!Item, Proper

\* A page is cut out of the groups in an order of them all.
LEMMA PageIsCut ==
    ASSUME NEW groups, NEW k,
           NEW P, P \in Strangers!PagesOf(groups, k, Strangers!Descending)
                  \/ P \in Strangers!PagesOf(groups, k, Strangers!Ascending)
    PROVE  \E q \in [1..Cardinality(groups) -> groups] :
              /\ P = {q[i] : i \in DOMAIN q \cap ((k - 1) * Take + 1)..(k * Take)}
              /\ \A i, j \in DOMAIN q : i < j => q[i] # q[j]
<1>1. CASE P \in Strangers!PagesOf(groups, k, Strangers!Descending)
  BY <1>1, StrangersCount DEF Strangers!PagesOf
<1>2. CASE P \in Strangers!PagesOf(groups, k, Strangers!Ascending)
  BY <1>2, StrangersCount DEF Strangers!PagesOf
<1> QED BY <1>1, <1>2

LEMMA PageOfGroups ==
    ASSUME NEW groups, NEW k,
           NEW P, P \in Strangers!PagesOf(groups, k, Strangers!Descending)
                  \/ P \in Strangers!PagesOf(groups, k, Strangers!Ascending)
    PROVE  P \subseteq groups
<1>1. PICK q \in [1..Cardinality(groups) -> groups] :
        P = {q[i] : i \in DOMAIN q \cap ((k - 1) * Take + 1)..(k * Take)}
  BY PageIsCut
<1> QED BY <1>1

LEMMA MergeProper ==
    ASSUME NEW A, NEW B, NEW F, Proper(A, F), Proper(B, F) PROVE Proper(Strangers!Merge(A, B), F)
BY DEF Proper, Strangers!Merge

LEMMA EdgeMoves ==
    ASSUME edge \in [Strangers!Pairs -> Strangers!States], Strangers!Next
    PROVE  edge' \in [Strangers!Pairs -> Strangers!States]
<1>1. PICK p \in Strangers!Pairs, to \in Strangers!States : edge' = [edge EXCEPT ![p] = to]
  BY DEF Strangers!Next, Strangers!Follow, Strangers!Accept, Strangers!Remove, Strangers!Block,
         Strangers!Move, Strangers!States
<1> QED BY <1>1

LEMMA StrangersStep ==
    ASSUME StrangerBounds, StrangerInv, [Strangers!ReadsNext]_readVars PROVE StrangerInv'
<1>0. /\ read.friends \in SUBSET Registered /\ read.mutuals \in SUBSET Strangers!Item
      /\ read.page \in 0..Pages /\ read.calm \in BOOLEAN
  BY DEF StrangerInv, Reading
<1>1. ASSUME NEW k \in 1..Pages, Strangers!ReadFriends(k) PROVE StrangerInv'
  <2>1. /\ read' = [pc |-> "mutuals", page |-> k, friends |-> Strangers!Friends(Caller),
                   mutuals |-> {}, calm |-> TRUE]
        /\ UNCHANGED <<edge, moves, answer>>
    BY <1>1 DEF Strangers!ReadFriends
  <2>2. Strangers!Friends(Caller) \subseteq Registered
    BY DEF Strangers!Friends
  <2>3. read' \in Reading /\ read'.mutuals = {}
    BY <2>1, <2>2 DEF Reading, StrangerBounds
  <2> QED BY <2>1, <2>3 DEF StrangerInv, Proper
<1>2. CASE Strangers!ReadMutuals
  <2> DEFINE groups == Strangers!Groups(read.friends, read.friends \cup {Caller})
  <2>1. PICK P \in Strangers!PagesOf(groups, read.page, Strangers!Descending) :
          read' = [read EXCEPT !.pc = "most", !.mutuals = P]
    BY <1>2 DEF Strangers!ReadMutuals
  <2>2. UNCHANGED <<edge, moves, answer>>
    BY <1>2 DEF Strangers!ReadMutuals
  <2>3. groups \subseteq Strangers!Item /\ Proper(groups, read.friends)
    BY <1>0, GroupsProper
  <2>4. P \subseteq groups
    BY PageOfGroups
  <2> HIDE DEF groups
  <2>5. /\ read' \in Reading /\ read'.mutuals = P /\ read'.friends = read.friends
    BY <2>1, <2>3, <2>4 DEF StrangerInv, Reading
  <2> QED BY <2>2, <2>3, <2>4, <2>5 DEF StrangerInv, Proper
<1>3. CASE Strangers!ReadMost
  <2> DEFINE groups == Strangers!Groups(Registered \ {Caller}, read.friends \cup {Caller})
  <2>1. PICK P \in Strangers!PagesOf(groups, read.page, Strangers!Ascending) :
          answer' = [items |-> Strangers!Merge(P, read.mutuals), friends |-> read.friends,
                     page |-> read.page, calm |-> read.calm]
    BY <1>3 DEF Strangers!ReadMost
  <2>2. read' = Strangers!Idle /\ UNCHANGED <<edge, moves>>
    BY <1>3 DEF Strangers!ReadMost
  <2>3. groups \subseteq Strangers!Item /\ Proper(groups, read.friends)
    BY <1>0, GroupsProper
  <2>4. P \subseteq groups
    BY PageOfGroups
  <2> HIDE DEF groups
  <2>5. Proper(Strangers!Merge(P, read.mutuals), read.friends)
    BY <2>3, <2>4, MergeProper DEF StrangerInv, Proper
  <2>6. Strangers!Merge(P, read.mutuals) \subseteq Strangers!Item
    BY <1>0, <2>3, <2>4 DEF Strangers!Merge
  <2>7. answer' \in Answered /\ Proper(answer'.items, answer'.friends)
    BY <1>0, <2>1, <2>5, <2>6 DEF Answered
  <2>8. read' \in Reading /\ read'.mutuals = {}
    BY <2>2 DEF Strangers!Idle, Reading, StrangerBounds
  <2> QED BY <2>2, <2>7, <2>8 DEF StrangerInv, Proper
<1>4. CASE Strangers!Change
  <2>1. /\ moves < MaxMoves /\ moves' = moves + 1 /\ Strangers!Next
        /\ read' = [read EXCEPT !.calm = (read.pc = "idle")]
        /\ answer' = Strangers!NoAnswer
    BY <1>4 DEF Strangers!Change, Strangers!At
  <2>2. edge' \in [Strangers!Pairs -> Strangers!States] /\ moves' \in 0..MaxMoves
    BY <2>1, EdgeMoves DEF StrangerInv, StrangerBounds
  <2>3. /\ read' \in Reading /\ read'.mutuals = read.mutuals /\ read'.friends = read.friends
    BY <2>1 DEF StrangerInv, Reading
  <2>4. answer' \in Answered /\ answer'.items = {}
    BY <2>1 DEF StrangerBounds, Strangers!NoAnswer, Answered
  <2> QED BY <2>2, <2>3, <2>4 DEF StrangerInv, Proper
<1>5. CASE UNCHANGED readVars
  BY <1>5 DEF readVars, StrangerInv
<1> QED BY <1>1, <1>2, <1>3, <1>4, <1>5 DEF Strangers!ReadsNext

LEMMA StrangersSafe == ASSUME StrangerInv PROVE OnlyStrangersOnce
BY DEF StrangerInv, Reading, Answered, Proper, OnlyStrangersOnce, Strangers!OnlyStrangersOnce,
       Strangers!TypeOK

\* However follows and blocks move between the three queries, the recommendation
\* shows no account twice, not the caller, and nobody the caller followed or had
\* asked to follow when it was asked for.
THEOREM OnlyStrangersAreShown ==
    ASSUME StrangerBounds PROVE Strangers!ReadsSpec => []OnlyStrangersOnce
<1>1. Strangers!ReadsInit => StrangerInv
  BY StrangersBegin
<1>2. StrangerInv /\ [Strangers!ReadsNext]_readVars => StrangerInv'
  BY StrangersStep
<1>3. StrangerInv => OnlyStrangersOnce
  BY StrangersSafe
<1> QED BY <1>1, <1>2, <1>3, PTL DEF Strangers!ReadsSpec, Strangers!vars, readVars

\* A first page with room for all the groups is all of them: an order of them
\* that has none twice has them all.
LEMMA FirstPageIsAll ==
    ASSUME Take \in Nat, NEW groups, IsFiniteSet(groups), Cardinality(groups) <= Take,
           NEW P, P \in Strangers!PagesOf(groups, 1, Strangers!Descending)
                  \/ P \in Strangers!PagesOf(groups, 1, Strangers!Ascending)
    PROVE  P = groups
<1> DEFINE n == Cardinality(groups)
<1>1. PICK q \in [1..n -> groups] :
        /\ P = {q[i] : i \in DOMAIN q \cap ((1 - 1) * Take + 1)..(1 * Take)}
        /\ \A i, j \in DOMAIN q : i < j => q[i] # q[j]
  BY PageIsCut
<1>2. n \in Nat /\ n <= Take
  BY FS_CardinalityType
<1>3. q \in Injection(1..n, groups)
  <2>1. ASSUME NEW i \in 1..n, NEW j \in 1..n, q[i] = q[j] PROVE i = j
    BY <1>1, <1>2, <2>1
  <2> QED BY <2>1 DEF Injection, IsInjective
<1>4. Cardinality(1..n) = n
  BY <1>2, FS_Interval
<1> HIDE DEF n
<1>5. n = Cardinality(groups)
  BY DEF n
<1>6. q \in Surjection(1..n, groups)
  BY <1>3, <1>4, <1>5, FS_Injection
<1>7. \A g \in groups : \E i \in 1..n : q[i] = g
  BY <1>6 DEF Surjection
<1>8. (1 - 1) * Take + 1 = 1 /\ 1 * Take = Take
  OBVIOUS
<1>9. P = {q[i] : i \in 1..n}
  <2>1. DOMAIN q \cap 1..Take = 1..n
    BY <1>2
  <2> QED BY <1>1, <1>8, <2>1
<1> QED BY <1>7, <1>9

-----------------------------------------------------------------------------
\* Whom the caller follows, the groups the two pages are cut out of, and what
\* is recommended of an account.
Friends == Strangers!Friends(Caller)
Mutual == Strangers!Groups(Friends, Friends \cup {Caller})
Most == Strangers!Groups(Registered \ {Caller}, Friends \cup {Caller})
Strange == {b \in Registered \ ({Caller} \cup Friends) : Strangers!Followers(Registered, b) # {}}
Shown(b) == LET mutual == Strangers!Followers(Friends, b)
            IN  [id |-> b, count |-> Strangers!Cardinality(IF mutual # {} THEN mutual
                                        ELSE Strangers!Followers(Registered, b))]

LEMMA FormOfRecommendable == Strangers!Recommendable = {Shown(b) : b \in Strange}
BY DEF Strangers!Recommendable, Shown, Strange, Friends

LEMMA MutualIsShown ==
    Mutual = {Shown(b) : b \in {x \in Strange : Strangers!Followers(Friends, x) # {}}}
<1>1. Friends \subseteq Registered
  BY DEF Friends, Strangers!Friends
<1>2. \A x : Strangers!Followers(Friends, x) # {} => Strangers!Followers(Registered, x) # {}
  BY <1>1 DEF Strangers!Followers
<1>3. {x \in Registered \ (Friends \cup {Caller}) : Strangers!Followers(Friends, x) # {}}
        = {x \in Strange : Strangers!Followers(Friends, x) # {}}
  BY <1>2 DEF Strange
<1>4. \A x : Strangers!Followers(Friends, x) # {} =>
        Shown(x) = [id |-> x, count |-> Strangers!Cardinality(Strangers!Followers(Friends, x))]
  BY DEF Shown
<1> QED BY <1>3, <1>4 DEF Mutual, Strangers!Groups

LEMMA MostIsOfStrange ==
    Most = {[id |-> b, count |-> Strangers!Cardinality(Strangers!Followers(Registered, b))] : b \in Strange}
<1>1. ASSUME NEW b \in Registered \ (Friends \cup {Caller})
      PROVE  Strangers!Followers(Registered \ {Caller}, b) = Strangers!Followers(Registered, b)
  BY DEF Friends, Strangers!Friends, Strangers!Followers
<1>2. {x \in Registered \ (Friends \cup {Caller}) : Strangers!Followers(Registered \ {Caller}, x) # {}}
        = Strange
  BY <1>1 DEF Strange
<1> QED BY <1>1, <1>2 DEF Most, Strangers!Groups, Strange

\* Merged, the two are what is recommended.
LEMMA MergedIsRecommendable == Strangers!Merge(Most, Mutual) = Strangers!Recommendable
<1>1. ASSUME NEW b \in Strange, Strangers!Followers(Friends, b) = {}
      PROVE  Shown(b) = [id |-> b, count |-> Strangers!Cardinality(Strangers!Followers(Registered, b))]
  BY <1>1 DEF Shown
<1>2. \A b \in Strange : Shown(b).id = b
  BY DEF Shown
<1>3. Strangers!Merge(Most, Mutual) \subseteq Strangers!Recommendable
  BY <1>1, <1>2, FormOfRecommendable, MutualIsShown, MostIsOfStrange DEF Strangers!Merge
<1>4. ASSUME NEW b \in Strange PROVE Shown(b) \in Strangers!Merge(Most, Mutual)
  <2>1. CASE Strangers!Followers(Friends, b) # {}
    BY <2>1, MutualIsShown DEF Strangers!Merge
  <2>2. CASE Strangers!Followers(Friends, b) = {}
    <3>1. Shown(b) \in Most
      BY <1>1, <2>2, MostIsOfStrange
    <3>2. \A y \in Mutual : y.id # Shown(b).id
      BY <1>2, <2>2, MutualIsShown
    <3> QED BY <3>1, <3>2 DEF Strangers!Merge
  <2> QED BY <2>1, <2>2
<1> QED BY <1>3, <1>4, FormOfRecommendable

\* Neither of the two has more groups than there are accounts to recommend.
LEMMA GroupsFit ==
    ASSUME StrangerBounds, Strangers!Cardinality(Strangers!Recommendable) <= Take
    PROVE  /\ IsFiniteSet(Mutual) /\ Cardinality(Mutual) <= Take
           /\ IsFiniteSet(Most) /\ Cardinality(Most) <= Take
<1> DEFINE R == Strangers!Recommendable
<1>1. IsFiniteSet(Strange)
  BY FS_Subset DEF Strange, StrangerBounds
<1>2. \A b \in Strange : Shown(b).id = b /\ Shown(b) \in R
  BY FormOfRecommendable DEF Shown
<1>3. IsFiniteSet(R)
  <2> DEFINE f == [x \in R |-> x.id]
  <2>1. f \in [R -> Strange]
    BY <1>2, FormOfRecommendable
  <2>2. \A x, y \in R : f[x] = f[y] => x = y
    BY <1>2, FormOfRecommendable
  <2> HIDE DEF f, R
  <2>3. f \in Injection(R, Strange)
    BY <2>1, <2>2 DEF Injection, IsInjective
  <2> QED BY <1>1, <2>3, FS_Injection
<1>4. Cardinality(R) <= Take /\ Cardinality(R) \in Nat /\ Take \in Nat
  BY <1>3, StrangersCount, FS_CardinalityType DEF StrangerBounds
<1>5. IsFiniteSet(Mutual) /\ Cardinality(Mutual) <= Cardinality(R)
  <2>1. Mutual \subseteq R
    BY <1>2, MutualIsShown
  <2> QED BY <1>3, <2>1, FS_Subset
<1>6. IsFiniteSet(Most) /\ Cardinality(Most) <= Cardinality(R)
  <2> DEFINE f == [x \in Most |-> Shown(x.id)]
  <2>1. \A x \in Most : x.id \in Strange
    BY MostIsOfStrange
  <2>2. f \in [Most -> R]
    BY <1>2, <2>1
  <2>3. ASSUME NEW x \in Most, NEW y \in Most, f[x] = f[y] PROVE x = y
    <3>1. x.id = y.id
      BY <1>2, <2>1, <2>3
    <3> QED BY <3>1, MostIsOfStrange
  <2> HIDE DEF f, R
  <2>4. f \in Injection(Most, R)
    BY <2>2, <2>3 DEF Injection, IsInjective
  <2> QED BY <1>3, <2>4, FS_Injection
<1>7. Cardinality(Mutual) \in Nat /\ Cardinality(Most) \in Nat
  BY <1>5, <1>6, FS_CardinalityType
<1> QED BY <1>4, <1>5, <1>6, <1>7

\* As long as the graph is at rest, what has been read of it holds.
ExactInv ==
    /\ (read.pc # "idle" /\ read.calm) => read.friends = Friends
    /\ (/\ read.pc = "most" /\ read.calm /\ read.page = 1
        /\ Strangers!Cardinality(Strangers!Recommendable) <= Take) => read.mutuals = Mutual
    /\ AnswerIsExact

\* What is said of the graph alone stays as long as it does.
LEMMA GraphAtRest ==
    ASSUME edge' = edge
    PROVE  Friends' = Friends /\ Mutual' = Mutual /\ Strangers!Recommendable' = Strangers!Recommendable
BY DEF Friends, Mutual, Strangers!Friends, Strangers!Groups, Strangers!Followers, Strangers!Recommendable

LEMMA ExactStep ==
    ASSUME StrangerBounds, StrangerInv, ExactInv, [Strangers!ReadsNext]_readVars PROVE ExactInv'
<1> USE DEF AnswerIsExact, Strangers!AnswerIsExact
<1>0. read \in Reading /\ answer \in Answered
  BY DEF StrangerInv
<1>1. ASSUME NEW k \in 1..Pages, Strangers!ReadFriends(k) PROVE ExactInv'
  <2>1. /\ read' = [pc |-> "mutuals", page |-> k, friends |-> Friends, mutuals |-> {}, calm |-> TRUE]
        /\ UNCHANGED <<edge, answer>>
    BY <1>1 DEF Strangers!ReadFriends, Friends
  <2>2. Friends' = Friends /\ Strangers!Recommendable' = Strangers!Recommendable
    BY <2>1, GraphAtRest
  <2>3. read'.pc = "mutuals" /\ read'.friends = Friends
    BY <2>1
  <2> QED BY <2>1, <2>2, <2>3 DEF ExactInv
<1>2. CASE Strangers!ReadMutuals
  <2> DEFINE groups == Strangers!Groups(read.friends, read.friends \cup {Caller})
  <2>1. PICK P \in Strangers!PagesOf(groups, read.page, Strangers!Descending) :
          read' = [read EXCEPT !.pc = "most", !.mutuals = P]
    BY <1>2 DEF Strangers!ReadMutuals
  <2>2. UNCHANGED <<edge, answer>> /\ read.pc = "mutuals"
    BY <1>2 DEF Strangers!ReadMutuals, Strangers!At
  <2>3. Friends' = Friends /\ Mutual' = Mutual /\ Strangers!Recommendable' = Strangers!Recommendable
    BY <2>2, GraphAtRest
  <2>4. /\ read'.pc = "most" /\ read'.mutuals = P /\ read'.friends = read.friends
        /\ read'.calm = read.calm /\ read'.page = read.page
    BY <1>0, <2>1 DEF Reading
  <2>5. ASSUME read.calm, read.page = 1, Strangers!Cardinality(Strangers!Recommendable) <= Take
        PROVE  P = Mutual
    <3>1. groups = Mutual
      BY <2>2, <2>5 DEF ExactInv, Mutual
    <3> HIDE DEF groups
    <3>2. P \in Strangers!PagesOf(Mutual, 1, Strangers!Descending)
      BY <2>1, <2>5, <3>1
    <3>3. IsFiniteSet(Mutual) /\ Cardinality(Mutual) <= Take
      BY <2>5, GroupsFit
    <3> QED BY <3>2, <3>3, FirstPageIsAll DEF StrangerBounds
  <2> QED BY <2>2, <2>3, <2>4, <2>5 DEF ExactInv
<1>3. CASE Strangers!ReadMost
  <2> DEFINE groups == Strangers!Groups(Registered \ {Caller}, read.friends \cup {Caller})
  <2>1. PICK P \in Strangers!PagesOf(groups, read.page, Strangers!Ascending) :
          answer' = [items |-> Strangers!Merge(P, read.mutuals), friends |-> read.friends,
                     page |-> read.page, calm |-> read.calm]
    BY <1>3 DEF Strangers!ReadMost
  <2>2. read' = Strangers!Idle /\ edge' = edge /\ read.pc = "most"
    BY <1>3 DEF Strangers!ReadMost, Strangers!At
  <2>3. Strangers!Recommendable' = Strangers!Recommendable
    BY <2>2, GraphAtRest
  <2>4. ASSUME read.calm, read.page = 1, Strangers!Cardinality(Strangers!Recommendable) <= Take
        PROVE  Strangers!Merge(P, read.mutuals) = Strangers!Recommendable
    <3>1. groups = Most /\ read.mutuals = Mutual
      BY <2>2, <2>4 DEF ExactInv, Most
    <3> HIDE DEF groups
    <3>2. P \in Strangers!PagesOf(Most, 1, Strangers!Ascending)
      BY <2>1, <2>4, <3>1
    <3>3. IsFiniteSet(Most) /\ Cardinality(Most) <= Take
      BY <2>4, GroupsFit
    <3>4. P = Most
      BY <3>2, <3>3, FirstPageIsAll DEF StrangerBounds
    <3> QED BY <3>1, <3>4, MergedIsRecommendable
  <2>5. /\ answer'.items = Strangers!Merge(P, read.mutuals) /\ answer'.page = read.page
        /\ answer'.calm = read.calm
    BY <2>1
  <2>6. read'.pc = "idle"
    BY <2>2 DEF Strangers!Idle
  <2> QED BY <2>3, <2>4, <2>5, <2>6 DEF ExactInv
<1>4. CASE Strangers!Change
  <2>1. read' = [read EXCEPT !.calm = (read.pc = "idle")] /\ answer'.calm = FALSE
    BY <1>4 DEF Strangers!Change, Strangers!At, Strangers!NoAnswer
  <2>2. read'.pc = read.pc /\ (read.pc # "idle" => read'.calm = FALSE) /\ answer'.calm = FALSE
    BY <1>0, <2>1 DEF Reading, Answered
  <2> QED BY <2>2 DEF ExactInv
<1>5. CASE UNCHANGED readVars
  <2>1. edge' = edge /\ read' = read /\ answer' = answer
    BY <1>5 DEF readVars
  <2> QED BY <2>1, GraphAtRest DEF ExactInv
<1> QED BY <1>1, <1>2, <1>3, <1>4, <1>5 DEF Strangers!ReadsNext

\* Of a graph that did not move meanwhile, a first page with room for everybody
\* who may be recommended is exactly those, each with the count the service means
\* to show, although it is merged from two pages that were cut before.
THEOREM RecommendationIsExact ==
    ASSUME StrangerBounds PROVE Strangers!ReadsSpec => []AnswerIsExact
<1>1. Strangers!ReadsInit => StrangerInv /\ ExactInv
  <2>1. ASSUME Strangers!ReadsInit PROVE read.pc = "idle" /\ answer.calm = FALSE
    BY <2>1 DEF Strangers!ReadsInit, Strangers!Idle, Strangers!NoAnswer
  <2> QED BY <2>1, StrangersBegin DEF ExactInv, AnswerIsExact, Strangers!AnswerIsExact
<1>2. StrangerInv /\ ExactInv /\ [Strangers!ReadsNext]_readVars => StrangerInv' /\ ExactInv'
  BY StrangersStep, ExactStep
<1>3. ExactInv => AnswerIsExact
  BY DEF ExactInv
<1> QED BY <1>1, <1>2, <1>3, PTL DEF Strangers!ReadsSpec, Strangers!vars, readVars

-----------------------------------------------------------------------------
(* Lists by page number: PagedLists *)

ListBounds == IsFiniteSet(Entries) /\ Size \in Nat /\ MaxChanges \in Nat

Walking == [page : Nat, ask : SUBSET {"rows", "count"}, total : Nat, found : SUBSET Entries,
            torn : BOOLEAN, over : {"no", "total", "short page"}]

ListTypes ==
    /\ place \in [Lists!Stored -> Lists!Values]
    /\ Lists!Stored \subseteq Entries /\ hidden \subseteq Lists!Stored
    /\ client \in Walking /\ changes \in 0..MaxChanges
    /\ client.page = 0 => client.ask = {} /\ client.over = "no"
    /\ client.over # "no" => client.ask = {}

Total == Cardinality(IF kind = "follows" THEN Lists!Stored ELSE Lists!Listed)

\* A row that is due and has not been given yet is behind the pages already
\* read; there are then as many rows on the last of them as a page has, and more
\* in the list than on all of them.
Coming(e) ==
    /\ Lists!Rank(e) > (client.page - 1) * Size
    /\ "rows" \notin client.ask =>
           /\ Lists!Rank(e) > client.page * Size
           /\ Cardinality(client.found) >= Size
           /\ (client.ask = {} /\ ~client.torn) => client.total > client.page * Size

Given == listed \cup (IF "rows" \in client.ask THEN {} ELSE client.found)

PagesInv ==
    /\ (kept /\ client.page > 0) => \A e \in due : Lists!Alone(e) /\ (e \in Given \/ Coming(e))
    /\ (client.ask = {"rows"} /\ ~client.torn) => client.total = Total
    /\ (client.over # "no" /\ kept /\ (client.over = "total" => ~client.torn)) => due \subseteq listed

LEMMA ListsCount == ASSUME NEW S PROVE Lists!Cardinality(S) = Cardinality(S)
BY DEF Lists!Cardinality, Cardinality

LEMMA ListsFinite ==
    ASSUME ListBounds, ListTypes
    PROVE  /\ IsFiniteSet(Lists!Listed) /\ IsFiniteSet(Lists!Stored)
           /\ Cardinality(Lists!Listed) <= Total /\ Total \in Nat /\ Cardinality(Lists!Listed) \in Nat
<1>1. IsFiniteSet(Lists!Stored) /\ Lists!Listed \subseteq Lists!Stored
  BY FS_Subset DEF ListBounds, ListTypes, Lists!Listed
<1>2. IsFiniteSet(Lists!Listed) /\ Cardinality(Lists!Listed) <= Cardinality(Lists!Stored)
  BY <1>1, FS_Subset
<1>3. Cardinality(Lists!Listed) \in Nat /\ Cardinality(Lists!Stored) \in Nat
  BY <1>1, <1>2, FS_CardinalityType
<1> QED BY <1>1, <1>2, <1>3 DEF Total

\* The rows ahead of a row are finitely many, itself among them.
LEMMA RankType ==
    ASSUME ListBounds, ListTypes, NEW e \in Lists!Listed
    PROVE  /\ IsFiniteSet(Lists!Ahead(e)) /\ e \in Lists!Ahead(e)
           /\ Lists!Rank(e) = Cardinality(Lists!Ahead(e))
           /\ Lists!Rank(e) \in Nat /\ Lists!Rank(e) > 0 /\ Lists!Rank(e) <= Total
<1>1. place[e] \in Nat
  BY DEF Lists!Listed, ListTypes, Lists!Values
<1>2. Lists!Ahead(e) \subseteq Lists!Listed /\ e \in Lists!Ahead(e)
  BY <1>1 DEF Lists!Ahead
<1>3. IsFiniteSet(Lists!Ahead(e)) /\ Cardinality(Lists!Ahead(e)) <= Cardinality(Lists!Listed)
  BY <1>2, ListsFinite, FS_Subset
<1>4. Cardinality(Lists!Ahead(e)) # 0
  BY <1>2, <1>3, FS_EmptySet
<1>5. Cardinality(Lists!Ahead(e)) \in Nat
  BY <1>3, FS_CardinalityType
<1>6. Lists!Rank(e) = Cardinality(Lists!Ahead(e))
  BY ListsCount DEF Lists!Rank
<1> QED BY <1>2, <1>3, <1>4, <1>5, <1>6, ListsFinite

\* In whatever order a query puts rows that tie: a row that ties with none and is
\* behind the rows skipped is on the page or behind it, and in front of a row a
\* page is full.
LEMMA PageIsFull ==
    ASSUME ListBounds, ListTypes, NEW n \in Nat, NEW e, Lists!Alone(e), Lists!Rank(e) > n,
           NEW B, B \in Lists!FirstOf(Lists!Listed, n),
           NEW F, F \in Lists!FirstOf(Lists!Listed \ B, Size), e \notin F
    PROVE  Lists!Rank(e) > n + Size /\ Cardinality(F) >= Size
<1> DEFINE L == Lists!Listed
           A == Lists!Ahead(e)
<1>1. e \in L /\ \A x \in L : place[x] \in Nat /\ (place[x] = place[e] => x = e)
  BY DEF Lists!Alone, Lists!Listed, ListTypes, Lists!Values
<1>2. /\ B \subseteq L /\ Cardinality(B) <= n /\ (Cardinality(B) < n => B = L)
      /\ \A x \in B, y \in L \ B : place[x] <= place[y]
  BY ListsCount DEF Lists!FirstOf
<1>3. /\ F \subseteq L \ B /\ Cardinality(F) <= Size /\ (Cardinality(F) < Size => F = L \ B)
      /\ \A x \in F, y \in (L \ B) \ F : place[x] <= place[y]
  BY ListsCount DEF Lists!FirstOf
<1>4. IsFiniteSet(L) /\ IsFiniteSet(A) /\ Lists!Rank(e) = Cardinality(A) /\ e \in A
  BY <1>1, ListsFinite, RankType
<1>5. IsFiniteSet(B) /\ IsFiniteSet(F)
  BY <1>2, <1>3, <1>4, FS_Subset
<1>6. Cardinality(B) \in Nat /\ Cardinality(F) \in Nat /\ Cardinality(A) \in Nat /\ Size \in Nat
  BY <1>4, <1>5, FS_CardinalityType DEF ListBounds
<1>7. A = {x \in L : place[x] <= place[e]}
  BY DEF Lists!Ahead
<1> HIDE DEF L, A
<1>8. e \notin B
  <2>1. ASSUME e \in B PROVE A \subseteq B
    BY <1>1, <1>2, <1>7, <2>1
  <2>2. A \subseteq B => Cardinality(A) <= Cardinality(B)
    BY <1>5, FS_Subset
  <2> QED BY <1>2, <1>4, <1>6, <2>1, <2>2
<1>9. Cardinality(B) = n /\ Cardinality(F) = Size
  BY <1>1, <1>2, <1>3, <1>6, <1>8
<1>10. B \cup F \subseteq A /\ e \notin B \cup F
  BY <1>1, <1>2, <1>3, <1>7, <1>8
<1>11. IsFiniteSet(B \cup F) /\ Cardinality(B \cup F) = n + Size
  <2>1. B \cap F = {} /\ Cardinality(B \cap F) = 0
    BY <1>3, FS_EmptySet
  <2>2. /\ IsFiniteSet(B \cup F)
        /\ Cardinality(B \cup F) = Cardinality(B) + Cardinality(F) - Cardinality(B \cap F)
    BY <1>5, FS_Union
  <2> QED BY <1>6, <1>9, <2>1, <2>2
<1>12. Cardinality(B \cup F) <= Cardinality(A) /\ Cardinality(B \cup F) # Cardinality(A)
  BY <1>4, <1>10, FS_Subset
<1> QED BY <1>4, <1>6, <1>9, <1>11, <1>12

\* A change that keeps the list whole takes no row out of it or back in it.
LEMMA NobodyFallsBack ==
    ASSUME ListBounds, ListTypes, Lists!Change, kept', NEW x \in Lists!Listed
    PROVE  x \in Lists!Listed' /\ place'[x] <= place[x]
<1>1. x \in Lists!Stored /\ x \notin hidden /\ place[x] \in Nat
  BY DEF Lists!Listed, ListTypes, Lists!Values
<1>2. CASE Lists!Add
  <2>1. PICK a : a = CHOOSE y \in Entries : y \notin Lists!Stored
    OBVIOUS
  <2>2. a \notin Lists!Stored
    <3>1. Entries # Lists!Stored /\ Lists!Stored \subseteq Entries
      BY <1>2 DEF Lists!Add, ListTypes
    <3>2. \E y \in Entries : y \notin Lists!Stored
      BY <3>1
    <3>3. (CHOOSE y \in Entries : y \notin Lists!Stored) \notin Lists!Stored
      BY <3>2
    <3> QED BY <2>1, <3>3
  <2>3. PICK v \in Lists!Values : place' = [y \in Lists!Stored \cup {a} |-> IF y = a THEN v ELSE place[y]]
    BY <1>2, <2>1 DEF Lists!Add, Lists!FreeFor
  <2>4. hidden' \in {hidden, hidden \cup {a}}
    BY <1>2, <2>1 DEF Lists!Add
  <2>5. DOMAIN place' = Lists!Stored \cup {a} /\ place'[x] = place[x] /\ x \notin hidden'
    BY <1>1, <2>2, <2>3, <2>4
  <2> QED BY <1>1, <2>5 DEF Lists!Listed, Lists!Stored
<1>3. ASSUME NEW a \in Lists!Stored, NEW v \in Lists!FreeFor(a), place' = [place EXCEPT ![a] = v],
             hidden' \subseteq hidden \cup {a}, a \in hidden \/ (place'[a] <= place[a] /\ a \notin hidden')
      PROVE  x \in Lists!Listed' /\ place'[x] <= place[x]
  BY <1>1, <1>3 DEF Lists!Listed, Lists!Stored
<1>4. ASSUME NEW a \in Lists!Stored, Lists!Turn(a) PROVE x \in Lists!Listed' /\ place'[x] <= place[x]
  BY <1>3, <1>4 DEF Lists!Turn, Lists!Moves, Lists!MovesUp
<1>5. ASSUME NEW a \in Lists!Stored, Lists!Leave(a) PROVE x \in Lists!Listed' /\ place'[x] <= place[x]
  <2>1. a \in hidden /\ x # a
    BY <1>1, <1>5 DEF Lists!Leave
  <2>2. CASE place' = Lists!Restrict(place, Lists!Stored \ {a}) /\ hidden' = hidden \ {a}
    BY <1>1, <2>1, <2>2 DEF Lists!Restrict, Lists!Listed, Lists!Stored
  <2>3. CASE hidden' = hidden \cup {a} /\ place' = place
    BY <1>1, <2>1, <2>3 DEF Lists!Listed, Lists!Stored
  <2> QED BY <1>5, <2>2, <2>3 DEF Lists!Leave
<1>6. ASSUME NEW a \in Lists!Stored, Lists!Replace(a) PROVE x \in Lists!Listed' /\ place'[x] <= place[x]
  BY <1>3, <1>6 DEF Lists!Replace, Lists!Moves, Lists!MovesUp
<1>7. ASSUME NEW a \in Lists!Stored, Lists!Bump(a) PROVE x \in Lists!Listed' /\ place'[x] <= place[x]
  <2>1. hidden' = hidden /\ Lists!MovesUp(a)
    BY <1>7 DEF Lists!Bump
  <2>2. PICK v \in Lists!FreeFor(a) : place' = [place EXCEPT ![a] = v]
    BY <1>7 DEF Lists!Bump, Lists!Moves
  <2> QED BY <1>1, <2>1, <2>2 DEF Lists!MovesUp, Lists!Listed, Lists!Stored
<1> QED BY <1>2, <1>4, <1>5, <1>6, <1>7 DEF Lists!Change

LEMMA ListsBegin == ASSUME ListBounds, Lists!Init PROVE ListTypes /\ PagesInv
<1>1. place = [e \in {} |-> 0] /\ Lists!Stored = {} /\ hidden = {} /\ changes = 0
  BY DEF Lists!Init, Lists!Stored
<1>2. client = [page |-> 0, ask |-> {}, total |-> 0, found |-> {}, torn |-> FALSE, over |-> "no"]
  BY DEF Lists!Init
<1>3. /\ client \in Walking /\ client.page = 0 /\ client.ask = {} /\ client.over = "no"
      /\ ~(client.page > 0) /\ client.ask # {"rows"}
  BY <1>2 DEF Walking
<1>4. place \in [Lists!Stored -> Lists!Values]
  BY <1>1
<1> QED BY <1>1, <1>3, <1>4 DEF ListBounds, ListTypes, PagesInv

\* A change of the list.
LEMMA ListChanges == ASSUME ListBounds, ListTypes, Lists!Change PROVE ListTypes'
<1>1. place \in [Lists!Stored -> Lists!Values] /\ client \in Walking
  BY DEF ListTypes
<1>2. /\ changes' = changes + 1 /\ changes < MaxChanges
      /\ client' = [client EXCEPT !.torn = @ \/ client.ask \in {{"rows"}, {"count"}}]
  BY DEF Lists!Change
<1>3. /\ client' \in Walking /\ client'.page = client.page /\ client'.ask = client.ask
      /\ client'.over = client.over /\ changes' \in 0..MaxChanges
  <2>1. PICK b \in BOOLEAN : client' = [client EXCEPT !.torn = b]
    BY <1>1, <1>2 DEF Walking
  <2>2. client' \in Walking /\ UNCHANGED <<client.page, client.ask, client.over>>
    BY <1>1, <2>1 DEF Walking
  <2>3. changes' \in 0..MaxChanges
    BY <1>2 DEF ListTypes, ListBounds
  <2> QED BY <2>2, <2>3
<1> SUFFICES /\ place' \in [Lists!Stored' -> Lists!Values] /\ Lists!Stored' \subseteq Entries
             /\ hidden' \subseteq Lists!Stored'
  BY <1>3 DEF ListTypes, Lists!Values
<1>4. CASE Lists!Add
  <2>1. PICK a : a = CHOOSE x \in Entries : x \notin Lists!Stored
    OBVIOUS
  <2>2. a \in Entries
    BY <1>4, <2>1 DEF Lists!Add, ListTypes
  <2>3. PICK v \in Lists!Values : place' = [x \in Lists!Stored \cup {a} |-> IF x = a THEN v ELSE place[x]]
    BY <1>4, <2>1 DEF Lists!Add, Lists!FreeFor
  <2>4. hidden' \in {hidden, hidden \cup {a}}
    BY <1>4, <2>1 DEF Lists!Add
  <2> QED BY <1>1, <2>2, <2>3, <2>4 DEF ListTypes, Lists!Stored
<1>5. ASSUME NEW a \in Lists!Stored, Lists!Moves(a), hidden' \subseteq hidden \cup {a}
      PROVE  /\ place' \in [Lists!Stored' -> Lists!Values] /\ Lists!Stored' \subseteq Entries
             /\ hidden' \subseteq Lists!Stored'
  <2>1. PICK v \in Lists!Values : place' = [place EXCEPT ![a] = v]
    BY <1>5 DEF Lists!Moves, Lists!FreeFor
  <2> QED BY <1>1, <1>5, <2>1 DEF ListTypes, Lists!Stored
<1>6. ASSUME NEW a \in Lists!Stored, Lists!Turn(a) \/ Lists!Replace(a) \/ Lists!Bump(a)
      PROVE  Lists!Moves(a) /\ hidden' \subseteq hidden \cup {a}
  BY <1>6 DEF Lists!Turn, Lists!Replace, Lists!Bump
<1>7. ASSUME NEW a \in Lists!Stored, Lists!Leave(a)
      PROVE  /\ place' \in [Lists!Stored' -> Lists!Values] /\ Lists!Stored' \subseteq Entries
             /\ hidden' \subseteq Lists!Stored'
  BY <1>1, <1>7 DEF ListTypes, Lists!Leave, Lists!Restrict, Lists!Stored
<1> QED BY <1>4, <1>5, <1>6, <1>7 DEF Lists!Change

\* What a change of the list does to the client and to what is remembered of it.
LEMMA ChangeRemembers ==
    ASSUME ListTypes, Lists!Change
    PROVE  /\ UNCHANGED <<kind, listed>> /\ (kept' => kept)
           /\ \A e \in due' : e \in due /\ Lists!Alone(e)' /\ place'[e] = place[e]
           /\ UNCHANGED <<client.page, client.ask, client.total, client.found, client.over>>
           /\ client.over = "no"
           /\ ~client'.torn => (~client.torn /\ client.ask # {"rows"})
<1>1. kept' => kept
  BY DEF Lists!Change, Lists!Add, Lists!Turn, Lists!Leave, Lists!Replace, Lists!Bump
<1>2. /\ UNCHANGED <<kind, listed>> /\ client.over = "no"
      /\ client' = [client EXCEPT !.torn = @ \/ client.ask \in {{"rows"}, {"count"}}]
      /\ due' = {e \in due : Lists!Alone(e)' /\ place'[e] = place[e]}
  BY DEF Lists!Change
<1> QED BY <1>1, <1>2 DEF ListTypes, Walking

LEMMA PagesChange == ASSUME ListBounds, ListTypes, PagesInv, Lists!Change PROVE PagesInv'
<1>1. ListTypes'
  BY ListChanges
<1>2. /\ UNCHANGED <<kind, listed>> /\ (kept' => kept)
      /\ \A e \in due' : e \in due /\ Lists!Alone(e)' /\ place'[e] = place[e]
      /\ UNCHANGED <<client.page, client.ask, client.total, client.found, client.over>>
      /\ client.over = "no"
      /\ ~client'.torn => (~client.torn /\ client.ask # {"rows"})
  BY ChangeRemembers
<1>3. ASSUME kept', client'.page > 0, NEW e \in due'
      PROVE  Lists!Alone(e)' /\ (e \in Given' \/ Coming(e)')
  <2>1. kept /\ client.page > 0 /\ e \in due /\ Lists!Alone(e)' /\ place'[e] = place[e]
    BY <1>2, <1>3
  <2>2. Lists!Alone(e) /\ (e \in Given \/ Coming(e))
    BY <2>1 DEF PagesInv
  <2>3. Lists!Ahead(e) \subseteq Lists!Ahead(e)'
    <3>1. ASSUME NEW x \in Lists!Ahead(e) PROVE x \in Lists!Ahead(e)'
      <4>1. x \in Lists!Listed /\ place[x] <= place[e] /\ e \in Lists!Listed
        BY <2>2, <3>1 DEF Lists!Ahead, Lists!Alone
      <4>2. x \in Lists!Listed' /\ place'[x] <= place[x] /\ e \in Lists!Listed'
        BY <1>3, <4>1, NobodyFallsBack
      <4>3. place[x] \in Nat /\ place[e] \in Nat /\ place'[x] \in Nat
        BY <1>1, <4>1, <4>2 DEF ListTypes, Lists!Listed, Lists!Values
      <4> QED BY <2>1, <4>1, <4>2, <4>3 DEF Lists!Ahead
    <3> QED BY <3>1
  <2>4. PICK A, B : A = Lists!Ahead(e) /\ B = Lists!Ahead(e)'
    OBVIOUS
  <2>5. B \subseteq Entries
    BY <1>1, <2>4 DEF ListTypes, Lists!Ahead, Lists!Listed
  <2>6. IsFiniteSet(A) /\ IsFiniteSet(B) /\ Cardinality(A) <= Cardinality(B)
    BY <2>3, <2>4, <2>5, FS_Subset DEF ListBounds
  <2>7. Lists!Rank(e) = Cardinality(A) /\ Lists!Rank(e)' = Cardinality(B)
    BY <2>4, ListsCount DEF Lists!Rank
  <2>8. Lists!Rank(e) \in Nat /\ Lists!Rank(e)' \in Nat /\ Lists!Rank(e) <= Lists!Rank(e)'
    BY <2>6, <2>7, FS_CardinalityType
  <2>9. (client.page - 1) * Size \in Int /\ client.page * Size \in Int
    <3>1. client.page \in Nat /\ Size \in Nat
      BY DEF ListBounds, ListTypes, Walking
    <3> QED BY <3>1
  <2>10. Coming(e) => Coming(e)'
    <3>1. \A m \in Int : Lists!Rank(e) > m => Lists!Rank(e)' > m
      BY <2>8
    <3>2. ~client'.torn => ~client.torn
      BY <1>2
    <3> QED BY <1>2, <2>9, <3>1, <3>2 DEF Coming
  <2>11. Given' = Given
    BY <1>2 DEF Given
  <2> QED BY <2>1, <2>2, <2>10, <2>11
<1> QED BY <1>2, <1>3 DEF PagesInv

\* After a page the client either knows it was the last, or asks for the next.
LEMMA AnswerTurns ==
    ASSUME ListTypes, Lists!Answer
    PROVE  /\ client' \in Walking
           /\ \/ /\ client'.over # "no"
                 /\ UNCHANGED <<client.page, client.ask, client.total, client.found, client.torn>>
                 /\ client'.over = "total" => client.page * Size >= client.total
                 /\ client'.over # "total" => Cardinality(client.found) < Size
              \/ /\ client'.over = "no" /\ client'.page = client.page + 1
                 /\ client'.ask = {"rows", "count"}
<1>1. client \in Walking
  BY DEF ListTypes
<1>2. client.page \in Nat /\ client.page + 1 \in Nat
  <2>1. client.page \in Nat
    BY <1>1 DEF Walking
  <2> QED BY <2>1
<1>3. PICK by : /\ by = "total" \/ by = "short page"
                /\ client' = IF Lists!Done(by) THEN [client EXCEPT !.over = by]
                             ELSE [client EXCEPT !.page = @ + 1, !.ask = {"rows", "count"}, !.torn = FALSE,
                                                 !.found = {}, !.total = 0]
  BY DEF Lists!Answer
<1>4. client.over = "no"
  BY DEF Lists!Answer
<1>5. CASE Lists!Done(by)
  <2>1. /\ client' \in Walking /\ client'.over = by
        /\ UNCHANGED <<client.page, client.ask, client.total, client.found, client.torn>>
    BY <1>1, <1>3, <1>5 DEF Walking
  <2>2. /\ by = "total" => client.page * Size >= client.total
        /\ by # "total" => Cardinality(client.found) < Size
    BY <1>5, ListsCount DEF Lists!Done
  <2> QED BY <1>3, <2>1, <2>2
<1>6. CASE ~Lists!Done(by)
  <2>1. client' = [client EXCEPT !.page = @ + 1, !.ask = {"rows", "count"}, !.torn = FALSE,
                                 !.found = {}, !.total = 0]
    BY <1>3, <1>6
  <2> QED BY <1>1, <1>4, <1>2, <2>1 DEF Walking
<1> QED BY <1>5, <1>6

LEMMA PagesStep ==
    ASSUME ListBounds, ListTypes, PagesInv, [Lists!Next]_listVars PROVE ListTypes' /\ PagesInv'
<1>1. CASE Lists!Change
  BY <1>1, ListChanges, PagesChange
<1> DEFINE k == client.page
<1>2. client \in Walking /\ k \in Nat /\ (client.ask # {} => k > 0 /\ client.over = "no")
  <2>1. client \in Walking /\ k \in Nat
    BY DEF ListTypes, Walking
  <2>2. client.ask # {} => k # 0 /\ client.over = "no"
    BY DEF ListTypes
  <2> QED BY <2>1, <2>2
<1>3. k * Size = (k - 1) * Size + Size /\ (k > 0 => (k - 1) * Size \in Nat) /\ k * Size \in Nat
  BY <1>2 DEF ListBounds
<1>4. ASSUME UNCHANGED <<kind, place, hidden, changes>>
      PROVE  /\ Lists!Stored' = Lists!Stored /\ Lists!Listed' = Lists!Listed /\ Total' = Total
             /\ \A e : Lists!Rank(e)' = Lists!Rank(e) /\ (Lists!Alone(e)' <=> Lists!Alone(e))
             /\ (/\ client' \in Walking /\ (client'.page = 0 => client'.ask = {} /\ client'.over = "no")
                 /\ client'.over # "no" => client'.ask = {}) => ListTypes'
  BY <1>4 DEF Total, Lists!Stored, Lists!Listed, Lists!Rank, Lists!Ahead, Lists!Alone, Lists!Values, ListTypes
<1>5. \A e : Lists!Alone(e) => e \in Lists!Listed
  BY DEF Lists!Alone
<1> HIDE DEF k
<1>6. CASE Lists!Begin
  <2>1. /\ client.page = 0 /\ client' = [client EXCEPT !.page = 1, !.ask = {"rows", "count"}]
        /\ due' = {e \in Lists!Listed : Lists!Alone(e)}
        /\ UNCHANGED <<kind, place, hidden, changes, listed>>
    BY <1>6 DEF Lists!Begin
  <2>2. /\ client' \in Walking /\ client'.page = 1 /\ client'.ask = {"rows", "count"} /\ client'.over = "no"
    BY <1>2, <2>1 DEF Walking, ListTypes
  <2>3. ListTypes'
    BY <1>4, <2>1, <2>2
  <2>4. ASSUME NEW e \in due' PROVE Lists!Alone(e)' /\ Coming(e)'
    <3>1. e \in Lists!Listed /\ Lists!Rank(e)' = Lists!Rank(e) /\ Lists!Alone(e)'
      BY <1>4, <2>1, <2>4
    <3>2. Lists!Rank(e) > 0
      BY <3>1, RankType
    <3>3. (client'.page - 1) * Size = 0 /\ "rows" \in client'.ask
      BY <2>2 DEF ListBounds
    <3> QED BY <3>1, <3>2, <3>3 DEF Coming
  <2>5. client'.ask # {"rows"}
    <3>1. "count" \in client'.ask
      BY <2>2
    <3> QED BY <3>1
  <2> QED BY <2>2, <2>3, <2>4, <2>5 DEF PagesInv
<1>7. CASE Lists!Rows
  <2>1. PICK B, F : /\ B \in Lists!FirstOf(Lists!Listed, (k - 1) * Size)
                    /\ F \in Lists!FirstOf(Lists!Listed \ B, Size)
                    /\ client' = [client EXCEPT !.ask = @ \ {"rows"}, !.found = F]
    BY <1>7 DEF Lists!Rows, Lists!Skip, k
  <2>2. "rows" \in client.ask /\ UNCHANGED <<kind, place, hidden, changes, listed, kept, due>>
    BY <1>7 DEF Lists!Rows
  <2>3. F \subseteq Entries /\ k > 0 /\ client.over = "no"
    BY <1>2, <2>1, <2>2 DEF Lists!FirstOf, Lists!Listed, ListTypes
  <2>4. /\ client' \in Walking /\ client'.ask = client.ask \ {"rows"} /\ client'.found = F
        /\ UNCHANGED <<client.page, client.total, client.torn, client.over>>
    BY <1>2, <2>1, <2>3 DEF Walking
  <2>5. ListTypes'
    BY <1>4, <2>2, <2>3, <2>4 DEF k
  <2>6. ASSUME kept, NEW e \in due PROVE Lists!Alone(e)' /\ (e \in Given' \/ Coming(e)')
    <3>1. Lists!Alone(e) /\ e \in Lists!Listed /\ (e \in Given \/ Coming(e))
      BY <1>5, <2>3, <2>6 DEF PagesInv, k
    <3>2. Lists!Alone(e)' /\ Lists!Rank(e)' = Lists!Rank(e)
      BY <1>4, <2>2, <3>1
    <3>3. Given = listed /\ Given' = listed \cup F
      BY <2>2, <2>4 DEF Given
    <3>4. ASSUME e \notin listed, e \notin F PROVE Coming(e)'
      <4>1. Lists!Rank(e) > (k - 1) * Size
        BY <3>1, <3>3, <3>4 DEF Coming, k
      <4>2. Lists!Rank(e) > (k - 1) * Size + Size /\ Cardinality(F) >= Size
        BY <1>3, <2>1, <2>3, <3>1, <3>4, <4>1, PageIsFull
      <4>3. Lists!Rank(e) <= Total /\ Total \in Nat /\ Lists!Rank(e) \in Nat
        BY <3>1, RankType, ListsFinite
      <4>4. (client'.ask = {} /\ ~client'.torn) => client.total = Total
        <5>1. client'.ask = {} => client.ask = {"rows"}
          BY <2>2, <2>4
        <5> QED BY <2>4, <5>1 DEF PagesInv
      <4>5. (client'.ask = {} /\ ~client'.torn) => client'.total > k * Size
        BY <1>3, <2>4, <4>2, <4>3, <4>4
      <4>6. Lists!Rank(e)' > (client'.page - 1) * Size /\ Lists!Rank(e)' > client'.page * Size
        BY <1>3, <2>4, <3>2, <4>1, <4>2, <4>3 DEF k
      <4> QED BY <2>4, <4>2, <4>5, <4>6 DEF Coming, k
    <3> QED BY <3>2, <3>3, <3>4
  <2>7. client'.ask # {"rows"}
    BY <2>4
  <2> QED BY <2>2, <2>3, <2>4, <2>5, <2>6, <2>7 DEF PagesInv
<1>8. CASE Lists!Count
  <2>1. /\ "count" \in client.ask /\ client' = [client EXCEPT !.ask = @ \ {"count"}, !.total = Total]
        /\ UNCHANGED <<kind, place, hidden, changes, listed, kept, due>>
    BY <1>8, ListsCount DEF Lists!Count, Total
  <2>2. Total \in Nat /\ k > 0 /\ client.over = "no"
    BY <1>2, <2>1, ListsFinite
  <2>3. /\ client' \in Walking /\ client'.ask = client.ask \ {"count"} /\ client'.total = Total
        /\ UNCHANGED <<client.page, client.found, client.torn, client.over>>
    BY <1>2, <2>1, <2>2 DEF Walking
  <2>4. ListTypes'
    BY <1>4, <2>1, <2>2, <2>3 DEF k
  <2>5. ASSUME kept, NEW e \in due PROVE Lists!Alone(e)' /\ (e \in Given' \/ Coming(e)')
    <3>1. Lists!Alone(e) /\ e \in Lists!Listed /\ (e \in Given \/ Coming(e))
      BY <1>5, <2>2, <2>5 DEF PagesInv, k
    <3>2. Lists!Alone(e)' /\ Lists!Rank(e)' = Lists!Rank(e)
      BY <1>4, <2>1, <3>1
    <3>3. Given' = Given /\ ("rows" \in client'.ask <=> "rows" \in client.ask)
      BY <2>1, <2>3 DEF Given
    <3>4. Lists!Rank(e) <= Total /\ Lists!Rank(e) \in Nat
      BY <3>1, RankType
    <3>5. Lists!Rank(e) > client.page * Size => Total > client.page * Size
      BY <1>3, <2>2, <3>4 DEF k
    <3>6. Coming(e) => Coming(e)'
      BY <2>3, <3>2, <3>3, <3>5 DEF Coming
    <3> QED BY <3>1, <3>2, <3>3, <3>6
  <2> QED BY <1>4, <2>1, <2>2, <2>3, <2>4, <2>5 DEF PagesInv
<1>9. CASE Lists!Answer
  <2>1. /\ client.page > 0 /\ client.ask = {} /\ client.over = "no"
        /\ listed' = listed \cup client.found
        /\ UNCHANGED <<kind, place, hidden, changes, kept, due>>
    BY <1>9 DEF Lists!Answer
  <2>2. client' \in Walking /\ Given = listed' /\ Given \subseteq Given'
    BY <1>9, <2>1, AnswerTurns DEF Given
  <2>3. \A e \in due : kept => /\ Lists!Alone(e) /\ Lists!Alone(e)' /\ Lists!Rank(e)' = Lists!Rank(e)
                               /\ e \in listed' \/ Coming(e)
    BY <1>4, <2>1, <2>2 DEF PagesInv
  <2>4. CASE /\ client'.over # "no"
             /\ UNCHANGED <<client.page, client.ask, client.total, client.found, client.torn>>
             /\ client'.over = "total" => k * Size >= client.total
             /\ client'.over # "total" => Cardinality(client.found) < Size
    <3>1. ListTypes'
      BY <1>4, <2>1, <2>2, <2>4
    <3>2. \A e \in due : kept /\ Coming(e) => Coming(e)'
      BY <2>3, <2>4 DEF Coming
    <3>3. client.total \in Nat /\ Size \in Nat /\ Cardinality(client.found) \in Nat
      <4>1. IsFiniteSet(client.found)
        BY <1>2, FS_Subset DEF Walking, ListBounds
      <4> QED BY <1>2, <4>1, FS_CardinalityType DEF Walking, ListBounds
    <3>4. \A e \in due : Coming(e) => /\ ~(Cardinality(client.found) < Size)
                                      /\ ~client.torn => ~(k * Size >= client.total)
      BY <1>3, <2>1, <3>3 DEF Coming, k
    <3>5. (kept /\ (client'.over = "total" => ~client.torn)) => due \subseteq listed'
      BY <2>3, <2>4, <3>4
    <3>6. "rows" \notin client'.ask
      BY <2>1, <2>4
    <3>7. client'.ask # {"rows"}
      BY <3>6
    <3> QED BY <2>1, <2>2, <2>3, <2>4, <3>1, <3>2, <3>5, <3>7 DEF PagesInv
  <2>5. CASE client'.over = "no" /\ client'.page = k + 1 /\ client'.ask = {"rows", "count"}
    <3>1. ListTypes'
      BY <1>2, <1>4, <2>1, <2>2, <2>5
    <3>2. (client'.page - 1) * Size = k * Size /\ "rows" \in client'.ask
      BY <1>2, <2>5
    <3>3. \A e \in due : kept /\ Coming(e) => Coming(e)'
      BY <2>1, <2>3, <3>2 DEF Coming, k
    <3>4. "count" \in client'.ask
      BY <2>5
    <3>5. client'.ask # {"rows"}
      BY <3>4
    <3> QED BY <2>1, <2>2, <2>3, <2>5, <3>1, <3>3, <3>5 DEF PagesInv
  <2> QED BY <1>9, <2>4, <2>5, AnswerTurns DEF k
<1>10. CASE UNCHANGED listVars
  <2>1. UNCHANGED <<kind, place, hidden, changes, client, listed, kept, due>>
    BY <1>10 DEF listVars
  <2> QED BY <1>4, <2>1 DEF PagesInv, Given, Coming, ListTypes
<1> QED BY <1>1, <1>6, <1>7, <1>8, <1>9, <1>10 DEF Lists!Next

LEMMA PagesSafe == ASSUME ListTypes, PagesInv PROVE WalkShowsAll
<1>1. client.found \subseteq Entries /\ client.ask \subseteq {"rows", "count"}
  BY DEF ListTypes, Walking
<1> QED BY <1>1 DEF ListTypes, Lists!TypeOK, PagesInv, WalkShowsAll, Lists!WalkShowsAll

\* Whatever is added to a list, accepted or moved up while a client reads it page
\* by page, by the total or to the first short page, and whatever order each query
\* gives rows that tie, the client that reaches the last page has been given all
\* the rows that the list held when it began and that neither moved nor tied with
\* another since, for any list, size of a page and number of changes.
THEOREM WalksMissNothing == ASSUME ListBounds PROVE Lists!Spec => []WalkShowsAll
<1>1. Lists!Init => ListTypes /\ PagesInv
  BY ListsBegin
<1>2. ListTypes /\ PagesInv /\ [Lists!Next]_listVars => ListTypes' /\ PagesInv'
  BY PagesStep
<1>3. ListTypes /\ PagesInv => WalkShowsAll
  BY PagesSafe
<1> QED BY <1>1, <1>2, <1>3, PTL DEF Lists!Spec, Lists!vars, listVars
=============================================================================
