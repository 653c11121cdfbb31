------------------------------ MODULE Stories ------------------------------
(***************************************************************************)
(* The stories of the accounts a user follows (Post.py): the post service  *)
(* asks the relationship service for the user's following list and then    *)
(* its own database for the stories of the accounts on it.  Follows,       *)
(* blocks and posts change before, between and after the two reads.  The   *)
(* list has whom the user blocks too, for it asks for the Status alone.    *)
(* Each account has one story; the pages of the answer are taken together. *)
(* Only the edges that leave the caller matter.                            *)
(***************************************************************************)
EXTENDS RelationshipGraph, Naturals, Sequences, FiniteSets

CONSTANTS
    Caller,
    Limit,      \* how many accounts are asked for: pageSize=100
    MaxChanges  \* bound: the changes of follows and posts

VARIABLES
    public,   \* the accounts whose story is public or for friends
    changes,
    pc,       \* what the request does next: idle, list or stories
    asked,    \* the accounts it was told of
    shown,    \* the accounts whose stories were answered last
    moments   \* history: whom the caller followed and blocked, and what was
              \* public, at each moment of the last request

vars == <<edge, public, changes, pc, asked, shown, moments>>

Followed == {u \in Registered : edge[<<Caller, u>>] = "following"}
Blocked == {u \in Registered : edge[<<Caller, u>>] = "blocked"}
Moment == [followed |-> Followed, blocked |-> Blocked, public |-> public]

StoriesInit == /\ Init /\ public = {} /\ changes = 0
               /\ pc = "idle" /\ asked = {} /\ shown = {} /\ moments = <<>>
-----------------------------------------------------------------------------
\* Slip: the Status of the rows is not asked for.
Listed_Asked == {u \in Registered : edge[<<Caller, u>>] # "none"}

\* GetUserFollowingList: the rows with Status ACCEPTED, which BlockUser writes
\* too.
Listed == {u \in Registered : edge[<<Caller, u>>] \in {"following", "blocked"}}

\* The request arrives and calls the relationship service ...
Ask == /\ pc = "idle"
       /\ pc' = "list"
       /\ moments' = <<Moment>> /\ shown' = {} /\ asked' = {}
       /\ UNCHANGED <<edge, public, changes>>

\* ... which answers the first page of the list ...
ReadFollowing == /\ pc = "list"
                 /\ pc' = "stories"
                 /\ asked' \in SUBSET Listed
                 /\ Cardinality(asked') <= Limit
                 /\ Cardinality(asked') < Limit => asked' = Listed
                 /\ UNCHANGED <<edge, public, changes, shown, moments>>

\* ... and paginate asks for isStory and the visibility, deleted or not.
ReadStories == /\ pc = "stories"
               /\ pc' = "idle"
               /\ shown' = asked \cap public
               /\ UNCHANGED <<edge, public, changes, asked, moments>>

Changed == /\ changes < MaxChanges
           /\ changes' = changes + 1
           /\ moments' = IF pc = "idle" THEN moments ELSE Append(moments, Moment')
           /\ UNCHANGED <<pc, asked, shown>>

\* A request of the caller or of somebody it asked to follow.
Relate == /\ \E u \in Registered : LET p == <<Caller, u>>
                                   IN  Follow(p) \/ Accept(p) \/ Remove(p) \/ Block(p)
          /\ UNCHANGED public
          /\ Changed

\* A story is posted, or its visibility changed.
Post(u) == /\ public' \in {public \cup {u}, public \ {u}} \ {public}
           /\ UNCHANGED edge
           /\ Changed

StoriesNext == Ask \/ ReadFollowing \/ ReadStories \/ Relate \/ \E u \in Registered : Post(u)
StoriesSpec == StoriesInit /\ [][StoriesNext]_vars
-----------------------------------------------------------------------------
TypeOK == /\ edge \in [Pairs -> States] /\ public \subseteq Registered
          /\ changes \in 0..MaxChanges
          /\ shown \subseteq Registered /\ asked \subseteq Registered

\* The followed and the blocked accounts fit the list at every moment.
Roomy == \A i \in DOMAIN moments : Cardinality(moments[i].followed \cup moments[i].blocked) <= Limit

\* However follows, blocks and posts change during a request, a story is shown
\* only if the caller followed the account, or blocked it, at some moment of the
\* request, and the story was open to friends then or later in it: what was open
\* before the follow alone is not shown, nor is an account that was only asked.
\* An account that is followed with its story open throughout is shown, if
\* the list has room.
StoriesWereOpen ==
    /\ TypeOK
    /\ \A u \in shown : \E i, j \in DOMAIN moments :
          i <= j /\ u \in moments[i].followed \cup moments[i].blocked /\ u \in moments[j].public
    /\ (pc = "idle" /\ moments # <<>> /\ Roomy) =>
          \A u \in Registered :
             (\A i \in DOMAIN moments : u \in moments[i].followed \cap moments[i].public) => u \in shown
=============================================================================
