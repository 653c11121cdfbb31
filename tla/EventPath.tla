----------------------------- MODULE EventPath -----------------------------
(***************************************************************************)
(* The post service and the notification service together: PostPublish     *)
(* makes an announcement, its producer sends it, and the listener of       *)
(* create-post (Notifications) is handed it, among the records of other    *)
(* topics.  The topic, which each of the two describes for itself, is one: *)
(* what a producer delivers is the next record of it.                      *)
(***************************************************************************)
EXTENDS PostPublish

CONSTANTS
    Topics, Kind, MaxTries, MaxEvents, MaxCrash,  \* of Notifications
    Announced                                     \* the topic create-post

VARIABLES
    produced, committed, done, fetched, tries, recorded, mailed, dropped, crashes,
    place,     \* history: the number of the record of each post
    handled    \* history: the posts the listener was handed

Listener == INSTANCE Notifications

listenerVars == <<produced, committed, done, fetched, tries, recorded, mailed, dropped, crashes>>
pathVars == <<vars, listenerVars, place, handled>>

PathInit == Init /\ Listener!Init /\ place = [p \in Posts |-> 0] /\ handled = {}

\* The producer's batch reaches the broker.
Transport(p) == /\ Deliver(p)
                /\ Listener!Produce(Announced)
                /\ place' = [place EXCEPT ![p] = produced'[Announced]]
                /\ UNCHANGED handled

\* The record at hand is logged.
Hand == /\ Listener!Handle(Announced)
        /\ handled' = handled \cup {p \in Posts : place[p] = done[Announced] + 1}
        /\ UNCHANGED <<vars, place>>

\* Polls, commits and restarts.
Poll == Listener!Move /\ UNCHANGED <<vars, place, handled>>

\* The records of the other topics.
Others == /\ \E t \in Topics \ {Announced} : Listener!Produce(t) \/ Listener!Handle(t)
          /\ UNCHANGED <<vars, place, handled>>

Publish == /\ Crash \/ \E p \in Posts : Create(p) \/ Abort(p)
           /\ UNCHANGED <<listenerVars, place, handled>>

PathNext == Publish \/ (\E p \in Posts : Transport(p)) \/ Hand \/ Poll \/ Others

\* Both services run, and the producer sends.
PathFairness == /\ \A p \in Posts : WF_pathVars(Create(p) \/ Abort(p)) /\ WF_pathVars(Transport(p))
                /\ WF_pathVars(Hand) /\ Listener!Fairness
PathSpec == PathInit /\ [][PathNext]_pathVars /\ PathFairness
-----------------------------------------------------------------------------
\* A stored post comes to the listener in the end, restarts of either service
\* included, but for an announcement that dies in the producer's buffer, if the
\* broker takes the batches of a producer that lives.
StoredIsHandled == \A p \in Posts : p \in stored ~> p \in lost \cup handled
=============================================================================
