----------------------- MODULE RelationshipRefinement -----------------------
(***************************************************************************)
(* The handlers of Relationship implement the graph of RelationshipGraph   *)
(* when every user has one request in flight at a time: the rows of a pair *)
(* stand for its edge.                                                     *)
(***************************************************************************)
EXTENDS Relationship

EdgeOf(a, b) ==
    IF \E i \in Between(a, b) : Blocks(i) THEN "blocked"
    ELSE IF \E i \in Between(a, b) : Follows(i) THEN "following"
    ELSE IF Between(a, b) # {} THEN "pending" ELSE "none"

Graph == INSTANCE RelationshipGraph
            WITH edge <- [p \in Registered \X Registered |-> EdgeOf(p[1], p[2])]

\* Every step of a handler is one step of the graph or changes no edge: stale
\* reads, lost rows, failures and crashes stay invisible.
ImplementsGraph == Graph!Spec
=============================================================================
