---------------------------- MODULE WorkflowGraph ----------------------------
(***************************************************************************)
(* The static checks of a workflow document (core/workflow/validate.go)    *)
(* and the route frozen from it for a run (core/workflow/route.go).        *)
(* A document is a record: its nodes, the ones a route may enter (entries) *)
(* and stop at (ends), the default entry and terminals, the transition     *)
(* mode and the join of every node, the transitions                        *)
(* [id, from, to, on, max, always] -- enabledByDefault, maxTraversals      *)
(* (0: a normal transition), no condition -- and the outputs of other      *)
(* nodes that a node's required inputs are bound to (needs).  Value types, *)
(* capabilities and the executors' own fields are left out.                *)
(***************************************************************************)
EXTENDS Naturals, FiniteSets

Edges(T) == {<<t.from, t.to>> : t \in T}

\* The nodes reachable from the set S along the edges E.
Reach(S, E) ==
    LET within[k \in 0..Cardinality(E)] ==
           IF k = 0 THEN S
           ELSE within[k - 1] \cup {e[2] : e \in {x \in E : x[1] \in within[k - 1]}}
    IN  within[Cardinality(E)]
CanReach(S, E) == Reach(S, {<<e[2], e[1]>> : e \in E})

Incoming(d, n) == {t \in d.trans : t.to = n}
Outgoing(d, n) == {t \in d.trans : t.from = n}
Bounded(t) == t.max > 0

-----------------------------------------------------------------------------
(* Validate: every check runs, and any finding rejects the document.        *)

\* indexTransitions, validateBindings: what is named exists.
ReferencesExist(d) ==
    /\ \A t \in d.trans : t.to \in d.nodes
    /\ \A n \in d.nodes : d.needs[n] \subseteq d.nodes

\* branchReachesIncoming: the branch is the producer, or leads to its source
\* without passing through the join.
BranchReaches(d, branch, producer, join) ==
    \/ branch = producer
    \/ branch.to # join /\ producer.from \in Reach({branch.to}, Edges({t \in d.trans : t.from # join}))

\* validateJoinSatisfiability
Covered(d, branch, join) == {p \in Incoming(d, join) : BranchReaches(d, branch, p, join)}
JoinSatisfiable(d, n) ==
    \A fork \in d.nodes : \A left, right \in Outgoing(d, fork) :
       LET a == Covered(d, left, n)
           b == Covered(d, right, n)
       IN  left # right /\ Cardinality((a \ b) \cup (b \ a)) >= 2 =>
              /\ ~(d.join[n].mode = "all" /\ d.mode[fork] = "exclusive")
              /\ ~(d.join[n].mode = "one" /\ d.mode[fork] = "fanout" /\ left.always /\ right.always)

\* validateJoins: more than one transition in, and exactly then, takes a join
\* of all of them.
JoinsValid(d) ==
    \A n \in d.nodes :
       IF Cardinality(Incoming(d, n)) <= 1 THEN d.join[n].mode = "none"
       ELSE /\ d.join[n].mode # "none" /\ d.join[n].from = {t.id : t \in Incoming(d, n)}
            /\ JoinSatisfiable(d, n)

AllReachable(d) == d.nodes \subseteq Reach(d.entries, Edges(d.trans))

\* validateCycles: without its bounded transitions the graph has no cycle.
\* (A mutant of Acyclic.)
NoSelfLoop(d) == \A t \in d.trans : ~Bounded(t) => t.from # t.to
Acyclic(d) ==
    LET E == Edges({t \in d.trans : ~Bounded(t)})
    IN  \A n \in d.nodes : n \notin Reach({e[2] : e \in {x \in E : x[1] = n}}, E)

\* validateDefaultRoute: the enabled graph, cut behind the default terminals,
\* reaches all of them, and one of them from everywhere.
\* (A mutant of DefaultRouteValid.)
DefaultRouteReaches(d) ==
    LET E == Edges({t \in d.trans : t.on /\ t.from \notin d.terminals})
    IN  /\ d.entry \in d.entries /\ d.terminals \subseteq d.ends
        /\ d.terminals \subseteq Reach({d.entry}, E)
DefaultRouteValid(d) ==
    LET E == Edges({t \in d.trans : t.on /\ t.from \notin d.terminals})
        reachable == Reach({d.entry}, E)
    IN  /\ d.entry \in d.entries /\ d.terminals \subseteq d.ends
        /\ d.terminals \subseteq reachable
        /\ reachable \subseteq CanReach(d.terminals, {e \in E : e[1] \in reachable})

Valid(d) ==
    /\ ReferencesExist(d)
    /\ JoinsValid(d)
    /\ AllReachable(d)
    /\ Acyclic(d)
    /\ DefaultRouteValid(d)

-----------------------------------------------------------------------------
(* createRoute, also used for patches: overrides is a function from some    *)
(* transition ids to whether they take part.                                *)

Enabled(t, overrides) == IF t.id \in DOMAIN overrides THEN overrides[t.id] ELSE t.on
EnabledIn(d, overrides) == {t \in d.trans : Enabled(t, overrides)}

\* validateRouteBoundaries
BoundariesValid(d, entry, terminals) ==
    entry \in d.entries /\ terminals # {} /\ terminals \subseteq d.ends
\* forwardRouteNodes: nothing is followed out of a terminal.
Forward(d, entry, terminals, overrides) ==
    Reach({entry}, Edges({t \in EnabledIn(d, overrides) : t.from \notin terminals}))
\* includedRouteTransitions
Included(d, nodes, terminals, overrides) ==
    {t \in EnabledIn(d, overrides) : t.from \in nodes \ terminals /\ t.to \in nodes}
\* validateRouteClosure
Closed(nodes, terminals, T) == nodes \subseteq CanReach(terminals \cap nodes, Edges(T))

\* excludedRouteNodes
ExclusionReason(d, n, entry, terminals, overrides) ==
    LET E == Edges(EnabledIn(d, overrides))
    IN  IF n \in CanReach({entry}, E) THEN "before_entry"
        ELSE IF n \in Reach(terminals, E) THEN "past_terminal" ELSE "not_connected"
\* projectedRouteNodes: a join over the transitions that are left of it.
ProjectedJoin(d, n, T) == d.join[n].from \cap {t.id : t \in {x \in T : x.to = n}}
\* routeInputRequirements, routePredecessors
Predecessors(n, T) == CanReach({t.from : t \in {x \in T : x.to = n}}, Edges(T)) \ {n}
InputRequirements(d, nodes, T) ==
    {<<n, s>> \in nodes \X d.nodes : s \in d.needs[n] /\ s \notin Predecessors(n, T)}

NoRoute == [ok |-> FALSE]
\* required: the nodes the project's policy lets no route leave out.
CreateRoute(d, entry, terminals, overrides, required) ==
    LET nodes == Forward(d, entry, terminals, overrides)
        T == Included(d, nodes, terminals, overrides)
    IN  IF /\ BoundariesValid(d, entry, terminals)
           /\ terminals \subseteq nodes
           /\ Closed(nodes, terminals, T)
           /\ required \subseteq nodes
        THEN [ok |-> TRUE, entry |-> entry, terminals |-> terminals, nodes |-> nodes,
              trans |-> {t.id : t \in T},
              joins |-> [n \in nodes |-> ProjectedJoin(d, n, T)],
              excluded |-> [n \in d.nodes \ nodes |-> ExclusionReason(d, n, entry, terminals, overrides)],
              missing |-> InputRequirements(d, nodes, T)]
        ELSE NoRoute
=============================================================================
