-------------------------- MODULE ArtifactLineage --------------------------
(***************************************************************************)
(* Dependencies between exact artifact versions and what a new version     *)
(* does to its descendants (sqlite/artifact_lineage.go), and the bindings  *)
(* of artifacts to targets (sqlite/artifact_bindings.go).  A version is    *)
(* the position of its registration in the log.                            *)
(***************************************************************************)
EXTENDS Naturals, Sequences, SequencesExt, FiniteSets

CONSTANTS Artifacts,
          MaxVersions, MaxRows   \* bounds: versions; dependencies and binding versions

VARIABLES log,            \* registrations, each the artifact it is a version of
          edges,          \* artifact_dependencies
          invalidations,  \* artifact_invalidations: trigger, descendant, rank
          binding         \* versions of one binding of the first artifact

vars == <<log, edges, invalidations, binding>>

Init == log = <<>> /\ edges = {} /\ invalidations = {} /\ binding = <<>>

Room == Cardinality(edges) + Len(binding) < MaxRows
VersionsOf(a) == {i \in DOMAIN log : log[i] = a}
Latest(S) == CHOOSE i \in S : \A j \in S : j <= i
Impacts == {1, 2}                        \* potentially_stale, invalidated
Worse(r, s) == IF r = 2 \/ s = 2 THEN 2 ELSE 1

\* WITH RECURSIVE descendants: the versions reachable from i.
Descendants(i) ==
    LET reach[n \in 0..Len(log)] ==
           IF n = 0 THEN {e.dst : e \in {x \in edges : x.src = i}}
           ELSE reach[n - 1] \cup {e.dst : e \in {x \in edges : x.src \in reach[n - 1]}}
    IN  reach[Len(log)]

\* WITH RECURSIVE affected: (version, rank) rows from the superseded version.
\* (A mutant of Affected.)
AffectedDirectly(previous) == {<<e.dst, e.impact>> : e \in {x \in edges : x.src = previous}}
Affected(previous) ==
    LET rows[n \in 0..Len(log)] ==
           IF n = 0 THEN {<<e.dst, e.impact>> : e \in {x \in edges : x.src = previous}}
           ELSE rows[n - 1] \cup {<<p[1].dst, Worse(p[2][2], p[1].impact)>> :
                                     p \in {q \in edges \X rows[n - 1] : q[1].src = q[2][1]}}
    IN  rows[Len(log)]
Strongest(rows, i) == IF <<i, 2>> \in rows THEN 2 ELSE 1

\* Register: the second and later versions invalidate, in the same transaction.
Register(a) ==
    /\ Len(log) < MaxVersions
    /\ log' = Append(log, a)
    /\ invalidations' =
          IF VersionsOf(a) = {} THEN invalidations
          ELSE LET rows == Affected(Latest(VersionsOf(a))) IN
               invalidations \cup {[trigger |-> Len(log) + 1, dst |-> row[1], rank |-> Strongest(rows, row[1])] : row \in rows}
    /\ UNCHANGED <<edges, binding>>

\* (A mutant of Cycle.)
CycleDirect(s, d) == s = d \/ \E e \in edges : e.src = d /\ e.dst = s
Cycle(s, d) == s = d \/ s \in Descendants(d)

\* AddDependency: the same edge again is a no-op or a conflict.
AddDependency(s, d, impact) ==
    /\ Room
    /\ \A e \in edges : <<e.src, e.dst>> # <<s, d>>
    /\ ~Cycle(s, d)
    /\ edges' = edges \cup {[src |-> s, dst |-> d, impact |-> impact]}
    /\ UNCHANGED <<log, invalidations, binding>>

-----------------------------------------------------------------------------
(* Bindings; a repeated key returns the snapshot it made.                   *)

\* (A mutant of Bind.)
BindAny(i) ==
    /\ Room /\ binding # <<>> => Last(binding).state = "unbound"
    /\ binding' = Append(binding, [state |-> "bound", version |-> i])
    /\ UNCHANGED <<log, edges, invalidations>>
\* Bind: only an unbound binding, to the same artifact, never to an older version.
Bind(i) ==
    /\ Room
    /\ binding # <<>> => Last(binding).state = "unbound" /\ log[Last(binding).version] = log[i] /\ Last(binding).version <= i
    /\ binding' = Append(binding, [state |-> "bound", version |-> i])
    /\ UNCHANGED <<log, edges, invalidations>>
Unbind ==
    /\ Room /\ binding # <<>> /\ Last(binding).state = "bound"
    /\ binding' = Append(binding, [state |-> "unbound", version |-> Last(binding).version])
    /\ UNCHANGED <<log, edges, invalidations>>

Next ==
    \/ \E a \in Artifacts : Register(a)
    \/ \E s, d \in DOMAIN log, impact \in Impacts : AddDependency(s, d, impact)
    \/ \E i \in DOMAIN log : Bind(i)
    \/ Unbind

-----------------------------------------------------------------------------
TypeOK ==
    /\ Len(log) <= MaxVersions /\ Cardinality(edges) + Len(binding) <= MaxRows
    /\ \A x \in invalidations : x.trigger \in DOMAIN log /\ x.dst \in DOMAIN log /\ x.rank \in Impacts

\* No version depends on itself, directly or through others.
NoDependencyCycle == \A i \in DOMAIN log : i \notin Descendants(i)

\* The dependency paths out of version p.
Paths(p) ==
    {q \in UNION {[1..n -> edges] : n \in 1..MaxRows} :
        q[1].src = p /\ \A k \in 1..(Len(q) - 1) : q[k].dst = q[k + 1].src}

\* Freshness follows every path: a new version marks exactly the versions that
\* depend, however indirectly, on the one it replaces, as invalidated when
\* some dependency on some path says so and as potentially stale otherwise,
\* and no mark is ever taken back.
InvalidationFollowsPaths ==
    [][/\ invalidations \subseteq invalidations'
       /\ log' # log =>
             LET older == VersionsOf(Last(log'))
                 paths == IF older = {} THEN {} ELSE Paths(Latest(older))
             IN {<<x.dst, x.rank>> : x \in invalidations' \ invalidations} =
                {<<Last(q).dst, IF \E r \in paths : Last(r).dst = Last(q).dst /\ \E k \in DOMAIN r : r[k].impact = 2
                                THEN 2 ELSE 1>> : q \in paths}]_vars

\* Rebinding never moves a target back to an older version or another artifact.
BindingMovesForward ==
    \A i, j \in DOMAIN binding :
       i < j => binding[i].version <= binding[j].version /\ log[binding[i].version] = log[binding[j].version]
=============================================================================
