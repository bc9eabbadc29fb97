---------------------------- MODULE ConfigLayers ----------------------------
(***************************************************************************)
(* How configuration layers are merged into the effective configuration    *)
(* (core/config): from the shipped defaults to the command line, key by    *)
(* key, with the layer that won every value.  A document is a function     *)
(* from the paths of its leaves; an empty mapping is a leaf, "{}".         *)
(***************************************************************************)
EXTENDS Naturals, Sequences

CONSTANTS Scopes,      \* the scopes in use, from the lowest precedence
          Layers       \* the documents a layer may hold

VARIABLES layer,       \* what every scope's layer holds
          merged,      \* how many scopes are merged
          values,      \* the leaves of the merged tree
          sources      \* pointer -> the scope that won it

vars == <<layer, merged, values, sources>>

Below(p, q) == Len(p) < Len(q) /\ SubSeq(q, 1, Len(p)) = p    \* q is below p
AtOrBelow(p, q) == p = q \/ Below(p, q)
Empty == "{}"

Init ==
    /\ layer \in [1..Len(Scopes) -> Layers] /\ merged = 0
    /\ values = [p \in {} |-> Empty] /\ sources = [p \in {} |-> Empty]

-----------------------------------------------------------------------------
\* (A mutant of Survives.)
KeptBelow(p, incoming) == ~\E q \in incoming : q = p
\* What is left of the destination's leaves under an incoming layer: a leaf goes
\* with the leaf it is at or below, and makes room for a mapping under its path.
Survives(p, incoming) == \A q \in incoming : ~AtOrBelow(q, p) /\ ~Below(p, q)
\* What is left of the sources: deleteSourcesAtOrBelow is called for an incoming
\* leaf and for a value that a mapping replaces, not for an empty mapping that
\* gets its first key.
Kept(p, incoming) ==
    /\ ~\E q \in incoming : AtOrBelow(q, p)
    /\ (\E q \in incoming : Below(p, q)) => p \notin DOMAIN values \/ values[p] = Empty
\* mergeMap, over the whole layer.
MergeMap(doc, scope) ==
    LET incoming == DOMAIN doc
        old == {p \in DOMAIN values : Survives(p, incoming)}
        kept == {p \in DOMAIN sources : Kept(p, incoming)}
    IN  /\ values' = [p \in old \cup incoming |-> IF p \in incoming THEN doc[p] ELSE values[p]]
        /\ sources' = [p \in kept \cup incoming |-> IF p \in incoming THEN scope ELSE sources[p]]
\* Resolve: the layers in the order of their scopes.
Resolve ==
    /\ merged < Len(Scopes) /\ merged' = merged + 1
    /\ MergeMap(layer[merged + 1], Scopes[merged + 1])
    /\ UNCHANGED layer

Next == Resolve
Spec == Init /\ [][Next]_vars

-----------------------------------------------------------------------------
\* Every variable has its type.
TypeOK == merged \in 0..Len(Scopes) /\ \A p \in DOMAIN sources : sources[p] \in {Scopes[i] : i \in 1..Len(Scopes)}

\* The layer that decides what is at a path: the highest one with a leaf at it
\* and none above that says anything about it, above or below.
Decides(i, p) == p \in DOMAIN layer[i] /\ \A j \in (i + 1)..merged : Survives(p, DOMAIN layer[j])
\* Whatever the layers hold (values where others hold mappings, empty mappings),
\* the merged leaves are those some layer decides, each with that layer's value
\* and attributed to it.
LeavesAreAttributed ==
    /\ \A p \in DOMAIN values : /\ p \in DOMAIN sources
                                /\ \E i \in 1..merged : Decides(i, p) /\ values[p] = layer[i][p] /\ sources[p] = Scopes[i]
    /\ \A i \in 1..merged : \A p \in DOMAIN layer[i] : Decides(i, p) => p \in DOMAIN values
=============================================================================
