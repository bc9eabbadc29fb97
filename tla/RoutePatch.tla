----------------------------- MODULE RoutePatch -----------------------------
(***************************************************************************)
(* The route of a run: frozen from a valid document, changed by patches    *)
(* (core/workflow/patch.go) that are proposed, authorized and applied      *)
(* while nodes of the route execute.  A digest stands for what it digests, *)
(* so a proposal is compared as a whole.                                   *)
(***************************************************************************)
EXTENDS WorkflowGraph

CONSTANTS Documents,         \* documents put to the validator
          PatchedDocuments,  \* bound: the ones whose routes are patched
          Required,          \* nodes the policy lets no route leave out
          Mode,              \* the policy's authorization mode
          MaxPatches         \* bound: proposals

VARIABLES doc, phase,        \* "authored", "rejected", "valid" or "frozen"
          route, revision, overrides,
          proposals, approvals, authorized,
          at, running,       \* the node being visited, and whether an attempt runs
          activated, succeeded, emitted

vars == <<doc, phase, route, revision, overrides, proposals, approvals, authorized,
          at, running, activated, succeeded, emitted>>
patchVars == <<proposals, approvals, authorized>>
executionVars == <<at, running, activated, succeeded, emitted>>

None == [i \in {} |-> FALSE]
Init ==
    /\ doc \in Documents /\ phase = "authored"
    /\ route = NoRoute /\ revision = 0 /\ overrides = None
    /\ proposals = {} /\ approvals = {} /\ authorized = {}
    /\ at = 0 /\ running = FALSE /\ activated = {} /\ succeeded = {} /\ emitted = {}

Validate ==
    /\ phase = "authored" /\ phase' = IF Valid(doc) THEN "valid" ELSE "rejected"
    /\ UNCHANGED <<doc, route, revision, overrides, patchVars, executionVars>>

\* CreateRoute without a request, and NewRouteState at revision zero.
Freeze ==
    /\ phase = "valid" /\ phase' = "frozen"
    /\ route' = CreateRoute(doc, doc.entry, doc.terminals, None, {})
    /\ at' = doc.entry /\ activated' = {doc.entry}
    /\ UNCHANGED <<doc, revision, overrides, patchVars, running, succeeded, emitted>>

-----------------------------------------------------------------------------
(* ProposeRoutePatch: each transition at most once, and only to change it;  *)
(* terminals = {}: not set.                                                 *)

TransitionOf(id) == CHOOSE t \in doc.trans : t.id = id
\* applyTransitionOverride: an override is kept only where it differs from the
\* authored default.
Override(enable, disable) ==
    LET now(t) == IF t.id \in enable \cup disable THEN t.id \in enable ELSE Enabled(t, overrides)
    IN  [i \in {t.id : t \in {x \in doc.trans : now(x) # x.on}} |-> now(TransitionOf(i))]
\* validatePatchedExclusiveOutcomes
ExclusiveOutcomes(r) ==
    \A n \in doc.nodes : doc.mode[n] = "exclusive" =>
       Cardinality({t \in Outgoing(doc, n) : t.id \in r.trans /\ t.always}) <= 1
\* routePatchImpact, affectedPatchNodes
Changed(r) == (r.nodes \ route.nodes) \cup (route.nodes \ r.nodes)
Affected(r, patch) ==
    Changed(r)
    \cup UNION {{TransitionOf(i).from, TransitionOf(i).to} : i \in patch.enable \cup patch.disable}
    \cup (IF patch.terminals = {} THEN {} ELSE route.terminals \cup r.terminals)
HasImpact(r) == <<r.nodes, r.trans, r.terminals>> # <<route.nodes, route.trans, route.terminals>>
\* ExpandsTerminalBoundary
Expands(r) == r.nodes \ route.nodes # {} /\ r.terminals \ route.terminals # {}

\* The proposal a patch makes of the current state; ok tells the refusals.
Proposal(patch, mode) ==
    LET o == Override(patch.enable, patch.disable)
        r == CreateRoute(doc, route.entry, IF patch.terminals = {} THEN route.terminals ELSE patch.terminals, o, Required)
        sound == /\ patch.expected = revision
                 /\ patch.enable \cap patch.disable = {}
                 /\ patch.enable \cup patch.disable \cup patch.terminals # {}
                 /\ \A i \in patch.enable : ~Enabled(TransitionOf(i), overrides)
                 /\ \A i \in patch.disable : Enabled(TransitionOf(i), overrides)
    IN  IF sound /\ r.ok /\ ExclusiveOutcomes(r) /\ HasImpact(r)
        THEN [ok |-> TRUE, patch |-> patch, base |-> route, route |-> r, overrides |-> o,
              affected |-> Affected(r, patch),
              mode |-> IF Expands(r) \/ patch.approval THEN "require_approval" ELSE mode]
        ELSE [ok |-> FALSE]

Patches ==
    LET upToOne == {{}} \cup {{t.id} : t \in doc.trans}   \* a bound
    IN  [expected : {revision}, enable : upToOne, disable : upToOne, terminals : SUBSET doc.ends, approval : BOOLEAN]
Propose(patch) ==
    /\ phase = "frozen" /\ doc \in PatchedDocuments /\ Cardinality(proposals) < MaxPatches
    /\ Proposal(patch, Mode).ok
    /\ proposals' = proposals \cup {Proposal(patch, Mode)}
    /\ UNCHANGED <<doc, phase, route, revision, overrides, approvals, authorized, executionVars>>

\* A person approves the scope of a proposal, which names all of it.
Approve(p) ==
    /\ p \notin approvals /\ approvals' = approvals \cup {p}
    /\ UNCHANGED <<doc, phase, route, revision, overrides, proposals, authorized, executionVars>>

AuthorizeRoutePatch(p) ==
    /\ p.mode = "automatic" \/ p \in approvals
    /\ p \notin authorized /\ authorized' = authorized \cup {p}
    /\ UNCHANGED <<doc, phase, route, revision, overrides, proposals, approvals, executionVars>>

\* What is running or over is not taken back.
KeepsHistory(p) ==
    /\ running => at \notin p.affected
    /\ emitted \cap p.patch.disable = {}
    /\ activated \cup succeeded \subseteq p.route.nodes
\* (Mutants of ApplyAuthorizedRoutePatch.)
ApplyStale(p) ==
    /\ KeepsHistory(p) /\ p.base # p.route
    /\ route' = p.route /\ overrides' = p.overrides /\ revision' = revision + 1
    /\ UNCHANGED <<doc, phase, patchVars, executionVars>>
ApplyAnyHistory(p) ==
    /\ p.patch.expected = revision /\ p.base = route /\ Proposal(p.patch, p.mode) = p
    /\ route' = p.route /\ overrides' = p.overrides /\ revision' = revision + 1
    /\ UNCHANGED <<doc, phase, patchVars, executionVars>>
ApplyAuthorizedRoutePatch(p) ==
    /\ p.patch.expected = revision /\ p.base = route
    /\ Proposal(p.patch, p.mode) = p
    /\ KeepsHistory(p)
    /\ route' = p.route /\ overrides' = p.overrides /\ revision' = revision + 1
    /\ UNCHANGED <<doc, phase, patchVars, executionVars>>

-----------------------------------------------------------------------------
(* The run meanwhile: one visit at a time, and here one per node.           *)

StartAttempt ==
    /\ phase = "frozen" /\ doc \in PatchedDocuments /\ route.ok
    /\ ~running /\ at \notin succeeded /\ running' = TRUE
    /\ UNCHANGED <<doc, phase, route, revision, overrides, patchVars, at, activated, succeeded, emitted>>
AttemptFails ==
    /\ running /\ running' = FALSE
    /\ UNCHANGED <<doc, phase, route, revision, overrides, patchVars, at, activated, succeeded, emitted>>
AttemptSucceeds ==
    /\ running /\ running' = FALSE
    /\ succeeded' = succeeded \cup {at}
    /\ \/ at \in route.terminals /\ UNCHANGED <<at, activated, emitted>>
       \/ \E t \in doc.trans :
             /\ t.from = at /\ t.id \in route.trans
             /\ at' = t.to /\ activated' = activated \cup {t.to} /\ emitted' = emitted \cup {t.id}
    /\ UNCHANGED <<doc, phase, route, revision, overrides, patchVars>>

Next ==
    \/ Validate
    \/ Freeze
    \/ \E patch \in Patches : Propose(patch)
    \/ \E p \in proposals : Approve(p)
    \/ \E p \in proposals : AuthorizeRoutePatch(p)
    \/ \E p \in authorized : ApplyAuthorizedRoutePatch(p)
    \/ StartAttempt
    \/ AttemptFails
    \/ AttemptSucceeds

-----------------------------------------------------------------------------
TypeOK ==
    /\ doc \in Documents /\ phase \in {"authored", "rejected", "valid", "frozen"}
    /\ revision \in Nat /\ authorized \subseteq proposals /\ approvals \subseteq proposals
    /\ running \in BOOLEAN /\ activated \subseteq doc.nodes /\ succeeded \subseteq activated

\* A valid document can be run as it stands: its default route freezes, the
\* validator and the route builder agreeing on what a terminal cuts off.
ValidFreezes == phase = "frozen" => route.ok

\* However the route is patched under way, the visit the run stands at is in
\* it and a terminal can be reached from there.
RunCanFinish ==
    phase = "frozen" =>
       /\ at \in route.nodes
       /\ route.terminals \cap Reach({at}, Edges({t \in doc.trans : t.id \in route.trans})) # {}

\* A route changes only into one that was derived from exactly the route it
\* replaces, and a run is carried past its old terminals to a new one only with
\* a person's approval of that very change.
ChangeIsConsented ==
    [][phase = "frozen" /\ route' # route =>
          \E p \in authorized :
             /\ p.base = route /\ p.route = route'
             /\ route'.nodes \ route.nodes # {} /\ route'.terminals \ route.terminals # {} => p \in approvals]_vars
=============================================================================
