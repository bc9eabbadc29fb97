--------------------------- MODULE StartupRecovery ---------------------------
(***************************************************************************)
(* Startup reconciliation of leases and outbox operations: Reconciler.Run  *)
(* (core/recovery/recovery.go) over the store transactions PendingRecovery *)
(* and ApplyRecovery (adapters/statestore/sqlite/recovery.go), composed    *)
(* with the lease store of module Coordination.                            *)
(*                                                                         *)
(* A daemon instance starts, lists the pending subjects once, decides and  *)
(* commits them one by one, and only then serves calls.  It may die at any *)
(* point, also between two decisions of one pass; the next instance has a  *)
(* new startup ID.                                                         *)
(***************************************************************************)
EXTENDS Coordination

CONSTANTS
    OpIds,             \* outbox operation IDs
    ObserverOutcomes   \* outcomes the registered observers may return; empty
                       \* when none is registered, as the daemon does today

VARIABLES
    phase,      \* down, recovering or serving
    daemon,     \* instance (startup) ID of the current or latest process
    usedIds,    \* instance IDs generated so far
    ops,        \* table outbox: operation -> state
    pending,    \* subjects of this pass that are not yet decided
    report,     \* outcomes committed by this pass (Report.Results)
    decisions,  \* table recovery_decisions
    scheduling  \* SetSchedulingAllowed

recVars == <<phase, daemon, usedIds, ops, pending, report, decisions, scheduling>>
vars == <<coordVars, recVars>>

-----------------------------------------------------------------------------
Adopt == "adopt"
Resume == "resume"
Retry == "retry"
Interrupt == "interrupt"

Outcomes == {Adopt, Resume, Retry, Interrupt, ReconcileRequired}

ASSUME RecoveryAssumption == ObserverOutcomes \subseteq Outcomes

OpStates == {"absent", "prepared", "leased", "committed", ReconcileRequired}

Subjects ==
    [kind : {"lease"}, id : LeaseIds, state : {Held, Releasing}]
        \cup [kind : {"operation"}, id : OpIds, state : {"prepared", "leased"}]

Decisions == [startup : Daemons, subject : Subjects, outcome : Outcomes]

\* Mutant: only operations that somebody took are listed.
PendingLeasedOnly ==
    {[kind |-> "lease", id |-> row.id, state |-> row.state] :
        row \in {r \in leases : r.state \in {Held, Releasing}}}
    \cup
    {[kind |-> "operation", id |-> o, state |-> ops[o]] : o \in {p \in OpIds : ops[p] = "leased"}}

\* Mutant: leases that were being released are forgotten.
PendingHeldOnly ==
    {[kind |-> "lease", id |-> row.id, state |-> row.state] :
        row \in {r \in leases : r.state = Held}}
    \cup
    {[kind |-> "operation", id |-> o, state |-> ops[o]] :
        o \in {p \in OpIds : ops[p] \in {"prepared", "leased"}}}

\* pendingLeaseRecovery and pendingOperationRecovery: reconcile_required rows
\* are not listed again.
PendingRecovery ==
    {[kind |-> "lease", id |-> row.id, state |-> row.state] :
        row \in {r \in leases : r.state \in {Held, Releasing}}}
    \cup
    {[kind |-> "operation", id |-> o, state |-> ops[o]] :
        o \in {p \in OpIds : ops[p] \in {"prepared", "leased"}}}

\* Leases are decided before operations (subjectOrder).  Within one kind the
\* code goes by ID; any order within a kind is allowed here.
NextSubject(subject) ==
    /\ subject \in pending
    /\ subject.kind = "operation" => \A other \in pending : other.kind = "operation"

\* Missing observers and failed observations fail closed.
Observe == ObserverOutcomes \cup {ReconcileRequired}

\* validateDecisionForSubject together with the resume test of applyLeaseRecovery
ValidDecision(subject, outcome) ==
    IF subject.kind = "lease"
    THEN /\ outcome \in {Resume, Retry, Interrupt, ReconcileRequired}
         /\ outcome = Resume => subject.state = Held
    ELSE outcome \in {Adopt, Resume, Retry, ReconcileRequired}

\* Mutant: a resumed lease gets a token of its own.
RecoveredLeaseRefenced(row, outcome, e) ==
    CASE outcome = Resume ->
            [row EXCEPT !.daemon = daemon, !.token = @ + 1, !.heartbeatAt = now,
                        !.expiresAt = now + Duration]
      [] outcome \in {Retry, Interrupt} ->
            [row EXCEPT !.state = Released, !.evidence = e]
      [] outcome = ReconcileRequired ->
            [row EXCEPT !.state = ReconcileRequired, !.evidence = e]

\* The row a lease becomes.  Resume hands it to this instance under the same
\* fencing token.
RecoveredLease(row, outcome, e) ==
    CASE outcome = Resume ->
            [row EXCEPT !.daemon = daemon, !.heartbeatAt = now,
                        !.expiresAt = now + Duration]
      [] outcome \in {Retry, Interrupt} ->
            [row EXCEPT !.state = Released, !.evidence = e]
      [] outcome = ReconcileRequired ->
            [row EXCEPT !.state = ReconcileRequired, !.evidence = e]

\* UPDATE leases ... WHERE lease_id = ? AND state = ?; one row must change.
ApplyLeaseRecovery(subject, outcome, e) ==
    \E row \in leases :
        /\ row.id = subject.id
        /\ row.state = subject.state
        /\ leases' = Replace(row, RecoveredLease(row, outcome, e))
        /\ issued' = IF outcome = Resume
                     THEN issued \cup {GuardOf(RecoveredLease(row, outcome, e))}
                     ELSE issued
        /\ UNCHANGED <<now, lastToken, queue, ops>>

\* Mutant: the adopted operation gets a state the table does not have.
RecoveredOperationAdopted(outcome) ==
    CASE outcome = Adopt -> "adopted"
      [] outcome = Resume -> "leased"
      [] outcome = Retry -> "prepared"
      [] outcome = ReconcileRequired -> ReconcileRequired

RecoveredOperation(outcome) ==
    CASE outcome = Adopt -> "committed"
      [] outcome = Resume -> "leased"
      [] outcome = Retry -> "prepared"
      [] outcome = ReconcileRequired -> ReconcileRequired

ApplyOperationRecovery(subject, outcome) ==
    /\ ops[subject.id] = subject.state
    /\ ops' = [ops EXCEPT ![subject.id] = RecoveredOperation(outcome)]
    /\ UNCHANGED coordVars

\* readRecoveryDecision: what this startup has recorded about a subject.
Recorded(kind, id) ==
    {dec \in decisions : dec.startup = daemon /\ dec.subject.kind = kind /\ dec.subject.id = id}
Decision(subject, outcome) == [startup |-> daemon, subject |-> subject, outcome |-> outcome]

\* A recorded decision that differs is a RecoveryConflictError.
Conflicts(subject, outcome) ==
    Recorded(subject.kind, subject.id) \notin {{}, {Decision(subject, outcome)}}

\* The subject transition and its decision row commit together; the decision
\* that is recorded already changes nothing.
ApplyRecovery(subject, outcome) ==
    IF Recorded(subject.kind, subject.id) = {}
    THEN /\ \/ subject.kind = "lease" /\ \E e \in Evidence : ApplyLeaseRecovery(subject, outcome, e)
            \/ subject.kind = "operation" /\ ApplyOperationRecovery(subject, outcome)
         /\ decisions' = decisions \cup {Decision(subject, outcome)}
    ELSE ~Conflicts(subject, outcome) /\ UNCHANGED <<coordVars, ops, decisions>>

-----------------------------------------------------------------------------
\* Reconciler.Run

Startup(d) ==
    /\ phase = "down"
    /\ d \notin usedIds
    /\ phase' = "recovering"
    /\ daemon' = d
    /\ usedIds' = usedIds \cup {d}
    /\ pending' = PendingRecovery
    /\ report' = {}
    /\ scheduling' = FALSE
    /\ UNCHANGED <<coordVars, ops, decisions>>

\* One iteration of the loop: observe, validate, commit.
RecoverSubject(subject, outcome) ==
    /\ phase = "recovering"
    /\ NextSubject(subject)
    /\ outcome \in Observe
    /\ ValidDecision(subject, outcome)
    /\ ApplyRecovery(subject, outcome)
    /\ pending' = pending \ {subject}
    /\ report' = report \cup {outcome}
    /\ UNCHANGED <<phase, daemon, usedIds, scheduling>>

\* An outcome the subject cannot have, and one that conflicts with the recorded
\* one, abort the pass; the daemon exits.
RejectDecision(subject, outcome) ==
    /\ phase = "recovering"
    /\ NextSubject(subject)
    /\ outcome \in Observe
    /\ ValidDecision(subject, outcome) => Conflicts(subject, outcome)
    /\ phase' = "down"
    /\ pending' = {}
    /\ report' = {}
    /\ UNCHANGED <<coordVars, daemon, usedIds, ops, decisions, scheduling>>

\* Report.SchedulingAllowed looks at the results of this pass only.
SchedulingAllowed == ReconcileRequired \notin report

FinishRecovery ==
    /\ phase = "recovering"
    /\ pending = {}
    /\ phase' = "serving"
    /\ scheduling' = SchedulingAllowed
    /\ UNCHANGED <<coordVars, daemon, usedIds, ops, pending, report, decisions>>

Crash ==
    /\ phase # "down"
    /\ phase' = "down"
    /\ scheduling' = FALSE
    /\ pending' = {}
    /\ report' = {}
    /\ UNCHANGED <<coordVars, daemon, usedIds, ops, decisions>>

\* The store's callers run inside a serving daemon.
ServeCall ==
    /\ phase = "serving"
    /\ \/ DaemonCall(daemon)
       \/ \E g \in issued : GuardedCall(g)
       \/ QueueCall
    /\ UNCHANGED recVars

\* Operation intents are committed and leased outside the modelled source.
PrepareOperation(o) ==
    /\ phase = "serving"
    /\ \/ ops[o] = "absent" /\ ops' = [ops EXCEPT ![o] = "prepared"]
       \/ ops[o] = "prepared" /\ ops' = [ops EXCEPT ![o] = "leased"]
    /\ UNCHANGED <<coordVars, phase, daemon, usedIds, pending, report, decisions, scheduling>>

PassTime == Tick /\ UNCHANGED recVars

-----------------------------------------------------------------------------
Init ==
    /\ CoordInit
    /\ phase = "down"
    /\ daemon \in Daemons
    /\ usedIds = {}
    /\ ops = [o \in OpIds |-> "absent"]
    /\ pending = {}
    /\ report = {}
    /\ decisions = {}
    /\ scheduling = FALSE

Next ==
    \/ \E d \in Daemons : Startup(d)
    \/ \E subject \in Subjects, outcome \in Outcomes : RecoverSubject(subject, outcome)
    \/ \E subject \in Subjects, outcome \in Outcomes : RejectDecision(subject, outcome)
    \/ FinishRecovery
    \/ Crash
    \/ ServeCall
    \/ \E o \in OpIds : PrepareOperation(o)
    \/ PassTime

Spec == Init /\ [][Next]_vars

-----------------------------------------------------------------------------
\* Properties

\* The tables and the reconciler's variables hold well-formed rows.
TypeOK ==
    /\ now \in Nat
    /\ leases \subseteq LeaseRow
    /\ lastToken \in [Scopes -> Nat]
    /\ queue \subseteq QueueEntry
    /\ issued \subseteq LeaseGuard
    /\ phase \in {"down", "recovering", "serving"}
    /\ daemon \in Daemons
    /\ usedIds \subseteq Daemons
    /\ ops \in [OpIds -> OpStates]
    /\ pending \subseteq Subjects
    /\ report \subseteq Outcomes
    /\ decisions \subseteq Decisions
    /\ scheduling \in BOOLEAN

\* Whatever the callers replay and whenever the daemon dies: a scope has at
\* most one unreleased lease, it carries the newest fencing token, and every
\* lease with an older token has been released (acquireLeaseTx, which relies
\* on the expected token and on the unreleased row alone).
FenceOrder ==
    \A r1, r2 \in leases :
        r1.scope = r2.scope /\ r1 # r2 =>
            /\ r1.token # r2.token
            /\ r1.token < r2.token => r1.state = Released

\* Of all the capabilities ever handed out for a scope, by acquisition, by
\* adoption of a repeated request or by a recovery decision, at most one
\* passes ValidateLease, and it carries the newest token of the scope.
ExclusiveWriter ==
    \A s \in Scopes : \A g1, g2 \in issued :
        ValidateLease(s, g1) /\ ValidateLease(s, g2) =>
            g1 = g2 /\ g1.token = lastToken[s]

\* The tokens of the unreleased leases of a scope.
HeldTokens == [s \in Scopes |-> {row.token : row \in ActiveLeases(s)}]

Lock == INSTANCE FencedLock WITH holding <- HeldTokens, last <- lastToken

\* The lease store implements a lock with fencing tokens: acquisition, adoption,
\* heartbeat, release, expiry, operator evidence, recovery decisions and crashes
\* in any order hand out the tokens of a scope one after the other and each only
\* when the one before is back (acquireLeaseTx, transitionGuardedLease,
\* applyLeaseRecovery).
ImplementsLock == Lock!Spec

\* Once a daemon serves calls, no lease is owned (held or releasing) by an
\* earlier instance: the pass classified every one of them, also when earlier
\* passes died half way (Reconciler.Run, applyLeaseRecovery).
NoInheritedOwner ==
    phase = "serving" =>
        \A row \in leases :
            row.state \in {Held, Releasing} => row.daemon = daemon

\* Nothing goes on undecided: when a daemon begins to serve, every lease that is
\* still owned and every outbox operation that is still open has one decision
\* recorded under this startup, the one that leaves it so, however many passes
\* died before (Reconciler.Run, applyLeaseRecovery, applyOperationRecovery).
NothingLeftUndecided ==
    [][phase = "recovering" /\ phase' = "serving" =>
         /\ \A row \in leases : row.state \in {Held, Releasing} =>
               {dec.outcome : dec \in Recorded("lease", row.id)} = {Resume}
         /\ \A o \in OpIds : ops[o] \in {"prepared", "leased"} =>
               {dec.outcome : dec \in Recorded("operation", o)}
                 = {IF ops[o] = "prepared" THEN Retry ELSE Resume}]_vars

\* A step never drops a lease row or changes its identity and token, and a
\* lease becomes released only from releasing, from reconcile_required, or by
\* a recovery decision: neither expiry nor a new acquisition releases it.
ReleaseIsExplicit ==
    [][\A row \in leases :
         \E new \in leases' :
            /\ <<new.id, new.scope, new.holder, new.token>>
                 = <<row.id, row.scope, row.holder, row.token>>
            /\ row.state = Held /\ new.state = Released => phase = "recovering"
            /\ row.state = Released => new = row]_vars

\* Counting time in whole seconds, a repository writer never overtakes an
\* available writer with a higher priority, or with its own priority and an
\* earlier enqueue time, even when both try at once (AcquireRepositoryLock).
NoOvertaking ==
    [][\A e \in queue \ queue', other \in queue :
         ~(/\ other.scope = e.scope
           /\ lastToken'[e.scope] # lastToken[e.scope]
           /\ Second(other.availableAt) < Second(now)
           /\ \/ other.priority > e.priority
              \/ /\ other.priority = e.priority
                 /\ Second(other.enqueuedAt) < Second(e.enqueuedAt))]_vars

\* "run scheduling is blocked until startup reconciliation is resolved"
\* (core/runexecution/service.go): while a subject that some startup pass left
\* in reconcile_required is unresolved, a serving daemon does not schedule.
BlockedUntilResolved ==
    \A dec \in decisions :
        /\ dec.outcome = ReconcileRequired
        /\ \/ dec.subject.kind = "lease" /\ \E row \in leases :
                 row.id = dec.subject.id /\ row.state = ReconcileRequired
           \/ dec.subject.kind = "operation" /\ ops[dec.subject.id] = ReconcileRequired
        => ~scheduling
=============================================================================
