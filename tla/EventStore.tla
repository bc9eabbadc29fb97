----------------------------- MODULE EventStore -----------------------------
(***************************************************************************)
(* The event store (adapters/statestore/sqlite/events.go): appends of one  *)
(* or two events in one transaction with optimistic revisions and command  *)
(* idempotency, the projections kept with them, the checks that keep a     *)
(* deleted work item at rest, and the rebuild at start-up.  There is one   *)
(* aggregate of each type: the run belongs to the work item, the others to *)
(* the run.                                                                *)
(*                                                                         *)
(* First the deterministic reducers of core/projection: how an event moves *)
(* the current state of each kind of aggregate.  A reducer is a table of   *)
(* rows <<event kind, states it is legal in, state after>> and the         *)
(* conditions on the event's data.  Where the data choose the outcome, the *)
(* kind is written kind/outcome.                                           *)
(***************************************************************************)
EXTENDS Integers, Sequences, SequencesExt

Same == "same"   \* the event leaves the status alone

RunStatuses == {"draft", "ready", "queued", "running", "waiting", "blocked", "failed",
                "completed", "cancelled", "reconcile_required"}
RunTerminal == {"completed", "cancelled", "reconcile_required"}
ReduceRun ==
    { <<"context.frozen", {"draft"}, Same>>,
      <<"run.route_frozen", {"draft"}, "ready">>,
      <<"run.started", {"draft"}, "running">>,       \* pre-state-machine histories
      <<"run.started", {"ready"}, "queued">>,
      <<"run.visit_ready", {"queued"}, "running">>,
      <<"run.waiting", {"running"}, "waiting">>,
      <<"run.input_required", {"queued"}, "waiting">>,
      <<"run.paused", {"queued", "running"}, "waiting">>,
      <<"run.blocked", {"running"}, "blocked">>,
      <<"run.resumed", {"waiting", "blocked", "failed"}, "queued">>,
      <<"run.retried", {"failed"}, "queued">>,
      <<"run.continued", {"completed"}, "queued">>,
      <<"run.guidance_requested", {"running"}, Same>>,
      <<"run.guidance_delivery", RunStatuses, Same>>,
      <<"run.completed", {"running"}, "completed">>,
      <<"run.failed", {"running"}, "failed">>,
      <<"run.admission_failed", {"queued"}, "failed">>,
      <<"run.cancelled", RunStatuses \ {"completed", "cancelled"}, "cancelled">>,
      <<"run.reconcile_required", RunStatuses \ RunTerminal, "reconcile_required">> }

NodeStatuses == {"pending", "ready", "running", "validating", "waiting_checkpoint",
                 "succeeded", "rejected", "failed", "cancelled"}
ReduceNode ==
    { <<"visit.ready", {"pending"}, "ready">>,
      <<"visit.started", {"ready"}, "running">>,
      <<"visit.result_received", {"running"}, "validating">>,
      <<"visit.succeeded", {"validating", "waiting_checkpoint"}, "succeeded">>,
      <<"visit.waiting_checkpoint", {"validating"}, "waiting_checkpoint">>,
      <<"visit.changes_requested", {"waiting_checkpoint"}, "running">>,
      <<"visit.rejected", {"waiting_checkpoint"}, "rejected">>,
      <<"visit.retrying", {"running", "validating", "failed"}, "ready">>,
      <<"visit.failed", {"running", "validating"}, "failed">>,
      <<"visit.admission_failed", {"pending", "ready"}, "failed">>,
      <<"visit.cancelled", NodeStatuses \ {"succeeded", "rejected", "failed", "cancelled"}, "cancelled">> }

AttemptActive == {"created", "starting", "running", "validating"}
ReduceAttempt ==
    { <<"attempt.resources_acquired", {"created"}, "starting">>,
      <<"attempt.started", {"created", "starting"}, "running">>,
      <<"attempt.resumed", {"running"}, Same>>,
      <<"attempt.provider_event", {"running"}, Same>>,
      <<"attempt.result_received", {"running"}, "validating">>,
      <<"attempt.succeeded", {"validating"}, "succeeded">>,
      <<"attempt.completed", {"running", "validating"}, "succeeded">>,
      <<"attempt.failed", AttemptActive, "failed">>,
      <<"attempt.cancellation_reconciled", {"reconcile_required"}, "cancelled">>,
      <<"attempt.cancelled", AttemptActive, "cancelled">>,
      <<"attempt.interrupted", AttemptActive, "interrupted">>,
      <<"attempt.reconcile_required", AttemptActive, "reconcile_required">> }

ReduceApproval ==
    { <<"approval.feedback_submitted", {"pending"}, Same>>,
      <<"approval.revision_resumed", {"pending"}, Same>>,
      <<"approval.agent_responded/revised", {"pending"}, "changes_requested">>,
      <<"approval.agent_responded/failed", {"pending"}, Same>>,
      <<"approval.decided/approve", {"pending"}, "approved">>,
      <<"approval.decided/request_changes", {"pending"}, "changes_requested">>,
      <<"approval.decided/reject", {"pending"}, "rejected">>,
      <<"approval.decided/deny", {"pending"}, "denied">>,
      <<"approval.cancelled", {"pending"}, "cancelled">>,
      <<"approval.expired", {"pending"}, "expired">> }

ReduceProject == { <<"project.archived", {"active"}, "archived">> }

ReduceWorkItem ==
    { <<"work.deletion_requested", {"open", "active", "completed", "cancelled"}, Same>>,
      <<"work.deleted", {"open", "active", "completed", "cancelled"}, Same>>,
      <<"work.started", {"open"}, "active">>,
      <<"work.completed", {"open", "active"}, "completed">>,
      <<"work.cancelled", {"open", "active"}, "cancelled">> }

ReduceStory ==
    { <<"story.ready", {"planned"}, "ready">>,
      <<"story.started", {"ready"}, "running">>,
      <<"story.completed", {"running"}, "completed">>,
      <<"story.cancelled", {"planned", "ready", "running"}, "cancelled">>,
      <<"story.retired", {"planned", "ready"}, "retired">> }

PointStatuses == {"planned", "ready", "running", "validating", "awaiting_approval", "accepted",
                  "committed", "published", "failed", "rejected", "superseded", "reconcile_required"}
ReducePoint ==
    { <<"point.ready", {"planned"}, "ready">>,
      <<"point.started", {"ready"}, "running">>,
      <<"point.candidate_produced", {"running"}, "validating">>,
      <<"point.validation_failed", {"validating"}, "failed">>,
      <<"point.awaiting_approval", {"validating"}, "awaiting_approval">>,
      <<"point.changes_requested", {"awaiting_approval"}, "running">>,
      <<"point.accepted", {"validating", "awaiting_approval"}, "accepted">>,
      <<"point.rejected", {"awaiting_approval"}, "rejected">>,
      <<"point.committed", {"accepted"}, "committed">>,
      <<"point.published", {"committed"}, "published">>,
      <<"point.superseded", {"committed", "published"}, "superseded">>,
      <<"point.revised", {"failed", "rejected", "superseded"}, "planned">>,
      <<"point.reconcile_required",
        PointStatuses \ {"published", "failed", "rejected", "superseded", "reconcile_required"},
        "reconcile_required">> }

ReduceInputRequest ==
    { <<"input.answer_recorded", {"pending"}, "answer_recorded">>,
      <<"input.answer_delivered", {"answer_recorded"}, "answered">> }
ReduceProviderPermission ==
    { <<"permission.decision_recorded", {"pending"}, "decision_recorded">>,
      <<"permission.response_delivered", {"decision_recorded"}, "responded">> }
ReduceReadinessAssessment ==
    { <<"readiness.decision_recorded", {"pending"}, "decided">> }

AggregateTypes == {"project", "work", "story", "point", "run", "visit", "attempt", "approval",
                   "input", "permission", "assessment"}
\* The first event of an aggregate, the status it gives, and the reducer.
Reducer(type) ==
    CASE type = "project" -> [first |-> "project.created", status |-> "active", rows |-> ReduceProject]
      [] type = "work" -> [first |-> "work.created", status |-> "open", rows |-> ReduceWorkItem]
      [] type = "story" -> [first |-> "story.created", status |-> "planned", rows |-> ReduceStory]
      [] type = "point" -> [first |-> "point.created", status |-> "planned", rows |-> ReducePoint]
      [] type = "run" -> [first |-> "run.created", status |-> "draft", rows |-> ReduceRun]
      [] type = "visit" -> [first |-> "visit.created", status |-> "pending", rows |-> ReduceNode]
      [] type = "attempt" -> [first |-> "attempt.created", status |-> "created", rows |-> ReduceAttempt]
      [] type = "approval" -> [first |-> "approval.requested", status |-> "pending", rows |-> ReduceApproval]
      [] type = "input" -> [first |-> "input.requested", status |-> "pending", rows |-> ReduceInputRequest]
      [] type = "permission" -> [first |-> "permission.requested", status |-> "pending",
                                 rows |-> ReduceProviderPermission]
      [] type = "assessment" -> [first |-> "readiness.assessment_recorded", status |-> "pending",
                                 rows |-> ReduceReadinessAssessment]

\* A projection: status, resource version, what its events' data must match
\* (a digest, the provider thread), the highest number seen (the sequence of a
\* provider event, the revision of a point) and the deletion state of work.
NoProjection == [status |-> "none", version |-> 0, match |-> 0, number |-> 0, deletion |-> "retained"]

\* Kinds whose data must match the projection they apply to.
Matched == {"attempt.resumed", "approval.feedback_submitted", "approval.revision_resumed",
            "approval.agent_responded/revised", "approval.agent_responded/failed",
            "approval.decided/approve", "approval.decided/request_changes",
            "approval.decided/reject", "approval.decided/deny", "input.answer_recorded",
            "input.answer_delivered", "permission.decision_recorded",
            "permission.response_delivered", "readiness.decision_recorded"}

Rows(p, e) == {row \in Reducer(e.type).rows : row[1] = e.kind /\ p.status \in row[2]}

\* Whether the reducer accepts event e on projection p.
Legal(p, e) ==
    /\ e.revision = p.version + 1
    /\ IF p.status = "none"
       THEN e.kind = Reducer(e.type).first
       ELSE /\ Rows(p, e) # {}
            /\ e.kind \in Matched => e.data = p.match
            /\ e.kind = "attempt.provider_event" => e.data > p.number
            /\ e.kind = "point.revised" => e.data = p.number + 1
            /\ e.kind \in {"work.deletion_requested", "work.started"} => p.deletion = "retained"
            /\ e.kind = "work.deleted" => p.deletion = "deleting"

\* The projection after a legal event.
Reduced(p, e) ==
    IF p.status = "none"
    THEN [NoProjection EXCEPT !.status = Reducer(e.type).status, !.version = e.revision,
                              !.match = e.data, !.number = IF e.type = "point" THEN 1 ELSE 0]
    ELSE LET to == (CHOOSE row \in Rows(p, e) : TRUE)[3] IN
         [p EXCEPT !.status = IF to = Same THEN @ ELSE to,
                   !.version = e.revision,
                   !.match = IF e.kind = "attempt.started" THEN e.data ELSE @,
                   !.number = IF e.kind \in {"attempt.provider_event", "point.revised"} THEN e.data ELSE @,
                   !.deletion = CASE e.kind = "work.deletion_requested" -> "deleting"
                                  [] e.kind = "work.deleted" -> "deleted"
                                  [] OTHER -> @]

-----------------------------------------------------------------------------

CONSTANTS Scopes,      \* sets of <<type, event kind>> the callers append in one behaviour
          MaxEvents    \* bound on the log

VARIABLES kinds,       \* the scope of this behaviour
          log,         \* events, by global position
          revision,    \* aggregates.revision
          projection,  \* the projection tables
          manifest     \* a row of context_manifests references the attempt

vars == <<kinds, log, revision, projection, manifest>>

Init ==
    /\ kinds \in Scopes
    /\ log = <<>> /\ manifest = FALSE
    /\ revision = [t \in AggregateTypes |-> 0]
    /\ projection = [t \in AggregateTypes |-> NoProjection]

-----------------------------------------------------------------------------
(* applyProjection: the reducer of the event's aggregate, and the checks on *)
(* the work item the aggregate belongs to.                                  *)

OpensWork == {"run.created", "run.route_frozen", "run.started", "run.resumed", "run.retried",
              "run.continued", "run.visit_ready", "attempt.created", "attempt.resources_acquired",
              "attempt.started", "attempt.resumed", "input.answer_recorded",
              "permission.decision_recorded", "approval.decided/approve", "approval.decided/deny",
              "approval.decided/request_changes", "approval.decided/reject"}

\* (A mutant of RequiresRetainedWork.)
RequiresRetainedWorkNotContinued(e) == e.kind \in OpensWork \ {"run.continued"}
RequiresRetainedWork(e) == e.kind \in OpensWork

\* requireRetainedWork: a missing run or work item passes.
Retained(tables, e) ==
    \/ e.type # "run" /\ tables["run"].status = "none"
    \/ tables["work"].deletion = "retained"

\* work.deleted: no unfinished run and no attempt of a run that is not settled.
AtRest(tables) ==
    \/ tables["run"].status = "none"
    \/ /\ tables["run"].status \in {"completed", "cancelled"}
       /\ tables["attempt"].status \notin AttemptActive \cup {"reconcile_required"}

\* read*Projection and write*Projection: the row of the aggregate.
ReadProjection(tables, e) == tables[e.type]
WriteProjection(tables, e, row) == [tables EXCEPT ![e.type] = row]

Applies(tables, e) ==
    /\ Legal(ReadProjection(tables, e), e)
    /\ RequiresRetainedWork(e) => Retained(tables, e)
    /\ e.kind = "work.deleted" => AtRest(tables)

\* The reducer is applied to the row that is read, and what it returns is written.
ApplyProjection(tables, e) == WriteProjection(tables, e, Reduced(ReadProjection(tables, e), e))

-----------------------------------------------------------------------------
(* Append.                                                                 *)

\* readEventByCommand.
ByCommand(events, p) == {i \in DOMAIN events : events[i].type = p.type /\ events[i].command = p.command}
SameTransitionCommand(e, p) == e.revision = p.expected + 1 /\ e.kind = p.kind /\ e.data = p.data

Event(p) == [type |-> p.type, kind |-> p.kind, revision |-> p.expected + 1,
             command |-> p.command, data |-> p.data]

\* (A mutant of AppendOne.)
AppendOneUncounted(tx, p) ==
    IF tx.ok /\ Applies(tx.projection, Event(p))
    THEN [tx EXCEPT !.log = Append(@, Event(p)), !.projection = ApplyProjection(@, Event(p))]
    ELSE [tx EXCEPT !.ok = FALSE]
\* (A mutant of AppendOne.)
AppendOneUnchecked(tx, p) ==
    IF tx.ok /\ tx.revision[p.type] = p.expected /\ Applies(tx.projection, Event(p))
    THEN [ok |-> TRUE, log |-> Append(tx.log, Event(p)),
          revision |-> [tx.revision EXCEPT ![p.type] = @ + 1],
          projection |-> ApplyProjection(tx.projection, Event(p))]
    ELSE [tx EXCEPT !.ok = FALSE]
\* One iteration of appendInTransaction on the state of the transaction: a
\* command seen before is answered with its event, or is a conflict.
AppendOne(tx, p) ==
    LET seen == ByCommand(tx.log, p) IN
    CASE ~tx.ok -> tx
      [] tx.ok /\ seen # {} -> [tx EXCEPT !.ok = \A i \in seen : SameTransitionCommand(tx.log[i], p)]
      [] tx.ok /\ seen = {} /\ (tx.revision[p.type] # p.expected \/ ~Applies(tx.projection, Event(p))) ->
            [tx EXCEPT !.ok = FALSE]
      [] OTHER -> [ok |-> TRUE, log |-> Append(tx.log, Event(p)),
                   revision |-> [tx.revision EXCEPT ![p.type] = @ + 1],
                   projection |-> ApplyProjection(tx.projection, Event(p))]

\* The transaction that begins now, and its commit.
Begun == [ok |-> TRUE, log |-> log, revision |-> revision, projection |-> projection]
Commit(tx) ==
    /\ tx.ok /\ Len(tx.log) <= MaxEvents   \* otherwise the transaction is rolled back
    /\ log' = tx.log /\ revision' = tx.revision /\ projection' = tx.projection
    /\ UNCHANGED <<kinds, manifest>>

\* What a caller may ask for: the revision it read now or before one other
\* event, a new idempotency key or one it used for this aggregate, and data that
\* match or do not.
Commands(type) == {Len(log) + 1} \cup {log[i].command : i \in {j \in DOMAIN log : log[j].type = type}}
DataOf(kind) == IF kind \in Matched \cup {"attempt.provider_event", "point.revised"} THEN {1, 2} ELSE {1}
Pending ==
    UNION {{[type |-> k[1], kind |-> k[2], expected |-> x, command |-> c, data |-> d] :
               x \in {revision[k[1]], revision[k[1]] - 1} \cap Nat, c \in Commands(k[1]), d \in DataOf(k[2])} :
              k \in kinds}

AppendEvent == \E p \in Pending : Commit(AppendOne(Begun, p))

\* A batch of two; the second event is new and of another aggregate.
Follower(tk) == [type |-> tk[1], kind |-> tk[2], expected |-> revision[tk[1]], command |-> Len(log) + 1, data |-> 1]
AppendPair ==
    \E p \in {q \in Pending : q.data = 1 /\ AppendOne(Begun, q).ok} :
       \E tk \in {k \in kinds : k[1] # p.type} :
           Commit(AppendOne(AppendOne(Begun, p), Follower(tk)))

-----------------------------------------------------------------------------
(* Context manifests and the rebuild.                                      *)

\* StoreManifest: the manifest names the attempt's projection, and is immutable.
StoreManifest ==
    /\ projection["attempt"].status # "none" /\ ~manifest
    /\ manifest' = TRUE
    /\ UNCHANGED <<kinds, log, revision, projection>>

\* (A mutant of ReplayLog.)
ReplayLogLastData ==
    FoldLeft(LAMBDA tx, e : IF tx.ok /\ Applies(tx.projection, e)
                            THEN [tx EXCEPT !.projection = [ApplyProjection(@, e) EXCEPT ![e.type].match = e.data]]
                            ELSE [tx EXCEPT !.ok = FALSE],
             [ok |-> TRUE, projection |-> [t \in AggregateTypes |-> NoProjection]], log)
\* Replay of every event on empty tables, with the checks of applyProjection.
ReplayLog ==
    FoldLeft(LAMBDA tx, e : IF tx.ok /\ Applies(tx.projection, e)
                            THEN [tx EXCEPT !.projection = ApplyProjection(@, e)]
                            ELSE [tx EXCEPT !.ok = FALSE],
             [ok |-> TRUE, projection |-> [t \in AggregateTypes |-> NoProjection]], log)

\* RebuildProjections: DELETE FROM attempt_projection fails while a manifest
\* references a row (foreign_keys is on and the constraint is immediate); any
\* failure rolls back.
Rebuilds == ~manifest /\ ReplayLog.ok
RebuildProjections ==
    /\ Rebuilds
    /\ projection' = ReplayLog.projection
    /\ UNCHANGED <<kinds, log, revision, manifest>>

Next == AppendEvent \/ AppendPair \/ StoreManifest \/ RebuildProjections

Spec == Init /\ [][Next]_vars

-----------------------------------------------------------------------------
(* Properties.                                                             *)

TypeOK ==
    /\ kinds \in Scopes /\ manifest \in BOOLEAN
    /\ Len(log) <= MaxEvents
    /\ \A t \in AggregateTypes : projection[t].version = revision[t]

\* A rebuild gives back the projections the appends left: they are a function
\* of the log.
RebuildKeeps == [][log' = log => projection' = projection]_vars

\* A command changes an aggregate at most once, whatever version it is retried with.
CommandOnce ==
    \A i, j \in DOMAIN log :
       log[i].type = log[j].type /\ log[i].command = log[j].command => i = j

RevisionsRise(events) ==
    \A i, j \in DOMAIN events : i < j /\ events[i].type = events[j].type => events[i].revision < events[j].revision
\* Of two writers that expected one revision of an aggregate at most one appends:
\* the revisions of its events rise along the log.
RevisionsInOrder == RevisionsRise(log)

\* Once work is deleted its runs and attempts are at rest, and stay so.
DeletedAtRest == projection["work"].deletion = "deleted" => AtRest(projection)
-----------------------------------------------------------------------------
(* The inductive invariant that MCWork's proof of CommandsOnce uses, of the   *)
(* tables and of a transaction at work alike.                                 *)

\* The callers name aggregates the store knows.
ScopesKnown == Scopes \subseteq SUBSET (AggregateTypes \X STRING)

Asks == [type : AggregateTypes, kind : STRING, expected : Nat, command : Nat, data : Nat]
Events == [type : AggregateTypes, kind : STRING, revision : Nat, command : Nat, data : Nat]

CommandsDiffer(events) ==
    \A i, j \in DOMAIN events :
       events[i].type = events[j].type /\ events[i].command = events[j].command => i = j
Sound(tx) ==
    /\ tx = [ok |-> tx.ok, log |-> tx.log, revision |-> tx.revision, projection |-> tx.projection]
    /\ tx.log \in Seq(Events) /\ tx.revision \in [AggregateTypes -> Nat]
    /\ \A i \in DOMAIN tx.log : tx.log[i].revision <= tx.revision[tx.log[i].type]
    /\ RevisionsRise(tx.log) /\ CommandsDiffer(tx.log)
LogInv == kinds \in Scopes /\ Sound(Begun)
=============================================================================
