---------------------------- MODULE RunExecution ----------------------------
(***************************************************************************)
(* The run service of the daemon (core/runexecution): the queue loop, the  *)
(* provider workers, the operator's controls, workflow checkpoints, and    *)
(* what survives a crash or a graceful stop.                               *)
(*                                                                         *)
(* One action is one store transaction or one call to a provider, so that  *)
(* every interleaving of workers, queue loop and HTTP handlers that the    *)
(* service's mutexes admit is a behaviour.  A batch of events commits      *)
(* whole or not at all: attempts are never seen starting or validating,    *)
(* nor visits ready or validating.  Events carry expected revisions;       *)
(* read-then-append is one step where a lost race only repeats the read,   *)
(* and two steps where the caller keeps a decision taken on the old state. *)
(***************************************************************************)
EXTENDS Naturals, Sequences, FiniteSets

CONSTANTS
    Runs,             \* run IDs
    Nodes,            \* node IDs of the frozen route
    Entry,            \* its entry
    Successors,       \* node -> targets of its transitions in the route
    Terminals,        \* terminal boundaries of the route
    BuiltinNodes,     \* nodes run by a DeterministicHandler
    CheckpointNodes,  \* nodes with a checkpoint other than none
    Limit,            \* scheduler.maxConcurrentRuns
    MaxVisits,        \* bound: visits per run
    MaxRetries,       \* bound: retries per run
    Operations        \* what operators and the environment do in an instance

ASSUME RunExecutionAssumption ==
    /\ Entry \in Nodes
    /\ Successors \in [Nodes -> SUBSET Nodes]
    /\ Terminals \subseteq Nodes
    /\ BuiltinNodes \subseteq Nodes
    /\ CheckpointNodes \subseteq Nodes
    /\ Limit \in Nat \ {0}
    /\ MaxVisits \in Nat \ {0}
    /\ MaxRetries \in Nat
    /\ Operations \subseteq {"pause", "cancel", "retry", "continue", "guide", "crash", "stop"}

VARIABLES
    phase,       \* down, resuming (ResumeActive), serving or stopping (Close)
    scheduling,  \* schedulingAdmitted
    todo,        \* attempts ResumeActive has still to look at
    runStatus,   \* run projection: run -> status
    visits,      \* visit projection: run -> sequence of visit statuses
    attempts,    \* attempt projection: run -> sequence of attempts
    workers,     \* Service.workers: run -> attempt index -> goroutine
    launching,   \* launch calls that API handlers still have to make, with
                 \* their origin: Resume and Retry, or a checkpoint decision
    admission,   \* the run DispatchQueue is admitting
    control      \* Pause and Cancel calls in progress: run -> operation -> call

storeVars == <<runStatus, visits, attempts>>
procVars == <<phase, scheduling, todo>>
vars == <<phase, scheduling, todo, runStatus, visits, attempts,
          workers, launching, admission, control>>

-----------------------------------------------------------------------------
\* States

RunStates == {"ready", "queued", "running", "waiting", "completed", "failed",
              "cancelled", "reconcile_required"}
RunTerminal == {"completed", "cancelled", "reconcile_required"}
Executable == {"queued", "running"}

VisitStates == {"pending", "running", "waiting_checkpoint", "succeeded",
                "rejected", "failed", "cancelled"}
VisitTerminal == {"succeeded", "rejected", "failed", "cancelled"}

AttemptStates == {"created", "running", "succeeded", "failed", "cancelled",
                  "interrupted", "reconcile_required"}
AttemptTerminal == AttemptStates \ {"created", "running"}

\* The reducers: the states in which a run, a visit or an attempt takes an event.
\* Any other event of a batch makes the store refuse the batch.  (Events that a
\* batch always appends together are one entry, named for the first: visit.ready
\* with visit.started, attempt.resources_acquired with attempt.started,
\* result_received with succeeded or waiting_checkpoint.)
ReduceRun ==
    [started |-> {"ready"}, visit_ready |-> {"queued"}, waiting |-> {"running"},
     paused |-> Executable, resumed |-> {"waiting", "failed"}, retried |-> {"failed"},
     continued |-> {"completed"}, guidance_requested |-> {"running"},
     completed |-> {"running"}, failed |-> {"running"}, admission_failed |-> {"queued"},
     cancelled |-> (RunStates \ RunTerminal) \cup {"reconcile_required"},
     reconcile_required |-> RunStates \ RunTerminal]

ReduceNode ==
    [ready |-> {"pending"}, result_received |-> {"running"},
     succeeded |-> {"waiting_checkpoint"}, rejected |-> {"waiting_checkpoint"},
     retrying |-> {"running", "failed"}, failed |-> {"running"},
     admission_failed |-> {"pending"}, cancelled |-> VisitStates \ VisitTerminal]

ReduceAttempt ==
    [resources_acquired |-> {"created"}, resumed |-> {"running"},
     result_received |-> {"running"}, failed |-> {"created", "running"},
     cancellation_reconciled |-> {"reconcile_required"},
     cancelled |-> AttemptStates \ AttemptTerminal,
     interrupted |-> AttemptStates \ AttemptTerminal,
     reconcile_required |-> AttemptStates \ AttemptTerminal]

MaxAttempts == MaxVisits + MaxRetries
AttemptIdx == 1 .. MaxAttempts

\* resumed: the event attempt.resumed is recorded.  Its command ID is the same
\* for every resume, so the store accepts it once.
Attempt == [node : Nodes, visit : AttemptIdx, status : AttemptStates, resumed : BOOLEAN]

NewAttempt(n, v) == [node |-> n, visit |-> v, status |-> "created", resumed |-> FALSE]

Results == {"succeeded", "failed", "cancelled", "interrupted", "unknown"}

Stages == {"none",        \* no goroutine
           "launched",    \* before startWorkflowVisit
           "visited",     \* the visit runs, the provider is not called yet
           "handled",     \* the provider returned a handle
           "streaming",   \* the attempt is recorded running
           "completing",  \* the provider returned a result
           "advancing"}   \* committed; about to launch the successor

Origins == {"control", "decision"}

ControlOps == {"pause", "cancel"}

\* by: who has cancelled the goroutine's context.
Worker == [stage : Stages, resume : BOOLEAN, by : SUBSET (ControlOps \cup {"stop"}),
           result : Results \cup {"none"}, next : 0 .. MaxAttempts]

NoWorker == [stage |-> "none", resume |-> FALSE, by |-> {}, result |-> "none", next |-> 0]

Observations == {"none", "confirmed", "uncertain"}

\* stale: the run has changed since the call checked the version it names.
Control == [active : BOOLEAN, stale : BOOLEAN, evidence : [AttemptIdx -> Observations]]

NoControl == [active |-> FALSE, stale |-> FALSE, evidence |-> [i \in AttemptIdx |-> "none"]]

\* created: the entry attempt exists, its launch is still to come.
Admission == [runs : SUBSET Runs, stale : BOOLEAN, created : BOOLEAN]

NoAdmission == [runs |-> {}, stale |-> FALSE, created |-> FALSE]

\* The API answers from the end of start-up until the service is closed: the
\* daemon closes the run service first and its HTTP server after it.
ServesAPI == phase \in {"serving", "stopping"}

Attempts(r) == DOMAIN attempts[r]
Alive(r, i) == workers[r][i].stage # "none"
Live(r, i) == attempts[r][i].status \in {"created", "running"}
VisitOf(r, i) == visits[r][attempts[r][i].visit]

RunTakes(r, kind) == runStatus[r] \in ReduceRun[kind]
VisitTakes(r, i, kind) == VisitOf(r, i) \in ReduceNode[kind]
AttemptTakes(r, i, kind) == attempts[r][i].status \in ReduceAttempt[kind]

Builtin(r, i) == attempts[r][i].node \in BuiltinNodes
Cancelled(r, i) == workers[r][i].by # {}

SetAttempt(r, i, s) == [attempts EXCEPT ![r][i].status = s]
SetVisit(r, i, s) == [visits EXCEPT ![r][attempts[r][i].visit] = s]
SetWorker(r, i, w) == [workers EXCEPT ![r][i] = w]
Exit(r, i) == SetWorker(r, i, NoWorker)

\* A committed run event makes the versions that other calls hold stale.
RunEvent(r, s) ==
    /\ runStatus' = [runStatus EXCEPT ![r] = s]
    /\ control' = [control EXCEPT ![r] =
                      [op \in ControlOps |->
                         [@[op] EXCEPT !.stale = control[r][op].active]]]

Stale(r) == IF r \in admission.runs THEN [admission EXCEPT !.stale = TRUE] ELSE admission

NoRunEvent == UNCHANGED <<runStatus, control, admission>>

-----------------------------------------------------------------------------
\* Admission: launch and the queue loop

\* hasRunCapacityLocked counts runs with a worker and runs that are running.
ActiveRuns ==
    {r \in Runs : runStatus[r] = "running" \/ \E i \in AttemptIdx : Alive(r, i)}

\* (Mutant: runs that have a worker but are still queued are not counted.)
HasRunningCapacity(r) ==
    runStatus[r] = "running" \/ Cardinality({q \in Runs : runStatus[q] = "running"}) < Limit

HasRunCapacity(r) == r \in ActiveRuns \/ Cardinality(ActiveRuns) < Limit

\* (Mutant: an attempt whose run is back in the queue is not launched.)
MayLaunchRunning(r, i) ==
    /\ phase # "stopping"
    /\ ~Alive(r, i)
    /\ Live(r, i)
    /\ runStatus[r] = "running"
    /\ HasRunCapacity(r)

\* The tests launch makes under the service mutex in queue mode.
MayLaunch(r, i) ==
    /\ phase # "stopping"
    /\ ~Alive(r, i)
    /\ Live(r, i)
    /\ runStatus[r] \in Executable
    /\ HasRunCapacity(r)

Launched(r, i) ==
    [NoWorker EXCEPT !.stage = "launched",
                     !.resume = (attempts[r][i].status = "running")]

\* Second loop of DispatchQueue: active attempts without a worker.
DispatchActive(r, i) ==
    /\ phase = "serving"
    /\ scheduling
    /\ admission = NoAdmission
    /\ i \in Attempts(r)
    /\ MayLaunch(r, i)
    /\ workers' = SetWorker(r, i, Launched(r, i))
    /\ UNCHANGED <<procVars, storeVars, launching, admission, control>>

\* Launch by an operator or by the first loop of DispatchQueue.  In queue mode
\* it authorizes the run and creates no attempt.
Launch(r) ==
    /\ ServesAPI
    /\ scheduling
    /\ RunTakes(r, "started")
    /\ RunEvent(r, "queued")
    /\ admission' = Stale(r)
    /\ UNCHANGED <<procVars, visits, attempts, workers, launching>>

\* First loop of DispatchQueue: a queued run without attempts, as read here...
DispatchPick(r) ==
    /\ phase = "serving"
    /\ scheduling
    /\ admission = NoAdmission
    /\ runStatus[r] = "queued"
    /\ attempts[r] = <<>>
    /\ HasRunCapacity(r)
    /\ admission' = [NoAdmission EXCEPT !.runs = {r}]
    /\ UNCHANGED <<procVars, storeVars, workers, launching, control>>

\* ...gets its entry visit and attempt here (ensureWorkflowEntryAttempt; the
\* append names no run revision)...
DispatchAdmit(r) ==
    /\ r \in admission.runs
    /\ ~admission.created
    /\ visits' = [visits EXCEPT ![r] = <<"pending">>]
    /\ attempts' = [attempts EXCEPT ![r] = <<NewAttempt(Entry, 1)>>]
    /\ admission' = [admission EXCEPT !.created = TRUE]
    /\ UNCHANGED <<procVars, runStatus, workers, launching, control>>

\* ...and is launched here, still under queueMu.
DispatchLaunch(r) ==
    /\ r \in admission.runs
    /\ admission.created
    /\ workers' = IF MayLaunch(r, 1) THEN SetWorker(r, 1, Launched(r, 1)) ELSE workers
    /\ admission' = NoAdmission
    /\ UNCHANGED <<procVars, storeVars, launching, control>>

\* The entry cannot be created: failQueuedRun, under the revision read above.
DispatchFail(r) ==
    /\ r \in admission.runs
    /\ ~admission.created
    /\ IF admission.stale
       THEN UNCHANGED <<runStatus, control>>
       ELSE RunEvent(r, "failed")
    /\ admission' = NoAdmission
    /\ UNCHANGED <<procVars, visits, attempts, workers, launching>>

-----------------------------------------------------------------------------
\* Workers: execute, completeAttempt, failAttemptWithCode

\* Guide finds an adapter and appends to the run, without changing its status.
\* When it comes between the reads and the append of a completion that does not
\* hold runEventMu, that append is refused and forgotten.
GuideInterferes(r, i) ==
    /\ "guide" \in Operations
    /\ RunTakes(r, "guidance_requested")
    /\ ~Builtin(r, i)
    /\ workers[r][i].stage \in {"visited", "handled", "streaming", "completing"}

\* failAttemptWithCode.  It does not look at the worker's context.  Outside
\* queued and running, or when the visit cannot fail, nothing is recorded.
FailAttempt(r, i) ==
    LET effective == /\ AttemptTakes(r, i, "failed")
                     /\ RunTakes(r, "failed") \/ RunTakes(r, "admission_failed")
                     /\ VisitTakes(r, i, "failed") \/ VisitTakes(r, i, "admission_failed")
    IN  \/ /\ effective
           /\ attempts' = SetAttempt(r, i, "failed")
           /\ visits' = SetVisit(r, i, "failed")
           /\ RunEvent(r, "failed")
           /\ admission' = Stale(r)
        \/ /\ ~effective \/ GuideInterferes(r, i)
           /\ UNCHANGED <<visits, attempts>>
           /\ NoRunEvent

\* The launch call at the end of a handler.  While the service closes launch
\* returns an error, which Resume and Retry record as the attempt's failure.
HandlerLaunch(r, i, origin) ==
    /\ <<r, i, origin>> \in launching
    /\ launching' = launching \ {<<r, i, origin>>}
    /\ \/ /\ phase # "stopping"
          /\ workers' = IF MayLaunch(r, i) THEN SetWorker(r, i, Launched(r, i)) ELSE workers
          /\ UNCHANGED <<storeVars, admission, control>>
       \/ phase = "stopping" /\ origin = "control" /\ FailAttempt(r, i) /\ UNCHANGED workers
       \/ phase = "stopping" /\ origin = "decision" /\ UNCHANGED <<storeVars, workers, admission, control>>
    /\ UNCHANGED procVars

\* The worker fails the attempt and ends.
FailAndExit(r, i) ==
    /\ FailAttempt(r, i)
    /\ workers' = Exit(r, i)
    /\ UNCHANGED <<procVars, launching>>

\* (Mutant: an early return that leaves the worker registered.)
QuietExitLeaks(r, i) ==
    UNCHANGED <<procVars, storeVars, workers, launching, admission, control>>

\* The worker ends without recording anything.
QuietExit(r, i) ==
    /\ workers' = Exit(r, i)
    /\ UNCHANGED <<procVars, storeVars, launching, admission, control>>

\* Context, request, provider or health check failed before the visit started;
\* a cancelled context is not a failure.
PrepareFails(r, i) ==
    /\ workers[r][i].stage = "launched"
    /\ IF Cancelled(r, i) THEN QuietExit(r, i) ELSE FailAndExit(r, i)

\* startWorkflowVisit: with a visit that is neither pending nor running it
\* records nothing and reports no error.
VisitStarts(r, i) ==
    \/ /\ VisitOf(r, i) \notin {"pending", "running"}
       /\ UNCHANGED <<storeVars, control, admission>>
    \/ /\ VisitOf(r, i) \in {"pending", "running"}
       /\ runStatus[r] \in Executable
       /\ visits' = SetVisit(r, i, "running")
       /\ IF RunTakes(r, "visit_ready")
          THEN RunEvent(r, "running") /\ admission' = Stale(r)
          ELSE NoRunEvent
       /\ UNCHANGED attempts

VisitRefused(r, i) ==
    VisitOf(r, i) \in {"pending", "running"} /\ runStatus[r] \notin Executable

StartVisit(r, i) ==
    /\ workers[r][i].stage = "launched"
    /\ \/ /\ ~Cancelled(r, i)
          /\ VisitStarts(r, i)
          /\ workers' = [workers EXCEPT ![r][i].stage = "visited"]
          /\ UNCHANGED <<procVars, launching>>
       \/ /\ Cancelled(r, i) \/ VisitRefused(r, i)
          /\ IF Builtin(r, i) THEN FailAndExit(r, i) ELSE QuietExit(r, i)

\* StartAttempt or ResumeAttempt of the provider.
CallProvider(r, i) ==
    /\ workers[r][i].stage = "visited"
    /\ ~Builtin(r, i)
    /\ \/ \* a handle
          /\ workers' = [workers EXCEPT ![r][i].stage = "handled"]
          /\ UNCHANGED <<procVars, storeVars, launching, admission, control>>
       \/ \* a start fails; an inconsistent handle fails it whatever the context says
          /\ ~workers[r][i].resume
          /\ FailAndExit(r, i)
       \/ \* a resume fails: it is not proven safe
          /\ workers[r][i].resume /\ ~Cancelled(r, i)
          /\ workers' = [workers EXCEPT ![r][i].stage = "completing",
                                        ![r][i].result = "unknown"]
          /\ UNCHANGED <<procVars, storeVars, launching, admission, control>>
       \/ \* the cancelled context, before anything was started
          /\ Cancelled(r, i)
          /\ QuietExit(r, i)

\* (Mutant: the start is recorded whatever became of the attempt meanwhile.)
RecordableAlways(r, i) == ~Cancelled(r, i)

\* attempt.resources_acquired with attempt.started, or attempt.resumed.  The
\* store refuses a second attempt.resumed of the attempt as a conflicting reuse
\* of its command ID, and a builtin attempt that already runs.
Recordable(r, i) ==
    /\ ~Cancelled(r, i)
    /\ IF workers[r][i].resume
       THEN AttemptTakes(r, i, "resumed") /\ ~attempts[r][i].resumed /\ ~Builtin(r, i)
       ELSE AttemptTakes(r, i, "resources_acquired")

RecordStart(r, i) ==
    /\ workers[r][i].stage = IF Builtin(r, i) THEN "visited" ELSE "handled"
    /\ \/ /\ Recordable(r, i)
          /\ attempts' = [attempts EXCEPT ![r][i].status = "running",
                                          ![r][i].resumed = workers[r][i].resume]
          /\ workers' = [workers EXCEPT ![r][i].stage = "streaming"]
          /\ UNCHANGED <<procVars, runStatus, visits, launching, admission, control>>
       \/ ~Recordable(r, i) /\ QuietExit(r, i)

\* The provider's stream ends with a result, or breaks.  A broken stream and a
\* missing result are errors of the provider only while the context stands; an
\* invalid event, and one the log refuses, fail the attempt in any case.
ReceiveResult(r, i) ==
    /\ workers[r][i].stage = "streaming"
    /\ ~Builtin(r, i)
    /\ \/ /\ Cancelled(r, i)
          /\ QuietExit(r, i)
       \/ FailAndExit(r, i)
       \/ \E result \in Results :
             /\ ~Cancelled(r, i)
             /\ workers' = [workers EXCEPT ![r][i].stage = "completing",
                                           ![r][i].result = result]
             /\ UNCHANGED <<procVars, storeVars, launching, admission, control>>

\* A deterministic handler returns.  Its error is recorded whatever the reason,
\* a cancelled context included.
BuiltinReturns(r, i) ==
    /\ workers[r][i].stage = "streaming"
    /\ Builtin(r, i)
    /\ \/ FailAndExit(r, i)
       \/ /\ workers' = [workers EXCEPT ![r][i].stage = "completing",
                                        ![r][i].result = "succeeded"]
          /\ UNCHANGED <<procVars, storeVars, launching, admission, control>>

\* (Mutant: the batch advances the visit and forgets the attempt.)
AcceptedVisitOnly(r, i) == attempts

\* attempt.result_received and attempt.succeeded.
Accepted(r, i) == SetAttempt(r, i, "succeeded")

\* completeWorkflowSucceeded and finishWorkflowAdvance, past the point where
\* the execution context is saved: one batch closes the attempt and the visit
\* and waits, completes the run, or creates the successor.
Succeed(r, i, n) ==
    LET node == attempts[r][i].node
        done == Accepted(r, i)
    IN  \/ /\ node \in CheckpointNodes
           /\ RunTakes(r, "waiting")
           /\ attempts' = done
           /\ visits' = SetVisit(r, i, "waiting_checkpoint")
           /\ RunEvent(r, "waiting")
           /\ admission' = Stale(r)
           /\ workers' = Exit(r, i)
        \/ /\ node \in Terminals \ CheckpointNodes
           /\ RunTakes(r, "completed")
           /\ attempts' = done
           /\ visits' = SetVisit(r, i, "succeeded")
           /\ RunEvent(r, "completed")
           /\ admission' = Stale(r)
           /\ workers' = Exit(r, i)
        \/ /\ node \notin Terminals \cup CheckpointNodes
           /\ n \in Successors[node]
           /\ Len(visits[r]) < MaxVisits
           /\ attempts' = [done EXCEPT ![r] = Append(@, NewAttempt(n, Len(visits[r]) + 1))]
           /\ visits' = [SetVisit(r, i, "succeeded") EXCEPT ![r] = Append(@, "pending")]
           /\ NoRunEvent
           /\ workers' = [workers EXCEPT ![r][i].stage = "advancing",
                                         ![r][i].next = Len(attempts[r]) + 1]

\* completeAttempt for a succeeded result.  Once it has read the attempt, every
\* error fails the attempt, that of a context cancelled meanwhile too.
CompleteSucceeded(r, i) ==
    /\ workers[r][i].stage = "completing"
    /\ workers[r][i].result = "succeeded"
    /\ \/ /\ ~Cancelled(r, i)
          /\ AttemptTakes(r, i, "result_received")
          /\ VisitTakes(r, i, "result_received")
          /\ \E n \in Nodes : Succeed(r, i, n)
          /\ UNCHANGED <<procVars, launching>>
       \/ FailAndExit(r, i)
       \/ Cancelled(r, i) /\ QuietExit(r, i)

\* completeAttempt for the other results: what each records of the attempt, of
\* its visit and of the run.
AttemptOutcome(result) == IF result = "unknown" THEN "reconcile_required" ELSE result

VisitOutcome(result) == IF result = "cancelled" THEN "cancelled" ELSE "failed"

\* (Mutant: an unknown result fails the run.)
RunOutcomeFailed(result) == IF result = "cancelled" THEN "cancelled" ELSE "failed"

RunOutcome(result) ==
    CASE result \in {"failed", "interrupted"} -> "failed"
      [] result = "cancelled" -> "cancelled"
      [] result = "unknown" -> "reconcile_required"

CompleteOther(r, i) ==
    LET result == workers[r][i].result
        accepted == /\ ~Cancelled(r, i)
                    /\ AttemptTakes(r, i, AttemptOutcome(result))
                    /\ VisitTakes(r, i, VisitOutcome(result))
                    /\ RunTakes(r, RunOutcome(result))
    IN  /\ workers[r][i].stage = "completing"
        /\ result # "succeeded"
        /\ \/ /\ accepted
              /\ attempts' = SetAttempt(r, i, AttemptOutcome(result))
              /\ visits' = SetVisit(r, i, VisitOutcome(result))
              /\ RunEvent(r, RunOutcome(result))
              /\ admission' = Stale(r)
              /\ workers' = Exit(r, i)
              /\ UNCHANGED <<procVars, launching>>
           \/ (~accepted \/ GuideInterferes(r, i)) /\ QuietExit(r, i)

\* launch(nextAttempt) uses the service's context: a worker cancelled after it
\* has read the successor launches it all the same.
LaunchSuccessor(r, i) ==
    LET next == workers[r][i].next
    IN  /\ workers[r][i].stage = "advancing"
        /\ \/ workers' = IF MayLaunch(r, next)
                         THEN [workers EXCEPT ![r][i] = NoWorker,
                                              ![r][next] = Launched(r, next)]
                         ELSE Exit(r, i)
           \/ Cancelled(r, i) /\ workers' = Exit(r, i)
        /\ UNCHANGED <<procVars, storeVars, launching, admission, control>>

WorkerStep(r, i) ==
    \/ PrepareFails(r, i)
    \/ StartVisit(r, i)
    \/ CallProvider(r, i)
    \/ RecordStart(r, i)
    \/ ReceiveResult(r, i)
    \/ BuiltinReturns(r, i)
    \/ CompleteSucceeded(r, i)
    \/ CompleteOther(r, i)
    \/ LaunchSuccessor(r, i)

-----------------------------------------------------------------------------
\* Controls.  The version an operator names is the current one: any other is
\* refused.  Repeated requests replay their recorded response.

AliveIn(r) == {i \in AttemptIdx : Alive(r, i)}

\* quiesceRun cancels the contexts of the workers it finds.
Quiesce(rs, op) ==
    workers' = [r \in Runs |-> [i \in AttemptIdx |->
                   IF r \in rs /\ Alive(r, i) THEN [workers[r][i] EXCEPT !.by = @ \cup {op}]
                                             ELSE workers[r][i]]]

Begin(r, op, evidence) ==
    control' = [control EXCEPT ![r][op] =
                   [active |-> TRUE, stale |-> FALSE, evidence |-> evidence]]

Ended(r, op) == [control EXCEPT ![r][op] = NoControl]

\* (Mutant: quiesceRun waits until the run has no worker at all.)
JoinedAll(r, op) == AliveIn(r) = {}

\* The workers found at the beginning are joined.  A worker that the queue loop
\* launches meanwhile is not waited for.
Joined(r, op) == \A i \in AttemptIdx : op \notin workers[r][i].by

Ready(r, op) == control[r][op].active /\ Joined(r, op)

UnconfirmedLive(r) ==
    \E i \in Attempts(r) : Live(r, i) /\ control[r]["cancel"].evidence[i] = "uncertain"

\* The second controlRun, and what Cancel's batch and the reducer ask beyond it.
Acceptable(r, op) ==
    /\ ~control[r][op].stale
    /\ op = "pause" => RunTakes(r, "paused")
    /\ op = "cancel" =>
          /\ \A i \in Attempts(r) :
                attempts[r][i].status = "reconcile_required"
                => control[r]["cancel"].evidence[i] = "confirmed"
          /\ RunTakes(r, IF UnconfirmedLive(r) THEN "reconcile_required" ELSE "cancelled")

PauseBegin(r) ==
    /\ ServesAPI
    /\ "pause" \in Operations
    /\ ~control[r]["pause"].active
    /\ runStatus[r] \in Executable
    /\ Begin(r, "pause", NoControl.evidence)
    /\ Quiesce({r}, "pause")
    /\ UNCHANGED <<procVars, storeVars, launching, admission>>

\* The run event of a control call that ends: its own slot is free afterwards.
CommitControl(r, op, s) ==
    /\ runStatus' = [runStatus EXCEPT ![r] = s]
    /\ control' = [control EXCEPT ![r] =
                      [o \in ControlOps |->
                         IF o = op THEN NoControl ELSE [@[o] EXCEPT !.stale = control[r][o].active]]]
    /\ admission' = Stale(r)

PauseCommit(r) ==
    /\ Ready(r, "pause")
    /\ Acceptable(r, "pause")
    /\ CommitControl(r, "pause", "waiting")
    /\ UNCHANGED <<procVars, visits, attempts, workers, launching>>

\* The call is refused: the run changed while the call waited.
ControlRefused(r, op) ==
    /\ Ready(r, op)
    /\ ~Acceptable(r, op)
    /\ control' = Ended(r, op)
    /\ UNCHANGED <<procVars, storeVars, workers, launching, admission>>

\* The client goes away while quiesceRun waits.
ControlAbandoned(r, op) ==
    /\ control[r][op].active
    /\ ~Joined(r, op)
    /\ control' = Ended(r, op)
    /\ UNCHANGED <<procVars, storeVars, workers, launching, admission>>

\* checkpointMu is held from the beginning to the end of a Cancel.
CheckpointMuFree == \A r \in Runs : ~control[r]["cancel"].active

\* Attempts whose provider quiesceRun asks to terminate the session: those of
\* stopped workers that have a handle, and those recorded running or in
\* reconcile_required that have no worker.  Builtin nodes after the entry name
\* the provider "builtin", which does not exist: the lookup fails.  (Answers for
\* attempts that are over are not used.)
CancelTargets(r) ==
    {i \in Attempts(r) :
        \/ workers[r][i].stage \in {"handled", "streaming", "completing"} /\ ~Builtin(r, i)
        \/ ~Alive(r, i) /\ attempts[r][i].status \in {"running", "reconcile_required"}}

CancelAnswers(r, i) ==
    IF i \notin CancelTargets(r) THEN {"none"}
    ELSE IF Builtin(r, i) /\ attempts[r][i].visit > 1 THEN {"uncertain"} ELSE {"confirmed", "uncertain"}

CancelBegin(r) ==
    /\ ServesAPI
    /\ "cancel" \in Operations
    /\ CheckpointMuFree
    /\ runStatus[r] \notin {"completed", "cancelled"}
    /\ \E answer \in [AttemptIdx -> Observations] :
          /\ \A i \in AttemptIdx : answer[i] \in CancelAnswers(r, i)
          /\ Begin(r, "cancel", answer)
    /\ Quiesce({r}, "cancel")
    /\ UNCHANGED <<procVars, storeVars, launching, admission>>

\* (Mutant: the provider's answer is taken for the status.)
CancelledAttemptRaw(a, observed) ==
    CASE a.status \in AttemptTerminal \ {"reconcile_required"} -> a
      [] OTHER -> [a EXCEPT !.status = IF observed = "none" THEN "cancelled" ELSE observed]

\* What the batch of Cancel makes of an attempt.
CancelledAttempt(a, observed) ==
    CASE a.status \in AttemptTerminal \ {"reconcile_required"} -> a
      [] a.status = "reconcile_required" -> [a EXCEPT !.status = "cancelled"]
      [] OTHER -> [a EXCEPT !.status = IF observed = "uncertain"
                                       THEN "reconcile_required" ELSE "cancelled"]

CancelCommit(r) ==
    LET observed == control[r]["cancel"].evidence
        closed == [i \in Attempts(r) |-> CancelledAttempt(attempts[r][i], observed[i])]
        \* visits of the attempts that this batch cancels
        children == {attempts[r][i].visit :
                        i \in {j \in Attempts(r) : /\ closed[j].status = "cancelled"
                                                   /\ attempts[r][j].status # "cancelled"}}
    IN  /\ Ready(r, "cancel")
        /\ Acceptable(r, "cancel")
        /\ attempts' = [attempts EXCEPT ![r] = closed]
        /\ visits' = [visits EXCEPT ![r] =
              [v \in DOMAIN @ |->
                 IF @[v] = "waiting_checkpoint" \/ (v \in children /\ @[v] \in ReduceNode.cancelled)
                 THEN "cancelled" ELSE @[v]]]
        /\ CommitControl(r, "cancel", IF UnconfirmedLive(r) THEN "reconcile_required" ELSE "cancelled")
        /\ UNCHANGED <<procVars, workers, launching>>

\* Resume: back to the queue; the newest attempt that is not terminal, if any,
\* is launched.
Resume(r) ==
    LET live == {i \in Attempts(r) : Live(r, i)}
    IN  /\ ServesAPI
        /\ scheduling
        /\ runStatus[r] = "waiting"
        /\ \A v \in DOMAIN visits[r] : visits[r][v] # "waiting_checkpoint"
        /\ RunEvent(r, "queued")
        /\ admission' = Stale(r)
        /\ launching' = launching \cup {<<r, i, "control">> : i \in {j \in live : \A k \in live : k <= j}}
        /\ UNCHANGED <<procVars, visits, attempts, workers>>

\* (Mutant: the newest attempt is retried whatever became of it and of the run.)
RetryAny(r, i) == i = Len(attempts[r])

\* Retry takes the newest attempt that failed, of the node the operator may name.
Retryable(r, i) ==
    LET broken == {j \in Attempts(r) : attempts[r][j].status \in {"failed", "interrupted"}}
    IN  /\ RunTakes(r, "retried")
        /\ i \in broken
        /\ \A j \in broken : attempts[r][j].node = attempts[r][i].node => j <= i
        /\ VisitTakes(r, i, "retrying")

\* (Mutant: the retry opens a visit of its own.)
RetryFreshVisit(r, i) == [visits EXCEPT ![r] = Append(@, "pending")]

\* visit.retrying and visit.started.
RetriedVisit(r, i) == SetVisit(r, i, "running")

\* Retry: a fresh attempt under the visit of the retried one.
Retry(r) ==
    /\ ServesAPI
    /\ scheduling
    /\ "retry" \in Operations
    /\ Len(attempts[r]) - Len(visits[r]) < MaxRetries
    /\ \E i \in Attempts(r) :
          /\ Retryable(r, i)
          /\ attempts' = [attempts EXCEPT ![r] =
                 Append(@, NewAttempt(attempts[r][i].node, attempts[r][i].visit))]
          /\ visits' = RetriedVisit(r, i)
    /\ launching' = launching \cup {<<r, Len(attempts[r]) + 1, "control">>}
    /\ RunEvent(r, "queued")
    /\ admission' = Stale(r)
    /\ UNCHANGED <<procVars, workers>>

\* Guide: guidance_requested, later guidance_delivery; both only make the version
\* others hold stale.
Guide(r) ==
    /\ ServesAPI
    /\ \E i \in Attempts(r) : GuideInterferes(r, i)
    /\ RunEvent(r, "running")
    /\ UNCHANGED <<procVars, visits, attempts, workers, launching, admission>>

\* Continue: the completed run is queued with an extended route.
Continue(r) ==
    /\ ServesAPI
    /\ scheduling
    /\ "continue" \in Operations
    /\ RunTakes(r, "continued")
    /\ RunEvent(r, "queued")
    /\ admission' = Stale(r)
    /\ UNCHANGED <<procVars, visits, attempts, workers, launching>>

-----------------------------------------------------------------------------
\* ApplyWorkflowCheckpointDecision

\* The attempt whose visit waits.
Waiting(r, i) ==
    /\ i \in Attempts(r)
    /\ attempts[r][i].status = "succeeded"
    /\ VisitTakes(r, i, "succeeded")

Reject(r, i) ==
    /\ ServesAPI
    /\ CheckpointMuFree
    /\ runStatus[r] = "waiting"
    /\ Waiting(r, i)
    /\ visits' = SetVisit(r, i, "rejected")
    /\ RunEvent(r, "cancelled")
    /\ admission' = Stale(r)
    /\ UNCHANGED <<procVars, attempts, workers, launching>>

\* run.resumed and run.visit_ready in one batch: the run is running again, with
\* its successor, or completed.  launch does not ask schedulingAdmitted.
Approve(r, i) ==
    LET node == attempts[r][i].node
    IN  /\ ServesAPI
        /\ CheckpointMuFree
        /\ runStatus[r] = "waiting"
        /\ Waiting(r, i)
        /\ \/ /\ node \in Terminals
              /\ visits' = SetVisit(r, i, "succeeded")
              /\ RunEvent(r, "completed")
              /\ UNCHANGED <<attempts, launching>>
           \/ \E n \in Successors[node] :
              /\ node \notin Terminals
              /\ Len(visits[r]) < MaxVisits
              /\ visits' = [SetVisit(r, i, "succeeded") EXCEPT ![r] = Append(@, "pending")]
              /\ attempts' = [attempts EXCEPT ![r] = Append(@, NewAttempt(n, Len(visits[r]) + 1))]
              /\ launching' = launching \cup {<<r, Len(attempts[r]) + 1, "decision">>}
              /\ RunEvent(r, "running")
        /\ admission' = Stale(r)
        /\ UNCHANGED <<procVars, workers>>

-----------------------------------------------------------------------------
\* The process: start, ResumeActive, crash and Close

NoProcess ==
    /\ workers' = [r \in Runs |-> [i \in AttemptIdx |-> NoWorker]]
    /\ launching' = {}
    /\ admission' = NoAdmission
    /\ control' = [r \in Runs |-> [op \in ControlOps |-> NoControl]]

\* Startup recovery decides whether scheduling is admitted; only then the
\* active attempts are looked at.
Start ==
    /\ phase = "down"
    /\ \E allowed \in BOOLEAN :
          /\ scheduling' = allowed
          /\ phase' = IF allowed THEN "resuming" ELSE "serving"
          /\ todo' = IF allowed
                     THEN {ri \in Runs \X AttemptIdx :
                             ri[2] \in Attempts(ri[1]) /\ Live(ri[1], ri[2])}
                     ELSE {}
    /\ UNCHANGED <<storeVars, workers, launching, admission, control>>

\* ResumeActive: an attempt that may or may not have reached the provider
\* (reconcileUncertainStart) blocks its run, one that runs is relaunched.
ResumeActive(r, i) ==
    /\ phase = "resuming"
    /\ <<r, i>> \in todo
    /\ todo' = todo \ {<<r, i>>}
    /\ \/ /\ runStatus[r] \in Executable
          /\ attempts[r][i].status = "created"
          /\ attempts' = SetAttempt(r, i, "reconcile_required")
          /\ RunEvent(r, "reconcile_required")
          /\ UNCHANGED workers
       \/ /\ runStatus[r] \in Executable
          /\ attempts[r][i].status = "running"
          /\ workers' = IF MayLaunch(r, i) THEN SetWorker(r, i, Launched(r, i)) ELSE workers
          /\ UNCHANGED <<attempts, runStatus, control>>
       \/ /\ runStatus[r] \notin Executable \/ ~Live(r, i)
          /\ UNCHANGED <<attempts, runStatus, control, workers>>
    /\ UNCHANGED <<phase, scheduling, visits, launching, admission>>

Serve ==
    /\ phase = "resuming"
    /\ todo = {}
    /\ phase' = "serving"
    /\ UNCHANGED <<scheduling, todo, storeVars, workers, launching, admission, control>>

Crash ==
    /\ "crash" \in Operations
    /\ phase # "down"
    /\ phase' = "down"
    /\ scheduling' = FALSE
    /\ todo' = {}
    /\ NoProcess
    /\ UNCHANGED <<storeVars>>

\* Close cancels every worker and joins them; the queue loop ends.  Calls of the
\* API go on, and those that take too long are cut off.
Stop ==
    /\ "stop" \in Operations
    /\ phase = "serving"
    /\ phase' = "stopping"
    /\ Quiesce(Runs, "stop")
    /\ admission' = NoAdmission
    /\ UNCHANGED <<scheduling, todo, storeVars, launching, control>>

Stopped ==
    /\ phase = "stopping"
    /\ \A r \in Runs : AliveIn(r) = {}
    /\ phase' = "down"
    /\ scheduling' = FALSE
    /\ NoProcess
    /\ UNCHANGED <<todo, storeVars>>

-----------------------------------------------------------------------------
Init ==
    /\ phase = "down"
    /\ scheduling = FALSE
    /\ todo = {}
    /\ runStatus = [r \in Runs |-> "ready"]
    /\ visits = [r \in Runs |-> <<>>]
    /\ attempts = [r \in Runs |-> <<>>]
    /\ workers = [r \in Runs |-> [i \in AttemptIdx |-> NoWorker]]
    /\ launching = {}
    /\ admission = NoAdmission
    /\ control = [r \in Runs |-> [op \in ControlOps |-> NoControl]]

QueueStep(r) ==
    \/ Launch(r)
    \/ DispatchPick(r)
    \/ DispatchAdmit(r)
    \/ DispatchLaunch(r)
    \/ DispatchFail(r)
    \/ \E i \in AttemptIdx : DispatchActive(r, i) \/ \E origin \in Origins : HandlerLaunch(r, i, origin)

ControlStep(r) ==
    \/ PauseBegin(r)
    \/ PauseCommit(r)
    \/ CancelBegin(r)
    \/ CancelCommit(r)
    \/ \E op \in ControlOps : ControlRefused(r, op) \/ ControlAbandoned(r, op)
    \/ Resume(r)
    \/ Retry(r)
    \/ Continue(r)
    \/ Guide(r)

DecisionStep(r) == \E i \in AttemptIdx : Reject(r, i) \/ Approve(r, i)

ProcessStep ==
    \/ Start
    \/ \E r \in Runs, i \in AttemptIdx : ResumeActive(r, i)
    \/ Serve
    \/ Crash
    \/ Stop
    \/ Stopped

Next ==
    \/ ProcessStep
    \/ \E r \in Runs : QueueStep(r) \/ ControlStep(r) \/ DecisionStep(r)
    \/ \E r \in Runs : \E i \in Attempts(r) : WorkerStep(r, i)

Spec == Init /\ [][Next]_vars

\* What the code's own loops guarantee: the queue loop ticks, goroutines and
\* handlers run on, provider calls and streams end.  Operators, crashes and the
\* choice between success and failure are free.
Fairness ==
    /\ WF_vars(Start)
    /\ WF_vars(Serve)
    /\ WF_vars(Stopped)
    /\ \A r \in Runs :
          /\ WF_vars(DispatchPick(r))
          /\ WF_vars(DispatchAdmit(r) \/ DispatchFail(r) \/ DispatchLaunch(r))
          /\ WF_vars(PauseCommit(r) \/ ControlRefused(r, "pause"))
          /\ WF_vars(CancelCommit(r) \/ ControlRefused(r, "cancel"))
          /\ \A i \in AttemptIdx :
                /\ WF_vars(ResumeActive(r, i))
                /\ \A origin \in Origins : WF_vars(HandlerLaunch(r, i, origin))
                /\ WF_vars(DispatchActive(r, i))
                /\ WF_vars(i \in Attempts(r) /\ WorkerStep(r, i))

FairSpec == Spec /\ Fairness

-----------------------------------------------------------------------------
\* Properties

TypeOK ==
    /\ phase \in {"down", "resuming", "serving", "stopping"}
    /\ scheduling \in BOOLEAN
    /\ todo \subseteq Runs \X AttemptIdx
    /\ runStatus \in [Runs -> RunStates]
    /\ \A r \in Runs : visits[r] \in Seq(VisitStates) /\ attempts[r] \in Seq(Attempt)
    /\ workers \in [Runs -> [AttemptIdx -> Worker]]
    /\ launching \subseteq Runs \X AttemptIdx \X Origins
    /\ admission \in Admission
    /\ control \in [Runs -> [ControlOps -> Control]]

\* Of the attempts of a run at most one is created or running: queue loop,
\* ResumeActive, Retry, checkpoint approval and a finishing worker, each of which
\* creates or revives attempts, never give a run two that execute.
OneLiveAttempt ==
    \A r \in Runs : \A i, j \in Attempts(r) : Live(r, i) /\ Live(r, j) => i = j

\* An attempt that is created or running belongs to an open visit: no handler
\* closes a visit (visit.failed, visit.cancelled, visit.succeeded) and leaves
\* behind the attempt that works for it.
LiveAttemptHasOpenVisit ==
    \A r \in Runs : \A i \in Attempts(r) : Live(r, i) => VisitOf(r, i) \in {"pending", "running"}

\* A run has one visit for its entry and at most one for each attempt that
\* succeeded: completion, checkpoint approval and retry never advance twice from
\* the same success.
OneSuccessor(r) ==
    Len(visits[r]) <= 1 + Cardinality({i \in Attempts(r) : attempts[r][i].status = "succeeded"})

\* A run is failed or completed only with every attempt over and every visit
\* closed; a completed run has ended at a terminal boundary of its route, with
\* every visit on the way succeeded, whatever was retried; and no run, open or
\* closed, has advanced twice from the same success (OneSuccessor).
ClosedRun ==
    \A r \in Runs :
        /\ OneSuccessor(r)
        /\ runStatus[r] \in {"completed", "failed"} =>
              /\ \A i \in Attempts(r) : ~Live(r, i)
              /\ \A v \in DOMAIN visits[r] : visits[r][v] \in VisitTerminal
        /\ runStatus[r] = "completed" =>
              /\ \A v \in DOMAIN visits[r] : visits[r][v] = "succeeded"
              /\ attempts[r][Len(attempts[r])].node \in Terminals

\* Run and attempt agree about uncertainty: a run needs reconciliation exactly
\* while one of its attempts does, through an unknown provider outcome, an
\* uncertain start found by ResumeActive, and an unconfirmed cancellation.
ReconcileAgrees ==
    \A r \in Runs :
        runStatus[r] = "reconcile_required"
        <=> \E i \in Attempts(r) : attempts[r][i].status = "reconcile_required"

\* What an attempt came to is never rewritten, by a late provider result, a
\* retry or a cancellation; only a confirmed cancellation settles one that was
\* in reconcile_required.
OutcomeFinal ==
    [][\A r \in Runs : \A i \in Attempts(r) :
         attempts[r][i].status \in AttemptTerminal =>
            \/ attempts'[r][i] = attempts[r][i]
            \/ /\ attempts[r][i].status = "reconcile_required"
               /\ attempts'[r][i].status = "cancelled"]_vars

\* Where no checkpoint decision brings a waiting run back past the queue, at most
\* scheduler.maxConcurrentRuns runs are running or have a worker, although queue
\* loop, finishing workers and ResumeActive each launch on their own reading of
\* the projections (hasRunCapacityLocked).
Capacity == Cardinality(ActiveRuns) <= Limit

\* A run is not left in the queue or running for ever by a daemon that serves,
\* may schedule, and is asked for nothing by operators.
Settles ==
    \A r \in Runs :
        []<>~(/\ phase = "serving"
              /\ scheduling
              /\ runStatus[r] \in Executable
              /\ \A op \in ControlOps : ~control[r][op].active)

\* Close returns: the workers it cancels end, whatever they were doing.
Drains == phase = "stopping" ~> phase = "down"

\* Pause and Cancel return: the workers they wait for end, although the queue
\* loop may launch the same attempts again meanwhile.
ControlReturns ==
    \A r \in Runs, op \in ControlOps : control[r][op].active ~> ~control[r][op].active

\* Whoever waits for workers gets an answer: Close, Pause and Cancel return.
ControlsReturn == Drains /\ ControlReturns

-----------------------------------------------------------------------------
\* Statements of the documentation that the code does not keep

\* Cancel: "atomically closes every active child plus the run" (control.go).
CancelClosesChildren ==
    \A r \in Runs : runStatus[r] = "cancelled" => \A i \in Attempts(r) : ~Live(r, i)

\* Pause: "The attempt remains non-terminal with its durable provider cursor
\* intact" (control.go): an attempt whose worker is stopped by a pause does not
\* fail, least of all when the provider has reported its success.
PauseKeepsAttempt ==
    [][\A r \in Runs : \A i \in Attempts(r) :
         "pause" \in workers[r][i].by /\ Live(r, i) /\ workers[r][i].result = "succeeded" =>
            attempts'[r][i].status # "failed"]_vars

\* "run scheduling is blocked until startup reconciliation is resolved"
\* (service.go): a daemon whose scheduling is blocked runs no worker.
BlockedRunsNothing ==
    phase = "serving" /\ ~scheduling => \A r \in Runs : AliveIn(r) = {}
=============================================================================
