# Verification of the Darkstar runtime

Darkstar is a local daemon that runs agent workflows on tickets. Its Go runtime
(`src/runtime/src`) keeps all state in one SQLite database: an append-only event
log with projections for works, runs, node visits and attempts, and a few
coordination tables (leases, queue entries, outbox operations, recovery
decisions). A scheduler inside the daemon starts provider sessions, moves
runs along a compiled graph and survives restarts. This directory holds TLA+
models of the parts that decide, TLC configurations that check them on small
instances, and TLAPS proofs of what matters most.

## 1. Inventory

Paths are relative to `src/runtime/src` unless they start with `plugins/`.

| Component | State | Hard behaviour | Correct when |
|---|---|---|---|
| Leases, repository write queue (`sqlite/coordination.go`) | leases, fencing tokens, queue entries | stale capabilities, lost responses, expiry, text-encoded times | one unreleased lease per scope, with the newest token; no overtaking |
| Startup recovery (`core/recovery`, `sqlite/recovery.go`) | the pass, decisions, outbox | a crash inside a pass, a second restart | no lease is left with a dead owner; a daemon that serves has decided everything its predecessors left |
| Run service (`core/runexecution`) | runs, visits, attempts; workers; requests in progress | goroutines against handlers against the queue loop; cancellation while recording; a crash between a provider call and its record | one live attempt per run; run, visit and attempt agree; outcomes are final; the limit holds; runs settle; controls return |
| Event store, projections (`sqlite/events.go`, `core/projection`) | event log, projections, command index | a command that is sent again, a batch that one reducer refuses | a command is applied once; projections equal the fold of the log |
| Routes and advances (`core/workflow`, `workflow_scheduler.go`) | frozen route, tokens, traversal counts | two transactions for one advance; a patch of a route under way | a route can finish; loops are budgeted |
| Workflow catalog and documents (`workflow/catalog.go`, `json.go`, `predicate.go`) | drafts, published versions | concurrent publishers, versions out of order | what is published was seen and stays; documents survive encoding |
| Questions, permissions, attention (`inputs.go`, `permissions.go`, `core/attention`) | recorded answer, delivery, paged queue | a stop between delivery and its record; pages that shift | one answer, nothing skipped |
| Work items (`work_deletion.go`, `worklifecycle`, `workmanagement`) | work, runs, board commands, deletion task | a plan that is stale when applied, passes of a deletion that overlap, approvals asked for meanwhile | one effect per command; deleted only when everything is over |
| Artifacts and reviews (`artifact*`, `lineage`, `artifact_reviews.go`) | blobs, versions, bindings, review rounds | interrupted registration, decisions that race revisions | what is registered is readable; what advances was approved |
| Preparation, readiness, context (`preparation`, `readinesscontrol`, `contextmanifest`) | assessment, decisions, manifests | decisions that race assessments, calls that prepare one context | the route is safe; a recorded decision stands; a context holds what its budget allows |
| Configuration (`configmutation`, `configurationstore`, `config.go`) | files, backups, commands | a repeated command after a crash or beside its first handler, edits by hand | answers are true; no update is lost |
| Daemon lifecycle (`daemon/lifecycle.go`) | lock, state file, endpoint | two starts, a stale identity, cleanup | one daemon per directory |
| Command and provider attempts (`executor/command`, `provider/codex`, `plugins/provider-codex`, SDK) | child process, JSON-RPC session, event stream | stop against completion, lost answers | the result follows the end; every call is answered |
| Backlog and tickets (`backlog`, `sqlite/backlog.go`, `source_runs.go`, `native_tracker.go`) | cached listing, scan generation, bindings | scans against reads, a ticket that changes under a run | every source is scanned; a run keeps its ticket |
| Delivery (`repository`, `delivery`, `pointfinalization`) | worktree, sealed changeset, branch, pull request | a crash between commit, push and record | a push carries what was sealed |
| Event feed, dashboard state | cursor, collections | a stream that breaks, a refresh that fails | ready collections reflect the events; the dashboard catches up |
| Plugin workspaces | files, quota | concurrent writers, torn writes | published files are whole |

Some modelled code has no caller in the daemon yet: route patches
(`workflow/patch.go`), `contextmanifest.Prepare`, the exec adapter
(`codex.NewExecAdapter`), and `pointexecution` with `pointfinalization`. Readiness
assessments are submitted to an authority that, as the daemon wires it
(`cli/readiness_daemon.go:34`), refuses every one. Their models take any caller or
authority that the signatures allow, so that what is shown holds for the one that will
be wired, and invent no policy for it.

The parts that are not modelled are listed in `PROJECT.json` with the reason (see
section 7).

How the parts meet: the daemon command opens the database, runs recovery with a
new instance ID, tells the run service whether scheduling is admitted
(`SetSchedulingAllowed`), lets it look at the attempts that were active
(`ResumeActive`, only when admitted), starts the queue loop, and then serves the
HTTP API. Everything that happens to a run is an append to the event store; the
other services meet in its projections and in the command table, which makes a
request repeatable by its key. On a graceful stop the daemon closes the run service
first and the API after it.

## 2. Modules

| Module | Models |
|---|---|
| `Coordination` | leases, fencing tokens, repository write queue |
| `StartupRecovery` | extends `Coordination` with daemon instances, recovery passes, crashes; the specification of the composed system |
| `FencedLock` | abstract specification: per scope, tokens are granted in sequence, each only when the one before is back |
| `RunExecution` | the run service: queue loop, workers, controls, checkpoints, restart |
| `EventStore` | append with expected revisions and command IDs, the reducers, rebuild |
| `WorkflowGraph`, `RoutePatch` | validation of graphs; freezing and patching a route |
| `WorkflowAdvance` | the two transactions of an advance, with and without a checkpoint between them; tokens, traversal budgets |
| `WorkflowCatalog`, `WorkflowCodec` | drafts and publication; documents and predicates as trees |
| `Interactions`, `AttentionQueue` | questions and permissions; the paged queue and its decisions |
| `WorkDeletion`, `WorkBoard`, `WorkIntake` | deletion, board moves, registration of projects and work |
| `ArtifactStorage`, `ArtifactLineage`, `ArtifactDiff`, `ArtifactReview` | blobs and versions, dependencies and bindings, diffs, review rounds |
| `Preparation`, `ReadinessControl`, `ContextEvidence` | smallest safe route, readiness decisions, the selection of evidence for a context |
| `ConfigMutation`, `ConfigLayers` | changes of configuration files and secrets; the merge of layers |
| `DaemonLifecycle` | start, stop and cleaning of one runtime directory |
| `CommandAttempt`, `PointExecution`, `WorkspaceDelivery` | a command attempt, the points of a plan, worktree to pull request |
| `CodexAttempt`, `ExecAttempt`, `AppServerClient`, `PluginSession`, `PluginAttempt` | provider attempts and both ends of their sessions |
| `Backlog`, `TicketExecution`, `TicketEdit` | scans of a source, tickets of runs, edits of native tickets |
| `EventFeed`, `PluginWorkspace` | the event stream and the dashboard's collections; plugin files |
| `StartupRecoveryProofs`, `RunExecutionProofs` | proofs in modules of their own |
| `MCStartupRecovery`, `MCRunExecution` | constants for TLC |
| `MCWork`, `MCServices`, `MCExecution`, `MCProviders` | suites: several components in one run |

The proofs of `DaemonLifecycle`, `ConfigMutation`, `WorkBoard`, `AttentionQueue` and
`TicketExecution` follow the model in the same module, after its properties. `Interactions`,
`WorkDeletion`, `ArtifactStorage`, `EventStore`, `PluginWorkspace`,
`PointExecution`, `WorkspaceDelivery`, `ExecAttempt` and `TicketEdit` end with their
inductive invariant; `MCWork` holds its proof,
right after the instance it is about. `MCWork` is parameterised by the constants of its
components; `Work.cfg` gives them the values that TLC checks.

In every module one action is one transaction, one call to something outside, or one
atomic file operation; a table is a set of rows or a function; a call that is refused
and changes nothing is a stutter. The correspondence of definitions to lines is in
`PROJECT.json` under `map`.

A suite instantiates components that share no state. A behaviour belongs to one of
them, its `subject`; the variables of the others keep their initial values (pinned
where there are several). A suite's properties are conjunctions, `subject = X =>
property of X`, grouped by what they promise; where a component is instantiated twice
(`Config` and `Secret`, `Prepare` and `Again`, `Queue` and `Decisions`) the two
instances ask about different inputs. Three components have an instance in `MCWork`,
for what is proved, and one in `MCServices`, for a property that stays with TLC:
`PointExecution` (`Points`, `Planned`), `PluginWorkspace` (`Folder`, `Quota`) and
`WorkspaceDelivery` (`Delivery`, `Sealed`).

### Coordination and StartupRecovery

`issued` collects every capability the store has returned: any of them may be
presented at any later time, in any order and any number of times, also by code that
belonged to an earlier daemon. A repeated acquisition (a lost response) is
`AdoptLease`. `Tick` moves the clock, so leases expire under live holders.
`formatTime` is modelled by what it does: it drops trailing zeros, and SQLite
compares the text (`TextRank`); within a second the whole second sorts last.
`Startup`, `RecoverSubject`, `RejectDecision` and `FinishRecovery` are
`Reconciler.Run`; `Crash` may come between any two. `ObserverOutcomes` stands for
the registered observers; the daemon registers none today, and the empty set is an
instance too. Outbox operations are prepared and leased by `PrepareOperation`, a
stand-in for code outside the modelled files.

### RunExecution

| Code | Model |
|---|---|
| run, visit, attempt projections | `runStatus`, `visits`, `attempts` (sequences per run, in order of creation) |
| `Service.workers`, goroutine of `execute` | `workers`: the stage between two transactions, who cancelled its context (`by`), the provider's result, the successor |
| `queueMu` section of `DispatchQueue` | `admission`: picked run, whether its version is stale, whether its entry exists |
| Pause, Cancel between quiesceRun and commit | `control`: active, stale version, the provider's answers |
| launch at the end of a handler | `launching` |
| `schedulingAdmitted`, process phase, loop of ResumeActive | `scheduling`, `phase`, `todo` |

`ReduceRun`, `ReduceNode` and `ReduceAttempt` are the reducers of
`core/projection/reducer.go`. The guards of the actions ask them, since an event that
a reducer refuses makes the store refuse its whole batch. A batch commits whole, so
intermediate states inside a batch are never seen. A read followed by an append is one
step when losing the race only repeats the read, and two steps when the caller keeps
what it decided on the old state (admission, Pause, Cancel). `RunEvent` marks what
others hold as stale. Guidance appends to a run without changing its status; a
completion that loses against it is refused and forgotten (`GuideInterferes`), as in
the code, where the error of that append is dropped.

Of a node the model keeps whether it is builtin, has a checkpoint, is terminal, and
its successors; which successor is taken is free. A provider call or stream may end
in every way its port allows. Continue's extended route is not modelled, only its
effect on the run. The order in which one pass of DispatchQueue goes through the runs
is free.

### What the other modules leave out

Every module's header says which files it models. Data is cut down to what decides: a
document is a member of a small set, a digest is the content itself, a time is a tick or
is left out. Of the listed simplifications the larger ones are: `Backlog` assumes that a
listing does not change within a query and has one ticket per page; `WorkspaceDelivery`
leaves out the mode that works in the current checkout and the removal and relocation of
worktrees; `TicketExecution` abstracts the digests that pin an adapter; `EventFeed` has
no refusal of a cursor older than the log, since the log keeps every event from position
1; `ArtifactDiff` leaves out the answers about content that is too large or not text; in
`WorkBoard` the guards that let only the first idle call send, and a new command take
one unused key only, are reductions, since calls and keys are alike.

## 3. Runs

Passing:

| Run | Instance | Shows |
|---|---|---|
| `startup_recovery` | one scope, two leases, three daemon instances, every observer outcome, one operation | `TypeOK`; `FenceOrder`, `ExclusiveWriter`, `NoInheritedOwner`, `NothingLeftUndecided`, `ReleaseIsExplicit`; `ImplementsLock`, the refinement of `FencedLock` |
| `run_lifecycle` | one run, a provider node with a checkpoint, then a builtin node; every operation, one retry | `TypeOK`, `OneLiveAttempt`, `LiveAttemptHasOpenVisit`, `ClosedRun`, `ReconcileAgrees`, `OutcomeFinal` |
| `run_settles` | two runs, one slot, a checkpoint at the builtin node, a retry each | `Settles` |
| `run_drains` | one run; pause, cancel, guide, stop | `ControlsReturn` |
| `work_artifacts` | `MCWork` | `CommandsApplyOnce`, `ProjectionsFollowTheLog` (EventStore), `AnswersArriveOnce` (Interactions, AttentionQueue twice), `WorkIsDoneOnce` (WorkDeletion, WorkBoard), `ArtifactsAreKept` (ArtifactStorage), `Capacity` (RunExecution, two runs and one slot), `NoOvertaking` (the write queue), `OneDaemonServes` (DaemonLifecycle), `ConfigurationIsTrue` (ConfigMutation twice, ConfigLayers), `FilesAreWhole` (PluginWorkspace), `CommitsAreDelivered` (PointExecution, WorkspaceDelivery), `ExecAttemptIsWhole` (ExecAttempt), `TicketsAreKept` (TicketExecution, TicketEdit) |
| `services` | `MCServices` | `RoutesCanFinish` (RoutePatch, WorkflowAdvance, the plans of PointExecution), `PlannedIsSafe` (Preparation and ReadinessControl, two instances each, and ContextEvidence's selection), `WorkspacesAreSafe` (the content of WorkspaceDelivery's commits, the quota of PluginWorkspace, WorkIntake), `VersionsStayTrue` (WorkflowCatalog, WorkflowCodec, ArtifactLineage, ArtifactDiff) |
| `execution` | `MCExecution`, fair | `CommandIsAccountedFor` (CommandAttempt), `PluginAttemptIsWhole` (PluginAttempt), `BacklogIsScanned` (Backlog) |
| `providers` | `MCProviders`, fair | `CodexAttemptEnds`, `CallsAreAnswered` (AppServerClient, PluginSession), `DashboardCatchesUp` (EventFeed), `ReviewsAreFaithful` (ArtifactReview) |

What a grouped property promises is said at the properties of its components, and its
suite says which of them it joins.

Violations: statements of the repository that the code does not keep. Each is quoted
in `PROJECT.json` under `findings`.

| Run | Shows |
|---|---|
| `scheduling_blocked` | after a second restart a daemon schedules although a subject is still in reconcile_required |
| `cancel_orphan` | a run cancelled while the queue loop admits it keeps an open attempt |
| `pause_fails_attempt` | a pause while a successful result is being recorded fails the attempt |
| `second_resume` | an attempt resumed once cannot be resumed again; its run never settles |

Bounds and why they are enough. One scope suffices for the lease properties, which
speak of one scope each, and the theorems remove the bound. Two leases give one
acquisition after a release, and three instances two restarts, which is what a
half-finished pass and its successor need; lease and instance IDs are symmetric, since
the code compares them for equality only. One run with two visits has an entry, an
advance and an end; runs meet only in the capacity test and in `queueMu`, hence two
runs and one slot there. `MaxRetries` is one: a second retry starts from the same kind
of state as the first. In the suites the rule is two callers on one thing (two clients
of a file, two calls of one key, two daemons of a directory, two entries of the write
queue for one lease), one crash or restart, and
one fault of each kind: an interleaving of two with one interruption is what the
hazards in `PROJECT.json` need, and a third caller repeats what the second does.
Counters that the code leaves unbounded are bounded by constants named `Max...`. Inputs
of pure functions (`WorkflowCodec`, `ConfigLayers`, `Preparation`, `ArtifactDiff`,
`RoutePatch`) are all documents of a small shape, chosen so that every clause of the
function decides one of them. `CHECK_DEADLOCK FALSE` is given because the instances are
finite: a completed run in a stopped daemon, exhausted IDs or a served client is a
legal end.

Fairness. All of it is weak. `RunExecution`: the queue loop ticks every second
(`StartQueue`), goroutines and handlers run on, ResumeActive finishes its loop, and
provider calls and streams end. `ArtifactReview`: the ticker of the recovery pass and
the revision worker. `EventFeed`: the stream is opened again, written and read, and
reads return. `CommandAttempt`: the runner, the observer and a Cancel that was sent.
`Backlog`: the poller's timer of fifteen seconds, its work and the clock.
`PluginAttempt`: the event loop of the plugin and the timers of a stop. `PluginSession`,
`AppServerClient` and `CodexAttempt`: readers, relays and callers are goroutines that
go on when they can, and a process that was killed ends. Operators, crashes and
whether a call succeeds are never fair. `Settles` is stated for a daemon that serves
and may schedule; with pause or crash it fails for the reason `second_resume` shows.

The mutants in `PROJECT.json` break each property by a plausible bug in one mapped
definition.

## 4. Proofs

Theorems hold for every value of the constants that satisfies the named assumptions.

### StartupRecoveryProofs

From `CoordinationAssumption` and `RecoveryAssumption` (positive duration, natural
bounds, item IDs and priorities, known outcomes): `TypeCorrect`, `FencingCorrect`
(`FenceOrder`), `SingleWriter` (`ExclusiveWriter`), `OwnershipRecovered`
(`NoInheritedOwner`), `EverythingDecided` (`NothingLeftUndecided`), `LeasesEndExplicitly`
(`ReleaseIsExplicit`), `WritersInOrder` (`NoOvertaking`) and `LockImplemented`
(`ImplementsLock`).

The inductive invariant is `TypeOK`, `FenceInv` and `OwnersCovered`. `FenceOrder`
alone is not inductive: an acquisition must know that no row has a token above
`lastToken`, that tokens of a scope differ, that a lease ID names one row, and that an
unreleased row has the newest token. `NoInheritedOwner` speaks of serving daemons
only; `OwnersCovered` says of a recovering one that every held or releasing lease of
an earlier instance is still pending. Each step changes the table in one of few ways
(nothing, one row inserted with the next token, one row replaced that keeps identity
and token and does not come back from released); the invariant and the refinement
follow from these. The refinement maps `holding` to the tokens of the unreleased rows
and `last` to `last_fencing_token`: an insertion is a Grant, a release a GiveBack,
everything else a stutter. `DecisionInv` adds that a subject still pending has no
decision of this startup, and that decisions name startups that happened.
`WritersInOrder` rests on what the text comparison of times keeps: whole seconds.

### RunExecutionProofs

From `RunExecutionAssumption` (a route over known nodes, positive limit): `Inductive`,
`TypeCorrect`, `OneLive`, `LiveHasOpenVisit`, `RunsCloseWhole` (`ClosedRun`),
`ReconcileAgree` (`ReconcileAgrees`), `OutcomesFinal` (`OutcomeFinal`),
`OnlyApprovalsExceed` and `LimitHolds`.

`IndInv` says of every run (`RunOK`) the shape of its visits and attempts (`Shape`),
that all visits but the newest succeeded (`OnlyLastOpen`) and have the success that the
next one was created for (`Earned`), that a live attempt is the newest and its visit is
open (`LiveIsLast`), that no retry follows a success in its visit (`SuccessIsLast`),
what a closed run leaves (`ClosedWhenDone`), and that run and attempts agree on
reconciliation (`Agrees`); `WorkersOK`, `IndicesKnown` and `AdmissionFresh` say what a
worker, a handler and an admission in progress may refer to. The strengthening is needed
because completion creates a successor visit and attempt without asking for the status
of the run: that the attempt it completes is the last one, in an open visit, is what
makes the successor the only live attempt. `AdmissionFresh` is needed for the same
reason: the entry attempt is created by an append that names no revision of the run.

The limit is not invariant: an approval takes a waiting run back to running without
asking for a slot. `OnlyApprovalsExceed` says that it is the only step that can
exceed it, and `LimitHolds` that without checkpoint nodes the limit holds for any
number of runs.

### Components of the suites

These theorems state, for any number of actors, the properties that the suites check
on two. `WorkBoard`, `DaemonLifecycle`, `ConfigMutation` and `AttentionQueue` also have
`TypeCorrect`, and `WorkDeletion` has `DeletionTypes`, from the same invariants.

- `Interactions` (in `MCWork`), `AnswersOnce`: the provider receives no answer but the
  recorded one, and what is shown as answered was received. `AnswerInv`: the version of
  the request tells how far it has come, so a call that holds an old version cannot
  record again.
- `WorkDeletion` (in `MCWork`), `DeletionIsWhole`: for any number of runs and of callers whose
  passes overlap each other and the one of the queue loop; TLC checks one run and one caller
  beside the queue. `DeletionInv` says of every pass that what it read of a run is old or
  still true (`ReadHolds`), that what is pending on a run the pass can still close is
  among what it will withdraw (`DueHolds`), and that runs it is done with are over or
  the pass has failed (`CancelHolds`). A checkpoint is asked for with a new version of
  its run, so the pass that did not see it loses on that version; a review is opened
  without one, so it is Cancel, which withdraws what is pending while it holds
  `checkpointMu`, that closes it (`AppendHolds`).
- `DaemonLifecycle`, `LockHolds`, `OneDaemonWrites`, `CleanupIsSafe`, assuming that
  daemons, commands and the words in the files are told apart (`DistinctNames`).
  `LockInv`: who is in a locked phase holds the lock, and a command that decided to
  remove a record removes none of a live daemon, although several writes and removals
  happen without the lock.
- `ConfigMutation`, `NoUpdateLost`, assuming that requests name known files and
  operations (`RequestsKnown`): one handler is between backup and publication, and it
  publishes over what it compared with (`UpdateInv`). `AnswersTrue` has the same
  assumption: deliveries of one key overlap in any way. A success is always true; a
  failure may be answered although the change was made, and then a repetition that
  began beside the first handler made it (section 5). `AnswerInv`: one handler
  inserted the command's row (`OneFirst`) and only it records a failure
  (`FirstRejects`), having made nothing itself. The history variable `held` also takes
  a change that is already in the file when a command begins (two clients that set the
  same value).
- `WorkBoard`, `EffectsOnce`, `LaunchedOnce`. Several calls of one key may be at work,
  each on a plan read earlier. `BoardInv` says which of the three command rows, the
  plan's version or the work item's status holds back which call (`PreparedOnce`,
  `ControlHeld`, `CancelHeld`), that a control and a cancellation of one key exclude
  each other since they need different plans at one version (`SamePlan`, `Apart`),
  and that a plan acted upon is old (`PlansAge`). `LaunchInv` says that the first
  launch of open work makes it active at its second version, which no other run
  prepared while it was open was assessed at.
- `AttentionQueue`, `NoneSkipped`, `DecisionsStand`, assuming that requests have
  numbers and priorities and a page holds at least one (`QueueAssumption`). Every
  request that was open the whole time either was shown or comes after the cursor
  (`Ahead`), and the reads of a page hold it once its table was read; a permission or
  question that moved on before is recorded by then and read next (`Held`). A decision
  is appended at the version that was read, so of two users one is refused
  (`Decided`).
- `TicketExecution`, `TicketIsWhole`, assuming that bounds are numbers and that no run
  has the name of none (`BoundsKnown`). `TicketInv`: lineages and approvals only grow; an
  approval is of a ticket its work was bound to; a work item has one run at work, and
  none once it is deleted (`RunsFit`); no two work items are bound to one ticket
  (`BoundOnce`). That is why a ticket has one execution at a time though the check looks
  only at the runs of one work item, with one exception that `OneExecution` names: a
  completed run that is continued after its work was bound to another ticket.
  `NewestIsKept` needs that a page that was read and not yet committed is newer than
  every row it may replace (`ScanFits`). The approval a run is created from is the
  latest of a non-empty set of numbers (`LeastOf`).

### MCWork

Each component keeps its own variables, so a behaviour of the suite is, seen from one
component, a behaviour of that component (`EachComponent`: `Spec => C!Spec`). With it
the theorems of the components, and the ones below, give the suite's grouped properties
for every value of its constants: `AnsweredOnce` (`AnswersArriveOnce`), `WorkDoneOnce`
(`WorkIsDoneOnce`), `CapacityHolds` (`Capacity`), `WritersServedInOrder`
(`NoOvertaking`), `DaemonServesAlone` (`OneDaemonServes`), `ConfigurationTrue`
(`ConfigurationIsTrue`), `ArtifactsStored` (`ArtifactsAreKept`), `CommandsOnce`
(`CommandsApplyOnce`), `FilesKept` (`FilesAreWhole`), `CommitsDelivered`
(`CommitsAreDelivered`), `ExecAttemptWhole` (`ExecAttemptIsWhole`) and `TicketsKept`
(`TicketsAreKept`). The assumptions are named in the module: bounds are numbers, names
and marks are told apart, plans and scopes have their shape, and what the components
themselves assume. TLC evaluates them on the run's values.

- `ConfigLayers`: `LeavesAreAttributed` is inductive with `TypeOK` (`LayersStep`): a
  layer either decides a path or leaves the attribution as it was.
- `ArtifactStorage`, `StoreInv`: a call that has put its blob, its operation or its
  metadata finds it again, because nothing stored is removed or overwritten; a key's
  operation, once recorded, decides the content of every later call of that key
  (`Published`); a version is readable, alone with its key, and follows the version
  before it or none (`Registered`).
- `EventStore`, `LogInv`: no event of an aggregate has a higher revision than the one
  the store keeps for it, revisions rise and commands differ, of the tables and of a
  transaction at work after each event of its batch alike (`AppendsInOrder`). That the
  projections are the fold of the log is not part of it.
- `PluginWorkspace`, `FilesInv`: who is between taking and releasing the folder's mutex
  is alone (`FileOthersRely`), so the comparison of a replacement holds until the
  rename, and a temporary file belongs to the call that fills it. `WholeStaysWhole`
  alone does not say that the bytes a caller compared with are still there.
- `PointExecution`, `PointsInv`: a call that is about to commit holds a candidate that a
  validator accepted, and every commit above the base is such a candidate on its parent,
  whichever calls overlap, repeat or find the commit of another (`CommitsWereValidated`).
  Which point is executed, and whether a person approves, is left to the caller; that a
  valid plan never waits for itself (`PlanGoesOn`) is checked by TLC on all plans of three
  points.
- `WorkspaceDelivery`, `DeliveryInv`: while a visit lasts, what it pinned is about the
  head that is recorded (`OnRecord`), so the commit it makes or finds again after a
  crash follows the last delivered one (`LastIsRecorded`); a job that sends has seen a
  tip its own history extends, and a job that creates a pull request has seen none of
  its own (`MayAct`), whatever others push or open in between.
- `ExecAttempt`, `ExecInv`: a process belongs to a pump that has not decided, and a
  decision keeps what was seen, so a success is about a whole session also after the
  registry of the daemon was lost and read again. `ResultAfterExit` and
  `SuccessIsWhole` alone are not inductive.
- `TicketEdit`, `EditInv`, assuming that a ticket has a state to begin with and calls are
  counted (`EditsKnown`): a call carries its command's request and the target that its
  revision was authorised for (`CallFits`), and the journal, the history, the commands
  and the answers tell of the same operations (`HistoryFits`, `RowsFit`, `AnswersFit`).
  None of the tables goes back (`TablesGrow`), so what a call read at one step still
  holds at a later one, whatever calls of the same key do in between.

Every inductive invariant was an invariant of a TLC run before it was proved.

### Only model-checked

Liveness (`Settles`, `ControlsReturn` and the eventualities of `execution` and
`providers`) is outside the prover's reach. What recursive functions and folds compute
needs induction over data: `ProjectionsFollowTheLog` (the projections against the log),
the selection of evidence (`SelectionIsSound`), the plans of points (`PlanGoesOn`), the quota (`QuotaHolds`), the diffs, the
codec, the smallest safe route, and reachability in routes and lineage; these
components, and with them `MCServices`, use recursive operators, which the prover does not
read. `SealedIsCommitted` holds only within its bound (section 5). The evidence of
`WorkIntake` is a fold as well. `WorkflowCatalog`, `ReadinessControl` and the modules of
`execution` and `providers`, except for `ExecAttempt`, have no theorem.

## 5. Observations

Behaviour met while modelling that no run reports as a violation, because no document
of the repository promises otherwise or because nothing in production reaches it.

Run service. An approval launches work while scheduling is blocked (`service.go:1459`).
An approval takes a run to running without a slot. A continued run with attempts is
never admitted again. A worker launched between Cancel's quiesceRun and its commit
still calls the provider. Two queue entries of the same second may be ordered against
their times.

Work board and intake. A command whose effect was applied before a stop is answered
with a version conflict on its retry. Two preparations that race on active work can
both be launched. A stop between the begin and the append of an intake, or of the
compatibility scenario (`service.go:1091`), leaves its key in progress for ever. Two
overlapping registrations of one source with different keys make two projects.

Questions and reviews. An item that moves between the reads of the queue may be listed
twice. A review decided through the approval command with request_changes has nobody
who opens its next round. The resume endpoint for agent responses can detach a revision
attempt that is running.

Configuration. A repeated restore or secret takes any changed revision for its own
write (`configmutation/service.go:312`, `:368`). A resend that overlaps its first
attempt can be answered "rejected" though the change was made. An edit by hand during
a write is lost. An empty mapping that a higher layer fills keeps its old source entry.

Routes and documents. The scheduler ignores joins and fan-out. The validator accepts an
`all` join at the head of a loop. A binding may name a predecessor on a branch that is
skipped. Versions "01.0.0" and "1.0.0" are equal in order and differ in identity. `eq`
of 1 and 1.0 is false while `lte` and `gte` hold, by test.

Artifacts and context. A dependency added after its source was superseded leaves the
dependent current. A diff answered "unsupported" before extraction is refused with a
conflict after it (`artifactops/service.go:587`). Of two preparations of one attempt
the loser is told that the context is frozen.

Attempts. In `adapter.go` the pump can pass a nil cause to failPump. A journal that
rejects a call releases a command's resources while it runs. In the plugin a stop that
overlaps an observation can repeat a sequence number (`index.ts:713`), and the host
then refuses the stream. `git worktree add -b` that is interrupted leaves a branch that
no retry accepts. A commit node pins its candidate, compares the files with the sealed
digest (`workflow_delivery.go:171`) and captures the candidate again, at three
different times; three edits from outside that put back what each of them expects
get a tree committed that is not the sealed one. The run for `SealedIsCommitted` allows
one such edit; with three, TLC finds this behaviour.

Backlog and files. A completed run can be continued after its work was bound to another
ticket, beside a run of the work the old ticket belongs to now. A ticket that left the query between a failed exact read and the
next scan stays marked as matching. An edit that `updateFields` refuses is refused on
every retry, after its intent was saved. Interrupted replacements of plugin files count
against the quota and are not removed.

Dashboard and commands. A refresh that fails is not repeated before the next event;
`agent logs --follow` can miss the end of a log; while a daemon closes, its endpoint is
gone and its state still says running.

## 6. Plan

Done: every component of `MCWork` has its theorem, except for the fold of the event
store. Left:

1. The adapters and the session of `providers`: that a client releases what it holds
   before it closes (`ReleasedBeforeClose`) and the other safety parts of its groups,
   which need no fairness.
2. `WorkflowCatalog`, as `MCWork` does it, in a suite that reaches no recursive operator.
3. `WorkspaceDelivery`: `SealedIsCommitted`, once the candidate is compared with the
   sealed digest and not the files.

## 7. Not modelled

What is outside the models, and why, is listed per component in `PROJECT.json`: prompts,
transcripts and exports; catalogues of capabilities, profiles and nodes; the content
library and the workflow chat; tracker adapters and content processors; the plugin
host's processes; late evidence, which only proposes; HTTP transport, doctor and
platform code; the dashboard's views. They compute views, move files or wrap external
programs, whose answers the models leave free. The map names about three tenths of the
runtime's lines.
