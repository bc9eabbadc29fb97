---------------------------- MODULE MCWork ----------------------------
(***************************************************************************)
(* The event store, the services of work items and artifacts, and what runs*)
(* and daemons compete for: the slots of the scheduler, the repository write*)
(* queue, the runtime directory and the files of the configuration.  They  *)
(* share no state here: a behaviour belongs to one of them, its subject, and*)
(* the others stay in their initial states.  TLC checks it on the instance of*)
(* Work.cfg; what is proved at the end holds for every instance.           *)
(***************************************************************************)
EXTENDS Naturals, Sequences, FiniteSets, FiniteSetTheorems, WellFoundedInduction, TLAPS

CONSTANTS
    \* EventStore
    EventsScopes, EventsMaxEvents,
    \* Interactions
    QuestionUsers, QuestionMaxRestarts,
    \* WorkDeletion
    DeletionRuns, DeletionCallers, DeletionMaxRestarts, DeletionMaxVersion,
    DeletionMaxReviews,
    \* ArtifactStorage
    StorageCalls, StorageKeys, StorageDocuments, StorageUnsafe, StorageMaxVersions,
    StorageMaxRequests,
    \* WorkBoard
    BoardCalls, BoardKeys, BoardMaxRuns, BoardMaxPos, BoardMaxStops,
    \* AttentionQueue
    QueueItems, QueueSource, QueueWork, QueuePriority, QueueLimit, QueueUsers,
    QueueMaxPages,
    \* AttentionQueue
    DecisionsItems, DecisionsSource, DecisionsWork, DecisionsPriority, DecisionsLimit,
    DecisionsUsers, DecisionsMaxPages,
    \* DaemonLifecycle
    DaemonDaemons, DaemonClients, DaemonMaxDeaths,
    \* RunExecution
    SlotsRuns, SlotsNodes, SlotsEntry, SlotsSuccessors, SlotsTerminals,
    SlotsBuiltinNodes, SlotsLimit, SlotsMaxVisits, SlotsMaxRetries, SlotsOperations,
    \* StartupRecovery
    WritersLeaseIds, WritersScopes, WritersHolders, WritersDaemons, WritersQueueItems,
    WritersPriorities, WritersDuration, WritersTicksPerSecond, WritersMaxTime,
    WritersMaxToken, WritersEvidence, WritersOpIds, WritersObserverOutcomes,
    \* ConfigMutation
    ConfigRequests, ConfigFiles, ConfigSends, ConfigMaxCrashes, ConfigMaxFailures,
    ConfigMaxEdits,
    \* ConfigMutation
    ClientsRequests, ClientsFiles, ClientsSends, ClientsMaxCrashes, ClientsMaxFailures,
    ClientsMaxEdits,
    \* ConfigMutation
    SecretRequests, SecretFiles, SecretSends, SecretMaxCrashes, SecretMaxFailures,
    SecretMaxEdits,
    \* ConfigLayers
    LayersScopes, LayersLayers,
    \* PluginWorkspace
    FolderCallers, FolderAttemptOf, FolderNames, FolderContents, FolderSize,
    FolderKeys, FolderAreaBytes, FolderAreaFiles, FolderMaxCalls,
    \* PointExecution
    PointsPlans, PointsTrees, PointsCallers, PointsOperations, PointsMaxCommits,
    \* WorkspaceDelivery
    DeliveryTrees, DeliveryPlan, DeliveryMaxCrashes, DeliveryMaxLost, DeliveryMaxStray,
    DeliveryMaxRemote,
    \* ExecAttempt
    ExecMaxFrames, ExecMaxStarts,
    \* TicketExecution
    TicketTickets, TicketRevisions, TicketUnfit, TicketRuns, TicketCallers,
    TicketMaxAge, TicketMaxTime, TicketMaxBinding, TicketMaxLineage, TicketMaxEvents,
    \* TicketEdit
    EditCallers, EditKeys, EditEdits, EditBadIds, EditUnfit, EditStates, EditMaxCalls

VARIABLES subject,
    \* EventStore
    eventsKinds, eventsLog, eventsRevision, eventsProjection, eventsManifest,
    \* Interactions
    questionRequest, questionOwner, questionAdapter, questionReceived, questionCalls,
    questionRestarts,
    \* WorkDeletion
    deletionWork, deletionRun, deletionAttempt, deletionControl, deletionReview,
    deletionTask, deletionHolder, deletionCancelled, deletionRestarts,
    \* ArtifactStorage
    storageBlobs, storageOperations, storageMetadata, storageVersions, storageTexts,
    storageAudit, storageCall, storageRequests,
    \* WorkBoard
    boardWork, boardRuns, boardPos, boardRequest, boardCommand, boardPrepared,
    boardControlled, boardEffects, boardCall, boardStops,
    \* AttentionQueue
    queueStatus, queueOwner, queueKept, queueReader, queueShown, queueSteady,
    queueDecision, queueVersion, queueCall,
    \* AttentionQueue
    decisionsStatus, decisionsOwner, decisionsKept, decisionsReader, decisionsShown,
    decisionsSteady, decisionsDecision, decisionsVersion, decisionsCall,
    \* DaemonLifecycle
    daemonFile, daemonEndpoint, daemonLock, daemonDaemon, daemonSignalled,
    daemonClient, daemonDeaths,
    \* RunExecution
    slotsPhase, slotsScheduling, slotsTodo, slotsRunStatus, slotsVisits, slotsAttempts,
    slotsWorkers, slotsLaunching, slotsAdmission, slotsControl,
    \* StartupRecovery
    writersNow, writersLeases, writersLastToken, writersQueue, writersIssued,
    writersPhase, writersDaemon, writersUsedIds, writersOps, writersPending,
    writersReport, writersDecisions, writersScheduling,
    \* ConfigMutation
    configFile, configBackup, configCommand, configEvent, configExpected, configSent,
    configHandler, configHeld, configMade, configByHand, configResent, configReplaced,
    configCrashes, configFailures, configEdits,
    \* ConfigMutation
    clientsFile, clientsBackup, clientsCommand, clientsEvent, clientsExpected,
    clientsSent, clientsHandler, clientsHeld, clientsMade, clientsByHand,
    clientsResent, clientsReplaced, clientsCrashes, clientsFailures, clientsEdits,
    \* ConfigMutation
    secretFile, secretBackup, secretCommand, secretEvent, secretExpected, secretSent,
    secretHandler, secretHeld, secretMade, secretByHand, secretResent, secretReplaced,
    secretCrashes, secretFailures, secretEdits,
    \* ConfigLayers
    layersLayer, layersMerged, layersValues, layersSources,
    \* PluginWorkspace
    folderFiles, folderTemps, folderWhole, folderMu, folderCalls, folderArtifacts,
    folderAttached, folderAnswers, folderStarted,
    \* PointExecution
    pointsFiles, pointsHistory, pointsSealed, pointsCall,
    \* WorkspaceDelivery
    deliveryStage, deliveryJob, deliveryMain, deliveryRecord, deliveryWork,
    deliverySealed, deliveryIntent, deliveryPublished, deliveryAccepted,
    deliveryRemote, deliveryPulls, deliveryCrashes, deliveryLost, deliveryStray,
    deliveryForeign,
    \* ExecAttempt
    execAttempt, execSeen, execChild, execStdout, execRecord, execSchemaFile,
    execStarts,
    \* TicketExecution
    ticketClock, ticketSelected, ticketScan, ticketCache, ticketLost, ticketWorks,
    ticketLineages, ticketChecks, ticketAdmissions, ticketRuns, ticketCalls,
    ticketEvents,
    \* TicketEdit
    editTicket, editHistory, editOperations, editCommands, editTargets, editCalls,
    editAnswers, editStarted

\* Event kinds appended together in one behaviour of the event store.
EventScopes ==
    { ({"work"} \X {"work.created", "work.deletion_requested", "work.deleted"})
      \cup ({"run"} \X {"run.created", "run.started", "run.completed", "run.continued"}),
      ({"work"} \X {"work.created", "work.deletion_requested", "work.deleted"})
      \cup ({"run"} \X {"run.created", "run.cancelled"})
      \cup ({"attempt"} \X {"attempt.created", "attempt.reconcile_required",
                           "attempt.cancellation_reconciled"}),
      {"attempt"} \X {"attempt.created", "attempt.started", "attempt.provider_event",
                      "attempt.resumed", "attempt.result_received", "attempt.succeeded"},
      ({"run"} \X {"run.created"})
      \cup ({"approval"} \X {"approval.requested", "approval.feedback_submitted",
                            "approval.agent_responded/revised", "approval.decided/approve",
                            "approval.cancelled"}) }
\* Candidates for a context of five tokens: two required ones that do not fit
\* together, one that may not be used, and one that fits with the smaller.
BoundEvidence ==
    {[id |-> "ticket", required |-> TRUE, rank |-> 3, tokens |-> 2, eligible |-> TRUE],
     [id |-> "plan", required |-> TRUE, rank |-> 4, tokens |-> 4, eligible |-> TRUE],
     [id |-> "log", required |-> FALSE, rank |-> 1, tokens |-> 3, eligible |-> TRUE],
     [id |-> "note", required |-> FALSE, rank |-> 2, tokens |-> 1, eligible |-> FALSE]}

\* A change that is delivered twice, two clients of a configuration file, and
\* two secrets.
ConfigRequestSet == {[id |-> 1, op |-> "set", file |-> "user", val |-> "a"]}
ClientRequestSet ==
    {[id |-> 1, op |-> "set", file |-> "user", val |-> "a"],
       [id |-> 2, op |-> "restore", file |-> "user", val |-> "a"]}
SecretRequestSet ==
    {[id |-> 1, op |-> "secret", file |-> "secrets", val |-> "s"],
       [id |-> 2, op |-> "secret", file |-> "secrets", val |-> "t"]}

\* Every document over two keys, the first a value, a mapping, an empty one or absent.
Leaf(p, v) == [q \in {p} |-> v]
LayerDocuments ==
    {[p \in {} |-> "x"], Leaf(<<"a">>, "x"), Leaf(<<"a">>, "{}"), Leaf(<<"a", "b">>, "x"),
       Leaf(<<"a", "c">>, "y"),
     Leaf(<<"a", "b">>, "{}"), Leaf(<<"a", "b", "d">>, "x"),
     [p \in {<<"a", "b">>, <<"a", "c">>} |-> "z"], [p \in {<<"a">>, <<"e">>} |-> "w"]}

PlanPoint(id, position, deps, risks) ==
    [id |-> id, story |-> "s", position |-> position, deps |-> deps, risks |-> risks]
\* A plan of two points, and one that waits for itself.
StoryPlans ==
    {[points |-> <<PlanPoint("a", 2, da, {}), PlanPoint("b", 1, {}, {})>>, mode |-> "none", tags |-> {}] :
         da \in {{"b"}, {"a"}}}

\* Values for TLC that a configuration file cannot hold.
MCQueueSource == <<"approval", "input", "permission">>
MCQueueWork == <<"w1", "w1", "w2">>
MCQueuePriority == [w \in {"w1", "w2"} |-> IF w = "w2" THEN 2 ELSE 1]
MCDecisionsSource == <<"approval", "preparation">>
MCDecisionsWork == <<"w1", "w1">>
MCDecisionsPriority == [w \in {"w1"} |-> 1]
MCSlotsSuccessors == [n \in {"plan"} |-> {}]
MCLayersScopes == <<"default", "user", "cli">>
MCFolderAttemptOf == [c \in {"c1", "c2"} |-> "a1"]
MCFolderSize == [d \in {"x", "yy"} |-> IF d = "x" THEN 1 ELSE 2]
MCDeliveryPlan == <<"prepare", "edit", "commit", "push", "edit", "commit", "push", "pr">>
MCTicketRevisions == 1..2
MCTicketUnfit == {<<"b", 2>>}

-----------------------------------------------------------------------------
(* Edits of a ticket: what was answered was applied, once.                   *)

Edit == INSTANCE TicketEdit WITH
        Callers <- EditCallers, Keys <- EditKeys, Edits <- EditEdits,
        BadIds <- EditBadIds, Unfit <- EditUnfit, States <- EditStates,
        MaxCalls <- EditMaxCalls, ticket <- editTicket, history <- editHistory,
        operations <- editOperations, commands <- editCommands, targets <- editTargets,
        calls <- editCalls, answers <- editAnswers, started <- editStarted

\* A ticket has a state to begin with, and calls are counted.
ASSUME EditAssumption == Edit!EditsKnown

\* What the tables say never goes back.
TablesGrow ==
    \A o \in Edit!Operations :
       /\ editCommands[o].status # "absent" => editCommands'[o].status # "absent" /\
             editCommands'[o].request = editCommands[o].request
       /\ editCommands[o].status = "completed" => editCommands'[o] = editCommands[o]
       /\ Edit!journalled(o) => editOperations'[o] = editOperations[o]
\* Only the call of c changes, to x.
CallMovesTo(c, x) == editCalls' = [editCalls EXCEPT ![c] = x]

\* A call that moves, and those that do not.
LEMMA CallMoves ==
    ASSUME Edit!EditTypes, NEW c \in EditCallers, NEW x, CallMovesTo(c, x)
    PROVE  /\ editCalls' = [d \in EditCallers |-> editCalls'[d]] /\ editCalls'[c] = x
           /\ \A d \in EditCallers \ {c} : editCalls'[d] = editCalls[d]
  BY DEF Edit!EditTypes, CallMovesTo

\* What is not absent is journalled for good.
LEMMA JournalStays ==
    ASSUME TablesGrow, NEW o \in Edit!Operations, Edit!journalled(o) PROVE Edit!journalled(o)'
  BY DEF TablesGrow, Edit!journalled

\* A call that does not move goes on fitting.
LEMMA OthersFit ==
    ASSUME Edit!EditInv, TablesGrow, NEW d \in EditCallers, editCalls'[d] = editCalls[d] PROVE Edit!CallFits(d)'
  <1>1. Edit!CallFits(d)
    BY DEF Edit!EditInv
  <1>2. CASE editCalls[d] = Edit!Idle
    BY <1>2 DEF Edit!CallFits
  <1>3. CASE editCalls[d] # Edit!Idle
    <2> DEFINE x == editCalls[d]
    <2>1. /\ x.op \in Edit!Operations /\ editCommands[x.op].status # "absent" /\
                editCommands[x.op].request = x.request
          /\ x.pc = "replay" => editCommands[x.op].status = "completed"
          /\ x.pc \in Edit!Applied => Edit!journalled(x.op)
      BY <1>1, <1>3 DEF Edit!CallFits
    <2>2. /\ editCommands'[x.op].status # "absent" /\ editCommands'[x.op].request = x.request
          /\ x.pc = "replay" => editCommands'[x.op].status = "completed"
      BY <2>1 DEF TablesGrow
    <2>3. x.pc \in Edit!Applied => editOperations'[x.op] # Edit!Absent
      BY <2>1, JournalStays DEF Edit!journalled
    <2> QED
      BY <1>1, <1>3, <2>2, <2>3 DEF Edit!CallFits, Edit!journalled
  <1> QED
    BY <1>2, <1>3

\* A step that changes one call and nothing else.
LEMMA OnlyCall ==
    ASSUME Edit!EditInv, NEW c \in EditCallers, NEW x, CallMovesTo(c, x), Edit!CallFits(c)',
           UNCHANGED <<editTicket, editHistory, editOperations, editCommands, editTargets, editAnswers,
              editStarted>>
    PROVE  Edit!EditInv'
  <1>1. TablesGrow
    BY DEF TablesGrow
  <1>2. \A d \in EditCallers : Edit!CallFits(d)'
    BY <1>1, CallMoves, OthersFit DEF Edit!EditInv
  <1>3. Edit!EditTypes'
    BY CallMoves DEF Edit!EditInv, Edit!EditTypes
  <1>4. Edit!HistoryFits' /\ Edit!RowsFit' /\ Edit!AnswersFit'
    BY DEF Edit!EditInv, Edit!HistoryFits, Edit!EditsFollowWhatWasSeen, Edit!journalled, Edit!RowsFit,
       Edit!AnswersFit, Edit!Shows
  <1> QED
    BY <1>2, <1>3, <1>4 DEF Edit!EditInv

\* A call that is refused.
LEMMA Refused ==
    ASSUME Edit!EditInv, NEW c \in EditCallers, Edit!Refuse(c),
           UNCHANGED <<editTicket, editHistory, editOperations, editCommands, editTargets, editStarted>>
    PROVE  Edit!EditInv'
  <1>1. CallMovesTo(c, Edit!Idle) /\ UNCHANGED editAnswers
    BY DEF Edit!Refuse, CallMovesTo
  <1>2. Edit!CallFits(c)'
    BY <1>1, CallMoves DEF Edit!EditInv, Edit!CallFits
  <1> QED
    BY <1>1, <1>2, OnlyCall

\* A call that is not idle, as the invariant describes it.
CallIsBusy(c, x) ==
    /\ x = editCalls[c] /\ x = Edit!Call(x.pc, x.op, x.request, x.target, x.value)
    /\ x.op \in Edit!Operations /\ x.request \in Edit!Requests
    /\ editCommands[x.op].status # "absent" /\ editCommands[x.op].request = x.request
    /\ x.pc = "replay" => editCommands[x.op].status = "completed"
    /\ x.pc \in Edit!Authorised => x.target.revision = x.request.revision
    /\ x.pc = "mutating" => x.value \in Edit!TicketRows /\ x.value.revision = x.request.revision + 1
    /\ x.pc \in Edit!Applied => Edit!journalled(x.op)
    /\ x.pc = "detailed" => Edit!Shows(x.value.history, x.op, x.request)

\* A call that is not idle is one of these.
LEMMA IsBusy == ASSUME Edit!EditInv, NEW c \in EditCallers, ~Edit!At(c, "idle")
  PROVE CallIsBusy(c, editCalls[c])
  <1>1. Edit!CallFits(c) /\ editCalls[c] # Edit!Idle
    BY DEF Edit!EditInv, Edit!At, Edit!Idle
  <1> QED
    BY <1>1 DEF Edit!CallFits, CallIsBusy

\* A call that moves on with its operation and request fits when what p asks for holds.
LEMMA GoesOn ==
    ASSUME Edit!EditInv, NEW c \in EditCallers, CallIsBusy(c, editCalls[c]), NEW p, NEW t, NEW v,
           CallMovesTo(c, Edit!Call(p, editCalls[c].op, editCalls[c].request, t, v)),
           p \in {"begun", "authorizing"} \cup Edit!Authorised \cup Edit!Applied,
           p \in Edit!Authorised => t.revision = editCalls[c].request.revision,
           p = "mutating" => v \in Edit!TicketRows /\ v.revision = editCalls[c].request.revision + 1,
           p \in Edit!Applied => Edit!journalled(editCalls[c].op),
           p = "detailed" => Edit!Shows(v.history, editCalls[c].op, editCalls[c].request),
           UNCHANGED <<editTicket, editHistory, editOperations, editCommands, editTargets, editAnswers,
              editStarted>>
    PROVE  Edit!EditInv'
  <1> DEFINE x == editCalls[c]
             y == Edit!Call(p, x.op, x.request, t, v)
  <1>3. editCalls'[c] = y
    BY CallMoves DEF Edit!EditInv
  <1>4. /\ y = Edit!Call(y.pc, y.op, y.request, y.target, y.value) /\ y.pc = p /\ y.op = x.op
        /\ y.request = x.request /\ y.target = t /\ y.value = v /\ p # "replay"
    BY DEF Edit!Call, Edit!Authorised, Edit!Applied
  <1>5. Edit!CallFits(c)'
    <2> HIDE DEF y
    <2> QED
      BY <1>3, <1>4 DEF Edit!CallFits, CallIsBusy, Edit!journalled
  <1> QED
    BY <1>5, OnlyCall

\* What a step of a call is, in the form of the lemmas.
LEMMA StepMoves ==
    ASSUME Edit!EditInv, NEW c \in EditCallers, CallIsBusy(c, editCalls[c]), NEW p, NEW t
    PROVE  /\ Edit!Goto(c, p) => CallMovesTo(c, Edit!Call(p, editCalls[c].op, editCalls[c].request,
               editCalls[c].target, editCalls[c].value))
           /\ editCalls' = [editCalls EXCEPT ![c].pc = p, ![c].target = t] =>
                 CallMovesTo(c, Edit!Call(p, editCalls[c].op, editCalls[c].request, t, editCalls[c].value))
           /\ editCalls' = [editCalls EXCEPT ![c].pc = p, ![c].value = t] =>
                 CallMovesTo(c, Edit!Call(p, editCalls[c].op, editCalls[c].request, editCalls[c].target, t))
  <1>0. PICK x : x = editCalls[c]
    OBVIOUS
  <1>1. x = Edit!Call(x.pc, x.op, x.request, x.target, x.value)
    BY <1>0 DEF CallIsBusy
  <1>2. editCalls = [d \in EditCallers |-> editCalls[d]]
    BY DEF Edit!EditInv, Edit!EditTypes
  <1>3. Edit!Goto(c, p) => CallMovesTo(c, [x EXCEPT !.pc = p])
    BY <1>0, <1>2 DEF Edit!Goto, CallMovesTo
  <1>4. editCalls' = [editCalls EXCEPT ![c].pc = p, ![c].target = t] =>
           CallMovesTo(c, [x EXCEPT !.pc = p, !.target = t])
    BY <1>0, <1>2 DEF CallMovesTo
  <1>5. editCalls' = [editCalls EXCEPT ![c].pc = p, ![c].value = t] =>
           CallMovesTo(c, [x EXCEPT !.pc = p, !.value = t])
    BY <1>0, <1>2 DEF CallMovesTo
  <1>6. /\ [x EXCEPT !.pc = p] = Edit!Call(p, x.op, x.request, x.target, x.value)
        /\ [x EXCEPT !.pc = p, !.target = t] = Edit!Call(p, x.op, x.request, t, x.value)
        /\ [x EXCEPT !.pc = p, !.value = t] = Edit!Call(p, x.op, x.request, x.target, t)
    <2>1. ASSUME NEW a, NEW o, NEW r, NEW b, NEW e
          PROVE  [Edit!Call(a, o, r, b, e) EXCEPT !.pc = p] = Edit!Call(p, o, r, b, e)
      BY DEF Edit!Call
    <2>2. ASSUME NEW a, NEW o, NEW r, NEW b, NEW e
          PROVE  [Edit!Call(a, o, r, b, e) EXCEPT !.target = t] = Edit!Call(a, o, r, t, e)
      BY DEF Edit!Call
    <2>3. ASSUME NEW a, NEW o, NEW r, NEW b, NEW e
          PROVE  [Edit!Call(a, o, r, b, e) EXCEPT !.value = t] = Edit!Call(a, o, r, b, t)
      BY DEF Edit!Call
    <2> DEFINE y == [x EXCEPT !.pc = p]
    <2>4. y = Edit!Call(p, x.op, x.request, x.target, x.value)
      BY <1>1, <2>1
    <2>5. [x EXCEPT !.pc = p, !.target = t] = [y EXCEPT !.target = t] /\
             [x EXCEPT !.pc = p, !.value = t] = [y EXCEPT !.value = t]
      OBVIOUS
    <2> HIDE DEF y
    <2>6. [y EXCEPT !.target = t] = Edit!Call(p, x.op, x.request, t, x.value)
      BY <2>2, <2>4
    <2>7. [y EXCEPT !.value = t] = Edit!Call(p, x.op, x.request, x.target, t)
      BY <2>3, <2>4
    <2> QED
      BY <2>4, <2>5, <2>6, <2>7 DEF y
  <1>7. Edit!Goto(c, p) => CallMovesTo(c, Edit!Call(p, x.op, x.request, x.target, x.value))
    BY <1>3, <1>6
  <1>8. editCalls' = [editCalls EXCEPT ![c].pc = p, ![c].target = t] =>
           CallMovesTo(c, Edit!Call(p, x.op, x.request, t, x.value))
    BY <1>4, <1>6
  <1>9. editCalls' = [editCalls EXCEPT ![c].pc = p, ![c].value = t] =>
           CallMovesTo(c, Edit!Call(p, x.op, x.request, x.target, t))
    BY <1>5, <1>6
  <1> QED
    BY <1>0, <1>7, <1>8, <1>9

\* The steps that only move their call.
LEMMA CallsGo ==
    ASSUME Edit!EditInv, NEW c \in EditCallers,
           \/ Edit!Authorize(c) \/ Edit!Reconcile(c) \/ Edit!Preflight(c) \/ Edit!ApplyPrior(c) \/
                 Edit!ApplyInspect(c)
           \/ Edit!ApplyDerive(c) \/ Edit!DetailReads(c) \/ Edit!DetailInspects(c) \/ Edit!DetailHistory(c)
    PROVE  Edit!EditInv'
  <1> DEFINE x == editCalls[c]
  <1>1. CallIsBusy(c, x)
    BY IsBusy DEF Edit!Authorize, Edit!Reconcile, Edit!Preflight, Edit!ApplyPrior, Edit!ApplyInspect,
       Edit!ApplyDerive, Edit!DetailReads, Edit!DetailInspects,
       Edit!DetailHistory, Edit!At
  <1>2. UNCHANGED <<editTicket, editHistory, editOperations, editCommands, editTargets, editStarted>>
    BY DEF Edit!Authorize, Edit!Reconcile, Edit!Preflight, Edit!ApplyPrior, Edit!ApplyInspect,
       Edit!ApplyDerive, Edit!DetailReads, Edit!DetailInspects,
       Edit!DetailHistory
  <1>3. CASE Edit!Refuse(c)
    BY <1>2, <1>3, Refused
  <1>4. ASSUME NEW p, Edit!Goto(c, p), UNCHANGED editAnswers,
               p \in {"planned", "absent", "checked", "applying", "deriving"}, x.pc \in Edit!Authorised
        PROVE  Edit!EditInv'
    <2>1. CallMovesTo(c, Edit!Call(p, x.op, x.request, x.target, x.value)) /\
             x.target.revision = x.request.revision
      BY <1>1, <1>4, StepMoves DEF CallIsBusy
    <2> QED
      BY <1>1, <1>2, <1>4, <2>1, GoesOn DEF Edit!Authorised, Edit!Applied
  <1>5. ASSUME NEW p, Edit!Goto(c, p), UNCHANGED editAnswers, p \in {"applied", "inspected"},
               Edit!journalled(x.op)
        PROVE  Edit!EditInv'
    <2>1. CallMovesTo(c, Edit!Call(p, x.op, x.request, x.target, x.value))
      BY <1>1, <1>5, StepMoves
    <2> QED
      BY <1>1, <1>2, <1>5, <2>1, GoesOn DEF Edit!Authorised, Edit!Applied
  <1>6. CASE Edit!Authorize(c) /\ ~Edit!Refuse(c)
    <2> DEFINE t == [revision |-> Edit!Inspect.revision, state |-> Edit!Inspect.state]
    <2>1. /\ editCalls' = [editCalls EXCEPT ![c].pc = "authorized", ![c].target = t] /\ UNCHANGED editAnswers
          /\ Edit!authorised(x.request, t)
      BY <1>6 DEF Edit!Authorize
    <2>2. t.revision = x.request.revision
      BY <2>1 DEF Edit!authorised
    <2> HIDE DEF t
    <2>3. CallMovesTo(c, Edit!Call("authorized", x.op, x.request, t, x.value))
      BY <1>1, <2>1, StepMoves
    <2>4. "authorized" \in Edit!Authorised /\ "authorized" \notin Edit!Applied
      BY DEF Edit!Authorised, Edit!Applied
    <2> QED
      BY <1>1, <1>2, <2>1, <2>2, <2>3, <2>4, GoesOn
  <1>7. CASE Edit!Reconcile(c) /\ ~Edit!Refuse(c)
    <2>1. x.pc \in Edit!Authorised
      BY <1>7 DEF Edit!Reconcile, Edit!At, Edit!Authorised
    <2>2. CASE Edit!Goto(c, "applied") /\ Edit!journalled(x.op) /\ UNCHANGED editAnswers
      BY <1>5, <2>2
    <2>3. CASE Edit!Goto(c, "absent") /\ UNCHANGED editAnswers
      BY <1>4, <2>1, <2>3
    <2> QED
      BY <1>7, <2>2, <2>3 DEF Edit!Reconcile
  <1>8. CASE Edit!Preflight(c) /\ ~Edit!Refuse(c)
    <2>1. Edit!Goto(c, "checked") /\ UNCHANGED editAnswers /\ x.pc \in Edit!Authorised
      BY <1>8 DEF Edit!Preflight, Edit!At, Edit!Authorised
    <2> QED
      BY <1>4, <2>1
  <1>9. CASE Edit!ApplyPrior(c)
    <2>1. x.pc \in Edit!Authorised /\ UNCHANGED editAnswers
      BY <1>9 DEF Edit!ApplyPrior, Edit!At, Edit!Authorised
    <2>2. CASE Edit!journalled(x.op)
      BY <1>5, <1>9, <2>1, <2>2 DEF Edit!ApplyPrior
    <2>3. CASE ~Edit!journalled(x.op)
      BY <1>4, <1>9, <2>1, <2>3 DEF Edit!ApplyPrior
    <2> QED
      BY <2>2, <2>3
  <1>10. CASE Edit!ApplyInspect(c) /\ ~Edit!Refuse(c)
    <2>1. Edit!Goto(c, "deriving") /\ UNCHANGED editAnswers /\ x.pc \in Edit!Authorised
      BY <1>10 DEF Edit!ApplyInspect, Edit!At, Edit!Authorised
    <2> QED
      BY <1>4, <2>1
  <1>11. CASE Edit!ApplyDerive(c) /\ ~Edit!Refuse(c)
    <2> DEFINE v == Edit!applyEffect(editTicket, x.request)
    <2>1. /\ editCalls' = [editCalls EXCEPT ![c].pc = "mutating", ![c].value = v] /\ UNCHANGED editAnswers
          /\ editTicket.revision = x.target.revision /\ x.pc = "deriving"
      BY <1>11 DEF Edit!ApplyDerive, Edit!At
    <2>2. x.target.revision = x.request.revision
      BY <1>1, <2>1 DEF CallIsBusy, Edit!Authorised
    <2>3. v \in Edit!TicketRows /\ v.revision = editTicket.revision + 1
      <3>1. editTicket \in Edit!TicketRows /\ x.request \in Edit!Requests
        BY <1>1 DEF Edit!EditInv, Edit!EditTypes, CallIsBusy
      <3>2. CASE x.request.kind = "edit"
        <4>1. x.request.value \in EditEdits
          BY <3>1, <3>2 DEF Edit!Requests
        <4> DEFINE y == [editTicket EXCEPT !.fields = x.request.value]
        <4>2. y \in Edit!TicketRows /\ y.revision = editTicket.revision
          BY <3>1, <4>1 DEF Edit!TicketRows
        <4>3. v = [y EXCEPT !.revision = y.revision + 1]
          BY <3>1, <3>2 DEF Edit!applyEffect, Edit!TicketRows
        <4> HIDE DEF y, v
        <4> QED
          BY <4>2, <4>3 DEF Edit!TicketRows
      <3>3. CASE x.request.kind # "edit"
        <4>1. x.request.value \in EditStates
          BY <3>1, <3>3 DEF Edit!Requests
        <4> DEFINE y == [editTicket EXCEPT !.state = x.request.value]
        <4>2. y \in Edit!TicketRows /\ y.revision = editTicket.revision
          BY <3>1, <4>1 DEF Edit!TicketRows
        <4>3. v = [y EXCEPT !.revision = y.revision + 1]
          BY <3>1, <3>3 DEF Edit!applyEffect, Edit!TicketRows
        <4> HIDE DEF y, v
        <4> QED
          BY <4>2, <4>3 DEF Edit!TicketRows
      <3> QED
        BY <3>2, <3>3
    <2> HIDE DEF v
    <2>4. CallMovesTo(c, Edit!Call("mutating", x.op, x.request, x.target, v))
      BY <1>1, <2>1, StepMoves
    <2> QED
      BY <1>1, <1>2, <2>1, <2>2, <2>3, <2>4, GoesOn DEF Edit!Authorised, Edit!Applied
  <1>12. CASE Edit!DetailReads(c)
    <2>1. editCalls' = [editCalls EXCEPT ![c].pc = "reading", ![c].value = editTicket] /\
             UNCHANGED editAnswers /\ x.pc = "applied"
      BY <1>12 DEF Edit!DetailReads, Edit!At
    <2>2. CallMovesTo(c, Edit!Call("reading", x.op, x.request, x.target, editTicket)) /\ Edit!journalled(x.op)
      BY <1>1, <2>1, StepMoves DEF CallIsBusy, Edit!Applied
    <2> QED
      BY <1>1, <1>2, <2>1, <2>2, GoesOn DEF Edit!Authorised, Edit!Applied
  <1>13. CASE Edit!DetailInspects(c) /\ ~Edit!Refuse(c)
    <2>1. Edit!Goto(c, "inspected") /\ UNCHANGED editAnswers /\ x.pc = "reading"
      BY <1>13 DEF Edit!DetailInspects, Edit!At
    <2>2. Edit!journalled(x.op)
      BY <1>1, <2>1 DEF CallIsBusy, Edit!Applied
    <2> QED
      BY <1>5, <2>1, <2>2
  <1>14. CASE Edit!DetailHistory(c)
    <2> DEFINE v == [ticket |-> x.value, history |-> editHistory]
    <2>1. editCalls' = [editCalls EXCEPT ![c].pc = "detailed", ![c].value = v] /\
             UNCHANGED editAnswers /\ x.pc = "inspected"
      BY <1>14 DEF Edit!DetailHistory, Edit!At
    <2>2. v.history = editHistory
      OBVIOUS
    <2> HIDE DEF v
    <2>3. CallMovesTo(c, Edit!Call("detailed", x.op, x.request, x.target, v))
      BY <1>1, <2>1, StepMoves
    <2>4. Edit!journalled(x.op) /\ x.op \in Edit!Operations /\ editCommands[x.op].request = x.request
      BY <1>1, <2>1 DEF CallIsBusy, Edit!Applied
    <2>5. Edit!Shows(editHistory, x.op, x.request)
      BY <2>4 DEF Edit!EditInv, Edit!RowsFit
    <2> QED
      BY <1>1, <1>2, <2>1, <2>2, <2>3, <2>4, <2>5, GoesOn DEF Edit!Authorised, Edit!Applied
  <1> QED
    BY <1>3, <1>6, <1>7, <1>8, <1>9, <1>10, <1>11, <1>12, <1>13, <1>14

\* The store's rows grow and nothing else is told: history and answers stand.
LEMMA StandsStill ==
    ASSUME Edit!EditInv, TablesGrow, UNCHANGED <<editTicket, editHistory, editOperations, editAnswers>>
    PROVE  Edit!HistoryFits' /\ Edit!AnswersFit'
  <1>1. Edit!HistoryFits'
    BY DEF Edit!EditInv, Edit!HistoryFits, Edit!EditsFollowWhatWasSeen, Edit!journalled
  <1>2. \A a \in editAnswers : editCommands'[a.op] = editCommands[a.op]
    BY DEF Edit!EditInv, Edit!AnswersFit, TablesGrow
  <1> QED
    BY <1>1, <1>2 DEF Edit!EditInv, Edit!AnswersFit

\* BeginCommand: the command is there, and asks for what it asked for.
LEMMA BeginStep ==
    ASSUME Edit!EditsKnown, Edit!EditInv, NEW c \in EditCallers, NEW o \in Edit!Operations,
           NEW request \in Edit!RequestsOf(o[1]), Edit!Begin(c, o, request)
    PROVE  Edit!EditInv'
  <1>1. request \in Edit!Requests
    <2>1. o[1] \in Edit!Kinds /\ editTicket.revision \in Nat
      BY DEF Edit!Operations, Edit!EditInv, Edit!EditTypes, Edit!TicketRows
    <2>2. CASE o[1] = "edit"
      BY <2>1, <2>2 DEF Edit!RequestsOf, Edit!Requests
    <2>3. CASE o[1] = "transition"
      BY <2>1, <2>3 DEF Edit!RequestsOf, Edit!Requests
    <2> QED
      BY <2>1, <2>2, <2>3 DEF Edit!Kinds
  <1> DEFINE row == IF editCommands[o] = Edit!Absent THEN [status |-> "pending", request |-> request]
         ELSE editCommands[o]
  <1>2. editCommands = [q \in Edit!Operations |-> editCommands[q]] /\
           (editCommands[o].status = "absent" <=> editCommands[o] = Edit!Absent)
        /\ editCommands[o].status \in {"absent", "pending", "completed"}
    BY DEF Edit!EditInv, Edit!EditTypes
  <1>3. editCommands' = [editCommands EXCEPT ![o] = row]
    BY <1>2 DEF Edit!Begin, Edit!begun
  <1>4. row.status \in {"pending", "completed"} /\ row # Edit!Absent /\
           (editCommands[o].status # "absent" => row = editCommands[o])
        /\ (editCommands[o].status = "absent" => row.status = "pending" /\ row.request = request)
    BY <1>2 DEF Edit!Absent
  <1> HIDE DEF row
  <1>5. /\ editCommands' = [q \in Edit!Operations |-> editCommands'[q]] /\ editCommands'[o] = row
        /\ \A q \in Edit!Operations \ {o} : editCommands'[q] = editCommands[q]
    BY <1>2, <1>3
  <1>6. TablesGrow
    BY <1>4, <1>5 DEF TablesGrow, Edit!Begin
  <1>7. UNCHANGED <<editTicket, editHistory, editOperations, editTargets, editAnswers>> /\
           editStarted' \in 0..EditMaxCalls
    BY DEF Edit!Begin, Edit!EditInv, Edit!EditTypes, Edit!EditsKnown
  <1>8. Edit!RowsFit'
    <2>1. ASSUME NEW q \in Edit!Operations
          PROVE  /\ editTargets[q].status # "absent" => editCommands'[q].status # "absent" /\
                     editTargets[q].request = editCommands'[q].request
                 /\ editTargets[q].status = "completed" =>
                       editTargets[q].response.revision = editCommands'[q].request.revision
                 /\ Edit!journalled(q) => /\ editCommands'[q].status # "absent" /\
                                              editOperations[q].fingerprint.request = editCommands'[q].request
                                     /\ Edit!Shows(editHistory, q, editCommands'[q].request)
                 /\ editCommands'[q].status = "completed" => Edit!journalled(q) /\
                       Edit!Shows(editCommands'[q].response.history, q, editCommands'[q].request)
      <3>1. CASE q = o /\ editCommands[o].status = "absent"
        <4>1. editTargets[q].status = "absent" /\ ~Edit!journalled(q)
          BY <3>1 DEF Edit!EditInv, Edit!RowsFit
        <4> QED
          BY <1>4, <1>5, <3>1, <4>1
      <3>2. CASE ~(q = o /\ editCommands[o].status = "absent")
        <4>1. editCommands'[q] = editCommands[q]
          BY <1>4, <1>5, <3>2
        <4> QED
          BY <4>1 DEF Edit!EditInv, Edit!RowsFit
      <3> QED
        BY <3>1, <3>2
    <2> QED
      BY <1>7, <2>1 DEF Edit!RowsFit, Edit!journalled, Edit!Shows
  <1> DEFINE p == IF editCommands'[o].status = "completed" THEN "replay" ELSE "begun"
             y == IF Edit!conflicts(editCommands, o, request) THEN Edit!Idle
                ELSE Edit!Call(p, o, request, Edit!Absent, Edit!Absent)
  <1>9. CallMovesTo(c, y)
    BY DEF Edit!Begin, CallMovesTo, Edit!Call
  <1>10. editCalls' = [d \in EditCallers |-> editCalls'[d]] /\ editCalls'[c] = y /\
            \A d \in EditCallers \ {c} : editCalls'[d] = editCalls[d]
    BY <1>9, CallMoves DEF Edit!EditInv
  <1>11. Edit!CallFits(c)'
    <2>1. CASE Edit!conflicts(editCommands, o, request)
      BY <1>10, <2>1 DEF Edit!CallFits
    <2>2. CASE ~Edit!conflicts(editCommands, o, request)
      <3>1. editCommands'[o].status # "absent" /\ editCommands'[o].request = request
        BY <1>2, <1>4, <1>5, <2>2 DEF Edit!conflicts
      <3>2. /\ y = Edit!Call(y.pc, y.op, y.request, y.target, y.value) /\ y.pc = p /\ y.op = o /\
                  y.request = request
            /\ p \in {"replay", "begun"}
        BY <2>2 DEF Edit!Call
      <3>3. p \notin Edit!Authorised /\ p \notin Edit!Applied /\ p # "mutating" /\ p # "detailed" /\
               (p = "replay" => editCommands'[o].status = "completed")
        BY DEF Edit!Authorised, Edit!Applied
      <3> HIDE DEF y, p
      <3> QED
        BY <1>1, <1>10, <3>1, <3>2, <3>3 DEF Edit!CallFits
    <2> QED
      BY <2>1, <2>2
  <1>12. \A d \in EditCallers : Edit!CallFits(d)'
    BY <1>6, <1>10, <1>11, OthersFit
  <1>13. Edit!EditTypes'
    BY <1>4, <1>5, <1>7, <1>10 DEF Edit!EditInv, Edit!EditTypes
  <1> QED
    BY <1>6, <1>7, <1>8, <1>12, <1>13, StandsStill DEF Edit!EditInv

\* The saved answer of a command is given again.
LEMMA ReplayStep ==
    ASSUME Edit!EditInv, NEW c \in EditCallers, Edit!Replay(c) PROVE Edit!EditInv'
  <1> DEFINE x == editCalls[c]
  <1>1. CallIsBusy(c, x) /\ x.pc = "replay"
    BY IsBusy DEF Edit!Replay, Edit!At
  <1>2. /\ CallMovesTo(c, Edit!Idle) /\ UNCHANGED <<editTicket, editHistory, editOperations,
              editCommands, editTargets, editStarted>>
        /\ editAnswers' = editAnswers \cup {[op |-> x.op, request |-> x.request,
              detail |-> editCommands[x.op].response]}
    BY DEF Edit!Replay, Edit!Answer, CallMovesTo
  <1>3. Edit!AnswersFit'
    BY <1>1, <1>2 DEF Edit!EditInv, Edit!AnswersFit, CallIsBusy
  <1>4. TablesGrow
    BY <1>2 DEF TablesGrow
  <1>5. editCalls' = [d \in EditCallers |-> editCalls'[d]] /\ editCalls'[c] = Edit!Idle /\
           \A d \in EditCallers \ {c} : editCalls'[d] = editCalls[d]
    BY <1>2, CallMoves DEF Edit!EditInv
  <1>6. \A d \in EditCallers : Edit!CallFits(d)'
    <2>1. Edit!CallFits(c)'
      BY <1>5 DEF Edit!CallFits
    <2> QED
      BY <1>4, <1>5, <2>1, OthersFit
  <1>7. Edit!EditTypes' /\ Edit!HistoryFits' /\ Edit!RowsFit'
    BY <1>2, <1>5 DEF Edit!EditInv, Edit!EditTypes, Edit!HistoryFits, Edit!RowsFit,
       Edit!EditsFollowWhatWasSeen, Edit!journalled, Edit!Shows
  <1> QED
    BY <1>3, <1>6, <1>7 DEF Edit!EditInv

\* A step that ends or moves its call, while the rows grow and the rest stands.
LEMMA CallIn ==
    ASSUME Edit!EditInv, TablesGrow, NEW c \in EditCallers, NEW x, CallMovesTo(c, x), Edit!CallFits(c)'
    PROVE  editCalls' = [d \in EditCallers |-> editCalls'[d]] /\ \A d \in EditCallers : Edit!CallFits(d)'
  <1>1. Edit!EditTypes
    BY DEF Edit!EditInv
  <1> QED
    BY <1>1, CallMoves, OthersFit

\* An idle call fits.
LEMMA IdleFits ==
    ASSUME Edit!EditInv, NEW c \in EditCallers, CallMovesTo(c, Edit!Idle) PROVE Edit!CallFits(c)'
  BY CallMoves DEF Edit!EditInv, Edit!CallFits

\* The fields of a call, and what they ask for, in a later state.
LEMMA NowFits ==
    ASSUME Edit!EditInv, NEW c \in EditCallers, CallIsBusy(c, editCalls[c]), NEW p, NEW t, NEW v,
           CallMovesTo(c, Edit!Call(p, editCalls[c].op, editCalls[c].request, t, v)), TablesGrow,
           p \in {"begun", "authorizing"} \cup Edit!Authorised \cup Edit!Applied,
           p \in Edit!Authorised => t.revision = editCalls[c].request.revision,
           p # "mutating", p # "detailed",
           p \in Edit!Applied => editOperations'[editCalls[c].op] # Edit!Absent
    PROVE  Edit!CallFits(c)'
  <1> DEFINE x == editCalls[c]
             y == Edit!Call(p, x.op, x.request, t, v)
  <1>1. editCalls'[c] = y
    BY CallMoves DEF Edit!EditInv
  <1>2. /\ y = Edit!Call(y.pc, y.op, y.request, y.target, y.value) /\ y.pc = p /\ y.op = x.op
        /\ y.request = x.request /\ y.target = t /\ y.value = v /\ p # "replay"
    BY DEF Edit!Call, Edit!Authorised, Edit!Applied
  <1>3. editCommands'[x.op].status # "absent" /\ editCommands'[x.op].request = x.request
    BY DEF CallIsBusy, TablesGrow
  <1>4. x.op \in Edit!Operations /\ x.request \in Edit!Requests /\
           (p \in Edit!Applied => editOperations'[x.op] # Edit!Absent)
    BY DEF CallIsBusy, Edit!journalled
  <1> HIDE DEF x, y
  <1> QED
    BY <1>1, <1>2, <1>3, <1>4 DEF Edit!CallFits, Edit!journalled, x

\* The row of a target changes within its command.
LEMMA TargetKept ==
    ASSUME Edit!EditInv, NEW o \in Edit!Operations, NEW row, editTargets' = [editTargets EXCEPT ![o] = row],
           row.status \in {"pending", "completed"}, editCommands[o].status # "absent", row # Edit!Absent,
           row.request = editCommands[o].request,
           row.status = "completed" => row.response.revision = editCommands[o].request.revision,
           UNCHANGED <<editTicket, editHistory, editOperations, editCommands, editAnswers, editStarted>>,
           editCalls' = [d \in EditCallers |-> editCalls'[d]], \A d \in EditCallers : Edit!CallFits(d)'
    PROVE  Edit!EditInv'
  <1>1. editTargets = [q \in Edit!Operations |-> editTargets[q]]
    BY DEF Edit!EditInv, Edit!EditTypes
  <1>2. /\ editTargets' = [q \in Edit!Operations |-> editTargets'[q]] /\ editTargets'[o] = row
        /\ \A q \in Edit!Operations \ {o} : editTargets'[q] = editTargets[q]
    BY <1>1
  <1>3. Edit!EditTypes'
    BY <1>2 DEF Edit!EditInv, Edit!EditTypes
  <1>4. Edit!RowsFit'
    <2>1. ASSUME NEW q \in Edit!Operations
          PROVE  /\ editTargets'[q].status # "absent" => editCommands[q].status # "absent" /\
                     editTargets'[q].request = editCommands[q].request
                 /\ editTargets'[q].status = "completed" =>
                       editTargets'[q].response.revision = editCommands[q].request.revision
      <3>1. CASE q = o
        BY <1>2, <3>1
      <3>2. CASE q # o
        <4>1. editTargets'[q] = editTargets[q]
          BY <1>2, <3>2
        <4> QED
          BY <4>1 DEF Edit!EditInv, Edit!RowsFit
      <3> QED
        BY <3>1, <3>2
    <2> QED
      BY <2>1 DEF Edit!EditInv, Edit!RowsFit, Edit!journalled, Edit!Shows
  <1>5. TablesGrow
    BY DEF TablesGrow
  <1>6. Edit!HistoryFits' /\ Edit!AnswersFit'
    BY <1>5, StandsStill
  <1> QED
    BY <1>3, <1>4, <1>6 DEF Edit!EditInv

\* The command of the target is there, or is read; a target saved before is used.
LEMMA BeginTargetStep ==
    ASSUME Edit!EditInv, NEW c \in EditCallers, Edit!BeginTarget(c) PROVE Edit!EditInv'
  <1> DEFINE x == editCalls[c]
             o == x.op
             row == IF editTargets[o] = Edit!Absent THEN [status |-> "pending", request |-> x.request]
                ELSE editTargets[o]
  <1>1. CallIsBusy(c, x) /\ o \in Edit!Operations /\ editCommands[o].status # "absent" /\
           editCommands[o].request = x.request
    BY IsBusy DEF Edit!BeginTarget, Edit!At, CallIsBusy
  <1>2. editTargets = [q \in Edit!Operations |-> editTargets[q]] /\
           (editTargets[o].status = "absent" <=> editTargets[o] = Edit!Absent)
        /\ editTargets[o].status \in {"absent", "pending", "completed"}
    BY <1>1 DEF Edit!EditInv, Edit!EditTypes
  <1>3. editTargets' = [editTargets EXCEPT ![o] = row] /\
           UNCHANGED <<editTicket, editHistory, editOperations, editCommands, editAnswers, editStarted>>
    BY <1>2 DEF Edit!BeginTarget, Edit!begun
  <1>4. /\ row.status \in {"pending", "completed"} /\ row.request = editCommands[o].request /\ row # Edit!Absent
        /\ row.status = "completed" => row.response.revision = editCommands[o].request.revision
    <2>1. CASE editTargets[o].status = "absent"
      <3>1. row = [status |-> "pending", request |-> x.request]
        BY <1>2, <2>1
      <3> HIDE DEF row
      <3> QED
        BY <1>1, <3>1 DEF Edit!Absent
    <2>2. CASE editTargets[o].status # "absent"
      <3>1. row = editTargets[o]
        BY <1>2, <2>2
      <3> HIDE DEF row
      <3> QED
        BY <1>1, <1>2, <2>2, <3>1 DEF Edit!EditInv, Edit!RowsFit
    <2> QED
      BY <2>1, <2>2
  <1> HIDE DEF row
  <1>5. editTargets'[o] = row
    BY <1>1, <1>2, <1>3
  <1>6. TablesGrow
    BY <1>3 DEF TablesGrow
  <1>7. \E p, t : CallMovesTo(c, Edit!Call(p, x.op, x.request, t, x.value)) /\ Edit!CallFits(c)'
    <2>1. CASE row.status = "completed"
      <3>1. editCalls' = [editCalls EXCEPT ![c].pc = "planned", ![c].target = row.response]
        BY <1>5, <2>1 DEF Edit!BeginTarget
      <3>2. CallMovesTo(c, Edit!Call("planned", x.op, x.request, row.response, x.value))
        BY <1>1, <3>1, StepMoves
      <3>3. "planned" \in Edit!Authorised /\ "planned" \notin Edit!Applied
        BY DEF Edit!Authorised, Edit!Applied
      <3>4. row.response.revision = x.request.revision
        BY <1>1, <1>4, <2>1
      <3>5. Edit!CallFits(c)'
        BY <1>1, <1>6, <3>2, <3>3, <3>4, NowFits
      <3> QED
        BY <3>2, <3>5
    <2>2. CASE row.status # "completed"
      <3>1. Edit!Goto(c, "authorizing")
        BY <1>5, <2>2 DEF Edit!BeginTarget, Edit!Goto
      <3>2. CallMovesTo(c, Edit!Call("authorizing", x.op, x.request, x.target, x.value))
        BY <1>1, <3>1, StepMoves
      <3>3. "authorizing" \notin Edit!Authorised /\ "authorizing" \notin Edit!Applied
        BY DEF Edit!Authorised, Edit!Applied
      <3>5. Edit!CallFits(c)'
        BY <1>1, <1>6, <3>2, <3>3, NowFits
      <3> QED
        BY <3>2, <3>5
    <2> QED
      BY <2>1, <2>2
  <1>8. editCalls' = [d \in EditCallers |-> editCalls'[d]] /\ \A d \in EditCallers : Edit!CallFits(d)'
    BY <1>6, <1>7, CallIn
  <1> HIDE DEF x, o
  <1> QED
    BY <1>1, <1>3, <1>4, <1>8, TargetKept

\* The authorised target is saved once.
LEMMA SaveTargetStep ==
    ASSUME Edit!EditInv, NEW c \in EditCallers, Edit!SaveTarget(c) PROVE Edit!EditInv'
  <1> DEFINE x == editCalls[c]
             o == x.op
             row == [status |-> "completed", request |-> editTargets[o].request, response |-> x.target]
  <1>1. CallIsBusy(c, x) /\ o \in Edit!Operations /\ editCommands[o].status # "absent" /\
           editCommands[o].request = x.request
    BY IsBusy DEF Edit!SaveTarget, Edit!At, CallIsBusy
  <1>2. x.pc = "authorized" /\ x.target.revision = x.request.revision
    BY <1>1 DEF Edit!SaveTarget, Edit!At, CallIsBusy, Edit!Authorised
  <1>3. UNCHANGED <<editTicket, editHistory, editOperations, editCommands, editStarted>>
    BY DEF Edit!SaveTarget
  <1>4. CASE ~Edit!pending(editTargets, o)
    <2>1. Edit!Refuse(c) /\ UNCHANGED editTargets
      BY <1>4 DEF Edit!SaveTarget
    <2> QED
      BY <1>3, <2>1, Refused
  <1>5. CASE Edit!pending(editTargets, o)
    <2>1. editTargets' = [editTargets EXCEPT ![o] = row] /\ Edit!Goto(c, "planned") /\ UNCHANGED editAnswers
      BY <1>5 DEF Edit!SaveTarget, Edit!completed
    <2>2. editTargets[o].request = editCommands[o].request
      BY <1>1, <1>5 DEF Edit!EditInv, Edit!RowsFit, Edit!pending
    <2>3. /\ row.status = "completed" /\ row.request = editCommands[o].request /\ row # Edit!Absent
          /\ row.response.revision = editCommands[o].request.revision
      BY <1>1, <1>2, <2>2 DEF Edit!Absent
    <2> HIDE DEF row
    <2>4. TablesGrow
      BY <1>3 DEF TablesGrow
    <2>5. CallMovesTo(c, Edit!Call("planned", x.op, x.request, x.target, x.value))
      BY <1>1, <2>1, StepMoves
    <2>6. "planned" \in Edit!Authorised /\ "planned" \notin Edit!Applied
      BY DEF Edit!Authorised, Edit!Applied
    <2>7. Edit!CallFits(c)'
      BY <1>1, <1>2, <2>4, <2>5, <2>6, NowFits
    <2>8. editCalls' = [d \in EditCallers |-> editCalls'[d]] /\ \A d \in EditCallers : Edit!CallFits(d)'
      BY <2>4, <2>5, <2>7, CallIn
    <2> HIDE DEF x, o
    <2> QED
      BY <1>1, <1>3, <2>1, <2>3, <2>8, TargetKept
  <1> QED
    BY <1>4, <1>5

\* MutateNativeTicket: the entry is the next revision, asked for at the one before.
LEMMA Mutates ==
    ASSUME Edit!EditInv, NEW c \in EditCallers, CallIsBusy(c, editCalls[c]), Edit!At(c, "mutating"),
           ~Edit!journalled(editCalls[c].op), Edit!unchanged(editCalls[c].value),
           Edit!mutated(editCalls[c].op, editCalls[c].request, editCalls[c].target, editCalls[c].value),
           UNCHANGED <<editCommands, editTargets, editAnswers>>
    PROVE  /\ TablesGrow /\ Edit!HistoryFits' /\ Edit!RowsFit' /\ Edit!AnswersFit' /\
               editOperations'[editCalls[c].op] # Edit!Absent
           /\ editTicket' \in Edit!TicketRows /\ editHistory' \in Seq(Edit!Entries)
           /\ editOperations' = [o \in Edit!Operations |-> editOperations'[o]]
  <1>0. PICK x : x = editCalls[c]
    OBVIOUS
  <1> DEFINE e == [op |-> x.op, request |-> x.request, snapshot |-> x.value]
             row == [status |-> "committed", fingerprint |-> Edit!operationFingerprint(x.request, x.target)]
             n == Len(editHistory)
  <1>1. /\ x.op \in Edit!Operations /\ x.request \in Edit!Requests /\ x.value \in Edit!TicketRows
        /\ x.value.revision = x.request.revision + 1 /\ editCommands[x.op].status # "absent"
        /\ editCommands[x.op].request = x.request
    BY <1>0 DEF CallIsBusy, Edit!At
  <1>2. /\ editTicket' = x.value /\ editHistory' = Append(editHistory, e) /\
              editOperations' = [editOperations EXCEPT ![x.op] = row]
        /\ ~Edit!journalled(x.op) /\ editTicket.revision = x.value.revision - 1
    BY <1>0 DEF Edit!mutated, Edit!unchanged
  <1>3. row # Edit!Absent /\ row.fingerprint.request = x.request
    BY DEF Edit!Absent, Edit!operationFingerprint
  <1>4. editOperations = [o \in Edit!Operations |-> editOperations[o]] /\
           editHistory \in Seq(Edit!Entries) /\ Edit!HistoryFits /\ Edit!RowsFit
    BY DEF Edit!EditInv, Edit!EditTypes
  <1>5. /\ editOperations' = [o \in Edit!Operations |-> editOperations'[o]] /\ editOperations'[x.op] = row
        /\ \A o \in Edit!Operations \ {x.op} : editOperations'[o] = editOperations[o]
    <2> HIDE DEF row
    <2> QED
      BY <1>1, <1>2, <1>4
  <1>6. TablesGrow
    BY <1>2, <1>5 DEF TablesGrow
  <1>7. e \in Edit!Entries /\ e.op = x.op /\ e.request = x.request /\ e.snapshot = x.value
    BY <1>1 DEF Edit!Entries
  <1> HIDE DEF e, row
  <1>8. editHistory' \in Seq(Edit!Entries)
    BY <1>2, <1>4, <1>7
  <1>9. n \in Nat /\ Len(editHistory') = n + 1 /\ editHistory'[n + 1] = e /\ \A i \in 1..n :
           editHistory'[i] = editHistory[i]
    BY <1>2, <1>4
  <1>10. editTicket.revision = n /\ x.value.revision = n + 1 /\ x.request.revision = n
    <2>1. editTicket.revision = n /\ x.value.revision \in Nat /\ x.request.revision \in Nat
      BY <1>1, <1>4 DEF Edit!HistoryFits, Edit!TicketRows, Edit!Requests
    <2> HIDE DEF n
    <2> QED
      BY <1>1, <1>2, <1>9, <2>1
  <1>11. \A i \in 1..n : /\ editHistory[i].snapshot.revision = i /\ editHistory[i].request.revision = i - 1
                          /\ editHistory[i].op # x.op
    BY <1>1, <1>2, <1>4 DEF Edit!HistoryFits, Edit!EditsFollowWhatWasSeen
  <1> HIDE DEF n
  <1>12. Edit!EditsFollowWhatWasSeen'
    <2>1. ASSUME NEW i \in 1..(n + 1)
          PROVE  editHistory'[i].snapshot.revision = i /\ editHistory'[i].request.revision = i - 1
      <3>1. CASE i \in 1..n
        BY <1>9, <1>11, <3>1
      <3>2. CASE i = n + 1
        BY <1>7, <1>9, <1>10, <3>2
      <3> QED
        BY <1>9, <3>1, <3>2
    <2>2. ASSUME NEW i \in 1..(n + 1), NEW j \in 1..(n + 1), editHistory'[i].op = editHistory'[j].op
          PROVE  i = j
      <3>1. CASE i \in 1..n /\ j \in 1..n
        <4>1. editHistory[i].op = editHistory[j].op
          BY <1>9, <2>2, <3>1
        <4> QED
          BY <1>4, <3>1, <4>1 DEF Edit!HistoryFits, Edit!EditsFollowWhatWasSeen, n
      <3>2. CASE i = n + 1 /\ j \in 1..n
        BY <1>7, <1>9, <1>11, <2>2, <3>2
      <3>3. CASE i \in 1..n /\ j = n + 1
        BY <1>7, <1>9, <1>11, <2>2, <3>3
      <3> QED
        BY <1>9, <3>1, <3>2, <3>3
    <2> QED
      BY <1>9, <2>1, <2>2 DEF Edit!EditsFollowWhatWasSeen
  <1>13. Edit!HistoryFits'
    <2>1. editTicket'.revision = n + 1 /\ editTicket' = editHistory'[n + 1].snapshot
      BY <1>2, <1>7, <1>9, <1>10
    <2>2. ASSUME NEW i \in 1..(n + 1), editHistory'[i].op \in Edit!Operations
          PROVE editOperations'[editHistory'[i].op] # Edit!Absent
      <3>1. CASE i \in 1..n
        BY <1>3, <1>4, <1>5, <1>9, <2>2, <3>1 DEF Edit!HistoryFits, Edit!journalled, n
      <3>2. CASE i = n + 1
        BY <1>3, <1>5, <1>7, <1>9, <3>2
      <3> QED
        BY <1>9, <3>1, <3>2
    <2> QED
      BY <1>9, <1>12, <2>1, <2>2 DEF Edit!HistoryFits, Edit!journalled
  <1>14. ASSUME NEW o, NEW r, Edit!Shows(editHistory, o, r) PROVE Edit!Shows(editHistory, o, r)'
    BY <1>9, <1>14 DEF Edit!Shows, n
  <1>15. Edit!RowsFit'
    <2>1. ASSUME NEW o \in Edit!Operations, editOperations'[o] # Edit!Absent
          PROVE  /\ editCommands[o].status # "absent" /\
                     editOperations'[o].fingerprint.request = editCommands[o].request
                 /\ Edit!Shows(editHistory', o, editCommands[o].request)
      <3>1. CASE o = x.op
        <4>1. Edit!Shows(editHistory', x.op, x.request)
          BY <1>7, <1>9 DEF Edit!Shows
        <4> QED
          BY <1>1, <1>3, <1>5, <3>1, <4>1
      <3>2. CASE o # x.op
        BY <1>4, <1>5, <1>14, <2>1, <3>2 DEF Edit!RowsFit, Edit!journalled
      <3> QED
        BY <3>1, <3>2
    <2>2. ASSUME NEW o \in Edit!Operations, editCommands[o].status = "completed"
          PROVE  editOperations'[o] # Edit!Absent /\
                 Edit!Shows(editCommands[o].response.history, o, editCommands[o].request)
      BY <1>4, <1>6, <2>2 DEF Edit!RowsFit, Edit!journalled, TablesGrow
    <2> QED
      BY <1>4, <2>1, <2>2 DEF Edit!RowsFit, Edit!journalled, Edit!Shows
  <1>16. Edit!AnswersFit'
    BY DEF Edit!EditInv, Edit!AnswersFit
  <1> QED
    BY <1>0, <1>1, <1>2, <1>3, <1>5, <1>6, <1>8, <1>13, <1>15, <1>16

\* A call whose mutation is known to be in the journal, or was refused.
LEMMA MutateStep ==
    ASSUME Edit!EditInv, NEW c \in EditCallers, Edit!MutateNativeTicket(c) PROVE Edit!EditInv'
  <1> DEFINE x == editCalls[c]
  <1>1. CallIsBusy(c, x) /\ Edit!At(c, "mutating")
    BY IsBusy DEF Edit!MutateNativeTicket, Edit!At
  <1>2. UNCHANGED <<editCommands, editTargets, editStarted>>
    BY DEF Edit!MutateNativeTicket
  <1>3. "applied" \in Edit!Applied /\ "applied" \notin Edit!Authorised
    BY DEF Edit!Applied, Edit!Authorised
  <1>4. CASE Edit!journalled(x.op) /\ Edit!Goto(c, "applied") /\
                UNCHANGED <<editTicket, editHistory, editOperations, editAnswers>>
    <2>1. CallMovesTo(c, Edit!Call("applied", x.op, x.request, x.target, x.value))
      BY <1>1, <1>4, StepMoves
    <2> QED
      BY <1>1, <1>2, <1>3, <1>4, <2>1, GoesOn
  <1>5. CASE /\ ~Edit!journalled(x.op) /\ Edit!unchanged(x.value) /\
                   Edit!mutated(x.op, x.request, x.target, x.value)
             /\ Edit!Goto(c, "applied") /\ UNCHANGED editAnswers
    <2>1. /\ TablesGrow /\ Edit!HistoryFits' /\ Edit!RowsFit' /\ Edit!AnswersFit' /\
                editOperations'[x.op] # Edit!Absent
          /\ editTicket' \in Edit!TicketRows /\ editHistory' \in Seq(Edit!Entries)
          /\ editOperations' = [o \in Edit!Operations |-> editOperations'[o]]
      BY <1>1, <1>2, <1>5, Mutates
    <2>2. CallMovesTo(c, Edit!Call("applied", x.op, x.request, x.target, x.value))
      BY <1>1, <1>5, StepMoves
    <2>3. Edit!CallFits(c)'
      BY <1>1, <1>3, <2>1, <2>2, NowFits
    <2>4. editCalls' = [d \in EditCallers |-> editCalls'[d]] /\ \A d \in EditCallers : Edit!CallFits(d)'
      BY <2>1, <2>2, <2>3, CallIn
    <2>5. Edit!EditTypes'
      BY <1>2, <2>1, <2>4 DEF Edit!EditInv, Edit!EditTypes
    <2> QED
      BY <2>1, <2>4, <2>5 DEF Edit!EditInv
  <1>6. CASE Edit!Refuse(c) /\ UNCHANGED <<editTicket, editHistory, editOperations>>
    BY <1>2, <1>6, Refused
  <1> QED
    BY <1>4, <1>5, <1>6 DEF Edit!MutateNativeTicket

\* A commit nobody knows of: applied or not, its call is refused.
LEMMA UncertainStep ==
    ASSUME Edit!EditsKnown, Edit!EditInv, NEW c \in EditCallers, Edit!CommitUncertain(c) PROVE Edit!EditInv'
  <1> DEFINE x == editCalls[c]
  <1>1. CallIsBusy(c, x) /\ Edit!At(c, "mutating")
    BY IsBusy DEF Edit!CommitUncertain, Edit!At
  <1>2. /\ CallMovesTo(c, Edit!Idle) /\ UNCHANGED <<editCommands, editTargets, editAnswers>> /\
              editStarted' \in 0..EditMaxCalls
        /\ ~Edit!journalled(x.op) /\ Edit!unchanged(x.value)
    BY DEF Edit!CommitUncertain, Edit!uncertain, Edit!Refuse, CallMovesTo, Edit!EditInv, Edit!EditTypes,
       Edit!EditsKnown
  <1>3. Edit!CallFits(c)'
    BY <1>2, IdleFits
  <1>4. /\ TablesGrow /\ Edit!HistoryFits' /\ Edit!RowsFit' /\ Edit!AnswersFit' /\
              editTicket' \in Edit!TicketRows /\ editHistory' \in Seq(Edit!Entries)
        /\ editOperations' = [o \in Edit!Operations |-> editOperations'[o]]
    <2>1. CASE Edit!mutated(x.op, x.request, x.target, x.value)
      BY <1>1, <1>2, <2>1, Mutates
    <2>2. CASE UNCHANGED <<editTicket, editHistory, editOperations>>
      <3>1. TablesGrow
        BY <1>2, <2>2 DEF TablesGrow
      <3>2. Edit!HistoryFits' /\ Edit!AnswersFit'
        BY <1>2, <2>2, <3>1, StandsStill
      <3>3. Edit!RowsFit'
        BY <1>2, <2>2 DEF Edit!EditInv, Edit!RowsFit, Edit!journalled, Edit!Shows
      <3> QED
        BY <2>2, <3>1, <3>2, <3>3 DEF Edit!EditInv, Edit!EditTypes
    <2> QED
      BY <2>1, <2>2 DEF Edit!CommitUncertain
  <1>5. editCalls' = [d \in EditCallers |-> editCalls'[d]] /\ \A d \in EditCallers : Edit!CallFits(d)'
    BY <1>2, <1>3, <1>4, CallIn
  <1>6. Edit!EditTypes'
    BY <1>2, <1>4, <1>5 DEF Edit!EditInv, Edit!EditTypes
  <1> QED
    BY <1>4, <1>5, <1>6 DEF Edit!EditInv

\* CompleteCommand: the first call of the key that has its detail closes the command with it.
LEMMA CompleteStep ==
    ASSUME Edit!EditInv, NEW c \in EditCallers, Edit!Complete(c) PROVE Edit!EditInv'
  <1>0. PICK x : x = editCalls[c]
    OBVIOUS
  <1> DEFINE o == x.op
             row == [status |-> "completed", request |-> editCommands[o].request, response |-> x.value]
             a == [op |-> o, request |-> x.request, detail |-> x.value]
  <1>1. /\ CallIsBusy(c, editCalls[c]) /\ o \in Edit!Operations /\ editCommands[o].status # "absent" /\
              editCommands[o].request = x.request
        /\ Edit!journalled(o) /\ Edit!Shows(x.value.history, o, x.request)
    BY <1>0, IsBusy DEF Edit!Complete, Edit!At, CallIsBusy, Edit!Applied
  <1>2. UNCHANGED <<editTicket, editHistory, editOperations, editTargets, editStarted>>
    BY DEF Edit!Complete
  <1>3. CASE ~Edit!pending(editCommands, o)
    <2>1. Edit!Refuse(c) /\ UNCHANGED editCommands
      BY <1>0, <1>3 DEF Edit!Complete
    <2> QED
      BY <1>2, <2>1, Refused
  <1>4. CASE Edit!pending(editCommands, o)
    <2>1. editCommands' = [editCommands EXCEPT ![o] = row] /\ CallMovesTo(c, Edit!Idle) /\
             editAnswers' = editAnswers \cup {a}
      BY <1>0, <1>4 DEF Edit!Complete, Edit!completed, Edit!Answer, CallMovesTo
    <2>2. /\ row.status = "completed" /\ row.request = editCommands[o].request /\
                row.response = x.value /\ row # Edit!Absent
          /\ editCommands[o].status = "pending" /\ a.op = o
          /\ a = [op |-> o, request |-> row.request, detail |-> row.response]
      BY <1>1, <1>4 DEF Edit!Absent, Edit!pending
    <2> HIDE DEF row, a
    <2>3. /\ editCommands' = [q \in Edit!Operations |-> editCommands'[q]] /\ editCommands'[o] = row
          /\ \A q \in Edit!Operations \ {o} : editCommands'[q] = editCommands[q]
      BY <1>1, <2>1 DEF Edit!EditInv, Edit!EditTypes
    <2>4. TablesGrow
      BY <1>2, <2>2, <2>3 DEF TablesGrow
    <2>5. editCalls' = [d \in EditCallers |-> editCalls'[d]] /\ \A d \in EditCallers : Edit!CallFits(d)'
      BY <2>1, <2>4, IdleFits, CallIn
    <2>6. Edit!AnswersFit'
      <3>1. ASSUME NEW b \in editAnswers
            PROVE  /\ b.op \in Edit!Operations /\ editCommands'[b.op].status = "completed"
                   /\ b = [op |-> b.op, request |-> editCommands'[b.op].request,
                         detail |-> editCommands'[b.op].response]
        <4>1. /\ b.op \in Edit!Operations /\ editCommands[b.op].status = "completed"
              /\ b = [op |-> b.op, request |-> editCommands[b.op].request,
                    detail |-> editCommands[b.op].response]
          BY DEF Edit!EditInv, Edit!AnswersFit
        <4>2. editCommands'[b.op] = editCommands[b.op]
          BY <2>4, <4>1 DEF TablesGrow
        <4> QED
          BY <4>1, <4>2
      <3>2. /\ a.op \in Edit!Operations /\ editCommands'[a.op].status = "completed"
            /\ a = [op |-> a.op, request |-> editCommands'[a.op].request,
                  detail |-> editCommands'[a.op].response]
        BY <1>1, <2>2, <2>3
      <3> QED
        BY <2>1, <3>1, <3>2 DEF Edit!AnswersFit
    <2>7. Edit!RowsFit'
      <3>1. ASSUME NEW q \in Edit!Operations
            PROVE  /\ editTargets[q].status # "absent" => editCommands'[q].status # "absent" /\
                       editTargets[q].request = editCommands'[q].request
                   /\ editTargets[q].status = "completed" =>
                         editTargets[q].response.revision = editCommands'[q].request.revision
                   /\ Edit!journalled(q) => /\ editCommands'[q].status # "absent" /\
                                                editOperations[q].fingerprint.request = editCommands'[q].request
                                       /\ Edit!Shows(editHistory, q, editCommands'[q].request)
                   /\ editCommands'[q].status = "completed" => Edit!journalled(q) /\
                         Edit!Shows(editCommands'[q].response.history, q, editCommands'[q].request)
        <4>1. CASE q = o
          <5>1. editCommands'[q] = row
            BY <2>3, <4>1
          <5> QED
            BY <1>1, <2>2, <4>1, <5>1 DEF Edit!EditInv, Edit!RowsFit
        <4>2. CASE q # o
          <5>1. editCommands'[q] = editCommands[q]
            BY <2>3, <4>2
          <5> QED
            BY <5>1 DEF Edit!EditInv, Edit!RowsFit
        <4> QED
          BY <4>1, <4>2
      <3> QED
        BY <1>2, <3>1 DEF Edit!RowsFit, Edit!journalled, Edit!Shows
    <2>8. Edit!EditTypes'
      BY <1>2, <2>2, <2>3, <2>5 DEF Edit!EditInv, Edit!EditTypes
    <2>9. Edit!HistoryFits'
      BY <1>2 DEF Edit!EditInv, Edit!HistoryFits, Edit!EditsFollowWhatWasSeen, Edit!journalled
    <2> QED
      BY <2>5, <2>6, <2>7, <2>8, <2>9 DEF Edit!EditInv
  <1> QED
    BY <1>3, <1>4

\* The daemon stops: what is stored stands.
LEMMA StopStep ==
    ASSUME Edit!EditsKnown, Edit!EditInv, Edit!Stop PROVE Edit!EditInv'
  <1>1. /\ editCalls' = [c \in EditCallers |-> Edit!Idle] /\
              UNCHANGED <<editTicket, editHistory, editOperations, editCommands, editTargets,
                 editAnswers>>
        /\ editStarted' \in 0..EditMaxCalls
    BY DEF Edit!Stop, Edit!EditInv, Edit!EditTypes, Edit!EditsKnown
  <1>2. Edit!EditTypes' /\ \A c \in EditCallers : Edit!CallFits(c)'
    BY <1>1 DEF Edit!EditInv, Edit!EditTypes, Edit!CallFits
  <1>3. Edit!HistoryFits' /\ Edit!RowsFit' /\ Edit!AnswersFit'
    BY <1>1 DEF Edit!EditInv, Edit!HistoryFits, Edit!EditsFollowWhatWasSeen, Edit!journalled,
       Edit!RowsFit, Edit!AnswersFit, Edit!Shows
  <1> QED
    BY <1>2, <1>3 DEF Edit!EditInv

\* A ticket that was just created.
LEMMA EditInit ==
    ASSUME Edit!EditsKnown, Edit!Init PROVE Edit!EditInv
  <1>1. Edit!First \in Edit!TicketRows /\ Edit!First.revision = 1
    BY DEF Edit!EditsKnown, Edit!First, Edit!TicketRows
  <1>2. /\ Edit!FirstEntry \in Edit!Entries /\ Edit!FirstEntry.snapshot = Edit!First /\
              Edit!FirstEntry.request.revision = 0
        /\ Edit!FirstEntry.op = <<"create", "first">>
    BY <1>1 DEF Edit!FirstEntry, Edit!Entries
  <1>3. Edit!FirstEntry.op \notin Edit!Operations
    <2>1. \A o \in Edit!Operations : o[1] \in Edit!Kinds
      BY DEF Edit!Operations
    <2>2. Edit!FirstEntry.op[1] = "create"
      BY <1>2
    <2> QED
      BY <2>1, <2>2 DEF Edit!Kinds
  <1>4. editHistory \in Seq(Edit!Entries) /\ Len(editHistory) = 1 /\ editHistory[1] = Edit!FirstEntry
    <2>1. editHistory = <<Edit!FirstEntry>> /\ Edit!FirstEntry \in Edit!Entries
      BY <1>2 DEF Edit!Init
    <2> HIDE DEF Edit!Entries, Edit!FirstEntry
    <2> QED
      BY <2>1
  <1>5. Edit!Absent.status = "absent"
    BY DEF Edit!Absent
  <1>6. Edit!EditTypes
    BY <1>1, <1>4, <1>5 DEF Edit!Init, Edit!EditTypes, Edit!EditsKnown
  <1>7. Edit!HistoryFits
    <2>1. \A i \in 1..Len(editHistory) : i = 1
      BY <1>4
    <2>2. Edit!EditsFollowWhatWasSeen
      BY <1>1, <1>2, <1>4, <2>1 DEF Edit!EditsFollowWhatWasSeen
    <2>3. editTicket = Edit!First
      BY DEF Edit!Init
    <2> QED
      BY <1>1, <1>2, <1>3, <1>4, <2>1, <2>2, <2>3 DEF Edit!HistoryFits
  <1>8. Edit!RowsFit /\ Edit!AnswersFit
    BY <1>5 DEF Edit!Init, Edit!RowsFit, Edit!AnswersFit, Edit!journalled
  <1>9. \A c \in EditCallers : Edit!CallFits(c)
    BY DEF Edit!Init, Edit!CallFits
  <1> QED
    BY <1>6, <1>7, <1>8, <1>9 DEF Edit!EditInv

\* Every step of the tracker keeps the invariant.
LEMMA EditStep ==
    ASSUME Edit!EditsKnown, Edit!EditInv, [Edit!Next]_(Edit!vars) PROVE Edit!EditInv'
  <1>1. CASE UNCHANGED Edit!vars
    BY <1>1 DEF Edit!vars, Edit!EditInv, Edit!EditTypes, Edit!HistoryFits, Edit!EditsFollowWhatWasSeen,
       Edit!journalled, Edit!RowsFit, Edit!AnswersFit, Edit!Shows, Edit!CallFits
  <1>2. ASSUME NEW c \in EditCallers, NEW o \in Edit!Operations, NEW request \in Edit!RequestsOf(o[1]),
               Edit!Begin(c, o, request)
        PROVE  Edit!EditInv'
    BY <1>2, BeginStep
  <1>3. ASSUME NEW c \in EditCallers,
               \/ Edit!Replay(c) \/ Edit!BeginTarget(c) \/ Edit!Authorize(c) \/ Edit!SaveTarget(c) \/
                     Edit!Reconcile(c) \/ Edit!Preflight(c)
               \/ Edit!ApplyPrior(c) \/ Edit!ApplyInspect(c) \/ Edit!ApplyDerive(c) \/
                     Edit!MutateNativeTicket(c) \/ Edit!CommitUncertain(c)
               \/ Edit!DetailReads(c) \/ Edit!DetailInspects(c) \/ Edit!DetailHistory(c) \/ Edit!Complete(c)
        PROVE  Edit!EditInv'
    BY <1>3, ReplayStep, BeginTargetStep, SaveTargetStep, CallsGo, MutateStep, UncertainStep, CompleteStep
  <1>4. CASE Edit!Stop
    BY <1>4, StopStep
  <1> QED
    BY <1>1, <1>2, <1>3, <1>4 DEF Edit!Next

\* What the invariant says to the callers.
LEMMA EditKeeps ==
    ASSUME Edit!EditInv PROVE Edit!TypeOK /\ Edit!EditsFollowWhatWasSeen /\ Edit!AnsweredIsApplied /\
           Edit!AnswersAgree
  <1>1. Edit!TypeOK
    BY DEF Edit!EditInv, Edit!EditTypes, Edit!HistoryFits, Edit!TicketRows, Edit!TypeOK
  <1>2. Edit!EditsFollowWhatWasSeen
    BY DEF Edit!EditInv, Edit!HistoryFits
  <1>3. Edit!AnsweredIsApplied
    <2> SUFFICES ASSUME NEW a \in editAnswers
                 PROVE  /\ Edit!journalled(a.op) /\ editOperations[a.op].fingerprint.request = a.request
                        /\ Edit!Shows(a.detail.history, a.op, a.request)
      BY DEF Edit!AnsweredIsApplied, Edit!Shows
    <2>1. /\ a.op \in Edit!Operations /\ editCommands[a.op].status = "completed"
          /\ a = [op |-> a.op, request |-> editCommands[a.op].request, detail |-> editCommands[a.op].response]
      BY DEF Edit!EditInv, Edit!AnswersFit
    <2>2. a.request = editCommands[a.op].request /\ a.detail = editCommands[a.op].response
      BY <2>1
    <2> QED
      BY <2>1, <2>2 DEF Edit!EditInv, Edit!RowsFit
  <1>4. Edit!AnswersAgree
    BY DEF Edit!EditInv, Edit!AnswersFit, Edit!AnswersAgree
  <1> QED
    BY <1>1, <1>2, <1>3, <1>4

\* What the commands that edit a ticket promise.
LEMMA EditHolds ==
    Edit!Spec => [](Edit!TypeOK /\ Edit!EditsFollowWhatWasSeen /\ Edit!AnsweredIsApplied /\ Edit!AnswersAgree)
  <1>1. Edit!Init => Edit!EditInv
    BY EditInit, EditAssumption
  <1>2. Edit!EditInv /\ [Edit!Next]_(Edit!vars) => Edit!EditInv'
    BY EditStep, EditAssumption
  <1> QED
    BY <1>1, <1>2, EditKeeps, PTL DEF Edit!Spec

-----------------------------------------------------------------------------
(* Deliveries: what a visit pinned, on the head that is recorded.            *)

Delivery == INSTANCE WorkspaceDelivery WITH
        Trees <- DeliveryTrees, Plan <- DeliveryPlan, MaxCrashes <- DeliveryMaxCrashes,
        MaxLost <- DeliveryMaxLost, MaxStray <- DeliveryMaxStray,
        MaxRemote <- DeliveryMaxRemote, stage <- deliveryStage, job <- deliveryJob,
        main <- deliveryMain, record <- deliveryRecord, work <- deliveryWork,
        sealed <- deliverySealed, intent <- deliveryIntent,
        published <- deliveryPublished, accepted <- deliveryAccepted,
        remote <- deliveryRemote, pulls <- deliveryPulls, crashes <- deliveryCrashes,
        lost <- deliveryLost, stray <- deliveryStray, foreign <- deliveryForeign

\* A plan is made of nodes.
ASSUME DeliveryAssumption == Delivery!PlanKnown

\* The module's finite sets are the finite sets.
LEMMA FinitePulls ==
    ASSUME NEW S
    PROVE  (Delivery!IsFiniteSet(S) <=> IsFiniteSet(S)) /\ Delivery!Cardinality(S) = Cardinality(S)
  <1>1. Delivery!IsFiniteSet(S) <=> IsFiniteSet(S)
    BY DEF IsFiniteSet, Delivery!IsFiniteSet
  <1>2. Delivery!Cardinality(S) = Cardinality(S)
    BY DEF Cardinality, Delivery!Cardinality
  <1> QED
    BY <1>1, <1>2

\* A history with one more commit.
LEMMA HistoryGrows ==
    ASSUME NEW h \in Delivery!Histories, NEW m \in Delivery!Commits
    PROVE  /\ Append(h, m) \in Delivery!Histories /\ Append(h, m) # Delivery!Unset
           /\ Len(Append(h, m)) = Len(h) + 1 /\ Delivery!IsPrefix(h, Append(h, m)) /\
                 Delivery!Last(Append(h, m)) = m
  <1>1. ASSUME NEW C, NEW s \in Seq(C), NEW x \in C
        PROVE  /\ Append(s, x) \in Seq(C) /\ Append(s, x) # <<>> /\ Len(Append(s, x)) = Len(s) + 1
               /\ Append(s, x)[Len(s) + 1] = x /\ Len(s) \in Nat
               /\ \A i \in 1..Len(s) : Append(s, x)[i] = s[i]
    OBVIOUS
  <1>2. /\ Append(h, m) \in Seq(Delivery!Commits) /\ Append(h, m) # <<>> /\ Len(Append(h, m)) = Len(h) + 1
        /\ Append(h, m)[Len(h) + 1] = m /\ Len(h) \in Nat
        /\ \A i \in 1..Len(h) : Append(h, m)[i] = h[i]
    BY <1>1 DEF Delivery!Histories
  <1>3. SubSeq(h, 1, Len(h)) = SubSeq(Append(h, m), 1, Len(h))
    <2>1. h \in Seq(Delivery!Commits)
      BY DEF Delivery!Histories
    <2> QED
      BY <2>1
  <1> QED
    BY <1>2, <1>3 DEF Delivery!Histories, Delivery!Unset, Delivery!IsPrefix, Delivery!Last

\* What a history holds.
LEMMA HistoryHolds ==
    ASSUME NEW h \in Delivery!Histories
    PROVE  /\ h # Delivery!Unset => Delivery!TreeOf(h) \in DeliveryTrees
           /\ Delivery!IsPrefix(h, h)
           /\ Delivery!Unset \in Delivery!Histories
  <1>1. h \in Seq(Delivery!Commits)
    BY DEF Delivery!Histories
  <1>2. h # <<>> => h[Len(h)] \in Delivery!Commits
    BY <1>1
  <1>3. \A c \in Delivery!Commits : c.tree \in DeliveryTrees
    BY DEF Delivery!Commits
  <1>4. Delivery!IsPrefix(h, h)
    BY <1>1 DEF Delivery!IsPrefix
  <1>5. <<>> \in Seq(Delivery!Commits)
    OBVIOUS
  <1> QED
    BY <1>2, <1>3, <1>4, <1>5 DEF Delivery!TreeOf, Delivery!Last, Delivery!Unset, Delivery!Histories

\* Commits of nodes and of others.
LEMMA MadeIsCommit ==
    ASSUME NEW t \in DeliveryTrees, NEW op \in Nat
    PROVE Delivery!Made(t, op) \in Delivery!Commits /\ Delivery!Made(t, op).op = op
  BY DEF Delivery!Made, Delivery!Commits

\* The base of a project is a history of one commit.
LEMMA BaseIsHistory == ASSUME Delivery!PlanKnown PROVE Delivery!Base \in Delivery!Histories /\
     Delivery!Base # Delivery!Unset /\ Delivery!Unset \in Delivery!Histories
  <1> DEFINE m == Delivery!Made("t0", 0)
  <1>1. m \in Delivery!Commits
    BY MadeIsCommit DEF Delivery!PlanKnown
  <1> HIDE DEF m
  <1>2. <<m>> \in Seq(Delivery!Commits) /\ <<m>> # <<>>
    BY <1>1
  <1>3. <<>> \in Seq(Delivery!Commits)
    OBVIOUS
  <1> QED
    BY <1>2, <1>3, Zenon DEF Delivery!Histories, Delivery!Base, Delivery!Unset, m

\* A job that goes on keeps what it holds in memory.
LEMMA DeliveryGoes ==
    ASSUME deliveryJob \in Delivery!Jobs, NEW at \in Delivery!JobSteps, Delivery!Goes(at)
    PROVE  deliveryJob' \in Delivery!Jobs /\ deliveryJob'.at = at /\
           deliveryJob'.seen = deliveryJob.seen /\ deliveryJob'.next = deliveryJob.next
  BY DEF Delivery!Goes, Delivery!Jobs

\* A job that ends forgets it.
LEMMA DeliveryEnds == ASSUME Delivery!PlanKnown, deliveryJob' = Delivery!Idle
  PROVE deliveryJob' \in Delivery!Jobs /\ deliveryJob'.at = "idle"
  <1>1. Delivery!Idle \in Delivery!Jobs /\ Delivery!Idle.at = "idle"
    BY BaseIsHistory DEF Delivery!Idle, Delivery!Jobs, Delivery!JobSteps
  <1> QED
    BY <1>1

\* A value is pinned for the visit.
LEMMA PinHolds ==
    ASSUME NEW value, Delivery!Pin(value)
    PROVE  /\ DOMAIN deliveryIntent' = DOMAIN deliveryIntent \cup {deliveryStage} /\
               deliveryIntent'[deliveryStage] = value
  BY DEF Delivery!Pin

\* What the invariant says of the parts of the state.
LEMMA DeliveryParts ==
    ASSUME Delivery!PlanKnown, Delivery!DeliveryInv
    PROVE  /\ deliveryStage \in Nat /\ deliveryStage >= 1 /\ deliveryStage <= Len(DeliveryPlan) + 1 /\
               Len(DeliveryPlan) \in Nat
           /\ deliveryJob \in Delivery!Jobs /\ deliveryJob.at \in Delivery!JobSteps /\
                 deliveryJob.seen \in Delivery!Histories /\ deliveryJob.next \in Delivery!Histories
           /\ deliveryWork \in Delivery!Worktrees /\ deliveryWork.head \in Delivery!Histories /\
                 deliveryWork.files \in DeliveryTrees /\ deliveryWork.index \in DeliveryTrees
           /\ deliveryMain \in Delivery!Histories /\ deliveryMain # Delivery!Unset
           /\ deliveryRecord \in [base : Delivery!Histories, head : Delivery!Histories] /\
                 deliveryRecord.base \in Delivery!Histories /\
                    deliveryRecord.head \in Delivery!Histories
           /\ Delivery!Expected \in Delivery!Histories
           /\ deliveryRemote \in Delivery!Histories /\ deliveryPublished \in Delivery!Histories /\
                 deliveryPulls \subseteq Delivery!Pulls /\ IsFiniteSet(deliveryPulls)
           /\ DOMAIN deliveryIntent \subseteq 1..deliveryStage /\
                 DOMAIN deliveryAccepted \subseteq 1..(deliveryStage - 1)
           /\ Delivery!Places /\ Delivery!OnRecord /\ Delivery!LastIsRecorded /\
                 Delivery!DeliveredIsAChain /\ Delivery!MayAct /\ Delivery!OnePullRequest
           /\ Delivery!Node # "over" => deliveryStage <= Len(DeliveryPlan)
  <1>1. Len(DeliveryPlan) \in Nat
    BY DEF Delivery!PlanKnown
  <1>2. Delivery!DeliveryTypes /\ Delivery!Places /\ Delivery!OnRecord /\ Delivery!LastIsRecorded /\
           Delivery!DeliveredIsAChain /\ Delivery!MayAct /\ Delivery!OnePullRequest
    BY DEF Delivery!DeliveryInv
  <1>3. deliveryJob.at \in Delivery!JobSteps /\ deliveryJob.seen \in Delivery!Histories /\
           deliveryJob.next \in Delivery!Histories
    BY <1>2 DEF Delivery!DeliveryTypes, Delivery!Jobs
  <1>4. deliveryWork.head \in Delivery!Histories /\ deliveryWork.files \in DeliveryTrees /\
           deliveryWork.index \in DeliveryTrees
    BY <1>2 DEF Delivery!DeliveryTypes, Delivery!Worktrees
  <1>5. deliveryRecord.base \in Delivery!Histories /\ deliveryRecord.head \in Delivery!Histories /\
           Delivery!Expected \in Delivery!Histories
    BY <1>2 DEF Delivery!DeliveryTypes, Delivery!Expected
  <1> QED
    BY <1>1, <1>2, <1>3, <1>4, <1>5, FinitePulls DEF Delivery!DeliveryTypes, Delivery!Node

\* A step within a visit that leaves the records alone.
LEMMA SameVisit ==
    ASSUME Delivery!PlanKnown, Delivery!DeliveryInv,
           UNCHANGED <<deliveryStage, deliveryRecord, deliveryAccepted, deliveryIntent>>,
           deliveryJob' \in Delivery!Jobs, deliveryWork' \in Delivery!Worktrees,
              deliveryMain' \in Delivery!Histories, deliveryMain' # Delivery!Unset,
           deliveryRemote' \in Delivery!Histories, deliveryPublished' \in Delivery!Histories,
              deliveryPulls' \subseteq Delivery!Pulls, IsFiniteSet(deliveryPulls'),
           deliveryJob'.at = "start" => Delivery!Node \in {"prepare", "commit", "push", "pr"},
           deliveryJob'.at = "attach" => Delivery!Node = "prepare" /\ deliveryWork'.at = "branch",
           deliveryJob'.at \in {"check", "capture", "update", "reconcile", "sync", "accept"} =>
              Delivery!Node = "commit" /\ Delivery!Pinned,
           deliveryJob'.at \in {"observe", "send", "look", "record"} => Delivery!Node = "push",
           deliveryJob'.at \in {"find", "create", "reread"} => Delivery!Node = "pr",
           deliveryWork'.at # "absent" => deliveryWork'.head # Delivery!Unset /\
              deliveryRecord.base # Delivery!Unset,
           deliveryJob'.at \in {"update", "sync", "accept"} => deliveryJob'.next = Delivery!Mine(deliveryStage),
           deliveryJob'.at = "send" => deliveryIntent[deliveryStage] = Delivery!Unset \/
              Delivery!IsPrefix(deliveryIntent[deliveryStage], deliveryRecord.head),
           deliveryJob'.at = "create" => \A p \in deliveryPulls' : ~Delivery!Owned(p),
           Delivery!OnePullRequest'
    PROVE  Delivery!DeliveryInv'
  <1>1. Delivery!Node' = Delivery!Node /\ (Delivery!Pinned' <=> Delivery!Pinned) /\
           Delivery!Expected' = Delivery!Expected /\
              Delivery!Mine(deliveryStage)' = Delivery!Mine(deliveryStage)
    BY DEF Delivery!Node, Delivery!Pinned, Delivery!Expected, Delivery!Mine
  <1>2. Delivery!DeliveryTypes'
    BY DeliveryParts, FinitePulls DEF Delivery!DeliveryTypes
  <1>3. Delivery!Places'
    BY <1>1 DEF Delivery!Places
  <1>4. Delivery!OnRecord'
    BY <1>1, DeliveryParts DEF Delivery!OnRecord
  <1>5. Delivery!LastIsRecorded' /\ Delivery!DeliveredIsAChain'
    <2>1. Delivery!LastIsRecorded /\ Delivery!DeliveredIsAChain
      BY DeliveryParts
    <2>2. Delivery!LastIsRecorded'
      BY <2>1 DEF Delivery!LastIsRecorded
    <2>3. Delivery!DeliveredIsAChain'
      BY <2>1 DEF Delivery!DeliveredIsAChain
    <2> QED
      BY <2>2, <2>3
  <1>6. Delivery!MayAct'
    BY DEF Delivery!MayAct, Delivery!Owned
  <1> QED
    BY <1>2, <1>3, <1>4, <1>5, <1>6 DEF Delivery!DeliveryInv

\* A step of the job alone.
LEMMA DeliveryJobOnly ==
    ASSUME Delivery!PlanKnown, Delivery!DeliveryInv,
           UNCHANGED <<deliveryStage, Delivery!local, deliveryIntent, deliveryPublished,
              deliveryAccepted, Delivery!github>>, deliveryJob' \in Delivery!Jobs,
           deliveryJob'.at = "start" => Delivery!Node \in {"prepare", "commit", "push", "pr"},
           deliveryJob'.at = "attach" => Delivery!Node = "prepare" /\ deliveryWork.at = "branch",
           deliveryJob'.at \in {"check", "capture", "update", "reconcile", "sync", "accept"} =>
              Delivery!Node = "commit" /\ Delivery!Pinned,
           deliveryJob'.at \in {"observe", "send", "look", "record"} => Delivery!Node = "push",
           deliveryJob'.at \in {"find", "create", "reread"} => Delivery!Node = "pr",
           deliveryJob'.at \in {"update", "sync", "accept"} => deliveryJob'.next = Delivery!Mine(deliveryStage),
           deliveryJob'.at = "send" => deliveryIntent[deliveryStage] = Delivery!Unset \/
              Delivery!IsPrefix(deliveryIntent[deliveryStage], deliveryRecord.head),
           deliveryJob'.at = "create" => \A p \in deliveryPulls : ~Delivery!Owned(p)
    PROVE  Delivery!DeliveryInv'
  <1>1. UNCHANGED <<deliveryStage, deliveryRecord, deliveryAccepted, deliveryIntent, deliveryWork,
           deliveryMain, deliveryRemote, deliveryPublished, deliveryPulls>>
    BY DEF Delivery!local, Delivery!github
  <1>2. Delivery!OnePullRequest'
    BY <1>1, DeliveryParts DEF Delivery!OnePullRequest
  <1>3. deliveryWork.at # "absent" => deliveryWork.head # Delivery!Unset /\ deliveryRecord.base # Delivery!Unset
    BY DeliveryParts DEF Delivery!Places
  <1> QED
    BY <1>1, <1>2, <1>3, DeliveryParts, SameVisit

\* An attempt that fails.
LEMMA AttemptFails ==
    ASSUME Delivery!PlanKnown, Delivery!DeliveryInv,
           UNCHANGED <<deliveryStage, Delivery!local, deliveryIntent, deliveryPublished,
              deliveryAccepted, Delivery!github>>, deliveryJob' = Delivery!Idle
    PROVE  Delivery!DeliveryInv'
  <1>1. deliveryJob' \in Delivery!Jobs /\ deliveryJob'.at = "idle"
    BY DeliveryEnds
  <1> QED
    BY <1>1, DeliveryJobOnly

\* A visit that is over, whatever its files and its publication became.
LEMMA VisitEnds ==
    ASSUME Delivery!PlanKnown, Delivery!DeliveryInv, Delivery!Node # "over", Delivery!Done,
           UNCHANGED <<deliveryMain, deliveryRecord, deliveryIntent, deliveryAccepted,
              Delivery!github>>,
           deliveryWork' \in Delivery!Worktrees, deliveryWork'.at = deliveryWork.at,
              deliveryWork'.head = deliveryWork.head, deliveryPublished' \in Delivery!Histories
    PROVE  Delivery!DeliveryInv'
  <1>1. deliveryJob' \in Delivery!Jobs /\ deliveryJob'.at = "idle" /\ deliveryStage' = deliveryStage + 1
    BY DeliveryEnds DEF Delivery!Done
  <1>2. UNCHANGED <<deliveryMain, deliveryRecord, deliveryIntent, deliveryAccepted, deliveryRemote,
           deliveryPulls>>
    BY DEF Delivery!github
  <1>3. deliveryStage' \in 1..(Len(DeliveryPlan) + 1) /\
           DOMAIN deliveryIntent' \subseteq 1..deliveryStage' /\
              DOMAIN deliveryAccepted' \subseteq 1..(deliveryStage' - 1)
        /\ deliveryStage' \notin DOMAIN deliveryIntent'
    BY <1>1, <1>2, DeliveryParts
  <1>4. Delivery!DeliveryTypes'
    BY <1>1, <1>2, <1>3, DeliveryParts, FinitePulls DEF Delivery!DeliveryTypes
  <1>5. Delivery!Places' /\ Delivery!OnRecord' /\ Delivery!MayAct'
    BY <1>1, <1>2, <1>3, DeliveryParts DEF Delivery!Places, Delivery!OnRecord, Delivery!MayAct, Delivery!Pinned
  <1>6. Delivery!LastIsRecorded' /\ Delivery!DeliveredIsAChain' /\ Delivery!OnePullRequest'
    BY <1>2, DeliveryParts DEF Delivery!LastIsRecorded, Delivery!DeliveredIsAChain, Delivery!OnePullRequest
  <1> QED
    BY <1>4, <1>5, <1>6 DEF Delivery!DeliveryInv

\* A visit pins what it is about.
LEMMA VisitPins ==
    ASSUME Delivery!PlanKnown, Delivery!DeliveryInv, NEW value, Delivery!Pin(value),
           NEW at \in {"check", "observe", "find"}, Delivery!Goes(at),
           UNCHANGED <<deliveryStage, Delivery!local, deliveryPublished, deliveryAccepted, Delivery!github>>,
           at = "check" => Delivery!Node = "commit",
           at = "observe" => Delivery!Node = "push", at = "find" => Delivery!Node = "pr",
           Delivery!Node = "commit" => /\ value.parent \in Delivery!Histories /\ value.tree \in DeliveryTrees
                              /\ value.parent = Delivery!Expected /\ deliveryRecord.base # Delivery!Unset
    PROVE  Delivery!DeliveryInv'
  <1>1. deliveryJob' \in Delivery!Jobs /\ deliveryJob'.at = at
    BY DeliveryGoes, DeliveryParts DEF Delivery!JobSteps
  <1>2. UNCHANGED <<deliveryStage, deliveryRecord, deliveryAccepted, deliveryWork, deliveryMain,
           deliveryRemote, deliveryPublished, deliveryPulls>>
    BY DEF Delivery!local, Delivery!github
  <1>3. DOMAIN deliveryIntent' = DOMAIN deliveryIntent \cup {deliveryStage} /\
           deliveryIntent'[deliveryStage] = value
    BY PinHolds
  <1>4. Delivery!Node' = Delivery!Node /\ Delivery!Pinned' /\ Delivery!Expected' = Delivery!Expected
    BY <1>2, <1>3 DEF Delivery!Node, Delivery!Pinned, Delivery!Expected
  <1>5. Delivery!DeliveryTypes'
    BY <1>1, <1>2, <1>3, DeliveryParts, FinitePulls DEF Delivery!DeliveryTypes
  <1>6. Delivery!Places' /\ Delivery!MayAct'
    BY <1>1, <1>2, <1>4, DeliveryParts DEF Delivery!Places, Delivery!MayAct
  <1>7. Delivery!OnRecord'
    BY <1>1, <1>2, <1>3, <1>4 DEF Delivery!OnRecord
  <1>8. Delivery!LastIsRecorded' /\ Delivery!DeliveredIsAChain' /\ Delivery!OnePullRequest'
    BY <1>2, DeliveryParts DEF Delivery!LastIsRecorded, Delivery!DeliveredIsAChain, Delivery!OnePullRequest
  <1> QED
    BY <1>5, <1>6, <1>7, <1>8 DEF Delivery!DeliveryInv

\* The worktree is prepared.
LEMMA PrepareStep ==
    ASSUME Delivery!PlanKnown, Delivery!DeliveryInv, Delivery!PrepareRecord \/ Delivery!AttachBranch \/
           Delivery!AttachWorktree \/ Delivery!Prepared \/ Delivery!Edit
    PROVE  Delivery!DeliveryInv'
  <1>0. Delivery!Places /\ deliveryJob \in Delivery!Jobs /\ deliveryWork \in Delivery!Worktrees
    BY DeliveryParts
  <1>1. CASE Delivery!PrepareRecord
    <2>1. /\ Delivery!Node = "prepare" /\ deliveryJob.at = "start" /\ deliveryRecord.base = Delivery!Unset
          /\ deliveryRecord' = [deliveryRecord EXCEPT !.base = deliveryMain] /\ UNCHANGED deliveryJob
          /\ UNCHANGED <<deliveryStage, deliveryMain, deliveryWork, deliveryIntent, deliveryPublished,
                deliveryAccepted, deliveryRemote, deliveryPulls>>
      BY <1>1 DEF Delivery!PrepareRecord, Delivery!github
    <2>2. deliveryRecord' \in [base : Delivery!Histories, head : Delivery!Histories] /\
             deliveryRecord'.base # Delivery!Unset /\ deliveryRecord'.head = deliveryRecord.head
      BY <2>1, DeliveryParts
    <2>3. Delivery!Node' = Delivery!Node /\ DOMAIN deliveryAccepted = {} /\ DOMAIN deliveryAccepted' = {}
      BY <2>1, DeliveryParts DEF Delivery!Node, Delivery!LastIsRecorded
    <2>4. Delivery!DeliveryTypes'
      BY <2>1, <2>2, DeliveryParts, FinitePulls DEF Delivery!DeliveryTypes
    <2>5. Delivery!Places'
      BY <1>0, <2>1, <2>2, <2>3 DEF Delivery!Places
    <2>6. Delivery!OnRecord' /\ Delivery!MayAct'
      BY <2>1, <2>3 DEF Delivery!OnRecord, Delivery!MayAct
    <2>7. Delivery!LastIsRecorded'
      BY <2>1, <2>2, <2>3, DeliveryParts DEF Delivery!LastIsRecorded
    <2>8. Delivery!DeliveredIsAChain' /\ Delivery!OnePullRequest'
      BY <2>1, <2>3, DeliveryParts DEF Delivery!DeliveredIsAChain, Delivery!OnePullRequest
    <2> QED
      BY <2>4, <2>5, <2>6, <2>7, <2>8 DEF Delivery!DeliveryInv
  <1>2. CASE Delivery!AttachBranch
    <2>1. CASE deliveryWork' = [deliveryWork EXCEPT !.at = "branch", !.head = deliveryRecord.base] /\
                  Delivery!Goes("attach")
      <3>1. /\ Delivery!Node = "prepare" /\ deliveryRecord.base # Delivery!Unset
            /\ UNCHANGED <<deliveryStage, deliveryRecord, deliveryAccepted, deliveryIntent,
                  deliveryMain, deliveryRemote, deliveryPublished, deliveryPulls>>
        BY <1>2 DEF Delivery!AttachBranch, Delivery!github
      <3>2. deliveryWork' \in Delivery!Worktrees /\ deliveryWork'.at = "branch" /\
               deliveryWork'.head = deliveryRecord.base
        BY <2>1, DeliveryParts DEF Delivery!Worktrees
      <3>3. deliveryJob' \in Delivery!Jobs /\ deliveryJob'.at = "attach"
        BY <1>0, <2>1, DeliveryGoes DEF Delivery!JobSteps
      <3>4. Delivery!OnePullRequest'
        BY <3>1, DeliveryParts DEF Delivery!OnePullRequest
      <3> QED
        BY <3>1, <3>2, <3>3, <3>4, DeliveryParts, SameVisit
    <2>2. CASE Delivery!Fails /\ UNCHANGED deliveryWork
      BY <1>2, <2>2, AttemptFails DEF Delivery!AttachBranch, Delivery!Fails, Delivery!local
    <2> QED
      BY <1>2, <2>1, <2>2 DEF Delivery!AttachBranch
  <1>3. CASE Delivery!AttachWorktree
    <2>1. /\ deliveryJob.at = "attach" /\ Delivery!Goes("start")
          /\ deliveryWork' = [deliveryWork EXCEPT !.at = "ready",
                !.index = Delivery!TreeOf(deliveryWork.head),
                   !.files = Delivery!TreeOf(deliveryWork.head)]
          /\ UNCHANGED <<deliveryStage, deliveryRecord, deliveryAccepted, deliveryIntent, deliveryMain,
                deliveryRemote, deliveryPublished, deliveryPulls>>
      BY <1>3 DEF Delivery!AttachWorktree, Delivery!github
    <2>2. Delivery!Node = "prepare" /\ deliveryWork.head # Delivery!Unset /\
             deliveryRecord.base # Delivery!Unset
      BY <1>0, <2>1 DEF Delivery!Places
    <2> DEFINE t == Delivery!TreeOf(deliveryWork.head)
    <2>3. t \in DeliveryTrees
      BY <2>2, DeliveryParts, HistoryHolds
    <2>4. deliveryWork' = [deliveryWork EXCEPT !.at = "ready", !.index = t, !.files = t]
      BY <2>1
    <2> HIDE DEF t
    <2>5. deliveryWork' \in Delivery!Worktrees /\ deliveryWork'.at = "ready" /\
             deliveryWork'.head = deliveryWork.head
      BY <1>0, <2>3, <2>4 DEF Delivery!Worktrees
    <2>6. deliveryJob' \in Delivery!Jobs /\ deliveryJob'.at = "start"
      BY <1>0, <2>1, DeliveryGoes DEF Delivery!JobSteps
    <2>7. Delivery!OnePullRequest'
      BY <2>1, DeliveryParts DEF Delivery!OnePullRequest
    <2> QED
      BY <2>1, <2>2, <2>5, <2>6, <2>7, DeliveryParts, SameVisit
  <1>4. CASE Delivery!Prepared
    <2>1. Delivery!Node = "prepare" /\ Delivery!Done /\
             UNCHANGED <<deliveryMain, deliveryRecord, deliveryWork, deliveryIntent, deliveryPublished,
                deliveryAccepted, Delivery!github>>
      BY <1>4 DEF Delivery!Prepared, Delivery!local
    <2> QED
      BY <2>1, DeliveryParts, VisitEnds
  <1>5. CASE Delivery!Edit
    <2>1. PICK t \in DeliveryTrees : deliveryWork' = [deliveryWork EXCEPT !.files = t]
      BY <1>5 DEF Delivery!Edit
    <2>2. Delivery!Node = "edit" /\ Delivery!Done /\
             UNCHANGED <<deliveryMain, deliveryRecord, deliveryIntent, deliveryPublished,
                deliveryAccepted, Delivery!github>>
      BY <1>5 DEF Delivery!Edit
    <2>3. deliveryWork' \in Delivery!Worktrees /\ deliveryWork'.at = deliveryWork.at /\
             deliveryWork'.head = deliveryWork.head
      BY <1>0, <2>1 DEF Delivery!Worktrees
    <2> QED
      BY <2>2, <2>3, DeliveryParts, VisitEnds
  <1> QED
    BY <1>1, <1>2, <1>3, <1>4, <1>5

\* A commit is planned, made and found again.
LEMMA CommitStep ==
    ASSUME Delivery!PlanKnown, Delivery!DeliveryInv,
           Delivery!CommitPlan \/ Delivery!CommitCheck \/ Delivery!CommitCapture \/
              Delivery!UpdateRef \/ Delivery!Reconcile \/ Delivery!CommitSync
    PROVE  Delivery!DeliveryInv'
  <1>0. /\ Delivery!Places /\ Delivery!OnRecord /\ Delivery!MayAct /\ deliveryJob \in Delivery!Jobs /\
              deliveryWork \in Delivery!Worktrees
        /\ deliveryRecord \in [base : Delivery!Histories, head : Delivery!Histories] /\ deliveryStage \in Nat
    BY DeliveryParts
  <1>1. CASE Delivery!CommitPlan
    <2>0. Delivery!Node = "commit" /\ deliveryJob.at = "start" /\
             UNCHANGED <<deliveryStage, Delivery!local, deliveryPublished, deliveryAccepted,
                Delivery!github>>
      BY <1>1 DEF Delivery!CommitPlan
    <2>1. CASE Delivery!Pinned /\ Delivery!Goes("check") /\ UNCHANGED deliveryIntent
      <3>1. deliveryJob' \in Delivery!Jobs /\ deliveryJob'.at = "check"
        BY <1>0, <2>1, DeliveryGoes DEF Delivery!JobSteps
      <3> QED
        BY <2>0, <2>1, <3>1, DeliveryJobOnly
    <2>2. CASE Delivery!Resolved(FALSE) /\ Delivery!Pin(Delivery!Candidate) /\ Delivery!Goes("check")
      <3>1. /\ Delivery!Candidate.parent = Delivery!Expected /\
                  Delivery!Candidate.parent \in Delivery!Histories /\
                     Delivery!Candidate.tree \in DeliveryTrees
            /\ deliveryRecord.base # Delivery!Unset
        BY <1>0, <2>2, DeliveryParts DEF Delivery!Resolved, Delivery!Candidate, Delivery!Snapshot,
           Delivery!Places
      <3> QED
        BY <2>0, <2>2, <3>1, VisitPins
    <2>3. CASE Delivery!Fails /\ UNCHANGED deliveryIntent
      BY <2>0, <2>3, AttemptFails DEF Delivery!Fails
    <2> QED
      BY <1>1, <2>1, <2>2, <2>3 DEF Delivery!CommitPlan
  <1>2. CASE Delivery!CommitCheck
    <2>0. /\ Delivery!Node = "commit" /\ Delivery!Pinned /\
                UNCHANGED <<deliveryStage, Delivery!local, deliveryIntent, deliveryPublished,
                   deliveryAccepted, Delivery!github>>
      BY <1>0, <1>2 DEF Delivery!CommitCheck, Delivery!Places
    <2>1. CASE deliveryJob' = [deliveryJob EXCEPT !.at = "capture", !.seen = deliveryRecord.head]
      <3>1. deliveryJob' \in Delivery!Jobs /\ deliveryJob'.at = "capture"
        BY <1>0, <2>1 DEF Delivery!Jobs, Delivery!JobSteps
      <3> QED
        BY <2>0, <3>1, DeliveryJobOnly
    <2>2. CASE Delivery!Fails
      BY <2>0, <2>2, AttemptFails DEF Delivery!Fails
    <2> QED
      BY <1>2, <2>1, <2>2 DEF Delivery!CommitCheck
  <1>3. CASE Delivery!CommitCapture \/ Delivery!Reconcile
    <2>0. /\ Delivery!Node = "commit" /\ Delivery!Pinned /\
                UNCHANGED <<deliveryStage, Delivery!local, deliveryIntent, deliveryPublished,
                   deliveryAccepted, Delivery!github>>
          /\ deliveryIntent[deliveryStage].parent \in Delivery!Histories /\
                deliveryIntent[deliveryStage].tree \in DeliveryTrees
      BY <1>0, <1>3 DEF Delivery!CommitCapture, Delivery!Reconcile, Delivery!Places, Delivery!OnRecord
    <2> DEFINE mine == Delivery!Mine(deliveryStage)
    <2>1. mine \in Delivery!Histories
      BY <1>0, <2>0, HistoryGrows, MadeIsCommit DEF Delivery!Mine
    <2>2. mine = Append(deliveryIntent[deliveryStage].parent,
             Delivery!Made(deliveryIntent[deliveryStage].tree, deliveryStage))
      BY DEF Delivery!Mine
    <2> HIDE DEF mine
    <2>3. ASSUME NEW at \in {"update", "sync", "accept"},
                 deliveryJob' = [deliveryJob EXCEPT !.at = at, !.next = mine]
                 PROVE Delivery!DeliveryInv'
      <3>1. deliveryJob' \in Delivery!Jobs /\ deliveryJob'.at = at /\ deliveryJob'.next = mine
        BY <1>0, <2>1, <2>3 DEF Delivery!Jobs, Delivery!JobSteps
      <3> QED
        BY <2>0, <3>1, DeliveryJobOnly DEF mine
    <2>4. CASE Delivery!Goes("reconcile")
      <3>1. deliveryJob' \in Delivery!Jobs /\ deliveryJob'.at = "reconcile"
        BY <1>0, <2>4, DeliveryGoes DEF Delivery!JobSteps
      <3> QED
        BY <2>0, <3>1, DeliveryJobOnly
    <2>5. CASE Delivery!Fails
      BY <2>0, <2>5, AttemptFails DEF Delivery!Fails
    <2> QED
      BY <1>3, <2>2, <2>3, <2>4, <2>5 DEF Delivery!CommitCapture, Delivery!Reconcile
  <1>4. CASE Delivery!UpdateRef
    <2>0. Delivery!Node = "commit" /\ Delivery!Pinned /\ deliveryJob.at = "update" /\
             deliveryJob.next = Delivery!Mine(deliveryStage) /\ deliveryJob.next \in Delivery!Histories
      BY <1>0, <1>4, DeliveryParts DEF Delivery!UpdateRef, Delivery!Places, Delivery!OnRecord
    <2>1. CASE deliveryWork' = [deliveryWork EXCEPT !.head = deliveryJob.next] /\
                  Delivery!Goes("sync") /\ Delivery!OnParent(deliveryIntent[deliveryStage])
      <3>1. deliveryWork' \in Delivery!Worktrees /\ deliveryWork'.at = deliveryWork.at /\
               deliveryWork'.head = deliveryJob.next
        BY <1>0, <2>0, <2>1 DEF Delivery!Worktrees
      <3>2. deliveryJob' \in Delivery!Jobs /\ deliveryJob'.at = "sync" /\ deliveryJob'.next = deliveryJob.next
        BY <1>0, <2>1, DeliveryGoes DEF Delivery!JobSteps
      <3>3. deliveryJob.next # Delivery!Unset /\ deliveryRecord.base # Delivery!Unset
        BY <1>0, <2>0, HistoryGrows, MadeIsCommit DEF Delivery!Mine, Delivery!OnRecord
      <3>4. UNCHANGED <<deliveryStage, deliveryRecord, deliveryAccepted, deliveryIntent, deliveryMain,
               deliveryRemote, deliveryPublished, deliveryPulls>>
        BY <1>4 DEF Delivery!UpdateRef, Delivery!github
      <3>5. Delivery!OnePullRequest'
        BY <3>4, DeliveryParts DEF Delivery!OnePullRequest
      <3> QED
        BY <2>0, <3>1, <3>2, <3>3, <3>4, <3>5, DeliveryParts, SameVisit
    <2>2. CASE Delivery!Goes("reconcile") /\ UNCHANGED deliveryWork
      <3>1. deliveryJob' \in Delivery!Jobs /\ deliveryJob'.at = "reconcile"
        BY <1>0, <2>2, DeliveryGoes DEF Delivery!JobSteps
      <3> QED
        BY <1>4, <2>0, <2>2, <3>1, DeliveryJobOnly DEF Delivery!UpdateRef, Delivery!local
    <2> QED
      BY <1>4, <2>1, <2>2 DEF Delivery!UpdateRef
  <1>5. CASE Delivery!CommitSync
    <2> DEFINE t == Delivery!TreeOf(deliveryJob.next)
    <2>0. /\ Delivery!Node = "commit" /\ Delivery!Pinned /\
                deliveryJob.next = Delivery!Mine(deliveryStage) /\
                   deliveryJob.next \in Delivery!Histories
          /\ deliveryWork' = [deliveryWork EXCEPT !.index = t]
          /\ UNCHANGED <<deliveryStage, deliveryRecord, deliveryAccepted, deliveryIntent, deliveryMain,
                deliveryRemote, deliveryPublished, deliveryPulls>>
      BY <1>0, <1>5, DeliveryParts DEF Delivery!CommitSync, Delivery!Places, Delivery!OnRecord, Delivery!github
    <2>1. t \in DeliveryTrees
      BY <1>0, <2>0, HistoryGrows, HistoryHolds, MadeIsCommit DEF Delivery!Mine, Delivery!OnRecord
    <2> HIDE DEF t
    <2>2. deliveryWork' \in Delivery!Worktrees /\ deliveryWork'.at = deliveryWork.at /\
             deliveryWork'.head = deliveryWork.head
      BY <1>0, <2>0, <2>1 DEF Delivery!Worktrees
    <2>3. Delivery!OnePullRequest'
      BY <2>0, DeliveryParts DEF Delivery!OnePullRequest
    <2>4. PICK at \in {"accept", "idle"} : deliveryJob' \in Delivery!Jobs /\ deliveryJob'.at = at /\
             (at = "accept" => deliveryJob'.next = deliveryJob.next)
      <3>1. CASE Delivery!Goes("accept")
        BY <1>0, <3>1, DeliveryGoes DEF Delivery!JobSteps
      <3>2. CASE Delivery!Fails
        BY <3>2, DeliveryEnds DEF Delivery!Fails
      <3> QED
        BY <1>5, <3>1, <3>2 DEF Delivery!CommitSync
    <2>5. deliveryWork.at # "absent" => deliveryWork.head # Delivery!Unset /\
             deliveryRecord.base # Delivery!Unset
      BY <1>0 DEF Delivery!Places
    <2> QED
      BY <2>0, <2>2, <2>3, <2>4, <2>5, DeliveryParts, SameVisit
  <1> QED
    BY <1>1, <1>2, <1>3, <1>4, <1>5

\* A commit is accepted: it is the next of the chain.
LEMMA AcceptStep ==
    ASSUME Delivery!PlanKnown, Delivery!DeliveryInv, Delivery!CommitAccept PROVE Delivery!DeliveryInv'
  <1>0. /\ Delivery!Places /\ Delivery!OnRecord /\ Delivery!LastIsRecorded /\
              Delivery!DeliveredIsAChain /\ Delivery!OnePullRequest
        /\ deliveryStage \in Nat /\ deliveryStage >= 1 /\ deliveryJob.at = "accept" /\
              DOMAIN deliveryAccepted \subseteq 1..(deliveryStage - 1)
    BY DeliveryParts DEF Delivery!CommitAccept
  <1>1. /\ Delivery!Node = "commit" /\ Delivery!Pinned /\
              deliveryJob.next = Delivery!Mine(deliveryStage) /\ deliveryJob.next \in Delivery!Histories
        /\ deliveryIntent[deliveryStage].parent \in Delivery!Histories /\
              deliveryIntent[deliveryStage].tree \in DeliveryTrees
        /\ deliveryIntent[deliveryStage].parent = Delivery!Expected /\ deliveryRecord.base # Delivery!Unset
    BY <1>0, DeliveryParts DEF Delivery!Places, Delivery!OnRecord
  <1>2. CASE Delivery!Fails /\ UNCHANGED <<deliveryStage, deliveryRecord, deliveryAccepted>>
    BY <1>2, AttemptFails DEF Delivery!CommitAccept, Delivery!Fails, Delivery!local
  <1>3. CASE /\ deliveryRecord' = [deliveryRecord EXCEPT !.head = deliveryJob.next]
             /\ deliveryAccepted' = [s \in DOMAIN deliveryAccepted \cup {deliveryStage} |-> IF s = deliveryStage THEN deliveryJob.next ELSE deliveryAccepted[s]]
             /\ Delivery!Done
    <2>1. UNCHANGED <<deliveryMain, deliveryWork, deliveryIntent, deliveryPublished, deliveryRemote,
             deliveryPulls>>
      BY DEF Delivery!CommitAccept, Delivery!github
    <2>2. deliveryRecord' \in [base : Delivery!Histories, head : Delivery!Histories] /\
             deliveryRecord'.base = deliveryRecord.base /\ deliveryRecord'.head = deliveryJob.next
      BY <1>1, <1>3, DeliveryParts
    <2>3. /\ DOMAIN deliveryAccepted' = DOMAIN deliveryAccepted \cup {deliveryStage} /\
                deliveryAccepted'[deliveryStage] = deliveryJob.next
          /\ \A s \in DOMAIN deliveryAccepted : deliveryAccepted'[s] = deliveryAccepted[s]
      BY <1>0, <1>3
    <2>4. deliveryJob' \in Delivery!Jobs /\ deliveryJob'.at = "idle" /\ deliveryStage' = deliveryStage + 1
      BY <1>3, DeliveryEnds DEF Delivery!Done
    <2>5. /\ Len(deliveryJob.next) = Len(Delivery!Expected) + 1 /\
                Delivery!IsPrefix(Delivery!Expected, deliveryJob.next) /\
                   Delivery!Last(deliveryJob.next).op = deliveryStage
          /\ deliveryJob.next # Delivery!Unset
      BY <1>0, <1>1, HistoryGrows, MadeIsCommit DEF Delivery!Mine
    <2>6. /\ deliveryStage' \in 1..(Len(DeliveryPlan) + 1) /\
                DOMAIN deliveryIntent' \subseteq 1..deliveryStage' /\
                   DOMAIN deliveryAccepted' \subseteq 1..(deliveryStage' - 1)
          /\ deliveryStage' \notin DOMAIN deliveryIntent'
      BY <1>0, <1>1, <2>1, <2>3, <2>4, DeliveryParts
    <2>7. Delivery!DeliveryTypes'
      BY <2>1, <2>2, <2>4, <2>6, DeliveryParts, FinitePulls DEF Delivery!DeliveryTypes
    <2>8. Delivery!Places' /\ Delivery!OnRecord' /\ Delivery!MayAct' /\ Delivery!OnePullRequest'
      BY <1>0, <2>1, <2>2, <2>4, <2>6 DEF Delivery!Places, Delivery!OnRecord, Delivery!MayAct,
         Delivery!Pinned, Delivery!OnePullRequest
    <2>9. Delivery!LastIsRecorded'
      <3>1. \A r \in DOMAIN deliveryAccepted' : r <= deliveryStage
        BY <1>0, <2>3
      <3> DEFINE before(acc, s) == {q \in DOMAIN acc : q < s}
                 Latest(acc, s) == before(acc, s) # {} => \E q \in before(acc, s) :
                    \A r \in before(acc, s) : r <= q
      <3>2. ASSUME NEW s \in DOMAIN deliveryAccepted PROVE Latest(deliveryAccepted', s)
        <4>1. before(deliveryAccepted', s) = before(deliveryAccepted, s)
          BY <1>0, <2>3
        <4>2. Latest(deliveryAccepted, s)
          BY <1>0 DEF Delivery!LastIsRecorded
        <4> QED
          BY <4>1, <4>2
      <3>3. Latest(deliveryAccepted', deliveryStage)
        <4>1. before(deliveryAccepted', deliveryStage) = DOMAIN deliveryAccepted
          BY <1>0, <2>3
        <4>2. DOMAIN deliveryAccepted # {} => \E q \in DOMAIN deliveryAccepted :
                 \A r \in DOMAIN deliveryAccepted : r <= q
          BY <1>0 DEF Delivery!LastIsRecorded
        <4> QED
          BY <4>1, <4>2
      <3>4. \A s \in DOMAIN deliveryAccepted' : Latest(deliveryAccepted', s)
        <4> HIDE DEF Latest
        <4> QED
          BY <2>3, <3>2, <3>3
      <3> QED
        BY <1>1, <2>2, <2>3, <2>5, <3>1, <3>4 DEF Delivery!LastIsRecorded
    <2> DEFINE earlier(acc, s) == {q \in DOMAIN acc : q < s}
               parent(acc, s) == IF earlier(acc, s) = {} THEN deliveryRecord.base
                                 ELSE acc[CHOOSE q \in earlier(acc, s) : \A r \in earlier(acc, s) : r <= q]
               Next1(acc, s) == /\ Len(acc[s]) = Len(parent(acc, s)) + 1 /\
                                    Delivery!IsPrefix(parent(acc, s), acc[s])
                                /\ Delivery!Last(acc[s]).op = s
    <2>10. Delivery!DeliveredIsAChain' <=> \A s \in DOMAIN deliveryAccepted' : Next1(deliveryAccepted', s)
      BY <2>2 DEF Delivery!DeliveredIsAChain
    <2>11. ASSUME NEW s \in DOMAIN deliveryAccepted PROVE Next1(deliveryAccepted', s)
      <3>1. Next1(deliveryAccepted, s)
        BY <1>0 DEF Delivery!DeliveredIsAChain
      <3>2. earlier(deliveryAccepted', s) = earlier(deliveryAccepted, s) /\
               deliveryAccepted'[s] = deliveryAccepted[s]
        BY <1>0, <2>3
      <3>3. parent(deliveryAccepted', s) = parent(deliveryAccepted, s)
        <4>1. CASE earlier(deliveryAccepted, s) = {}
          BY <3>2, <4>1
        <4>2. CASE earlier(deliveryAccepted, s) # {}
          <5>1. \E m \in earlier(deliveryAccepted, s) : \A r \in earlier(deliveryAccepted, s) : r <= m
            BY <1>0, <4>2 DEF Delivery!LastIsRecorded
          <5> DEFINE m == CHOOSE m \in earlier(deliveryAccepted, s) :
                 \A r \in earlier(deliveryAccepted, s) : r <= m
          <5>2. m \in earlier(deliveryAccepted, s)
            BY <5>1
          <5>3. m \in DOMAIN deliveryAccepted
            BY <5>2
          <5> QED
            BY <2>3, <3>2, <4>2, <5>3
        <4> QED
          BY <4>1, <4>2
      <3> QED
        BY <3>1, <3>2, <3>3
    <2>12. Next1(deliveryAccepted', deliveryStage)
      <3>1. earlier(deliveryAccepted', deliveryStage) = DOMAIN deliveryAccepted
        BY <1>0, <2>3
      <3>2. parent(deliveryAccepted', deliveryStage) = Delivery!Expected
        <4>1. CASE DOMAIN deliveryAccepted = {}
          BY <1>0, <3>1, <4>1 DEF Delivery!LastIsRecorded, Delivery!Expected
        <4>2. CASE DOMAIN deliveryAccepted # {}
          <5>1. PICK q \in DOMAIN deliveryAccepted : deliveryRecord.head = deliveryAccepted[q] /\
                   \A r \in DOMAIN deliveryAccepted : r <= q
            BY <1>0, <4>2 DEF Delivery!LastIsRecorded
          <5>2. (CHOOSE m \in DOMAIN deliveryAccepted : \A r \in DOMAIN deliveryAccepted : r <= m) = q
            BY <1>0, <5>1
          <5>3. deliveryRecord.head # Delivery!Unset
            BY <1>0, <4>2 DEF Delivery!LastIsRecorded
          <5> QED
            BY <2>3, <3>1, <4>2, <5>1, <5>2, <5>3 DEF Delivery!Expected
        <4> QED
          BY <4>1, <4>2
      <3> QED
        BY <2>3, <2>5, <3>2
    <2> HIDE DEF Next1
    <2>13. Delivery!DeliveredIsAChain'
      BY <2>3, <2>10, <2>11, <2>12
    <2> QED
      BY <2>7, <2>8, <2>9, <2>13 DEF Delivery!DeliveryInv
  <1> QED
    BY <1>2, <1>3 DEF Delivery!CommitAccept

\* A push is planned, sent and recorded.
LEMMA PushStep ==
    ASSUME Delivery!PlanKnown, Delivery!DeliveryInv, Delivery!PushPlan \/ Delivery!PushObserve \/
           Delivery!PushSend \/ Delivery!PushLook \/ Delivery!PushRecord
    PROVE  Delivery!DeliveryInv'
  <1>0. /\ Delivery!Places /\ Delivery!MayAct /\ deliveryJob \in Delivery!Jobs /\
              deliveryWork \in Delivery!Worktrees
        /\ deliveryRecord.head \in Delivery!Histories /\ deliveryStage \in Nat
    BY DeliveryParts
  <1>1. CASE Delivery!PushPlan
    <2>0. Delivery!Node = "push" /\ UNCHANGED <<deliveryStage, Delivery!local, deliveryPublished,
             deliveryAccepted, Delivery!github>>
      BY <1>1 DEF Delivery!PushPlan
    <2>1. CASE Delivery!Goes("observe") /\ UNCHANGED deliveryIntent
      <3>1. deliveryJob' \in Delivery!Jobs /\ deliveryJob'.at = "observe"
        BY <1>0, <2>1, DeliveryGoes DEF Delivery!JobSteps
      <3> QED
        BY <2>0, <2>1, <3>1, DeliveryJobOnly
    <2>2. CASE Delivery!Goes("observe") /\ Delivery!Pin(deliveryPublished)
      BY <2>0, <2>2, VisitPins
    <2>3. CASE Delivery!Fails /\ UNCHANGED deliveryIntent
      BY <2>0, <2>3, AttemptFails DEF Delivery!Fails
    <2> QED
      BY <1>1, <2>1, <2>2, <2>3 DEF Delivery!PushPlan
  <1>2. CASE Delivery!PushObserve \/ Delivery!PushLook
    <2>0. Delivery!Node = "push" /\ UNCHANGED <<deliveryStage, Delivery!local, deliveryIntent,
             deliveryPublished, deliveryAccepted, Delivery!github>>
      BY <1>0, <1>2 DEF Delivery!PushObserve, Delivery!PushLook, Delivery!Places
    <2>1. CASE Delivery!Goes("record")
      <3>1. deliveryJob' \in Delivery!Jobs /\ deliveryJob'.at = "record"
        BY <1>0, <2>1, DeliveryGoes DEF Delivery!JobSteps
      <3> QED
        BY <2>0, <3>1, DeliveryJobOnly
    <2>2. CASE Delivery!Goes("send") /\ Delivery!AsExpected /\
                  (deliveryRemote # Delivery!Unset =>
                     Delivery!IsPrefix(deliveryRemote, deliveryRecord.head))
      <3>1. deliveryJob' \in Delivery!Jobs /\ deliveryJob'.at = "send"
        BY <1>0, <2>2, DeliveryGoes DEF Delivery!JobSteps
      <3>2. deliveryIntent[deliveryStage] = Delivery!Unset \/
               Delivery!IsPrefix(deliveryIntent[deliveryStage], deliveryRecord.head)
        BY <2>2 DEF Delivery!AsExpected
      <3> QED
        BY <2>0, <3>1, <3>2, DeliveryJobOnly
    <2>3. CASE Delivery!Fails
      BY <2>0, <2>3, AttemptFails DEF Delivery!Fails
    <2> QED
      BY <1>2, <2>1, <2>2, <2>3 DEF Delivery!PushObserve, Delivery!PushLook
  <1>3. CASE Delivery!PushSend
    <2>0. Delivery!Node = "push" /\ UNCHANGED <<deliveryStage, deliveryRecord, deliveryAccepted,
             deliveryIntent, deliveryWork, deliveryMain, deliveryPublished, deliveryPulls>>
      BY <1>0, <1>3 DEF Delivery!PushSend, Delivery!Places, Delivery!local
    <2>1. deliveryRemote' = deliveryRecord.head \/ deliveryRemote' = deliveryRemote
      BY <1>3 DEF Delivery!PushSend
    <2>2. PICK at \in {"record", "look"} : Delivery!Goes(at)
      BY <1>3 DEF Delivery!PushSend
    <2>3. deliveryJob' \in Delivery!Jobs /\ deliveryJob'.at = at
      BY <1>0, <2>2, DeliveryGoes DEF Delivery!JobSteps
    <2>4. Delivery!OnePullRequest'
      BY <2>0, DeliveryParts DEF Delivery!OnePullRequest
    <2>5. deliveryWork.at # "absent" => deliveryWork.head # Delivery!Unset /\
             deliveryRecord.base # Delivery!Unset
      BY <1>0 DEF Delivery!Places
    <2> QED
      BY <2>0, <2>1, <2>3, <2>4, <2>5, DeliveryParts, SameVisit
  <1>4. CASE Delivery!PushRecord
    <2>1. Delivery!Node = "push" /\ Delivery!Done /\ deliveryPublished' = deliveryRecord.head /\
             UNCHANGED <<deliveryMain, deliveryRecord, deliveryWork, deliveryIntent, deliveryAccepted,
                Delivery!github>>
      BY <1>0, <1>4 DEF Delivery!PushRecord, Delivery!Places, Delivery!local
    <2> QED
      BY <1>0, <2>1, VisitEnds
  <1> QED
    BY <1>1, <1>2, <1>3, <1>4

\* A pull request is looked for and created.
LEMMA PullStep ==
    ASSUME Delivery!PlanKnown, Delivery!DeliveryInv, Delivery!PullPlan \/ Delivery!PullFind \/
           Delivery!PullCreate PROVE Delivery!DeliveryInv'
  <1>0. /\ Delivery!Places /\ Delivery!MayAct /\ Delivery!OnePullRequest /\
              deliveryJob \in Delivery!Jobs /\ deliveryWork \in Delivery!Worktrees
        /\ deliveryPublished \in Delivery!Histories /\ deliveryStage \in Nat /\
              deliveryRemote \in Delivery!Histories /\ deliveryPulls \subseteq Delivery!Pulls /\
                 IsFiniteSet(deliveryPulls)
    BY DeliveryParts
  <1>1. CASE Delivery!PullPlan
    <2>0. Delivery!Node = "pr" /\ UNCHANGED <<deliveryStage, Delivery!local, deliveryPublished,
             deliveryAccepted, Delivery!github>>
      BY <1>1 DEF Delivery!PullPlan
    <2>1. CASE Delivery!Goes("find") /\ UNCHANGED deliveryIntent
      <3>1. deliveryJob' \in Delivery!Jobs /\ deliveryJob'.at = "find"
        BY <1>0, <2>1, DeliveryGoes DEF Delivery!JobSteps
      <3> QED
        BY <2>0, <2>1, <3>1, DeliveryJobOnly
    <2>2. CASE Delivery!Goes("find") /\ Delivery!Pin(deliveryPublished)
      BY <2>0, <2>2, VisitPins
    <2>3. CASE Delivery!Fails /\ UNCHANGED deliveryIntent
      BY <2>0, <2>3, AttemptFails DEF Delivery!Fails
    <2> QED
      BY <1>1, <2>1, <2>2, <2>3 DEF Delivery!PullPlan
  <1>2. CASE Delivery!PullFind
    <2>0. Delivery!Node = "pr" /\ UNCHANGED <<Delivery!local, deliveryIntent, deliveryPublished,
             deliveryAccepted, Delivery!github>>
      BY <1>2 DEF Delivery!PullFind
    <2>1. CASE Delivery!Done
      BY <1>0, <2>0, <2>1, VisitEnds DEF Delivery!local
    <2>2. CASE Delivery!Matching = {} /\ Delivery!Goes("create") /\ UNCHANGED deliveryStage
      <3>1. deliveryJob' \in Delivery!Jobs /\ deliveryJob'.at = "create"
        BY <1>0, <2>2, DeliveryGoes DEF Delivery!JobSteps
      <3> QED
        BY <2>0, <2>2, <3>1, DeliveryJobOnly DEF Delivery!Matching
    <2>3. CASE Delivery!Fails /\ UNCHANGED deliveryStage
      BY <2>0, <2>3, AttemptFails DEF Delivery!Fails
    <2> QED
      BY <1>2, <2>1, <2>2, <2>3 DEF Delivery!PullFind
  <1>3. CASE Delivery!PullCreate
    <2> DEFINE new == [owner |-> "darkstar", rev |-> deliveryStage, head |-> deliveryRemote,
           state |-> "open", n |-> Cardinality(deliveryPulls)]
    <2>0. /\ Delivery!Node = "pr" /\ UNCHANGED <<deliveryStage, deliveryRecord, deliveryAccepted,
                deliveryIntent, deliveryWork, deliveryMain, deliveryPublished, deliveryRemote>>
          /\ \A p \in deliveryPulls : ~Delivery!Owned(p)
      BY <1>0, <1>3 DEF Delivery!PullCreate, Delivery!Places, Delivery!MayAct, Delivery!local
    <2>1. deliveryJob' \in Delivery!Jobs /\ deliveryJob'.at = "reread"
      BY <1>0, <1>3, DeliveryGoes DEF Delivery!PullCreate, Delivery!JobSteps
    <2>2. deliveryPulls' = deliveryPulls \cup {new} \/ deliveryPulls' = deliveryPulls
      BY <1>3, FinitePulls DEF Delivery!PullCreate
    <2>3. new \in Delivery!Pulls
      <3>1. Cardinality(deliveryPulls) \in Nat
        BY <1>0, FS_CardinalityType
      <3> QED
        BY <1>0, <3>1 DEF Delivery!Pulls
    <2> HIDE DEF new
    <2>4. deliveryPulls' \subseteq Delivery!Pulls /\ IsFiniteSet(deliveryPulls')
      BY <1>0, <2>2, <2>3, FS_AddElement
    <2>5. Delivery!OnePullRequest'
      BY <1>0, <2>0, <2>2 DEF Delivery!OnePullRequest, Delivery!Owned
    <2>6. deliveryWork.at # "absent" => deliveryWork.head # Delivery!Unset /\
             deliveryRecord.base # Delivery!Unset
      BY <1>0 DEF Delivery!Places
    <2> QED
      BY <2>0, <2>1, <2>4, <2>5, <2>6, DeliveryParts, SameVisit
  <1> QED
    BY <1>1, <1>2, <1>3

\* Others work in the worktree and at the remote.
LEMMA OthersStep ==
    ASSUME Delivery!PlanKnown, Delivery!DeliveryInv, Delivery!Stray \/ Delivery!Foreign
    PROVE Delivery!DeliveryInv'
  <1>0. /\ Delivery!Places /\ Delivery!OnRecord /\ Delivery!MayAct /\ Delivery!OnePullRequest /\
              deliveryJob \in Delivery!Jobs /\ deliveryWork \in Delivery!Worktrees /\
                 deliveryMain \in Delivery!Histories
        /\ deliveryWork.head \in Delivery!Histories /\ deliveryWork.files \in DeliveryTrees
        /\ deliveryRemote \in Delivery!Histories /\ deliveryPulls \subseteq Delivery!Pulls /\
              IsFiniteSet(deliveryPulls)
    BY DeliveryParts
  <1>1. /\ deliveryJob'.at = "start" => Delivery!Node \in {"prepare", "commit", "push", "pr"}
        /\ deliveryJob'.at = "attach" => Delivery!Node = "prepare" /\ deliveryWork.at = "branch"
        /\ deliveryJob'.at \in {"check", "capture", "update", "reconcile", "sync", "accept"} =>
              Delivery!Node = "commit" /\ Delivery!Pinned
        /\ deliveryJob'.at \in {"observe", "send", "look", "record"} => Delivery!Node = "push"
        /\ deliveryJob'.at \in {"find", "create", "reread"} => Delivery!Node = "pr"
        /\ deliveryWork.at # "absent" => deliveryWork.head # Delivery!Unset /\
              deliveryRecord.base # Delivery!Unset
        /\ deliveryJob'.at \in {"update", "sync", "accept"} => deliveryJob'.next = Delivery!Mine(deliveryStage)
        /\ deliveryJob'.at = "send" => deliveryIntent[deliveryStage] = Delivery!Unset \/
              Delivery!IsPrefix(deliveryIntent[deliveryStage], deliveryRecord.head)
        /\ deliveryJob'.at = "create" => \A p \in deliveryPulls : ~Delivery!Owned(p)
        /\ UNCHANGED <<deliveryStage, deliveryJob, deliveryRecord, deliveryIntent, deliveryPublished,
              deliveryAccepted>>
    BY <1>0 DEF Delivery!Stray, Delivery!Foreign, Delivery!Places, Delivery!OnRecord, Delivery!MayAct,
       Delivery!local
  <1>2. ASSUME NEW t \in DeliveryTrees, NEW op \in Nat, NEW h \in Delivery!Histories
        PROVE  Append(h, Delivery!Made(t, op)) \in Delivery!Histories /\
               Append(h, Delivery!Made(t, op)) # Delivery!Unset
    BY HistoryGrows, MadeIsCommit
  <1>3. CASE Delivery!Stray
    <2>1. UNCHANGED <<deliveryRemote, deliveryPulls>>
      BY <1>3 DEF Delivery!Stray, Delivery!github
    <2>2. Delivery!OnePullRequest'
      BY <1>0, <2>1 DEF Delivery!OnePullRequest
    <2>3. CASE deliveryWork.at = "ready" /\ (\E t \in DeliveryTrees :
                  deliveryWork' = [deliveryWork EXCEPT !.files = t]) /\ UNCHANGED deliveryMain
      <3>1. deliveryWork' \in Delivery!Worktrees /\ deliveryWork'.at = deliveryWork.at /\
               deliveryWork'.head = deliveryWork.head
        BY <1>0, <2>3 DEF Delivery!Worktrees
      <3> QED
        BY <1>1, <2>1, <2>2, <2>3, <3>1, DeliveryParts, SameVisit
    <2>4. CASE /\ deliveryWork.at = "ready" /\ UNCHANGED deliveryMain
               /\ deliveryWork' = [deliveryWork EXCEPT !.head = Append(@,
                     Delivery!Made(deliveryWork.files, 0)), !.index = deliveryWork.files]
      <3> DEFINE h == Append(deliveryWork.head, Delivery!Made(deliveryWork.files, 0))
      <3>1. h \in Delivery!Histories /\ h # Delivery!Unset
        BY <1>0, <1>2
      <3>2. deliveryWork' = [deliveryWork EXCEPT !.head = h, !.index = deliveryWork.files]
        BY <2>4
      <3> HIDE DEF h
      <3>3. deliveryWork' \in Delivery!Worktrees /\ deliveryWork'.at = deliveryWork.at /\ deliveryWork'.head = h
        BY <1>0, <3>1, <3>2 DEF Delivery!Worktrees
      <3> QED
        BY <1>1, <2>1, <2>2, <2>4, <3>1, <3>3, DeliveryParts, SameVisit
    <2>5. CASE deliveryMain' = Append(deliveryMain, Delivery!Made("t0", 0)) /\ UNCHANGED deliveryWork
      <3>1. deliveryMain' \in Delivery!Histories /\ deliveryMain' # Delivery!Unset
        BY <1>0, <1>2, <2>5 DEF Delivery!PlanKnown
      <3> QED
        BY <1>1, <2>1, <2>2, <2>5, <3>1, DeliveryParts, SameVisit
    <2> QED
      BY <1>3, <2>3, <2>4, <2>5 DEF Delivery!Stray
  <1>4. CASE Delivery!Foreign
    <2>1. UNCHANGED <<deliveryMain, deliveryWork>>
      BY <1>4 DEF Delivery!Foreign, Delivery!local
    <2>2. CASE deliveryRemote' = Append(IF deliveryRemote = Delivery!Unset THEN Delivery!Base
                  ELSE deliveryRemote, Delivery!Made("t0", 0)) /\ UNCHANGED deliveryPulls
      <3>1. deliveryRemote' \in Delivery!Histories
        BY <1>0, <1>2, <2>2, BaseIsHistory DEF Delivery!PlanKnown
      <3>2. Delivery!OnePullRequest'
        BY <1>0, <2>2 DEF Delivery!OnePullRequest
      <3> QED
        BY <1>1, <2>1, <2>2, <3>1, <3>2, DeliveryParts, SameVisit
    <2>3. CASE /\ deliveryPulls' = deliveryPulls \cup {[owner |-> "other", rev |-> 0,
                     head |-> deliveryRemote, state |-> "open",
                                        n |-> Cardinality(deliveryPulls)]}
               /\ UNCHANGED deliveryRemote
      <3> DEFINE new == [owner |-> "other", rev |-> 0, head |-> deliveryRemote, state |-> "open",
             n |-> Cardinality(deliveryPulls)]
      <3>1. new \in Delivery!Pulls /\ ~Delivery!Owned(new)
        <4>1. Cardinality(deliveryPulls) \in Nat
          BY <1>0, FS_CardinalityType
        <4> QED
          BY <1>0, <4>1 DEF Delivery!Pulls, Delivery!Owned
      <3>2. deliveryPulls' = deliveryPulls \cup {new}
        BY <2>3
      <3> HIDE DEF new
      <3>3. deliveryPulls' \subseteq Delivery!Pulls /\ IsFiniteSet(deliveryPulls')
        BY <1>0, <3>1, <3>2, FS_AddElement
      <3>4. Delivery!OnePullRequest' /\ (deliveryJob'.at = "create" => \A p \in deliveryPulls' :
               ~Delivery!Owned(p))
        BY <1>0, <1>1, <3>1, <3>2 DEF Delivery!OnePullRequest, Delivery!Owned
      <3> QED
        BY <1>1, <2>1, <2>3, <3>3, <3>4, DeliveryParts, SameVisit
    <2>4. CASE \E p \in deliveryPulls, s \in {"merged", "closed"} :
                 deliveryPulls' = (deliveryPulls \ {p}) \cup {[p EXCEPT !.state = s]} /\
                    UNCHANGED deliveryRemote
      <3>1. PICK p \in deliveryPulls, s \in {"merged", "closed"} :
                 deliveryPulls' = (deliveryPulls \ {p}) \cup {[p EXCEPT !.state = s]} /\
                    UNCHANGED deliveryRemote
        BY <2>4
      <3> DEFINE new == [p EXCEPT !.state = s]
      <3>2. new \in Delivery!Pulls /\ new.owner = p.owner
        BY <1>0 DEF Delivery!Pulls
      <3>3. deliveryPulls' = (deliveryPulls \ {p}) \cup {new}
        BY <3>1
      <3> HIDE DEF new
      <3>4. deliveryPulls' \subseteq Delivery!Pulls /\ IsFiniteSet(deliveryPulls')
        BY <1>0, <3>2, <3>3, FS_AddElement, FS_RemoveElement
      <3>5. Delivery!OnePullRequest' /\ (deliveryJob'.at = "create" => \A q \in deliveryPulls' :
               ~Delivery!Owned(q))
        BY <1>0, <1>1, <3>2, <3>3 DEF Delivery!OnePullRequest, Delivery!Owned
      <3> QED
        BY <1>1, <2>1, <3>1, <3>4, <3>5, DeliveryParts, SameVisit
    <2> QED
      BY <1>4, <2>2, <2>3, <2>4, FinitePulls DEF Delivery!Foreign
  <1> QED
    BY <1>3, <1>4

\* Every step of a node, of the daemon and of others keeps the invariant.
LEMMA DeliveryStep == Delivery!PlanKnown /\ Delivery!DeliveryInv /\ [Delivery!Next]_(Delivery!vars) =>
     Delivery!DeliveryInv'
  <1> SUFFICES ASSUME Delivery!PlanKnown, Delivery!DeliveryInv, [Delivery!Next]_(Delivery!vars)
               PROVE Delivery!DeliveryInv'
    OBVIOUS
  <1>1. CASE Delivery!Start
    <2>1. deliveryJob' \in Delivery!Jobs /\ deliveryJob'.at = "start"
      BY <1>1, DeliveryParts, DeliveryGoes DEF Delivery!Start, Delivery!JobSteps
    <2> QED
      BY <1>1, <2>1, DeliveryJobOnly DEF Delivery!Start
  <1>2. CASE Delivery!Crash
    BY <1>2, AttemptFails DEF Delivery!Crash
  <1>3. CASE UNCHANGED Delivery!vars
    <2>1. /\ deliveryJob' = deliveryJob /\ deliveryJob \in Delivery!Jobs /\ Delivery!Places /\
                Delivery!OnRecord /\ Delivery!MayAct
          /\ UNCHANGED <<deliveryStage, Delivery!local, deliveryIntent, deliveryPublished,
                deliveryAccepted, Delivery!github>>
      BY <1>3, DeliveryParts DEF Delivery!vars, Delivery!local, Delivery!github
    <2> QED
      BY <2>1, DeliveryJobOnly DEF Delivery!Places, Delivery!OnRecord, Delivery!MayAct
  <1> QED
    BY <1>1, <1>2, <1>3, PrepareStep, CommitStep, AcceptStep, PushStep, PullStep, OthersStep DEF Delivery!Next

\* Nothing is recorded at the start.
LEMMA DeliveryStart == Delivery!PlanKnown /\ Delivery!Init => Delivery!DeliveryInv
  <1> SUFFICES ASSUME Delivery!PlanKnown, Delivery!Init PROVE Delivery!DeliveryInv
    OBVIOUS
  <1>1. Delivery!Idle \in Delivery!Jobs /\ Delivery!Idle.at = "idle"
    BY BaseIsHistory DEF Delivery!Idle, Delivery!Jobs, Delivery!JobSteps
  <1>2. /\ deliveryStage = 1 /\ deliveryJob = Delivery!Idle /\ deliveryMain = Delivery!Base /\
              deliveryRecord = [base |-> Delivery!Unset, head |-> Delivery!Unset]
        /\ deliveryWork = [at |-> "absent", head |-> Delivery!Unset, index |-> "t0", files |-> "t0"]
        /\ DOMAIN deliveryIntent = {} /\ DOMAIN deliveryAccepted = {} /\
              deliveryPublished = Delivery!Unset /\ deliveryRemote = Delivery!Unset /\
                 deliveryPulls = {}
    BY DEF Delivery!Init
  <1>3. deliveryWork \in Delivery!Worktrees /\ deliveryWork.at = "absent" /\
           deliveryRecord \in [base : Delivery!Histories, head : Delivery!Histories] /\
              deliveryRecord.head = Delivery!Unset
    BY <1>2, BaseIsHistory DEF Delivery!Worktrees, Delivery!PlanKnown
  <1>4. deliveryStage \in 1..(Len(DeliveryPlan) + 1)
    BY <1>2 DEF Delivery!PlanKnown
  <1>5. Delivery!DeliveryTypes
    BY <1>1, <1>2, <1>3, <1>4, BaseIsHistory, FS_EmptySet, FinitePulls DEF Delivery!DeliveryTypes
  <1>6. Delivery!Places /\ Delivery!OnRecord /\ Delivery!MayAct
    BY <1>1, <1>2, <1>3 DEF Delivery!Places, Delivery!OnRecord, Delivery!MayAct, Delivery!Pinned
  <1>7. Delivery!LastIsRecorded /\ Delivery!DeliveredIsAChain /\ Delivery!OnePullRequest
    BY <1>2, <1>3 DEF Delivery!LastIsRecorded, Delivery!DeliveredIsAChain, Delivery!OnePullRequest
  <1> QED
    BY <1>5, <1>6, <1>7 DEF Delivery!DeliveryInv

\* What is sent replaces the tip it is an addition to, and others only add.
LEMMA RemoteGrows ==
    ASSUME Delivery!PlanKnown, Delivery!DeliveryInv, [Delivery!Next]_(Delivery!vars)
    PROVE deliveryRemote = Delivery!Unset \/ Delivery!IsPrefix(deliveryRemote, deliveryRemote')
  <1>0. Delivery!MayAct /\ deliveryRemote \in Delivery!Histories
    BY DeliveryParts
  <1>1. CASE deliveryRemote' = deliveryRemote
    BY <1>0, <1>1, HistoryHolds
  <1>2. CASE Delivery!PushSend
    BY <1>0, <1>1, <1>2 DEF Delivery!PushSend, Delivery!MayAct, Delivery!AsExpected
  <1>3. CASE Delivery!Foreign
    <2>1. CASE deliveryRemote # Delivery!Unset /\
                  deliveryRemote' = Append(deliveryRemote, Delivery!Made("t0", 0))
      BY <1>0, <2>1, HistoryGrows, MadeIsCommit DEF Delivery!PlanKnown
    <2> QED
      BY <1>1, <1>3, <2>1 DEF Delivery!Foreign
  <1>4. CASE ~Delivery!PushSend /\ ~Delivery!Foreign
    BY <1>1, <1>4 DEF Delivery!Next, Delivery!vars, Delivery!github, Delivery!Start,
       Delivery!PrepareRecord, Delivery!AttachBranch, Delivery!AttachWorktree, Delivery!Prepared,
          Delivery!Edit, Delivery!CommitPlan,
       Delivery!CommitCheck, Delivery!CommitCapture, Delivery!UpdateRef, Delivery!Reconcile,
          Delivery!CommitSync, Delivery!CommitAccept, Delivery!PushPlan, Delivery!PushObserve,
             Delivery!PushLook,
       Delivery!PushRecord, Delivery!PullPlan, Delivery!PullFind, Delivery!PullCreate, Delivery!Crash,
          Delivery!Stray
  <1> QED
    BY <1>2, <1>3, <1>4

\* What the delivery of a run promises of its branch and pull request.
LEMMA DeliveryHolds ==
    Delivery!Spec => /\ [](Delivery!TypeOK /\ Delivery!DeliveredIsAChain /\ Delivery!OnePullRequest)
                     /\ Delivery!RemoteOnlyGrows
  <1>1. Delivery!Init => Delivery!DeliveryInv
    BY DeliveryStart, DeliveryAssumption
  <1>2. Delivery!DeliveryInv /\ [Delivery!Next]_(Delivery!vars) => Delivery!DeliveryInv'
    BY DeliveryStep, DeliveryAssumption
  <1>3. Delivery!DeliveryInv => Delivery!TypeOK /\ Delivery!DeliveredIsAChain /\ Delivery!OnePullRequest
    BY DEF Delivery!DeliveryInv, Delivery!DeliveryTypes, Delivery!TypeOK, Delivery!Jobs,
       Delivery!JobSteps, Delivery!Worktrees, Delivery!Pulls
  <1>4. Delivery!DeliveryInv /\ [Delivery!Next]_(Delivery!vars) =>
          [deliveryRemote = Delivery!Unset \/ Delivery!IsPrefix(deliveryRemote,
             deliveryRemote')]_(Delivery!vars)
    BY RemoteGrows, DeliveryAssumption
  <1> QED
    BY <1>1, <1>2, <1>3, <1>4, PTL DEF Delivery!Spec, Delivery!RemoteOnlyGrows

-----------------------------------------------------------------------------
(* The commits of points: only what was validated reaches the branch.        *)

Points == INSTANCE PointExecution WITH
        Plans <- PointsPlans, Trees <- PointsTrees, Callers <- PointsCallers,
        Operations <- PointsOperations, MaxCommits <- PointsMaxCommits,
        files <- pointsFiles, history <- pointsHistory, sealed <- pointsSealed,
        call <- pointsCall

\* A commit is appended to the branch, or it is left alone.
LEMMA PointTip ==
    ASSUME Points!PointsInv, NEW k \in pointsSealed, NEW op \in PointsOperations \cup {"none"},
           Points!Tip = k.parent,
           pointsHistory' = Append(pointsHistory, [parent |-> k.parent, tree |-> k.tree, op |-> op]),
           UNCHANGED <<pointsFiles, pointsSealed>>, pointsCall' \in [PointsCallers -> Points!Rows],
           \A c \in PointsCallers : pointsCall'[c].at = "commit" => pointsCall'[c].candidate \in pointsSealed,
           \A c \in PointsCallers : pointsCall'[c].at = "committed" =>
              \/ pointsCall'[c] = pointsCall[c]
              \/ pointsCall'[c].commit = Points!Tip + 1 /\ pointsCall'[c].candidate = k /\
                    pointsCall'[c].op = op
    PROVE  Points!PointsInv'
  <1> DEFINE C == [parent : Nat, tree : PointsTrees \cup {"t0"}, op : PointsOperations \cup {"none"}]
             r == [parent |-> k.parent, tree |-> k.tree, op |-> op]
  <1>1. k \in Points!Candidates /\ pointsHistory \in Seq(C) /\ Len(pointsHistory) \in Nat /\
           Len(pointsHistory) >= 1
    BY DEF Points!PointsInv, Points!Tip
  <1>2. k.parent \in Nat /\ k.tree \in PointsTrees \cup {"t0"} /\ k = [parent |-> k.parent, tree |-> k.tree]
    BY <1>1 DEF Points!Candidates
  <1>3. r \in C /\ r.parent = k.parent /\ r.tree = k.tree
    BY <1>2
  <1>4. /\ pointsHistory' \in Seq(C) /\ Len(pointsHistory') = Len(pointsHistory) + 1 /\
              pointsHistory'[Len(pointsHistory) + 1] = r
        /\ \A i \in 2 .. Len(pointsHistory) : pointsHistory'[i] = pointsHistory[i]
    <2> HIDE DEF C, r
    <2>1. pointsHistory' = Append(pointsHistory, r)
      BY DEF r
    <2> QED
      BY <1>1, <1>3, <2>1
  <1> HIDE DEF C
  <1>5. ASSUME NEW i \in 2 .. Len(pointsHistory')
        PROVE  pointsHistory'[i].parent = i - 1 /\
               [parent |-> i - 1, tree |-> pointsHistory'[i].tree] \in pointsSealed
    <2>1. CASE i \in 2 .. Len(pointsHistory)
      BY <1>4, <2>1 DEF Points!PointsInv, Points!CommitsWereValidated, Points!Tip
    <2>2. CASE i = Len(pointsHistory) + 1
      <3>1. i - 1 = k.parent
        BY <1>1, <2>2 DEF Points!Tip
      <3>2. pointsHistory'[i].parent = k.parent /\ pointsHistory'[i].tree = k.tree
        BY <1>3, <1>4, <2>2
      <3> QED
        BY <1>2, <3>1, <3>2
    <2> QED
      BY <1>1, <1>4, <2>1, <2>2
  <1>6. ASSUME NEW c \in PointsCallers, pointsCall'[c].at = "committed"
        PROVE  /\ pointsCall'[c].commit \in 2 .. Len(pointsHistory')
               /\ pointsHistory'[pointsCall'[c].commit] = [parent |-> pointsCall'[c].candidate.parent,
                     tree |-> pointsCall'[c].candidate.tree, op |-> pointsCall'[c].op]
    <2>1. CASE pointsCall'[c] = pointsCall[c]
      <3>1. /\ pointsCall[c].commit \in 2 .. Len(pointsHistory)
            /\ pointsHistory[pointsCall[c].commit] = [parent |-> pointsCall[c].candidate.parent,
                  tree |-> pointsCall[c].candidate.tree, op |-> pointsCall[c].op]
        BY <1>6, <2>1 DEF Points!PointsInv, Points!CommitsWereValidated, Points!Tip
      <3> QED
        BY <1>1, <1>4, <2>1, <3>1
    <2>2. CASE pointsCall'[c].commit = Points!Tip + 1 /\ pointsCall'[c].candidate = k /\ pointsCall'[c].op = op
      BY <1>1, <1>4, <2>2 DEF Points!Tip
    <2> QED
      BY <1>6, <2>1, <2>2
  <1>7. Points!CommitsWereValidated'
    BY <1>5, <1>6 DEF Points!CommitsWereValidated, Points!Tip
  <1> QED
    BY <1>1, <1>4, <1>7 DEF Points!PointsInv, Points!Tip, C

\* A step that leaves the branch alone and seals more.
LEMMA PointKeeps ==
    ASSUME Points!PointsInv, UNCHANGED pointsHistory, pointsFiles' \in PointsTrees \cup {"t0"},
           pointsSealed \subseteq pointsSealed', pointsSealed' \subseteq Points!Candidates,
              pointsCall' \in [PointsCallers -> Points!Rows],
           \A c \in PointsCallers : pointsCall'[c].at = "commit" => pointsCall'[c].candidate \in pointsSealed',
           \A c \in PointsCallers : pointsCall'[c].at = "committed" =>
              \/ pointsCall'[c] = pointsCall[c]
              \/ /\ pointsCall'[c].commit \in 2 .. Points!Tip
                 /\ pointsHistory[pointsCall'[c].commit] = [parent |-> pointsCall'[c].candidate.parent,
                       tree |-> pointsCall'[c].candidate.tree, op |-> pointsCall'[c].op]
    PROVE  Points!PointsInv'
  BY DEF Points!PointsInv, Points!CommitsWereValidated, Points!Tip

\* One caller's row changes.
LEMMA PointRow ==
    ASSUME Points!PointsInv, NEW c \in PointsCallers, NEW r \in Points!Rows,
           pointsCall' = [pointsCall EXCEPT ![c] = r]
    PROVE  pointsCall' \in [PointsCallers -> Points!Rows] /\ pointsCall'[c] = r /\
           \A d \in PointsCallers \ {c} : pointsCall'[d] = pointsCall[d]
  BY DEF Points!PointsInv

\* An answer names a commit that was found, or none.
LEMMA PointAnswers ==
    ASSUME Points!PointsInv, NEW c \in PointsCallers, NEW k \in pointsSealed,
           NEW op \in PointsOperations \cup {"none"},
           Points!Answer(c, k, op, Points!Adopted(k, op)),
              UNCHANGED <<pointsFiles, pointsHistory, pointsSealed>>
    PROVE  Points!PointsInv'
  <1>1. Points!NoCall \in Points!Rows /\ Points!NoCall.at = "idle"
    BY DEF Points!NoCall, Points!NoCandidate, Points!Rows, Points!Candidates
  <1>2. CASE pointsCall' = [pointsCall EXCEPT ![c] = Points!NoCall]
    BY <1>1, <1>2, PointRow, PointKeeps DEF Points!PointsInv
  <1>3. ASSUME NEW i \in Points!Adopted(k, op),
               pointsCall' = [pointsCall EXCEPT ![c] = [at |-> "committed", candidate |-> k, op |-> op,
                  commit |-> i]]
        PROVE  Points!PointsInv'
    <2> DEFINE r == [at |-> "committed", candidate |-> k, op |-> op, commit |-> i]
    <2>1. i \in 2 .. Points!Tip /\ pointsHistory[i] = [parent |-> k.parent, tree |-> k.tree,
             op |-> op] /\ i \in Nat
      BY DEF Points!Adopted, Points!Matches, Points!Tip, Points!PointsInv
    <2>2. r \in Points!Rows /\ r.at = "committed" /\ r.candidate = k /\ r.op = op /\ r.commit = i
      BY <2>1 DEF Points!Rows, Points!PointsInv
    <2> HIDE DEF r
    <2>3. pointsCall' = [pointsCall EXCEPT ![c] = r]
      BY <1>3 DEF r
    <2> QED
      BY <2>1, <2>2, <2>3, PointRow, PointKeeps DEF Points!PointsInv
  <1> QED
    BY <1>2, <1>3 DEF Points!Answer

\* Every step of the callers, of an attempt or of a person.
LEMMA PointStep == Points!PointsInv /\ [Points!Next]_(Points!vars) => Points!PointsInv'
  <1> SUFFICES ASSUME Points!PointsInv, [Points!Next]_(Points!vars) PROVE Points!PointsInv'
    OBVIOUS
  <1>0. Points!NoCall \in Points!Rows /\ Points!NoCall.at = "idle"
    BY DEF Points!NoCall, Points!NoCandidate, Points!Rows, Points!Candidates
  <1>1. CASE (\E p \in PointsPlans : \E s \in [Points!Ids(p) -> {"planned", "ready", "accepted"}] :
                Points!Execute(p, s)) \/ Points!Edit
    BY <1>1, PointKeeps DEF Points!Execute, Points!Edit, Points!PointsInv
  <1>2. ASSUME NEW c \in PointsCallers, Points!Capture(c) PROVE Points!PointsInv'
    <2> DEFINE r == [Points!NoCall EXCEPT !.at = "captured",
           !.candidate = [parent |-> Points!Tip, tree |-> pointsFiles]]
    <2>1. [parent |-> Points!Tip, tree |-> pointsFiles] \in Points!Candidates
      BY DEF Points!PointsInv, Points!Candidates, Points!Tip
    <2>2. r \in Points!Rows /\ r.at = "captured"
      BY <1>0, <2>1 DEF Points!Rows
    <2>3. pointsCall' = [pointsCall EXCEPT ![c] = r] /\ UNCHANGED <<pointsFiles, pointsHistory, pointsSealed>>
      BY <1>2 DEF Points!Capture
    <2> HIDE DEF r
    <2> QED
      BY <2>2, <2>3, PointRow, PointKeeps DEF Points!PointsInv
  <1>3. ASSUME NEW c \in PointsCallers, Points!Validated(c) PROVE Points!PointsInv'
    <2>1. pointsSealed \subseteq pointsSealed' /\ pointsSealed' \subseteq Points!Candidates
      BY <1>3 DEF Points!Validated, Points!PointsInv, Points!Rows
    <2>2. pointsCall' = [pointsCall EXCEPT ![c] = Points!NoCall] /\ UNCHANGED <<pointsFiles, pointsHistory>>
      BY <1>3 DEF Points!Validated
    <2> QED
      BY <1>0, <2>1, <2>2, PointRow, PointKeeps DEF Points!PointsInv
  <1>4. ASSUME NEW c \in PointsCallers, NEW k \in pointsSealed, NEW op \in PointsOperations,
               Points!Finalize(c, k, op) PROVE Points!PointsInv'
    <2> DEFINE r == [at |-> "commit", candidate |-> k, op |-> op, commit |-> 0]
    <2>1. UNCHANGED <<pointsFiles, pointsHistory, pointsSealed>>
      BY <1>4 DEF Points!Finalize
    <2>2. CASE Points!Answer(c, k, op, Points!Adopted(k, op))
      BY <2>1, <2>2, PointAnswers
    <2>3. CASE pointsCall' = [pointsCall EXCEPT ![c] = Points!NoCall]
      BY <1>0, <2>1, <2>3, PointRow, PointKeeps DEF Points!PointsInv
    <2>4. CASE pointsCall' = [pointsCall EXCEPT ![c] = r]
      <3>1. r \in Points!Rows /\ r.at = "commit" /\ r.candidate = k
        BY DEF Points!Rows, Points!PointsInv
      <3> HIDE DEF r
      <3> QED
        BY <2>1, <2>4, <3>1, PointRow, PointKeeps DEF Points!PointsInv
    <2> QED
      BY <1>4, <2>2, <2>3, <2>4 DEF Points!Finalize
  <1>5. ASSUME NEW c \in PointsCallers, Points!Commit(c) PROVE Points!PointsInv'
    <2> DEFINE k == pointsCall[c].candidate
               op == pointsCall[c].op
    <2>1. k \in pointsSealed /\ op \in PointsOperations \cup {"none"} /\
             UNCHANGED <<pointsFiles, pointsSealed>> /\ pointsCall[c] \in Points!Rows
      BY <1>5 DEF Points!Commit, Points!PointsInv, Points!Rows
    <2>2. CASE Points!Tip = k.parent
      <3>1. pointsHistory' = Append(pointsHistory, [parent |-> k.parent, tree |-> k.tree, op |-> op])
        BY <1>5, <2>2 DEF Points!Commit
      <3>2. CASE pointsCall' = [pointsCall EXCEPT ![c] = Points!NoCall]
        BY <1>0, <2>1, <2>2, <3>1, <3>2, PointRow, PointTip DEF Points!PointsInv
      <3>3. CASE pointsCall' = [pointsCall EXCEPT ![c].at = "committed", ![c].commit = Points!Tip + 1]
        <4> DEFINE r == [pointsCall[c] EXCEPT !.at = "committed", !.commit = Points!Tip + 1]
        <4>1. r \in Points!Rows /\ r.at = "committed" /\ r.commit = Points!Tip + 1 /\ r.candidate = k /\
                 r.op = op
          <5>1. Points!Tip + 1 \in Nat
            BY DEF Points!Tip, Points!PointsInv
          <5>2. k \in Points!Candidates
            BY <2>1 DEF Points!PointsInv
          <5> QED
            BY <2>1, <5>1, <5>2 DEF Points!Rows
        <4>2. pointsCall' = [pointsCall EXCEPT ![c] = r]
          <5>1. pointsCall \in [PointsCallers -> Points!Rows]
            BY DEF Points!PointsInv
          <5> QED
            BY <3>3, <5>1
        <4> HIDE DEF r
        <4>3. /\ pointsCall' \in [PointsCallers -> Points!Rows] /\ pointsCall'[c] = r
              /\ \A d \in PointsCallers \ {c} : pointsCall'[d] = pointsCall[d]
          BY <4>1, <4>2, PointRow
        <4>4. \A d \in PointsCallers : pointsCall'[d].at = "commit" => pointsCall'[d].candidate \in pointsSealed
          BY <4>1, <4>3 DEF Points!PointsInv
        <4>5. \A d \in PointsCallers : pointsCall'[d].at = "committed" =>
                 \/ pointsCall'[d] = pointsCall[d]
                 \/ pointsCall'[d].commit = Points!Tip + 1 /\ pointsCall'[d].candidate = k /\
                       pointsCall'[d].op = op
          BY <4>1, <4>3
        <4> HIDE DEF k, op
        <4> QED
          BY <2>1, <2>2, <3>1, <4>3, <4>4, <4>5, PointTip
      <3> QED
        BY <1>5, <2>2, <3>2, <3>3 DEF Points!Commit
    <2>3. CASE Points!Tip # k.parent
      BY <1>5, <2>1, <2>3, PointAnswers DEF Points!Commit
    <2> QED
      BY <2>2, <2>3
  <1>6. ASSUME NEW c \in PointsCallers, Points!Stop(c) PROVE Points!PointsInv'
    BY <1>0, <1>6, PointRow, PointKeeps DEF Points!Stop, Points!PointsInv
  <1>7. CASE UNCHANGED Points!vars
    BY <1>7, PointKeeps DEF Points!vars, Points!PointsInv
  <1> QED
    BY <1>1, <1>2, <1>3, <1>4, <1>5, <1>6, <1>7 DEF Points!Next

\* A branch with its base, and nobody at work.
LEMMA InitPoints == Points!Init => Points!PointsInv
  <1> SUFFICES ASSUME Points!Init PROVE Points!PointsInv
    OBVIOUS
  <1> DEFINE C == [parent : Nat, tree : PointsTrees \cup {"t0"}, op : PointsOperations \cup {"none"}]
             b == [parent |-> 0, tree |-> "t0", op |-> "none"]
  <1>1. b \in C /\ pointsHistory = <<b>>
    BY DEF Points!Init
  <1> HIDE DEF b
  <1>2. pointsHistory \in Seq(C) /\ Len(pointsHistory) = 1
    BY <1>1
  <1>3. Points!NoCall \in Points!Rows /\ Points!NoCall.at = "idle"
    BY DEF Points!NoCall, Points!NoCandidate, Points!Rows, Points!Candidates
  <1>4. pointsCall \in [PointsCallers -> Points!Rows] /\ \A c \in PointsCallers : pointsCall[c].at = "idle"
    BY <1>3 DEF Points!Init
  <1> QED
    BY <1>2, <1>4 DEF Points!Init, Points!PointsInv, Points!CommitsWereValidated, Points!Tip, C

\* Whatever the plans, the callers and the edits: the branch holds what was
\* validated, and every answer names the caller's own commit
\* (pointfinalization/service.go, repository/git/manager.go).
THEOREM PointsAreValidated == Points!Spec => [](Points!TypeOK /\ Points!CommitsWereValidated)
  <1>1. Points!PointsInv => Points!TypeOK /\ Points!CommitsWereValidated
    BY DEF Points!PointsInv, Points!TypeOK, Points!Rows
  <1> QED
    BY <1>1, InitPoints, PointStep, PTL DEF Points!Spec

-----------------------------------------------------------------------------
(* Plugin files: the mutex of the folder and the temporary file.             *)

Folder == INSTANCE PluginWorkspace WITH
        Callers <- FolderCallers, AttemptOf <- FolderAttemptOf, Names <- FolderNames,
        Contents <- FolderContents, Size <- FolderSize, Keys <- FolderKeys,
        AreaBytes <- FolderAreaBytes, AreaFiles <- FolderAreaFiles,
        MaxCalls <- FolderMaxCalls, files <- folderFiles, temps <- folderTemps,
        whole <- folderWhole, mu <- folderMu, calls <- folderCalls,
        artifacts <- folderArtifacts, attached <- folderAttached,
        answers <- folderAnswers, started <- folderStarted

\* Files, callers and marks are told apart, and contents have sizes.
ASSUME FolderAssumption == Folder!FilesApart

\* A call that is not idle is a write or a publication, by its step.
LEMMA FileCallKinds ==
    ASSUME Folder!FileTypes, NEW c \in FolderCallers
    PROVE  /\ folderCalls[c].pc \in {"write", "filling", "replace", "renaming", "failed", "stored"}
                => /\ folderCalls[c] \in Folder!WriteCalls /\ folderCalls[c].area \in Folder!Areas /\
                       folderCalls[c].name \in FolderNames
                   /\ folderCalls[c].data \in FolderContents
                   /\ folderCalls[c].expected \in FolderContents \cup {Folder!Missing, Folder!Torn}
                   /\ Folder!Held(c) \in FolderContents \cup {Folder!Missing, Folder!Torn}
           /\ folderCalls[c].pc \in {"ingest", "attach"}
                => /\ folderCalls[c] \in Folder!PublishCalls /\
                       folderCalls[c].key \in Folder!Attempts \X FolderKeys
                   /\ folderCalls[c].data \in FolderContents \cup {Folder!Torn}
  <1>1. folderCalls[c] = Folder!Idle \/ folderCalls[c] \in Folder!WriteCalls \/
           folderCalls[c] \in Folder!PublishCalls
    BY DEF Folder!FileTypes
  <1>2. folderCalls[c].pc \in {"write", "filling", "replace", "renaming", "failed", "stored"} =>
           folderCalls[c] \in Folder!WriteCalls
    BY <1>1 DEF Folder!Idle, Folder!WriteCalls, Folder!PublishCalls
  <1>3. folderCalls[c].pc \in {"ingest", "attach"} => folderCalls[c] \in Folder!PublishCalls
    BY <1>1 DEF Folder!Idle, Folder!WriteCalls, Folder!PublishCalls
  <1>4. folderCalls[c] \in Folder!WriteCalls => /\ folderCalls[c].area \in Folder!Areas /\
                                                  folderCalls[c].name \in FolderNames
                                   /\ folderCalls[c].data \in FolderContents
                                   /\ folderCalls[c].expected \in FolderContents \cup {Folder!Missing,
                                         Folder!Torn}
    BY DEF Folder!WriteCalls
  <1>5. folderCalls[c].area \in Folder!Areas /\ folderCalls[c].name \in FolderNames =>
           Folder!Held(c) \in FolderContents \cup {Folder!Missing, Folder!Torn}
    BY DEF Folder!FileTypes, Folder!TypeOK, Folder!Held
  <1>6. folderCalls[c] \in Folder!PublishCalls => /\ folderCalls[c].key \in Folder!Attempts \X FolderKeys /\
                                                    folderCalls[c].data \in FolderContents \cup {Folder!Torn}
    BY DEF Folder!PublishCalls
  <1> QED
    BY <1>2, <1>3, <1>4, <1>5, <1>6

\* A call that goes on to another step of the same kind.
LEMMA FileCallGoes ==
    ASSUME Folder!FileTypes, NEW c \in FolderCallers, NEW pc, folderCalls' = [folderCalls EXCEPT ![c].pc = pc],
           \/ /\ folderCalls[c].pc \in {"write", "filling", "replace", "renaming", "failed"}
              /\ pc \in {"filling", "renaming", "failed", "stored"}
           \/ folderCalls[c].pc = "ingest" /\ pc = "attach"
    PROVE  /\ folderCalls' \in [FolderCallers -> {Folder!Idle} \cup Folder!WriteCalls \cup Folder!PublishCalls]
           /\ folderCalls'[c].pc = pc /\ \A b \in FolderCallers \ {c} : folderCalls'[b] = folderCalls[b]
           /\ pc # "attach" => /\ folderCalls'[c].area = folderCalls[c].area /\
                                   folderCalls'[c].name = folderCalls[c].name
                               /\ folderCalls'[c].data = folderCalls[c].data /\
                                     folderCalls'[c].expected = folderCalls[c].expected
           /\ pc = "attach" => folderCalls'[c].key = folderCalls[c].key /\
                 folderCalls'[c].data = folderCalls[c].data
  <1>1. folderCalls \in [FolderCallers -> {Folder!Idle} \cup Folder!WriteCalls \cup Folder!PublishCalls]
    BY DEF Folder!FileTypes
  <1>2. folderCalls' = [folderCalls EXCEPT ![c] = [folderCalls[c] EXCEPT !.pc = pc]]
    BY <1>1
  <1>3. folderCalls'[c] = [folderCalls[c] EXCEPT !.pc = pc] /\ \A b \in FolderCallers \ {c} :
           folderCalls'[b] = folderCalls[b]
    BY <1>1, <1>2
  <1>4. CASE folderCalls[c].pc \in {"write", "filling", "replace", "renaming", "failed"} /\
                pc \in {"filling", "renaming", "failed", "stored"}
    <2>1. folderCalls[c] \in Folder!WriteCalls
      BY <1>4, FileCallKinds
    <2>2. [folderCalls[c] EXCEPT !.pc = pc] \in Folder!WriteCalls
      BY <2>1, <1>4 DEF Folder!WriteCalls
    <2>3. folderCalls'[c].pc = pc /\ folderCalls'[c].area = folderCalls[c].area /\
             folderCalls'[c].name = folderCalls[c].name
          /\ folderCalls'[c].data = folderCalls[c].data /\ folderCalls'[c].expected = folderCalls[c].expected
      BY <1>3, <2>1 DEF Folder!WriteCalls
    <2> QED
      BY <1>1, <1>2, <1>3, <1>4, <2>2, <2>3
  <1>5. CASE folderCalls[c].pc = "ingest" /\ pc = "attach"
    <2>1. folderCalls[c] \in Folder!PublishCalls
      BY <1>5, FileCallKinds
    <2>2. [folderCalls[c] EXCEPT !.pc = pc] \in Folder!PublishCalls
      BY <2>1, <1>5 DEF Folder!PublishCalls
    <2>3. folderCalls'[c].pc = pc /\ folderCalls'[c].key = folderCalls[c].key /\
             folderCalls'[c].data = folderCalls[c].data
      BY <1>3, <2>1 DEF Folder!PublishCalls
    <2> QED
      BY <1>1, <1>2, <1>3, <1>5, <2>2, <2>3
  <1> QED
    BY <1>4, <1>5

\* A call that ends.
LEMMA FileCallEnds ==
    ASSUME Folder!FileTypes, NEW c \in FolderCallers, folderCalls' = [folderCalls EXCEPT ![c] = Folder!Idle]
    PROVE  /\ folderCalls' \in [FolderCallers -> {Folder!Idle} \cup Folder!WriteCalls \cup Folder!PublishCalls]
           /\ folderCalls'[c].pc = "idle" /\ \A b \in FolderCallers \ {c} : folderCalls'[b] = folderCalls[b]
  BY DEF Folder!FileTypes, Folder!Idle

\* What the other calls rely on is left alone by a call that holds the mutex or finds it free.
LEMMA FileOthersRely ==
    ASSUME Folder!FilesInv, NEW c \in FolderCallers, NEW b \in FolderCallers \ {c},
           folderCalls'[b] = folderCalls[b],
           folderMu = Folder!Free \/ folderMu = c \/ UNCHANGED <<folderFiles, folderTemps, folderMu>>,
           \A k \in Folder!Attempts \X FolderKeys : folderArtifacts[k] # Folder!Missing =>
              folderArtifacts'[k] = folderArtifacts[k],
           Folder!FilesApart
    PROVE  Folder!Relies(b)'
  <1>1. Folder!Relies(b)
    BY DEF Folder!FilesInv
  <1>2. Folder!At(b, "attach") => folderArtifacts'[folderCalls[b].key] = folderCalls[b].data
    <2> SUFFICES ASSUME Folder!At(b, "attach") PROVE folderArtifacts'[folderCalls[b].key] = folderCalls[b].data
      OBVIOUS
    <2>1. folderCalls[b].key \in Folder!Attempts \X FolderKeys /\
             folderCalls[b].data \in FolderContents \cup {Folder!Torn}
      BY FileCallKinds DEF Folder!FilesInv, Folder!At
    <2>2. folderCalls[b].data # Folder!Missing
      BY <2>1 DEF Folder!FilesApart, Folder!Missing, Folder!Torn
    <2> QED
      BY <1>1, <2>1, <2>2 DEF Folder!Relies
  <1>3. CASE folderMu = Folder!Free \/ folderMu = c
    <2>1. ~Folder!At(b, "filling") /\ ~Folder!At(b, "renaming")
      BY <1>1, <1>3 DEF Folder!Relies, Folder!FilesApart
    <2> QED
      BY <1>2, <2>1 DEF Folder!Relies, Folder!At
  <1>4. CASE UNCHANGED <<folderFiles, folderTemps, folderMu>>
    BY <1>1, <1>2, <1>4 DEF Folder!Relies, Folder!At, Folder!Held
  <1> QED
    BY <1>3, <1>4

\* Before it is filled, the file of a call was missing or torn, so no file that was whole is lost.
LEMMA FilesStep == Folder!FilesApart /\ Folder!FilesInv /\ [Folder!Next]_(Folder!vars) => Folder!FilesInv'
  <1> SUFFICES ASSUME Folder!FilesApart, Folder!FilesInv, [Folder!Next]_(Folder!vars) PROVE Folder!FilesInv'
    OBVIOUS
  <1>0. /\ Folder!FileTypes /\ Folder!WholeStaysWhole /\ Folder!PublishedIsAttached
        /\ \A c \in FolderCallers : Folder!Relies(c)
        /\ \A k \in folderAttached : folderArtifacts[k] # Folder!Missing
    BY DEF Folder!FilesInv
  <1>01. /\ folderFiles \in [Folder!Areas -> [FolderNames -> FolderContents \cup {Folder!Missing, Folder!Torn}]]
         /\ folderTemps \in [Folder!Areas -> [files : Nat, bytes : Nat]]
         /\ folderMu \in FolderCallers \cup {Folder!Free} /\
               folderAttached \subseteq Folder!Attempts \X FolderKeys
         /\ folderWhole \subseteq Folder!Areas \X FolderNames
         /\ folderArtifacts \in [Folder!Attempts \X FolderKeys -> FolderContents \cup {Folder!Missing,
               Folder!Torn}]
    BY <1>0 DEF Folder!FileTypes, Folder!TypeOK
  <1>1. ASSUME NEW c \in FolderCallers, NEW a \in Folder!Areas, NEW n \in FolderNames,
               NEW data \in FolderContents,
               NEW expected \in FolderContents \cup {Folder!Missing, Folder!Torn},
                  Folder!Write(c, a, n, data, expected)
        PROVE  Folder!FilesInv'
    <2> DEFINE new == [pc |-> IF expected = Folder!Missing THEN "write" ELSE "replace", area |-> a, name |-> n,
                       data |-> data, expected |-> expected]
    <2>1. new \in Folder!WriteCalls /\ new.pc \in {"write", "replace"}
      BY DEF Folder!WriteCalls
    <2>2. /\ folderCalls' = [folderCalls EXCEPT ![c] = new]
          /\ UNCHANGED <<folderFiles, folderTemps, folderWhole, folderMu, folderArtifacts, folderAttached,
                folderAnswers>>
      BY <1>1 DEF Folder!Write
    <2> HIDE DEF new
    <2>3. /\ folderCalls' \in [FolderCallers -> {Folder!Idle} \cup Folder!WriteCalls \cup Folder!PublishCalls]
          /\ folderCalls'[c] = new /\ \A b \in FolderCallers \ {c} : folderCalls'[b] = folderCalls[b]
      BY <1>0, <2>1, <2>2 DEF Folder!FileTypes
    <2>4. Folder!Relies(c)'
      BY <2>1, <2>3 DEF Folder!Relies, Folder!At
    <2>5. \A b \in FolderCallers \ {c} : Folder!Relies(b)'
      BY <2>2, <2>3, FileOthersRely
    <2> QED
      BY <1>0, <2>2, <2>3, <2>4, <2>5 DEF Folder!FilesInv, Folder!FileTypes, Folder!TypeOK,
         Folder!WholeStaysWhole, Folder!PublishedIsAttached
  <1>2. ASSUME NEW c \in FolderCallers, NEW n \in FolderNames, NEW k \in FolderKeys, Folder!Publish(c, n, k)
        PROVE Folder!FilesInv'
    <2> DEFINE area == <<"staged", FolderAttemptOf[c]>>
               new == [pc |-> "ingest", key |-> <<FolderAttemptOf[c], k>>, data |-> folderFiles[area][n]]
    <2>1. FolderAttemptOf[c] \in Folder!Attempts /\ area \in Folder!Areas
      BY DEF Folder!Attempts, Folder!Areas
    <2>2. /\ folderCalls' = [folderCalls EXCEPT ![c] = new] /\ folderFiles[area][n] # Folder!Missing
          /\ UNCHANGED <<folderFiles, folderTemps, folderWhole, folderMu, folderArtifacts, folderAttached,
                folderAnswers>>
      BY <1>2 DEF Folder!Publish
    <2>3. folderFiles[area][n] \in FolderContents \cup {Folder!Torn}
      BY <1>01, <2>1, <2>2
    <2>4. new \in Folder!PublishCalls /\ new.pc = "ingest"
      BY <2>1, <2>3 DEF Folder!PublishCalls
    <2> HIDE DEF new
    <2>5. /\ folderCalls' \in [FolderCallers -> {Folder!Idle} \cup Folder!WriteCalls \cup Folder!PublishCalls]
          /\ folderCalls'[c] = new /\ \A b \in FolderCallers \ {c} : folderCalls'[b] = folderCalls[b]
      BY <1>0, <2>2, <2>4 DEF Folder!FileTypes
    <2>6. Folder!Relies(c)'
      BY <2>4, <2>5 DEF Folder!Relies, Folder!At
    <2>7. \A b \in FolderCallers \ {c} : Folder!Relies(b)'
      BY <2>2, <2>5, FileOthersRely
    <2> QED
      BY <1>0, <2>2, <2>5, <2>6, <2>7 DEF Folder!FilesInv, Folder!FileTypes, Folder!TypeOK,
         Folder!WholeStaysWhole, Folder!PublishedIsAttached
  <1>3. ASSUME NEW c \in FolderCallers, folderCalls' = [folderCalls EXCEPT ![c].pc = "failed"],
               folderCalls[c].pc \in {"write", "replace"},
                  UNCHANGED <<folderFiles, folderTemps, folderWhole, folderMu, folderArtifacts,
                     folderAttached, folderAnswers>>
        PROVE  Folder!FilesInv'
    <2>1. /\ folderCalls' \in [FolderCallers -> {Folder!Idle} \cup Folder!WriteCalls \cup Folder!PublishCalls]
          /\ folderCalls'[c].pc = "failed" /\ \A b \in FolderCallers \ {c} : folderCalls'[b] = folderCalls[b]
      BY <1>0, <1>3, FileCallGoes
    <2>2. \A b \in FolderCallers \ {c} : Folder!Relies(b)'
      BY <1>3, <2>1, FileOthersRely
    <2> QED
      BY <1>0, <1>3, <2>1, <2>2 DEF Folder!FilesInv, Folder!FileTypes, Folder!TypeOK,
         Folder!WholeStaysWhole, Folder!PublishedIsAttached, Folder!Relies, Folder!At
  <1>4. ASSUME NEW c \in FolderCallers, Folder!WriteFile(c) PROVE Folder!FilesInv'
    <2>1. CASE /\ Folder!exclusive(c) /\ Folder!Put(c, Folder!Torn) /\ folderMu = Folder!Free /\
                     folderMu' = c /\ Folder!At(c, "write")
               /\ folderCalls' = [folderCalls EXCEPT ![c].pc = "filling"]
               /\ UNCHANGED <<folderTemps, folderWhole, folderArtifacts, folderAttached, folderAnswers>>
      <3> DEFINE a == folderCalls[c].area
                 n == folderCalls[c].name
      <3>1. a \in Folder!Areas /\ n \in FolderNames /\ folderFiles[a][n] = Folder!Missing
        BY <1>0, <2>1, FileCallKinds DEF Folder!At, Folder!exclusive, Folder!Held
      <3>2. /\ folderCalls' \in [FolderCallers -> {Folder!Idle} \cup Folder!WriteCalls \cup Folder!PublishCalls]
            /\ folderCalls'[c].pc = "filling" /\ \A b \in FolderCallers \ {c} : folderCalls'[b] = folderCalls[b]
            /\ folderCalls'[c].area = a /\ folderCalls'[c].name = n
        <4> DEFINE pc == "filling"
        <4>1. /\ Folder!FileTypes /\ folderCalls' = [folderCalls EXCEPT ![c].pc = pc] /\ pc # "attach"
              /\ folderCalls[c].pc \in {"write", "filling", "replace", "renaming", "failed"}
              /\ pc \in {"filling", "renaming", "failed", "stored"}
          BY <1>0, <2>1 DEF Folder!At
        <4> HIDE DEF pc
        <4>2. /\ folderCalls' \in [FolderCallers -> {Folder!Idle} \cup Folder!WriteCalls \cup Folder!PublishCalls]
              /\ folderCalls'[c].pc = pc /\ \A b \in FolderCallers \ {c} : folderCalls'[b] = folderCalls[b]
              /\ folderCalls'[c].area = folderCalls[c].area /\ folderCalls'[c].name = folderCalls[c].name
              /\ folderCalls'[c].data = folderCalls[c].data /\
                    folderCalls'[c].expected = folderCalls[c].expected
          BY <4>1, FileCallGoes
        <4> QED
          BY <4>2 DEF pc
      <3>3. folderFiles' = [folderFiles EXCEPT ![a][n] = Folder!Torn]
        BY <2>1 DEF Folder!Put
      <3> HIDE DEF a, n
      <3>4. /\ folderFiles' \in [Folder!Areas -> [FolderNames -> FolderContents \cup {Folder!Missing,
                  Folder!Torn}]] /\ folderFiles'[a][n] = Folder!Torn
            /\ \A x \in Folder!Areas, y \in FolderNames : <<x, y>> # <<a, n>> =>
                  folderFiles'[x][y] = folderFiles[x][y]
        BY <1>01, <3>1, <3>3
      <3>5. Folder!Relies(c)'
        BY <2>1, <3>2, <3>4 DEF Folder!Relies, Folder!At, Folder!Held
      <3>6. \A b \in FolderCallers \ {c} : Folder!Relies(b)'
        BY <2>1, <3>2, FileOthersRely
      <3>7. Folder!WholeStaysWhole'
        BY <1>0, <1>01, <2>1, <3>1, <3>4 DEF Folder!WholeStaysWhole, Folder!FilesApart
      <3> QED
        BY <1>0, <1>01, <2>1, <3>2, <3>4, <3>5, <3>6, <3>7 DEF Folder!FilesInv, Folder!FileTypes,
           Folder!TypeOK, Folder!PublishedIsAttached
    <2>2. CASE Folder!At(c, "write") /\ folderCalls' = [folderCalls EXCEPT ![c].pc = "failed"]
               /\ UNCHANGED <<folderFiles, folderTemps, folderWhole, folderMu, folderArtifacts,
                     folderAttached, folderAnswers>>
      BY <2>2, <1>3 DEF Folder!At
    <2> QED
      BY <1>4, <2>1, <2>2 DEF Folder!WriteFile
  <1>5. ASSUME NEW c \in FolderCallers, Folder!Filled(c) \/ Folder!FillFails(c) PROVE Folder!FilesInv'
    <2> DEFINE a == folderCalls[c].area
               n == folderCalls[c].name
    <2>1. /\ a \in Folder!Areas /\ n \in FolderNames /\ folderCalls[c].data \in FolderContents
          /\ folderFiles[a][n] = Folder!Torn /\ folderMu = c /\ Folder!At(c, "filling")
      BY <1>0, <1>5, FileCallKinds DEF Folder!At, Folder!Filled, Folder!FillFails, Folder!Relies, Folder!Held
    <2>2. PICK held \in {Folder!Missing, folderCalls[c].data} :
             /\ folderFiles' = [folderFiles EXCEPT ![a][n] = held]
             /\ folderWhole' = folderWhole \/ (held \in FolderContents /\
                   folderWhole' = folderWhole \cup {<<a, n>>})
      BY <1>5, <2>1 DEF Folder!Filled, Folder!FillFails, Folder!Put
    <2>3. PICK pc \in {"stored", "failed"} : folderCalls' = [folderCalls EXCEPT ![c].pc = pc]
      BY <1>5 DEF Folder!Filled, Folder!FillFails
    <2>4. /\ folderCalls' \in [FolderCallers -> {Folder!Idle} \cup Folder!WriteCalls \cup Folder!PublishCalls]
          /\ folderCalls'[c].pc = pc /\ \A b \in FolderCallers \ {c} : folderCalls'[b] = folderCalls[b]
      BY <1>0, <2>1, <2>3, FileCallGoes DEF Folder!At
    <2>5. UNCHANGED <<folderTemps, folderArtifacts, folderAttached, folderAnswers>> /\ folderMu' = Folder!Free
      BY <1>5 DEF Folder!Filled, Folder!FillFails
    <2> HIDE DEF a, n
    <2>6. /\ folderFiles' \in [Folder!Areas -> [FolderNames -> FolderContents \cup {Folder!Missing,
                Folder!Torn}]] /\ folderFiles'[a][n] = held
          /\ \A x \in Folder!Areas, y \in FolderNames : <<x, y>> # <<a, n>> =>
                folderFiles'[x][y] = folderFiles[x][y]
      BY <1>01, <2>1, <2>2
    <2>7. Folder!WholeStaysWhole'
      BY <1>0, <1>01, <2>1, <2>2, <2>6 DEF Folder!WholeStaysWhole, Folder!FilesApart
    <2>8. \A b \in FolderCallers \ {c} : Folder!Relies(b)'
      BY <2>1, <2>4, <2>5, FileOthersRely
    <2>9. Folder!Relies(c)'
      BY <2>3, <2>4 DEF Folder!Relies, Folder!At
    <2>10. folderWhole' \subseteq Folder!Areas \X FolderNames
      BY <1>01, <2>1, <2>2
    <2> QED
      BY <1>0, <1>01, <2>4, <2>5, <2>6, <2>7, <2>8, <2>9, <2>10 DEF Folder!FilesInv, Folder!FileTypes,
         Folder!TypeOK, Folder!PublishedIsAttached
  <1>6. ASSUME NEW c \in FolderCallers, Folder!ReplaceFile(c) PROVE Folder!FilesInv'
    <2>1. CASE /\ Folder!Held(c) = folderCalls[c].expected /\ folderMu = Folder!Free /\ folderMu' = c /\
                     Folder!At(c, "replace")
               /\ folderTemps' = [folderTemps EXCEPT ![folderCalls[c].area] =
                              [files |-> @.files + 1, bytes |-> @.bytes + FolderSize[folderCalls[c].data]]]
               /\ folderCalls' = [folderCalls EXCEPT ![c].pc = "renaming"]
               /\ UNCHANGED <<folderFiles, folderWhole, folderArtifacts, folderAttached, folderAnswers>>
      <3> DEFINE a == folderCalls[c].area
      <3>1. a \in Folder!Areas /\ folderCalls[c].data \in FolderContents
        BY <1>0, <2>1, FileCallKinds DEF Folder!At
      <3>2. /\ folderCalls' \in [FolderCallers -> {Folder!Idle} \cup Folder!WriteCalls \cup Folder!PublishCalls]
            /\ folderCalls'[c].pc = "renaming" /\ \A b \in FolderCallers \ {c} :
                  folderCalls'[b] = folderCalls[b]
            /\ folderCalls'[c].area = a /\ folderCalls'[c].name = folderCalls[c].name /\
                  folderCalls'[c].data = folderCalls[c].data
            /\ folderCalls'[c].expected = folderCalls[c].expected
        <4> DEFINE pc == "renaming"
        <4>1. /\ Folder!FileTypes /\ folderCalls' = [folderCalls EXCEPT ![c].pc = pc] /\ pc # "attach"
              /\ folderCalls[c].pc \in {"write", "filling", "replace", "renaming", "failed"}
              /\ pc \in {"filling", "renaming", "failed", "stored"}
          BY <1>0, <2>1 DEF Folder!At
        <4> HIDE DEF pc
        <4>2. /\ folderCalls' \in [FolderCallers -> {Folder!Idle} \cup Folder!WriteCalls \cup Folder!PublishCalls]
              /\ folderCalls'[c].pc = pc /\ \A b \in FolderCallers \ {c} : folderCalls'[b] = folderCalls[b]
              /\ folderCalls'[c].area = folderCalls[c].area /\ folderCalls'[c].name = folderCalls[c].name
              /\ folderCalls'[c].data = folderCalls[c].data /\
                    folderCalls'[c].expected = folderCalls[c].expected
          BY <4>1, FileCallGoes
        <4> QED
          BY <4>2 DEF pc
      <3>3. /\ folderTemps' \in [Folder!Areas -> [files : Nat, bytes : Nat]]
            /\ folderTemps'[a].files >= 1 /\ folderTemps'[a].bytes >= FolderSize[folderCalls[c].data]
        <4>1. folderTemps[a].files \in Nat /\ folderTemps[a].bytes \in Nat /\
                 FolderSize[folderCalls[c].data] \in Nat
          BY <1>01, <3>1 DEF Folder!FilesApart
        <4> DEFINE t == [files |-> folderTemps[a].files + 1,
               bytes |-> folderTemps[a].bytes + FolderSize[folderCalls[c].data]]
        <4>2. t \in [files : Nat, bytes : Nat] /\ t.files >= 1 /\ t.bytes >= FolderSize[folderCalls[c].data]
          BY <4>1
        <4>3. folderTemps' = [folderTemps EXCEPT ![a] = t]
          BY <2>1
        <4> HIDE DEF t, a
        <4> QED
          BY <1>01, <3>1, <4>2, <4>3
      <3>4. Folder!Relies(c)'
        BY <2>1, <3>2, <3>3 DEF Folder!Relies, Folder!At, Folder!Held
      <3>5. \A b \in FolderCallers \ {c} : Folder!Relies(b)'
        BY <2>1, <3>2, FileOthersRely
      <3> QED
        BY <1>0, <1>01, <2>1, <3>2, <3>3, <3>4, <3>5 DEF Folder!FilesInv, Folder!FileTypes, Folder!TypeOK,
           Folder!WholeStaysWhole, Folder!PublishedIsAttached
    <2>2. CASE Folder!At(c, "replace") /\ folderCalls' = [folderCalls EXCEPT ![c].pc = "failed"]
               /\ UNCHANGED <<folderFiles, folderTemps, folderWhole, folderMu, folderArtifacts,
                     folderAttached, folderAnswers>>
      BY <2>2, <1>3 DEF Folder!At
    <2> QED
      BY <1>6, <2>1, <2>2 DEF Folder!ReplaceFile, Folder!matches
  <1>7. ASSUME NEW c \in FolderCallers, Folder!RenameFile(c) \/ Folder!ReplaceFails(c) PROVE Folder!FilesInv'
    <2> DEFINE a == folderCalls[c].area
               n == folderCalls[c].name
    <2>1. /\ a \in Folder!Areas /\ n \in FolderNames /\ folderCalls[c].data \in FolderContents /\
                folderMu = c /\ Folder!At(c, "renaming")
          /\ folderTemps[a].files >= 1 /\ folderTemps[a].bytes >= FolderSize[folderCalls[c].data]
      BY <1>0, <1>7, FileCallKinds DEF Folder!At, Folder!RenameFile, Folder!ReplaceFails, Folder!Relies
    <2>2. \/ folderFiles' = folderFiles /\ folderWhole' = folderWhole
          \/ folderFiles' = [folderFiles EXCEPT ![a][n] = folderCalls[c].data] /\
                folderWhole' = folderWhole \cup {<<a, n>>}
      BY <1>7 DEF Folder!RenameFile, Folder!ReplaceFails, Folder!Put, Folder!renamed
    <2>3. PICK pc \in {"stored", "failed"} : folderCalls' = [folderCalls EXCEPT ![c].pc = pc]
      BY <1>7 DEF Folder!RenameFile, Folder!ReplaceFails
    <2>4. /\ folderCalls' \in [FolderCallers -> {Folder!Idle} \cup Folder!WriteCalls \cup Folder!PublishCalls]
          /\ folderCalls'[c].pc = pc /\ \A b \in FolderCallers \ {c} : folderCalls'[b] = folderCalls[b]
      BY <1>0, <2>1, <2>3, FileCallGoes DEF Folder!At
    <2>5. UNCHANGED <<folderArtifacts, folderAttached, folderAnswers>> /\ folderMu' = Folder!Free
      BY <1>7 DEF Folder!RenameFile, Folder!ReplaceFails
    <2>6. folderTemps' \in [Folder!Areas -> [files : Nat, bytes : Nat]]
      <3>1. folderTemps[a].files \in Nat /\ folderTemps[a].bytes \in Nat /\
               FolderSize[folderCalls[c].data] \in Nat
        BY <1>01, <2>1 DEF Folder!FilesApart
      <3> DEFINE t == [files |-> folderTemps[a].files - 1,
             bytes |-> folderTemps[a].bytes - FolderSize[folderCalls[c].data]]
      <3>2. t \in [files : Nat, bytes : Nat]
        BY <2>1, <3>1
      <3>3. folderTemps' = [folderTemps EXCEPT ![a] = t]
        BY <1>7 DEF Folder!RenameFile, Folder!ReplaceFails, Folder!dropTemp
      <3> HIDE DEF t, a
      <3> QED
        BY <1>01, <2>1, <3>2, <3>3
    <2> HIDE DEF a, n
    <2>7. /\ folderFiles' \in [Folder!Areas -> [FolderNames -> FolderContents \cup {Folder!Missing,
                Folder!Torn}]] /\ folderWhole' \subseteq Folder!Areas \X FolderNames
          /\ Folder!WholeStaysWhole'
      <3>1. CASE folderFiles' = folderFiles /\ folderWhole' = folderWhole
        BY <1>0, <1>01, <3>1 DEF Folder!WholeStaysWhole
      <3>2. CASE folderFiles' = [folderFiles EXCEPT ![a][n] = folderCalls[c].data] /\
                    folderWhole' = folderWhole \cup {<<a, n>>}
        <4>1. /\ folderFiles' \in [Folder!Areas -> [FolderNames -> FolderContents \cup {Folder!Missing,
                    Folder!Torn}]] /\ folderFiles'[a][n] = folderCalls[c].data
              /\ \A x \in Folder!Areas, y \in FolderNames : <<x, y>> # <<a, n>> =>
                    folderFiles'[x][y] = folderFiles[x][y]
          BY <1>01, <2>1, <3>2
        <4> QED
          BY <1>0, <1>01, <2>1, <3>2, <4>1 DEF Folder!WholeStaysWhole
      <3> QED
        BY <2>2, <3>1, <3>2
    <2>8. \A b \in FolderCallers \ {c} : Folder!Relies(b)'
      BY <2>1, <2>4, <2>5, FileOthersRely
    <2>9. Folder!Relies(c)'
      BY <2>3, <2>4 DEF Folder!Relies, Folder!At
    <2> QED
      BY <1>0, <1>01, <2>4, <2>5, <2>6, <2>7, <2>8, <2>9 DEF Folder!FilesInv, Folder!FileTypes,
         Folder!TypeOK, Folder!PublishedIsAttached
  <1>8. ASSUME NEW c \in FolderCallers, Folder!ReadBack(c) \/ Folder!Stored(c) PROVE Folder!FilesInv'
    <2>1. /\ folderCalls' \in [FolderCallers -> {Folder!Idle} \cup Folder!WriteCalls \cup Folder!PublishCalls]
          /\ folderCalls'[c].pc \in {"stored", "idle"} /\ \A b \in FolderCallers \ {c} :
                folderCalls'[b] = folderCalls[b]
      <3>1. CASE folderCalls' = [folderCalls EXCEPT ![c].pc = "stored"] /\ Folder!At(c, "failed")
        BY <1>0, <3>1, FileCallGoes DEF Folder!At
      <3>2. CASE folderCalls' = [folderCalls EXCEPT ![c] = Folder!Idle]
        BY <1>0, <3>2, FileCallEnds
      <3> QED
        BY <1>8, <3>1, <3>2 DEF Folder!ReadBack, Folder!Stored
    <2>2. UNCHANGED <<folderFiles, folderTemps, folderWhole, folderMu, folderArtifacts, folderAttached>>
      BY <1>8 DEF Folder!ReadBack, Folder!Stored
    <2>3. \A b \in FolderCallers \ {c} : Folder!Relies(b)'
      BY <2>1, <2>2, FileOthersRely
    <2>4. Folder!Relies(c)'
      BY <2>1 DEF Folder!Relies, Folder!At
    <2>5. Folder!PublishedIsAttached'
      <3>1. \A x \in folderAnswers' : x \in folderAnswers \/ x.tool = "write"
        BY <1>8 DEF Folder!ReadBack, Folder!Stored
      <3> QED
        BY <1>0, <2>2, <3>1 DEF Folder!PublishedIsAttached
    <2> QED
      BY <1>0, <1>01, <2>1, <2>2, <2>3, <2>4, <2>5 DEF Folder!FilesInv, Folder!FileTypes, Folder!TypeOK,
         Folder!WholeStaysWhole
  <1>9. ASSUME NEW c \in FolderCallers, Folder!Ingest(c) PROVE Folder!FilesInv'
    <2>1. folderCalls[c].key \in Folder!Attempts \X FolderKeys /\
             folderCalls[c].data \in FolderContents \cup {Folder!Torn}
      BY <1>0, <1>9, FileCallKinds DEF Folder!At, Folder!Ingest
    <2>2. UNCHANGED <<folderFiles, folderTemps, folderWhole, folderMu, folderAttached, folderAnswers>> /\
             Folder!At(c, "ingest")
      BY <1>9 DEF Folder!Ingest
    <2>3. CASE /\ folderArtifacts[folderCalls[c].key] \in {Folder!Missing, folderCalls[c].data}
               /\ folderArtifacts' = [folderArtifacts EXCEPT ![folderCalls[c].key] = folderCalls[c].data]
               /\ folderCalls' = [folderCalls EXCEPT ![c].pc = "attach"]
      <3>1. /\ folderCalls' \in [FolderCallers -> {Folder!Idle} \cup Folder!WriteCalls \cup Folder!PublishCalls]
            /\ folderCalls'[c].pc = "attach" /\ \A b \in FolderCallers \ {c} : folderCalls'[b] = folderCalls[b]
            /\ folderCalls'[c].key = folderCalls[c].key /\ folderCalls'[c].data = folderCalls[c].data
        BY <1>0, <2>2, <2>3, FileCallGoes DEF Folder!At
      <3>2. /\ folderArtifacts' \in [Folder!Attempts \X FolderKeys -> FolderContents \cup {Folder!Missing,
                  Folder!Torn}]
            /\ folderArtifacts'[folderCalls[c].key] = folderCalls[c].data
            /\ \A k \in Folder!Attempts \X FolderKeys : folderArtifacts[k] # Folder!Missing =>
                  folderArtifacts'[k] = folderArtifacts[k]
        BY <1>01, <2>1, <2>3
      <3>3. \A b \in FolderCallers \ {c} : Folder!Relies(b)'
        BY <2>2, <3>1, <3>2, FileOthersRely
      <3>4. Folder!Relies(c)'
        BY <3>1, <3>2 DEF Folder!Relies, Folder!At
      <3>5. Folder!PublishedIsAttached'
        <4> SUFFICES ASSUME NEW x \in folderAnswers, x.tool = "publish"
                     PROVE  folderArtifacts'[x.key] = x.data /\ x.key \in folderAttached
          BY <2>2 DEF Folder!PublishedIsAttached
        <4>1. /\ folderArtifacts[x.key] = x.data /\ folderArtifacts[x.key] # Folder!Missing
              /\ x.key \in Folder!Attempts \X FolderKeys /\ x.key \in folderAttached
          BY <1>0, <1>01 DEF Folder!PublishedIsAttached
        <4> QED
          BY <3>2, <4>1
      <3> QED
        BY <1>0, <1>01, <2>2, <3>1, <3>2, <3>3, <3>4, <3>5 DEF Folder!FilesInv, Folder!FileTypes,
           Folder!TypeOK, Folder!WholeStaysWhole
    <2>4. CASE folderCalls' = [folderCalls EXCEPT ![c] = Folder!Idle] /\ UNCHANGED folderArtifacts
      <3>1. /\ folderCalls' \in [FolderCallers -> {Folder!Idle} \cup Folder!WriteCalls \cup Folder!PublishCalls]
            /\ folderCalls'[c].pc = "idle" /\ \A b \in FolderCallers \ {c} : folderCalls'[b] = folderCalls[b]
        BY <1>0, <2>4, FileCallEnds
      <3>2. \A b \in FolderCallers \ {c} : Folder!Relies(b)'
        BY <2>2, <2>4, <3>1, FileOthersRely
      <3> QED
        BY <1>0, <2>2, <2>4, <3>1, <3>2 DEF Folder!FilesInv, Folder!FileTypes, Folder!TypeOK,
           Folder!WholeStaysWhole, Folder!PublishedIsAttached, Folder!Relies, Folder!At
    <2> QED
      BY <1>9, <2>3, <2>4 DEF Folder!Ingest
  <1>10. ASSUME NEW c \in FolderCallers, Folder!Attach(c) PROVE Folder!FilesInv'
    <2>1. /\ folderCalls[c].key \in Folder!Attempts \X FolderKeys /\
                folderCalls[c].data \in FolderContents \cup {Folder!Torn}
          /\ folderArtifacts[folderCalls[c].key] = folderCalls[c].data
      BY <1>0, <1>10, FileCallKinds DEF Folder!At, Folder!Attach, Folder!Relies
    <2>2. /\ folderCalls' \in [FolderCallers -> {Folder!Idle} \cup Folder!WriteCalls \cup Folder!PublishCalls]
          /\ folderCalls'[c].pc = "idle" /\ \A b \in FolderCallers \ {c} : folderCalls'[b] = folderCalls[b]
      BY <1>0, <1>10, FileCallEnds DEF Folder!Attach
    <2>3. /\ UNCHANGED <<folderFiles, folderTemps, folderWhole, folderMu, folderArtifacts>>
          /\ folderAttached' = folderAttached \cup {folderCalls[c].key}
          /\ folderAnswers' = folderAnswers \cup {[tool |-> "publish", key |-> folderCalls[c].key,
                data |-> folderCalls[c].data]}
      BY <1>10 DEF Folder!Attach, Folder!published
    <2>4. \A b \in FolderCallers \ {c} : Folder!Relies(b)'
      BY <2>2, <2>3, FileOthersRely
    <2>5. Folder!Relies(c)'
      BY <2>2 DEF Folder!Relies, Folder!At
    <2>6. Folder!PublishedIsAttached'
      BY <1>0, <2>1, <2>3 DEF Folder!PublishedIsAttached
    <2>7. folderAttached' \subseteq Folder!Attempts \X FolderKeys /\ \A k \in folderAttached' :
             folderArtifacts'[k] # Folder!Missing
      BY <1>0, <1>01, <2>1, <2>3 DEF Folder!FilesApart, Folder!Missing, Folder!Torn
    <2> QED
      BY <1>0, <1>01, <2>2, <2>3, <2>4, <2>5, <2>6, <2>7 DEF Folder!FilesInv, Folder!FileTypes,
         Folder!TypeOK, Folder!WholeStaysWhole
  <1>11. CASE Folder!Stop
    <2>1. /\ folderCalls' = [c \in FolderCallers |-> Folder!Idle] /\ folderMu' = Folder!Free
          /\ UNCHANGED <<folderFiles, folderTemps, folderWhole, folderArtifacts, folderAttached, folderAnswers>>
      BY <1>11 DEF Folder!Stop
    <2>2. \A c \in FolderCallers : Folder!Relies(c)'
      BY <2>1 DEF Folder!Relies, Folder!At, Folder!Idle
    <2> QED
      BY <1>0, <2>1, <2>2 DEF Folder!FilesInv, Folder!FileTypes, Folder!TypeOK, Folder!WholeStaysWhole,
         Folder!PublishedIsAttached
  <1>12. CASE UNCHANGED Folder!vars
    <2>1. \A c \in FolderCallers : Folder!Relies(c)'
      BY <1>0, <1>12 DEF Folder!vars, Folder!Relies, Folder!At, Folder!Held
    <2> QED
      BY <1>0, <1>12, <2>1 DEF Folder!vars, Folder!FilesInv, Folder!FileTypes, Folder!TypeOK,
         Folder!WholeStaysWhole, Folder!PublishedIsAttached
  <1> QED
    BY <1>1, <1>2, <1>4, <1>5, <1>6, <1>7, <1>8, <1>9, <1>10, <1>11, <1>12 DEF Folder!Next

\* Nothing is written at the start.
LEMMA FilesInit == Folder!Init => Folder!FilesInv
  <1> SUFFICES ASSUME Folder!Init PROVE Folder!FilesInv
    OBVIOUS
  <1>1. \A c \in FolderCallers : Folder!Relies(c)
    BY DEF Folder!Init, Folder!Relies, Folder!At, Folder!Idle
  <1>2. Folder!FileTypes
    BY DEF Folder!Init, Folder!FileTypes, Folder!TypeOK, Folder!Missing
  <1> QED
    BY <1>1, <1>2 DEF Folder!Init, Folder!FilesInv, Folder!WholeStaysWhole, Folder!PublishedIsAttached

\* A whole file changes only in the rename of a caller whose comparison still holds, and what is
\* said to be stored was just written or read back.
LEMMA FilesKeep ==
    ASSUME Folder!FilesApart, Folder!FilesInv, [Folder!Next]_(Folder!vars)
    PROVE  /\ \A a \in Folder!Areas, n \in FolderNames :
                 folderFiles[a][n] \in FolderContents /\ folderFiles'[a][n] # folderFiles[a][n]
                 => \E c \in FolderCallers : /\ Folder!At(c, "renaming") /\ folderCalls[c].area = a /\
                                                folderCalls[c].name = n
                                       /\ folderCalls[c].expected = folderFiles[a][n]
           /\ \A c \in FolderCallers : folderCalls[c].pc \notin {"idle", "stored"} /\
                 folderCalls'[c].pc = "stored"
                 => folderFiles'[folderCalls[c].area][folderCalls[c].name] = folderCalls[c].data
  <1>0. Folder!FileTypes /\ (\A c \in FolderCallers : Folder!Relies(c))
    BY DEF Folder!FilesInv
  <1>1. folderFiles \in [Folder!Areas -> [FolderNames -> FolderContents \cup {Folder!Missing, Folder!Torn}]]
    BY <1>0 DEF Folder!FileTypes, Folder!TypeOK
  <1> DEFINE Named(a, n) == folderFiles[a][n] \in FolderContents /\ folderFiles'[a][n] # folderFiles[a][n]
                 => \E c \in FolderCallers : /\ Folder!At(c, "renaming") /\ folderCalls[c].area = a /\
                                                folderCalls[c].name = n
                                       /\ folderCalls[c].expected = folderFiles[a][n]
             Said(c) == folderCalls[c].pc \notin {"idle", "stored"} /\ folderCalls'[c].pc = "stored"
                 => folderFiles'[folderCalls[c].area][folderCalls[c].name] = folderCalls[c].data
             Kept == (\A a \in Folder!Areas, n \in FolderNames : Named(a, n)) /\
                (\A c \in FolderCallers : Said(c))
  <1>2. ASSUME UNCHANGED folderFiles, \A c \in FolderCallers : folderCalls'[c] = folderCalls[c] \/
               folderCalls'[c].pc # "stored" PROVE Kept
    BY <1>2
  <1>3. ASSUME NEW c \in FolderCallers, NEW pc \in {"filling", "stored", "failed"},
               Folder!At(c, "write") \/ Folder!At(c, "filling") \/ Folder!At(c, "renaming"),
               folderCalls' = [folderCalls EXCEPT ![c].pc = pc],
               NEW held \in FolderContents \cup {Folder!Missing, Folder!Torn}, Folder!Put(c, held),
                  Folder!Held(c) \notin FolderContents \/ Folder!At(c, "renaming"),
               pc = "stored" => held = folderCalls[c].data
        PROVE  Kept
    <2> DEFINE x == folderCalls[c].area
               y == folderCalls[c].name
    <2>1. x \in Folder!Areas /\ y \in FolderNames /\ folderFiles' = [folderFiles EXCEPT ![x][y] = held]
      BY <1>0, <1>3, FileCallKinds DEF Folder!At, Folder!Put
    <2>2. folderCalls'[c].pc = pc /\ \A b \in FolderCallers \ {c} : folderCalls'[b] = folderCalls[b]
      BY <1>0, <1>3, FileCallGoes DEF Folder!At
    <2>3. Folder!At(c, "renaming") => folderFiles[x][y] = folderCalls[c].expected
      BY <1>0, <1>3 DEF Folder!Relies, Folder!Held
    <2>4. folderFiles[x][y] \notin FolderContents \/ Folder!At(c, "renaming")
      BY <1>3 DEF Folder!Held
    <2> HIDE DEF x, y
    <2>5. /\ folderFiles'[x][y] = held
          /\ \A a \in Folder!Areas, n \in FolderNames : a # x \/ n # y => folderFiles'[a][n] = folderFiles[a][n]
      BY <1>1, <2>1
    <2>6. \A a \in Folder!Areas, n \in FolderNames : Named(a, n)
      <3> TAKE a \in Folder!Areas, n \in FolderNames
      <3>1. CASE a = x /\ n = y
        BY <2>3, <2>4, <3>1 DEF x, y
      <3>2. CASE a # x \/ n # y
        BY <2>5, <3>2
      <3> QED
        BY <3>1, <3>2
    <2>7. \A b \in FolderCallers : Said(b)
      BY <1>3, <2>2, <2>5 DEF x, y
    <2> QED
      BY <2>6, <2>7
  <1>4. folderCalls \in [FolderCallers -> {Folder!Idle} \cup Folder!WriteCalls \cup Folder!PublishCalls]
    BY <1>0 DEF Folder!FileTypes
  <1>5. ASSUME NEW c \in FolderCallers, NEW a \in Folder!Areas, NEW n \in FolderNames,
               NEW data \in FolderContents,
               NEW expected \in FolderContents \cup {Folder!Missing, Folder!Torn},
                  Folder!Write(c, a, n, data, expected) PROVE Kept
    <2>1. \A b \in FolderCallers : folderCalls'[b] = folderCalls[b] \/ folderCalls'[b].pc # "stored"
      BY <1>4, <1>5 DEF Folder!Write
    <2> QED
      BY <1>2, <1>5, <2>1 DEF Folder!Write
  <1>6. ASSUME NEW c \in FolderCallers, NEW n \in FolderNames, NEW k \in FolderKeys, Folder!Publish(c, n, k)
        PROVE Kept
    <2>1. \A b \in FolderCallers : folderCalls'[b] = folderCalls[b] \/ folderCalls'[b].pc # "stored"
      BY <1>4, <1>6 DEF Folder!Publish
    <2> QED
      BY <1>2, <1>6, <2>1 DEF Folder!Publish
  <1>7. ASSUME NEW c \in FolderCallers, NEW pc \in {"failed", "renaming", "attach"}, UNCHANGED folderFiles,
               folderCalls' = [folderCalls EXCEPT ![c].pc = pc],
               \/ folderCalls[c].pc \in {"write", "replace", "renaming"} /\ pc # "attach"
               \/ folderCalls[c].pc = "ingest" /\ pc = "attach"
        PROVE  Kept
    BY <1>0, <1>2, <1>7, FileCallGoes
  <1>8. ASSUME NEW c \in FolderCallers, UNCHANGED folderFiles,
               folderCalls' = [folderCalls EXCEPT ![c] = Folder!Idle] PROVE Kept
    BY <1>0, <1>2, <1>8, FileCallEnds
  <1>9. ASSUME NEW c \in FolderCallers, Folder!WriteFile(c) PROVE Kept
    <2>1. CASE Folder!exclusive(c) /\ Folder!Put(c, Folder!Torn) /\
                  folderCalls' = [folderCalls EXCEPT ![c].pc = "filling"] /\ Folder!At(c, "write")
      BY <1>3, <2>1 DEF Folder!exclusive, Folder!FilesApart
    <2> QED
      BY <1>7, <1>9, <2>1 DEF Folder!WriteFile, Folder!At
  <1>10. ASSUME NEW c \in FolderCallers, Folder!Filled(c) \/ Folder!FillFails(c) PROVE Kept
    <2>1. Folder!At(c, "filling") /\ Folder!Held(c) \notin FolderContents /\
             folderCalls[c].data \in FolderContents
      BY <1>0, <1>10, FileCallKinds DEF Folder!At, Folder!Filled, Folder!FillFails, Folder!Relies,
         Folder!FilesApart
    <2> QED
      BY <1>3, <1>10, <2>1 DEF Folder!Filled, Folder!FillFails
  <1>11. ASSUME NEW c \in FolderCallers, Folder!ReplaceFile(c) \/ Folder!ReplaceFails(c) PROVE Kept
    BY <1>7, <1>11 DEF Folder!ReplaceFile, Folder!ReplaceFails, Folder!At
  <1>12. ASSUME NEW c \in FolderCallers, Folder!RenameFile(c) PROVE Kept
    <2>1. Folder!At(c, "renaming") /\ folderCalls[c].data \in FolderContents
      BY <1>0, <1>12, FileCallKinds DEF Folder!At, Folder!RenameFile
    <2> QED
      BY <1>3, <1>12, <2>1 DEF Folder!RenameFile, Folder!renamed
  <1>13. ASSUME NEW c \in FolderCallers, Folder!ReadBack(c) PROVE Kept
    <2>1. CASE Folder!sameBytes(c) /\ folderCalls' = [folderCalls EXCEPT ![c].pc = "stored"] /\
                  Folder!At(c, "failed") /\ UNCHANGED folderFiles
      <3>1. \A b \in FolderCallers \ {c} : folderCalls'[b] = folderCalls[b]
        BY <1>0, <2>1, FileCallGoes DEF Folder!At
      <3> QED
        BY <2>1, <3>1 DEF Folder!sameBytes, Folder!Held
    <2> QED
      BY <1>8, <1>13, <2>1 DEF Folder!ReadBack
  <1>14. ASSUME NEW c \in FolderCallers, Folder!Stored(c) \/ Folder!Ingest(c) \/ Folder!Attach(c) PROVE Kept
    BY <1>7, <1>8, <1>14 DEF Folder!Stored, Folder!Ingest, Folder!Attach, Folder!At
  <1>15. ASSUME Folder!Stop PROVE Kept
    BY <1>2, <1>15 DEF Folder!Stop, Folder!Idle
  <1>16. ASSUME UNCHANGED Folder!vars PROVE Kept
    BY <1>2, <1>16 DEF Folder!vars
  <1> HIDE DEF Kept
  <1>17. Kept
    BY <1>5, <1>6, <1>9, <1>10, <1>11, <1>12, <1>13, <1>14, <1>15, <1>16 DEF Folder!Next
  <1> QED
    BY <1>17 DEF Kept

\* What the folder store promises of the files in it.
LEMMA FolderHolds ==
    Folder!Spec => /\ [](Folder!TypeOK /\ Folder!WholeStaysWhole /\ Folder!PublishedIsAttached)
                   /\ Folder!NoLostReplacement /\ Folder!StoredWasThere
  <1>1. Folder!Init => Folder!FilesInv
    BY FilesInit
  <1>2. Folder!FilesInv /\ [Folder!Next]_(Folder!vars) => Folder!FilesInv'
    BY FilesStep, FolderAssumption
  <1>3. Folder!FilesInv => Folder!TypeOK /\ Folder!WholeStaysWhole /\ Folder!PublishedIsAttached
    BY DEF Folder!FilesInv, Folder!FileTypes
  <1>4. Folder!FilesInv /\ [Folder!Next]_(Folder!vars) =>
          [\A a \in Folder!Areas, n \in FolderNames :
          folderFiles[a][n] \in FolderContents /\ folderFiles'[a][n] # folderFiles[a][n]
          => \E c \in FolderCallers : Folder!At(c, "renaming") /\ folderCalls[c].area = a /\
             folderCalls[c].name = n /\ folderCalls[c].expected = folderFiles[a][n]]_(Folder!vars)
    BY FilesKeep, FolderAssumption
  <1>5. Folder!FilesInv /\ [Folder!Next]_(Folder!vars) =>
          [\A c \in FolderCallers : folderCalls[c].pc \notin {"idle", "stored"} /\ folderCalls'[c].pc = "stored"
          => folderFiles'[folderCalls[c].area][folderCalls[c].name] = folderCalls[c].data]_(Folder!vars)
    BY FilesKeep, FolderAssumption
  <1> QED
    BY <1>1, <1>2, <1>3, <1>4, <1>5, PTL
    DEF Folder!Spec, Folder!NoLostReplacement, Folder!StoredWasThere

-----------------------------------------------------------------------------
(* Artifact content: an inductive invariant over the steps of the calls.     *)

Storage == INSTANCE ArtifactStorage WITH
        Calls <- StorageCalls, Keys <- StorageKeys, Documents <- StorageDocuments,
        Unsafe <- StorageUnsafe, MaxVersions <- StorageMaxVersions,
        MaxRequests <- StorageMaxRequests, blobs <- storageBlobs,
        operations <- storageOperations, metadata <- storageMetadata,
        versions <- storageVersions, texts <- storageTexts, audit <- storageAudit,
        call <- storageCall, requests <- storageRequests

\* Versions and requests are counted.
ASSUME StorageAssumption == StorageMaxVersions \in Nat /\ StorageMaxRequests \in Nat

\* What a step found stays true while others go on.
LEMMA FoundStays ==
    ASSUME Storage!StoreTypes, Storage!StoreTypes', Storage!Grows, NEW x \in Storage!CallShape,
           Storage!Published(x)
    PROVE  Storage!Published(x)'
  <1>1. Storage!NoContent \notin Storage!Content
    BY DEF Storage!NoContent, Storage!Content
  <1>2. Len(storageVersions) \in Nat /\ Len(storageVersions') \in Nat
    BY DEF Storage!StoreTypes
  <1> QED
    BY <1>1, <1>2 DEF Storage!Published, Storage!Grows, Storage!CallShape, Storage!Quarantined

\* One call goes on to x, and what it found is there.
LEMMA OthersStay ==
    ASSUME Storage!StoreInv, Storage!StoreTypes', Storage!Grows, NEW c \in StorageCalls,
           NEW x \in Storage!CallShape,
           storageCall' = [storageCall EXCEPT ![c] = x], Storage!Published(x)'
    PROVE  (\A b \in StorageCalls : Storage!Published(storageCall[b]))'
  <1>1. Storage!StoreTypes /\ \A b \in StorageCalls : Storage!Published(storageCall[b])
    BY DEF Storage!StoreInv
  <1>2. ASSUME NEW b \in StorageCalls PROVE Storage!Published(storageCall[b])'
    <2>1. CASE b = c
      <3>1. storageCall'[b] = x
        BY <1>1, <2>1 DEF Storage!StoreTypes
      <3> QED
        BY <3>1 DEF Storage!Published, Storage!Quarantined
    <2>2. CASE b # c
      <3>1. PICK y \in Storage!CallShape : y = storageCall[b]
        BY <1>1 DEF Storage!StoreTypes
      <3>2. storageCall'[b] = y /\ Storage!Published(y)
        BY <1>1, <2>2, <3>1 DEF Storage!StoreTypes, Storage!Published, Storage!Quarantined
      <3>3. Storage!Published(y)'
        BY <1>1, <3>2, FoundStays
      <3> QED
        BY <3>2, <3>3 DEF Storage!Published, Storage!Quarantined
    <2> QED
      BY <2>1, <2>2
  <1> QED
    BY <1>2

\* A version of the register is a record of its key, its content and its base.
LEMMA VersionShape ==
    ASSUME Storage!StoreTypes, NEW i \in 1 .. Len(storageVersions)
    PROVE  /\ storageVersions[i].key \in Storage!OperationKeys /\ storageVersions[i].content \in Storage!Content
           /\ storageVersions[i].content.of \in StorageDocuments
  <1> DEFINE Version == [key : Storage!OperationKeys, content : Storage!Content, base : Nat]
  <1>1. storageVersions \in Seq(Version)
    BY DEF Storage!StoreTypes
  <1>2. storageVersions[i] \in Version
    <2> HIDE DEF Version
    <2> QED
      BY <1>1
  <1>3. storageVersions[i].key \in Storage!OperationKeys /\ storageVersions[i].content \in Storage!Content
    BY <1>2
  <1> QED
    BY <1>3 DEF Storage!Content

\* What is registered stays readable where nothing is registered.
LEMMA RegisteredStays ==
    ASSUME Storage!StoreInv, Storage!Grows, UNCHANGED <<storageVersions, storageTexts>>
    PROVE  Storage!Registered'
  <1>1. Storage!StoreTypes /\ Storage!Registered
    BY DEF Storage!StoreInv
  <1>2. \A i \in 1 .. Len(storageVersions) : storageVersions[i].key \in Storage!OperationKeys /\
           storageVersions[i].content \in Storage!Content
    BY <1>1, VersionShape
  <1>3. Storage!NoContent \notin Storage!Content
    BY DEF Storage!NoContent, Storage!Content
  <1> QED
    BY <1>1, <1>2, <1>3 DEF Storage!Registered, Storage!Grows, Storage!Readable, Storage!Quarantined

\* A call as a record, and what Goes and Ends make of it.
LEMMA CallGoes ==
    ASSUME Storage!StoreInv, NEW c \in StorageCalls,
           NEW step \in {"idle", "put", "operation", "metadata", "register", "audit"}
    PROVE  \E x \in Storage!CallShape :
              /\ x.at = step /\ x.key = storageCall[c].key /\ x.content = storageCall[c].content
              /\ x.base = storageCall[c].base /\ x.source = storageCall[c].source
              /\ Storage!Goes(c, step) => storageCall' = [storageCall EXCEPT ![c] = x]
  <1>1. storageCall \in [StorageCalls -> Storage!CallShape] /\ storageCall[c] \in Storage!CallShape
    BY DEF Storage!StoreInv, Storage!StoreTypes
  <1> DEFINE x == [at |-> step, key |-> storageCall[c].key, content |-> storageCall[c].content,
                   base |-> storageCall[c].base, source |-> storageCall[c].source]
  <1>2. x \in Storage!CallShape
    BY <1>1 DEF Storage!CallShape
  <1>3. [storageCall[c] EXCEPT !.at = step] = x
    BY <1>1 DEF Storage!CallShape
  <1>4. Storage!Goes(c, step) => storageCall' = [storageCall EXCEPT ![c] = x]
    BY <1>1, <1>3 DEF Storage!Goes
  <1> QED
    BY <1>2, <1>4

\* A call that ends holds nothing.
LEMMA EndsKeeps ==
    ASSUME Storage!StoreInv, NEW c \in StorageCalls, Storage!Ends(c),
           UNCHANGED <<storageBlobs, storageOperations, storageMetadata, storageVersions, storageTexts,
              storageRequests>>, storageAudit' \subseteq Storage!OperationKeys
    PROVE  Storage!StoreInv'
  <1>1. Storage!StoreTypes /\ Storage!Registered
    BY DEF Storage!StoreInv
  <1>2. Storage!Idle \in Storage!CallShape /\ storageCall' = [storageCall EXCEPT ![c] = Storage!Idle] /\
           Storage!Idle.at = "idle"
    BY DEF Storage!Idle, Storage!CallShape, Storage!Ends
  <1>3. PICK x \in Storage!CallShape : x = Storage!Idle
    BY <1>2
  <1>4. storageCall' \in [StorageCalls -> Storage!CallShape]
    BY <1>1, <1>2 DEF Storage!StoreTypes
  <1>5. Storage!StoreTypes'
    BY <1>1, <1>4 DEF Storage!StoreTypes
  <1>6. Storage!Grows
    BY <1>1 DEF Storage!Grows, Storage!StoreTypes
  <1>7. Storage!Published(x)'
    BY <1>2, <1>3 DEF Storage!Published
  <1>8. (\A b \in StorageCalls : Storage!Published(storageCall[b]))'
    BY <1>2, <1>3, <1>5, <1>6, <1>7, OthersStay
  <1>9. Storage!Registered'
    BY <1>6, RegisteredStays
  <1> QED
    BY <1>5, <1>8, <1>9 DEF Storage!StoreInv

\* A request begins with its content in a temporary file.
LEMMA RequestKeeps ==
    ASSUME Storage!StoreInv, StorageMaxRequests \in Nat, NEW c \in StorageCalls,
           NEW key \in Storage!OperationKeys, NEW content \in Storage!Content,
           NEW base \in Nat, NEW source \in Nat, Storage!Requests(c, key, content, base, source),
           source # 0 => source \in 1 .. Len(storageVersions) /\
              ~Storage!Quarantined(storageVersions[source].content),
           UNCHANGED <<storageBlobs, storageOperations, storageMetadata, storageVersions, storageTexts,
              storageAudit>>
    PROVE  Storage!StoreInv'
  <1>1. Storage!StoreTypes /\ Storage!Registered
    BY DEF Storage!StoreInv
  <1> DEFINE new == [at |-> "put", key |-> key, content |-> content, base |-> base, source |-> source]
  <1>2. new \in Storage!CallShape /\ storageCall' = [storageCall EXCEPT ![c] = new]
    BY DEF Storage!CallShape, Storage!Requests
  <1>3. /\ new.at = "put" /\ new.key \in Storage!OperationKeys /\ new.content \in Storage!Content /\
              new.source = source
    OBVIOUS
  <1> HIDE DEF new
  <1>4. storageCall' \in [StorageCalls -> Storage!CallShape]
    BY <1>1, <1>2 DEF Storage!StoreTypes
  <1>5. storageRequests' \in Nat /\ storageRequests' <= StorageMaxRequests
    BY <1>1 DEF Storage!StoreTypes, Storage!Requests
  <1>6. Storage!StoreTypes'
    BY <1>1, <1>4, <1>5 DEF Storage!StoreTypes
  <1>7. Storage!Grows
    BY <1>1 DEF Storage!Grows, Storage!StoreTypes
  <1>8. PICK x \in Storage!CallShape : x = new
    BY <1>2
  <1>9. Storage!Published(x)'
    BY <1>3, <1>8 DEF Storage!Published, Storage!Quarantined
  <1>10. (\A b \in StorageCalls : Storage!Published(storageCall[b]))'
    BY <1>2, <1>6, <1>7, <1>8, <1>9, OthersStay
  <1>11. Storage!Registered'
    BY <1>7, RegisteredStays
  <1> QED
    BY <1>6, <1>10, <1>11 DEF Storage!StoreInv

\* An ingestion and an extraction begin.
LEMMA BeginKeeps ==
    ASSUME Storage!StoreInv, StorageMaxRequests \in Nat, NEW c \in StorageCalls, NEW k \in StorageKeys,
           \/ \E d \in StorageDocuments, base \in {0, Len(storageVersions)} : Storage!Ingest(c, k, d, base)
           \/ \E i \in DOMAIN storageVersions : Storage!Derive(c, k, i)
    PROVE  Storage!StoreInv'
  <1>1. Storage!StoreTypes
    BY DEF Storage!StoreInv
  <1>2. Len(storageVersions) \in Nat /\ DOMAIN storageVersions = 1 .. Len(storageVersions)
    BY <1>1 DEF Storage!StoreTypes
  <1>3. ASSUME NEW d \in StorageDocuments, NEW base \in {0, Len(storageVersions)},
               Storage!Ingest(c, k, d, base) PROVE Storage!StoreInv'
    <2>1. <<k, "original">> \in Storage!OperationKeys /\ [of |-> d, kind |-> "original"] \in Storage!Content
      BY DEF Storage!OperationKeys, Storage!Content
    <2>2. base \in Nat
      <3>1. base = 0 \/ base = Len(storageVersions)
        BY <1>3
      <3>2. 0 \in Nat
        OBVIOUS
      <3> QED
        BY <1>2, <3>1, <3>2, Zenon
    <2> QED
      BY <1>3, <2>1, <2>2, RequestKeeps DEF Storage!Ingest
  <1>4. ASSUME NEW i \in DOMAIN storageVersions, Storage!Derive(c, k, i) PROVE Storage!StoreInv'
    <2>1. storageVersions[i].content.of \in StorageDocuments
      BY <1>1, <1>2, <1>4, VersionShape
    <2>2. <<k, "text">> \in Storage!OperationKeys /\
             [of |-> storageVersions[i].content.of, kind |-> "text"] \in Storage!Content
      BY <2>1 DEF Storage!OperationKeys, Storage!Content
    <2>3. i \in Nat /\ i \in 1 .. Len(storageVersions)
      BY <1>2, <1>4
    <2> QED
      BY <1>4, <2>2, <2>3, RequestKeeps DEF Storage!Derive
  <1> QED
    BY <1>3, <1>4

\* The steps of Put: the blob, the operation, the metadata.
LEMMA PutKeeps ==
    ASSUME Storage!StoreInv, NEW c \in StorageCalls, Storage!PutBlob(c) \/ Storage!EnsureOperation(c) \/
           Storage!EnsureMetadata(c)
    PROVE  Storage!StoreInv'
  <1>1. Storage!StoreTypes /\ Storage!Registered /\ Storage!Published(storageCall[c])
    BY DEF Storage!StoreInv
  <1>2. storageCall[c].at \in {"put", "operation", "metadata"}
    BY DEF Storage!PutBlob, Storage!EnsureOperation, Storage!EnsureMetadata
  <1>3. storageCall[c].key \in Storage!OperationKeys /\ storageCall[c].content \in Storage!Content
    BY <1>1, <1>2 DEF Storage!Published
  <1>4. CASE Storage!Ends(c) /\ UNCHANGED <<storageBlobs, storageOperations, storageMetadata,
                storageVersions, storageTexts, storageRequests, storageAudit>>
    BY <1>1, <1>4, EndsKeeps DEF Storage!StoreTypes
  <1>5. ASSUME NEW step \in {"operation", "metadata", "register"}, Storage!Goes(c, step), Storage!Grows,
               UNCHANGED <<storageVersions, storageTexts, storageAudit, storageRequests>>,
               storageOperations' \in [Storage!OperationKeys -> Storage!Content \cup {Storage!NoContent}],
               storageCall[c].content \in storageBlobs',
               step \in {"metadata", "register"} =>
                  storageOperations'[storageCall[c].key] = storageCall[c].content,
               step = "register" => storageCall[c].content \in storageMetadata'
        PROVE  Storage!StoreInv'
    <2>1. PICK x \in Storage!CallShape :
              /\ x.at = step /\ x.key = storageCall[c].key /\ x.content = storageCall[c].content
              /\ x.base = storageCall[c].base /\ x.source = storageCall[c].source
              /\ storageCall' = [storageCall EXCEPT ![c] = x]
      BY <1>5, CallGoes
    <2>2. storageCall' \in [StorageCalls -> Storage!CallShape]
      BY <1>1, <2>1 DEF Storage!StoreTypes
    <2>3. Storage!StoreTypes'
      BY <1>1, <1>5, <2>2 DEF Storage!StoreTypes
    <2>4. Storage!Published(x)'
      BY <1>1, <1>2, <1>3, <1>5, <2>1 DEF Storage!Published, Storage!Quarantined
    <2>5. (\A b \in StorageCalls : Storage!Published(storageCall[b]))'
      BY <1>5, <2>1, <2>3, <2>4, OthersStay
    <2>6. Storage!Registered'
      BY <1>5, RegisteredStays
    <2> QED
      BY <2>3, <2>5, <2>6 DEF Storage!StoreInv
  <1>6. CASE Storage!PutBlob(c)
    <2>1. CASE storageOperations[storageCall[c].key] \in {Storage!NoContent, storageCall[c].content}
      <3>1. /\ storageBlobs' = storageBlobs \cup {storageCall[c].content} /\ Storage!Goes(c, "operation")
            /\ UNCHANGED <<storageOperations, storageMetadata, storageVersions, storageTexts,
                  storageAudit, storageRequests>>
        BY <1>6, <2>1 DEF Storage!PutBlob
      <3>2. Storage!Grows /\ storageOperations' \in [Storage!OperationKeys -> Storage!Content \cup {Storage!NoContent}]
        BY <1>1, <3>1 DEF Storage!Grows, Storage!StoreTypes
      <3>3. storageCall[c].content \in storageBlobs'
        BY <3>1
      <3> QED
        BY <1>5, <3>1, <3>2, <3>3
    <2>2. CASE storageOperations[storageCall[c].key] \notin {Storage!NoContent, storageCall[c].content}
      BY <1>4, <1>6, <2>2 DEF Storage!PutBlob
    <2> QED
      BY <2>1, <2>2
  <1>7. CASE Storage!EnsureOperation(c)
    <2>1. CASE storageOperations[storageCall[c].key] = Storage!NoContent
      <3>1. storageOperations' = [storageOperations EXCEPT ![storageCall[c].key] = storageCall[c].content] /\ Storage!Goes(c, "metadata")
        BY <1>7, <2>1 DEF Storage!EnsureOperation
      <3>2. UNCHANGED <<storageBlobs, storageMetadata, storageVersions, storageTexts, storageAudit,
               storageRequests>>
        BY <1>7 DEF Storage!EnsureOperation
      <3>3. /\ storageOperations' \in [Storage!OperationKeys -> Storage!Content \cup {Storage!NoContent}]
            /\ storageOperations'[storageCall[c].key] = storageCall[c].content
            /\ \A k \in Storage!OperationKeys : storageOperations[k] # Storage!NoContent =>
                  storageOperations'[k] = storageOperations[k]
        BY <1>1, <1>3, <2>1, <3>1 DEF Storage!StoreTypes
      <3>4. Storage!Grows
        BY <1>1, <3>2, <3>3 DEF Storage!Grows, Storage!StoreTypes
      <3>5. storageCall[c].content \in storageBlobs'
        BY <1>1, <1>7, <3>2 DEF Storage!EnsureOperation, Storage!Published
      <3> QED
        BY <1>5, <3>1, <3>2, <3>3, <3>4, <3>5
    <2>2. CASE storageOperations[storageCall[c].key] = storageCall[c].content /\
                  storageOperations[storageCall[c].key] # Storage!NoContent
      <3>1. Storage!Goes(c, "metadata") /\ UNCHANGED <<storageBlobs, storageOperations, storageMetadata,
               storageVersions, storageTexts, storageAudit, storageRequests>>
        BY <1>7, <2>2 DEF Storage!EnsureOperation
      <3>2. Storage!Grows /\ storageOperations' \in [Storage!OperationKeys -> Storage!Content \cup {Storage!NoContent}]
        BY <1>1, <3>1 DEF Storage!Grows, Storage!StoreTypes
      <3>3. storageCall[c].content \in storageBlobs' /\
               storageOperations'[storageCall[c].key] = storageCall[c].content
        BY <1>1, <1>7, <2>2, <3>1 DEF Storage!EnsureOperation, Storage!Published
      <3> QED
        BY <1>5, <3>1, <3>2, <3>3
    <2>3. CASE storageOperations[storageCall[c].key] # storageCall[c].content /\
                  storageOperations[storageCall[c].key] # Storage!NoContent
      BY <1>4, <1>7, <2>3 DEF Storage!EnsureOperation
    <2> QED
      BY <2>1, <2>2, <2>3
  <1>8. CASE Storage!EnsureMetadata(c)
    <2>1. /\ storageMetadata' = storageMetadata \cup {storageCall[c].content} /\ Storage!Goes(c, "register")
          /\ UNCHANGED <<storageBlobs, storageOperations, storageVersions, storageTexts, storageAudit,
                storageRequests>>
      BY <1>8 DEF Storage!EnsureMetadata
    <2>2. Storage!Grows /\ storageOperations' \in [Storage!OperationKeys -> Storage!Content \cup {Storage!NoContent}]
      BY <1>1, <2>1 DEF Storage!Grows, Storage!StoreTypes
    <2>3. storageCall[c].content \in storageBlobs' /\
             storageOperations'[storageCall[c].key] = storageCall[c].content /\
                storageCall[c].content \in storageMetadata'
      BY <1>1, <1>8, <2>1 DEF Storage!EnsureMetadata, Storage!Published
    <2> QED
      BY <1>5, <2>1, <2>2, <2>3
  <1> QED
    BY <1>6, <1>7, <1>8

\* A version is registered: no other has its key, what it follows is the newest,
\* and its content was published.
LEMMA RegisterKeeps ==
    ASSUME Storage!StoreInv, StorageMaxVersions \in Nat, NEW c \in StorageCalls, Storage!Register(c)
    PROVE  Storage!StoreInv'
  <1>1. Storage!StoreTypes /\ Storage!Registered /\ Storage!Published(storageCall[c])
    BY DEF Storage!StoreInv
  <1>2. /\ storageCall[c].at = "register" /\ storageCall[c].key \in Storage!OperationKeys /\
              storageCall[c].content \in Storage!Content
        /\ storageOperations[storageCall[c].key] = storageCall[c].content /\
              Storage!Readable(storageCall[c].content)
    BY <1>1 DEF Storage!Register, Storage!Published, Storage!Readable
  <1>3. UNCHANGED <<storageBlobs, storageOperations, storageMetadata, storageTexts, storageAudit,
           storageRequests>>
    BY DEF Storage!Register
  <1>4. Len(storageVersions) \in Nat /\ DOMAIN storageVersions = 1 .. Len(storageVersions)
    BY <1>1 DEF Storage!StoreTypes
  <1>5. PICK x \in Storage!CallShape :
            /\ x.at = "audit" /\ x.key = storageCall[c].key /\ x.content = storageCall[c].content
            /\ x.base = storageCall[c].base /\ x.source = storageCall[c].source
            /\ Storage!Goes(c, "audit") => storageCall' = [storageCall EXCEPT ![c] = x]
    BY CallGoes
  <1>6. ASSUME Storage!Goes(c, "audit"), Storage!Grows, Storage!StoreTypes'
        PROVE (\A b \in StorageCalls : Storage!Published(storageCall[b]))'
    <2>1. Storage!Published(x)
      BY <1>1, <1>2, <1>5 DEF Storage!Published, Storage!Readable
    <2>2. Storage!Published(x)'
      BY <1>1, <1>6, <2>1, FoundStays
    <2> QED
      BY <1>5, <1>6, <2>2, OthersStay
  <1>7. CASE Storage!Ends(c) /\ UNCHANGED storageVersions
    BY <1>1, <1>3, <1>7, EndsKeeps DEF Storage!StoreTypes
  <1>8. CASE Storage!Goes(c, "audit") /\ UNCHANGED storageVersions
    <2>1. storageCall' \in [StorageCalls -> Storage!CallShape]
      BY <1>1, <1>5, <1>8 DEF Storage!StoreTypes
    <2>2. Storage!StoreTypes' /\ Storage!Grows
      BY <1>1, <1>3, <1>8, <2>1 DEF Storage!StoreTypes, Storage!Grows
    <2>3. Storage!Registered'
      BY <1>3, <1>8, <2>2, RegisteredStays
    <2> QED
      BY <1>6, <1>8, <2>2, <2>3 DEF Storage!StoreInv
  <1>9. CASE /\ Storage!SameKey(c) = {} /\ storageCall[c].base \in {0, Len(storageVersions)} /\
                   Len(storageVersions) < StorageMaxVersions
             /\ storageVersions' = Append(storageVersions, Storage!NewVersion(c)) /\ Storage!Goes(c, "audit")
    <2>1. Storage!NewVersion(c) \in [key : Storage!OperationKeys, content : Storage!Content, base : Nat]
      BY <1>2, <1>4, <1>9 DEF Storage!NewVersion
    <2>2. /\ storageVersions' \in Seq([key : Storage!OperationKeys, content : Storage!Content, base : Nat])
          /\ Len(storageVersions') = Len(storageVersions) + 1
          /\ \A i \in 1 .. Len(storageVersions) : storageVersions'[i] = storageVersions[i]
          /\ storageVersions'[Len(storageVersions) + 1] = Storage!NewVersion(c)
      <3> HIDE DEF Storage!NewVersion
      <3>1. storageVersions \in Seq([key : Storage!OperationKeys, content : Storage!Content, base : Nat])
        BY <1>1 DEF Storage!StoreTypes
      <3> QED
        BY <1>9, <2>1, <3>1
    <2>3. storageCall' \in [StorageCalls -> Storage!CallShape]
      BY <1>1, <1>5, <1>9 DEF Storage!StoreTypes
    <2>4. Storage!StoreTypes'
      BY <1>1, <1>3, <1>4, <1>9, <2>2, <2>3 DEF Storage!StoreTypes
    <2>5. Storage!Grows
      BY <1>3, <1>4, <2>2 DEF Storage!Grows
    <2>6. /\ Storage!NewVersion(c).key = storageCall[c].key /\
                Storage!NewVersion(c).content = storageCall[c].content
          /\ Storage!NewVersion(c).base = storageCall[c].base
      BY DEF Storage!NewVersion
    <2>7. \A i \in 1 .. Len(storageVersions) : storageVersions[i].key # storageCall[c].key
      BY <1>4, <1>9 DEF Storage!SameKey
    <2>8. PICK n \in Nat : n = Len(storageVersions)
      BY <1>4
    <2>9. \A i \in 1 .. Len(storageVersions)' : i \in 1 .. n \/ i = n + 1
      BY <2>2, <2>8
    <2>10. Storage!Registered'
      <3>1. ASSUME NEW i \in 1 .. Len(storageVersions)'
            PROVE  /\ Storage!Readable(storageVersions[i].content)'
                   /\ (storageOperations[storageVersions[i].key] = storageVersions[i].content)'
                   /\ (storageVersions[i].base \in {0, i - 1})'
                   /\ (\A j \in 1 .. Len(storageVersions) :
                         storageVersions[i].key = storageVersions[j].key => i = j)'
        <4>1. CASE i \in 1 .. n
          <5>1. storageVersions'[i] = storageVersions[i]
            BY <2>2, <2>8, <4>1
          <5>2. \A j \in 1 .. Len(storageVersions)' : storageVersions'[i].key = storageVersions'[j].key => i = j
            BY <1>1, <2>2, <2>6, <2>7, <2>8, <2>9, <4>1, <5>1 DEF Storage!Registered
          <5> QED
            BY <1>1, <1>3, <2>8, <4>1, <5>1, <5>2 DEF Storage!Registered, Storage!Readable
        <4>2. CASE i = n + 1
          <5>1. storageVersions'[i] = Storage!NewVersion(c)
            BY <2>2, <2>8, <4>2
          <5>2. \A j \in 1 .. Len(storageVersions)' : storageVersions'[i].key = storageVersions'[j].key => i = j
            BY <2>2, <2>6, <2>7, <2>8, <2>9, <4>2, <5>1
          <5>3. storageVersions'[i].base \in {0, i - 1}
            BY <1>9, <2>6, <2>8, <4>2, <5>1
          <5> QED
            BY <1>2, <1>3, <2>6, <5>1, <5>2, <5>3 DEF Storage!Readable
        <4> QED
          BY <2>9, <4>1, <4>2
      <3>2. \A t \in storageTexts' :
               /\ Storage!Readable(t.content) /\ t.version \in 1 .. Len(storageVersions) /\
                     ~Storage!Quarantined(storageVersions[t.version].content)
               /\ t.version \in 1 .. Len(storageVersions)' /\
                     storageVersions'[t.version] = storageVersions[t.version]
        BY <1>1, <1>3, <1>4, <2>2 DEF Storage!Registered
      <3>3. \A t \in storageTexts' :
               /\ Storage!Readable(t.content)' /\ t.version \in 1 .. Len(storageVersions)'
               /\ ~Storage!Quarantined(storageVersions[t.version].content)'
        BY <1>3, <3>2 DEF Storage!Readable, Storage!Quarantined
      <3> QED
        BY <3>1, <3>3 DEF Storage!Registered
    <2> QED
      BY <1>6, <1>9, <2>4, <2>5, <2>10 DEF Storage!StoreInv
  <1>10. \/ Storage!Ends(c) /\ UNCHANGED storageVersions
         \/ Storage!Goes(c, "audit") /\ UNCHANGED storageVersions
         \/ /\ Storage!SameKey(c) = {} /\ storageCall[c].base \in {0, Len(storageVersions)} /\
                  Len(storageVersions) < StorageMaxVersions
            /\ storageVersions' = Append(storageVersions, Storage!NewVersion(c)) /\ Storage!Goes(c, "audit")
    BY DEF Storage!Register
  <1> QED
    BY <1>7, <1>8, <1>9, <1>10

\* A text is registered for the version it was extracted from, which is not
\* quarantined.
LEMMA RepresentationKeeps ==
    ASSUME Storage!StoreInv, NEW c \in StorageCalls, Storage!RegisterRepresentation(c)
    PROVE  Storage!StoreInv'
  <1>1. Storage!StoreTypes /\ Storage!Registered /\ Storage!Published(storageCall[c])
    BY DEF Storage!StoreInv
  <1>2. /\ storageCall[c].at = "register" /\ storageCall[c].source # 0
        /\ Storage!Goes(c, "audit") /\ UNCHANGED <<storageBlobs, storageOperations, storageMetadata,
              storageVersions, storageAudit, storageRequests>>
        /\ storageTexts' = storageTexts \cup {[version |-> storageCall[c].source,
              key |-> storageCall[c].key, content |-> storageCall[c].content]}
    BY DEF Storage!RegisterRepresentation
  <1>3. PICK x \in Storage!CallShape :
            /\ x.at = "audit" /\ x.key = storageCall[c].key /\ x.content = storageCall[c].content
            /\ x.base = storageCall[c].base /\ x.source = storageCall[c].source
            /\ storageCall' = [storageCall EXCEPT ![c] = x]
    BY <1>2, CallGoes
  <1>4. storageCall' \in [StorageCalls -> Storage!CallShape]
    BY <1>1, <1>3 DEF Storage!StoreTypes
  <1>5. Storage!StoreTypes' /\ Storage!Grows
    BY <1>1, <1>2, <1>4 DEF Storage!StoreTypes, Storage!Grows
  <1>6. Storage!Published(x)
    BY <1>1, <1>2, <1>3 DEF Storage!Published
  <1>7. (\A b \in StorageCalls : Storage!Published(storageCall[b]))'
    BY <1>1, <1>3, <1>5, <1>6, FoundStays, OthersStay
  <1>8. ASSUME NEW t \in storageTexts'
        PROVE  Storage!Readable(t.content) /\ t.version \in 1 .. Len(storageVersions) /\
               ~Storage!Quarantined(storageVersions[t.version].content)
    <2>1. CASE t \in storageTexts
      BY <1>1, <2>1 DEF Storage!Registered
    <2>2. CASE t = [version |-> storageCall[c].source, key |-> storageCall[c].key,
                  content |-> storageCall[c].content]
      BY <1>1, <1>2, <2>2 DEF Storage!Published, Storage!Readable
    <2> QED
      BY <1>2, <1>8, <2>1, <2>2
  <1>9. Storage!Registered'
    BY <1>1, <1>2, <1>8 DEF Storage!Registered, Storage!Readable, Storage!Quarantined
  <1> QED
    BY <1>5, <1>7, <1>9 DEF Storage!StoreInv

\* Every step of an ingestion, an extraction or a stop keeps the invariant.
LEMMA StoreStep ==
    StorageMaxVersions \in Nat /\ StorageMaxRequests \in Nat /\ Storage!StoreInv /\
       [Storage!Next]_(Storage!vars) => Storage!StoreInv'
  <1> SUFFICES ASSUME StorageMaxVersions \in Nat, StorageMaxRequests \in Nat, Storage!StoreInv,
                      [Storage!Next]_(Storage!vars) PROVE Storage!StoreInv'
    OBVIOUS
  <1>1. ASSUME NEW c \in StorageCalls, Storage!RecordAudit(c) \/ Storage!Stop(c) PROVE Storage!StoreInv'
    <2>1. Storage!Ends(c) /\ UNCHANGED <<storageBlobs, storageOperations, storageMetadata,
             storageVersions, storageTexts, storageRequests>>
      BY <1>1 DEF Storage!RecordAudit, Storage!Stop
    <2>2. storageAudit' \subseteq Storage!OperationKeys
      <3>1. Storage!StoreTypes /\ Storage!Published(storageCall[c])
        BY DEF Storage!StoreInv
      <3> QED
        BY <1>1, <3>1 DEF Storage!RecordAudit, Storage!Stop, Storage!Published, Storage!StoreTypes
    <2> QED
      BY <2>1, <2>2, EndsKeeps
  <1>2. CASE UNCHANGED Storage!vars
    BY <1>2 DEF Storage!vars, Storage!StoreInv, Storage!StoreTypes, Storage!Registered,
       Storage!Published, Storage!Readable, Storage!Quarantined
  <1>3. ASSUME NEW c \in StorageCalls,
               \/ \E k \in StorageKeys, d \in StorageDocuments, base \in {0, Len(storageVersions)} :
                     Storage!Ingest(c, k, d, base)
               \/ \E k \in StorageKeys, i \in DOMAIN storageVersions : Storage!Derive(c, k, i)
        PROVE  Storage!StoreInv'
    BY <1>3, BeginKeeps
  <1> QED
    BY <1>1, <1>2, <1>3, PutKeeps, RegisterKeeps, RepresentationKeeps DEF Storage!Next

\* Nothing was stored at first.
LEMMA StoreInit == StorageMaxVersions \in Nat /\ StorageMaxRequests \in Nat /\ Storage!Init => Storage!StoreInv
  <1> SUFFICES ASSUME StorageMaxVersions \in Nat, StorageMaxRequests \in Nat, Storage!Init
               PROVE Storage!StoreInv
    OBVIOUS
  <1>1. Storage!Idle \in Storage!CallShape /\ Storage!Idle.at = "idle"
    BY DEF Storage!Idle, Storage!CallShape
  <1>2. Storage!StoreTypes
    BY <1>1 DEF Storage!Init, Storage!StoreTypes
  <1>3. Storage!Registered
    BY DEF Storage!Init, Storage!Registered
  <1>4. \A c \in StorageCalls : Storage!Published(storageCall[c])
    BY <1>1 DEF Storage!Init, Storage!Published
  <1> QED
    BY <1>2, <1>3, <1>4 DEF Storage!StoreInv

\* TypeOK and the three properties are parts of the invariant.
LEMMA StoreHolds ==
    Storage!StoreInv => Storage!TypeOK /\ Storage!RegisteredIsReadable /\ Storage!OneContentPerKey /\
       Storage!RevisionsFollowBase
  <1> SUFFICES ASSUME Storage!StoreInv PROVE Storage!TypeOK /\ Storage!RegisteredIsReadable /\
                      Storage!OneContentPerKey /\ Storage!RevisionsFollowBase
    OBVIOUS
  <1>1. Storage!StoreTypes /\ Storage!Registered
    BY DEF Storage!StoreInv
  <1>2. DOMAIN storageVersions = 1 .. Len(storageVersions)
    BY <1>1 DEF Storage!StoreTypes
  <1>3. Storage!TypeOK
    <2>1. \A k \in Storage!OperationKeys : storageOperations[k] = Storage!NoContent \/
             storageOperations[k].of \in StorageDocuments
      BY <1>1 DEF Storage!StoreTypes, Storage!Content
    <2> QED
      BY <1>1, <1>2, <2>1 DEF Storage!StoreTypes, Storage!Registered, Storage!TypeOK
  <1>4. Storage!RegisteredIsReadable
    BY <1>1, <1>2 DEF Storage!Registered, Storage!RegisteredIsReadable
  <1>5. Storage!OneContentPerKey /\ Storage!RevisionsFollowBase
    BY <1>1, <1>2 DEF Storage!Registered, Storage!OneContentPerKey, Storage!RevisionsFollowBase
  <1> QED
    BY <1>3, <1>4, <1>5

\* The store keeps its invariant.
LEMMA StorageHolds == Storage!Spec => []Storage!StoreInv
  <1>1. Storage!Init => Storage!StoreInv
    BY StoreInit, StorageAssumption
  <1>2. Storage!StoreInv /\ [Storage!Next]_(Storage!vars) => Storage!StoreInv'
    BY StoreStep, StorageAssumption
  <1> QED
    BY <1>1, <1>2, PTL DEF Storage!Spec

-----------------------------------------------------------------------------
(* An attempt of codex exec: its process ends before it is decided.          *)

Exec == INSTANCE ExecAttempt WITH
        MaxFrames <- ExecMaxFrames, MaxStarts <- ExecMaxStarts, attempt <- execAttempt,
        seen <- execSeen, child <- execChild, stdout <- execStdout,
        record <- execRecord, schemaFile <- execSchemaFile, starts <- execStarts

\* Frames and starts are counted.
ASSUME ExecAssumption == Exec!BoundsKnown

\* A verdict of success is one about a complete session, and a stop decides it.
LEMMA VerdictIsWhole ==
    ASSUME Exec!ExecInv
    PROVE  /\ Exec!Verdict \in {"cancelled", "interrupted", "failed", "succeeded"}
           /\ Exec!Verdict = "succeeded" => Exec!WholeSession
           /\ execAttempt.stop # Exec!None => Exec!Verdict \in {"cancelled", "interrupted"}
  <1>1. execAttempt.stop \in {Exec!None, "cancelled", "timeout"}
    BY DEF Exec!ExecInv, Exec!TypeOK, Exec!AttemptRows
  <1> QED
    BY <1>1 DEF Exec!Verdict, Exec!None, Exec!WholeSession

\* A field of the attempt changes.
LEMMA AttemptMoves ==
    ASSUME execAttempt \in Exec!AttemptRows
    PROVE  /\ \A x \in {"pumping", "waiting", "cancelled", "interrupted", "failed", "succeeded"} :
                 LET y == [execAttempt EXCEPT !.at = x]
                 IN y \in Exec!AttemptRows /\ y.at = x /\ y.stop = execAttempt.stop /\
                    y.result = execAttempt.result
           /\ \A x \in {"cancelled", "interrupted", "failed", "succeeded"} :
                 LET y == [execAttempt EXCEPT !.result = x]
                 IN y \in Exec!AttemptRows /\ y.result = x /\ y.at = execAttempt.at
           /\ \A x \in {Exec!None, "cancelled", "timeout"} :
                 LET y == [execAttempt EXCEPT !.stop = x]
                 IN y \in Exec!AttemptRows /\ y.result = execAttempt.result /\ y.at = execAttempt.at
  BY DEF Exec!AttemptRows

\* A line that is read is remembered.
LEMMA LineSeen ==
    ASSUME execSeen \in Exec!SeenRows, NEW f
    PROVE  [execSeen EXCEPT !.thread = @ \/ f \in {"thread", "otherThread"},
                        !.turnStarted = @ \/ f = "turnStarted",
                        !.turnCompleted = @ \/ f = "turnCompleted",
                        !.output = IF f \in {"output", "badOutput"} THEN f ELSE @] \in Exec!SeenRows
  <1> DEFINE t == execSeen.thread \/ f \in {"thread", "otherThread"}
             b == execSeen.turnStarted \/ f = "turnStarted"
             e == execSeen.turnCompleted \/ f = "turnCompleted"
             o == IF f \in {"output", "badOutput"} THEN f ELSE execSeen.output
  <1>1. t \in BOOLEAN /\ b \in BOOLEAN /\ e \in BOOLEAN
    OBVIOUS
  <1>2. o \in {Exec!None, "output", "badOutput"}
    BY DEF Exec!SeenRows
  <1> HIDE DEF t, b, e, o
  <1>3. [execSeen EXCEPT !.thread = t, !.turnStarted = b, !.turnCompleted = e, !.output = o] \in Exec!SeenRows
    BY <1>1, <1>2 DEF Exec!SeenRows
  <1> QED
    BY <1>3 DEF t, b, e, o

\* Every step of the adapter, the process and a stop keeps the invariant.
LEMMA ExecStep == ASSUME Exec!BoundsKnown, Exec!ExecInv, [Exec!Next]_(Exec!vars) PROVE Exec!ExecInv'
  <1>0. /\ execAttempt \in Exec!AttemptRows /\ execSeen \in Exec!SeenRows /\ execChild \in Exec!ChildRows
        /\ execStdout \in Seq(Exec!Frames) /\ Len(execStdout) <= ExecMaxFrames /\
              ExecMaxFrames \in Nat /\ ExecMaxStarts \in Nat
        /\ execRecord \in BOOLEAN /\ execSchemaFile \in BOOLEAN /\ execStarts \in 0..ExecMaxStarts
    BY DEF Exec!ExecInv, Exec!TypeOK, Exec!BoundsKnown
  <1>01. /\ Exec!Fresh \in Exec!AttemptRows /\ Exec!Fresh.at = "absent" /\
               Exec!Fresh.result = Exec!None /\ Exec!NothingSeen \in Exec!SeenRows
         /\ \A s \in {"absent", "running", "exited"}, c \in BOOLEAN :
               [state |-> s, clean |-> c] \in Exec!ChildRows /\ [state |-> s, clean |-> c].state = s
         /\ [state |-> "absent", clean |-> TRUE].state = "absent"
    BY DEF Exec!Fresh, Exec!AttemptRows, Exec!NothingSeen, Exec!SeenRows, Exec!ChildRows, Exec!None
  <1>1. ASSUME NEW op \in {"start", "resume"}, Exec!Begin(op) PROVE Exec!ExecInv'
    <2>1. CASE execRecord' = TRUE /\ execAttempt' = [Exec!Fresh EXCEPT !.op = op, !.at = "starting"]
      <3>1. execAttempt' \in Exec!AttemptRows /\ execAttempt'.at = "starting" /\ execAttempt'.result = Exec!None
        BY <2>1 DEF Exec!AttemptRows, Exec!Fresh, Exec!None
      <3>2. ~Exec!Working' /\ execAttempt.at = "absent" /\ execStarts < ExecMaxStarts /\
               execChild.state # "running"
        BY <1>1, <3>1 DEF Exec!Begin, Exec!Working, Exec!ExecInv
      <3> QED
        BY <1>0, <1>1, <2>1, <3>1, <3>2 DEF Exec!Begin, Exec!ExecInv, Exec!TypeOK, Exec!Terminal,
           Exec!Decided, Exec!None
    <2>2. CASE UNCHANGED execAttempt /\ execRecord' \in {execRecord, TRUE}
      BY <1>0, <1>1, <2>2 DEF Exec!Begin, Exec!ExecInv, Exec!TypeOK, Exec!Terminal, Exec!Decided,
         Exec!Working, Exec!WholeSession
    <2> QED
      BY <1>1, <2>1, <2>2 DEF Exec!Begin
  <1>2. CASE Exec!StartProcess
    <2>0. execRecord /\ execStarts < ExecMaxStarts /\ execAttempt.result = Exec!None /\
             execChild.state # "running"
      BY <1>0, <1>2 DEF Exec!StartProcess, Exec!ExecInv, Exec!Terminal, Exec!Working, Exec!AttemptRows,
         Exec!None
    <2>1. CASE execAttempt' = [execAttempt EXCEPT !.at = "pumping"] /\ execStarts' = execStarts + 1 /\
                  execSchemaFile' = TRUE
               /\ execChild' = [state |-> "running", clean |-> TRUE] /\ execStdout' = <<>> /\
                     execSeen' = Exec!NothingSeen
      <3>1. execAttempt' \in Exec!AttemptRows /\ execAttempt'.at = "pumping" /\ execAttempt'.result = Exec!None
        BY <1>0, <2>0, <2>1, AttemptMoves
      <3>2. execChild' \in Exec!ChildRows /\ execSeen' \in Exec!SeenRows /\ execStarts' \in 0..ExecMaxStarts
        <4>1. execChild' \in Exec!ChildRows
          BY <2>1 DEF Exec!ChildRows
        <4>2. execSeen' \in Exec!SeenRows
          BY <1>01, <2>1
        <4> QED
          BY <1>0, <2>0, <2>1, <4>1, <4>2
      <3>3. execStdout' \in Seq(Exec!Frames) /\ Len(execStdout') <= ExecMaxFrames
        BY <1>0, <2>1
      <3> QED
        BY <1>2, <2>0, <2>1, <3>1, <3>2, <3>3 DEF Exec!StartProcess, Exec!ExecInv, Exec!TypeOK,
           Exec!Terminal, Exec!Decided, Exec!Working
    <2>2. CASE execAttempt' = Exec!Fresh /\ execSchemaFile' = FALSE /\
                  UNCHANGED <<execChild, execStdout, execSeen, execStarts>>
      BY <1>0, <1>01, <1>2, <2>0, <2>2 DEF Exec!StartProcess, Exec!ExecInv, Exec!TypeOK, Exec!Terminal,
         Exec!Decided, Exec!Working, Exec!None
    <2> QED
      BY <1>2, <2>1, <2>2 DEF Exec!StartProcess
  <1>3. ASSUME NEW f \in Exec!Frames, Exec!Write(f) PROVE Exec!ExecInv'
    <2>1. execStdout' \in Seq(Exec!Frames) /\ Len(execStdout') <= ExecMaxFrames
      BY <1>0, <1>3 DEF Exec!Write
    <2> QED
      BY <1>0, <1>3, <2>1 DEF Exec!Write, Exec!ExecInv, Exec!TypeOK, Exec!Terminal, Exec!Decided,
         Exec!Working, Exec!WholeSession
  <1>4. ASSUME NEW c \in BOOLEAN, Exec!Exit(c) PROVE Exec!ExecInv'
    <2>1. execChild' \in Exec!ChildRows /\ execChild'.state = "exited"
      BY <1>01, <1>4 DEF Exec!Exit
    <2> QED
      BY <1>0, <1>4, <2>1 DEF Exec!Exit, Exec!ExecInv, Exec!TypeOK, Exec!Terminal, Exec!Decided,
         Exec!Working, Exec!WholeSession
  <1>5. CASE Exec!ObserveLine
    <2>1. execAttempt.at = "pumping" /\ execRecord /\ execAttempt.result = Exec!None
      BY <1>0, <1>5 DEF Exec!ObserveLine, Exec!ExecInv, Exec!Terminal, Exec!AttemptRows, Exec!None
    <2>2. CASE Exec!LineError(execStdout[1])
      <3>1. /\ execSeen' = [execSeen EXCEPT !.error = TRUE] /\
                  execChild' \in {execChild, [state |-> "exited", clean |-> FALSE]}
            /\ execStdout' = <<>> /\ execAttempt' = [execAttempt EXCEPT !.at = "waiting"]
            /\ UNCHANGED <<execRecord, execSchemaFile, execStarts>>
        BY <1>5, <2>2 DEF Exec!ObserveLine
      <3>2. execAttempt' \in Exec!AttemptRows /\ execAttempt'.at = "waiting" /\ execAttempt'.result = Exec!None
        BY <1>0, <2>1, <3>1, AttemptMoves
      <3>3. execSeen' \in Exec!SeenRows
        BY <1>0, <3>1 DEF Exec!SeenRows
      <3>4. execChild' \in Exec!ChildRows
        BY <1>0, <1>01, <3>1
      <3> QED
        BY <1>0, <2>1, <3>1, <3>2, <3>3, <3>4 DEF Exec!ExecInv, Exec!TypeOK, Exec!Terminal,
           Exec!Decided, Exec!Working
    <2>3. CASE ~Exec!LineError(execStdout[1])
      <3>1. execSeen' \in Exec!SeenRows
        BY <1>0, <1>5, <2>3, LineSeen DEF Exec!ObserveLine
      <3>2. execStdout' \in Seq(Exec!Frames) /\ Len(execStdout') <= ExecMaxFrames
        <4>1. execStdout' = Tail(execStdout) /\ execStdout # <<>>
          BY <1>5, <2>3 DEF Exec!ObserveLine
        <4> QED
          BY <1>0, <4>1
      <3>3. UNCHANGED <<execChild, execAttempt, execRecord, execSchemaFile, execStarts>>
        BY <1>5, <2>3 DEF Exec!ObserveLine
      <3> QED
        BY <1>0, <2>1, <3>1, <3>2, <3>3 DEF Exec!ExecInv, Exec!TypeOK, Exec!Terminal, Exec!Decided, Exec!Working
    <2> QED
      BY <2>2, <2>3
  <1>6. CASE Exec!AtEOF
    <2>1. execAttempt' \in Exec!AttemptRows /\ execAttempt'.at = "waiting" /\
             execAttempt'.result = execAttempt.result
      BY <1>0, <1>6, AttemptMoves DEF Exec!AtEOF
    <2>2. execAttempt.at = "pumping" /\ execRecord /\ execAttempt.result = Exec!None
      BY <1>0, <1>6 DEF Exec!AtEOF, Exec!ExecInv, Exec!Terminal, Exec!AttemptRows, Exec!None
    <2> QED
      BY <1>0, <1>6, <2>1, <2>2 DEF Exec!AtEOF, Exec!ExecInv, Exec!TypeOK, Exec!Terminal, Exec!Decided,
         Exec!Working
  <1>7. CASE Exec!Decide
    <2>1. execAttempt.at = "waiting" /\ execRecord /\ execAttempt.result = Exec!None
      BY <1>0, <1>7 DEF Exec!Decide, Exec!ExecInv, Exec!Terminal, Exec!AttemptRows, Exec!None
    <2>2. PICK v \in {Exec!Verdict} \cup (IF Exec!Verdict = "succeeded" THEN {"failed"} ELSE {}) :
             execAttempt' = [execAttempt EXCEPT !.at = v]
      BY <1>7 DEF Exec!Decide
    <2>3. v \in {"cancelled", "interrupted", "failed", "succeeded"} /\ (v = "succeeded" => Exec!WholeSession)
      BY <2>2, VerdictIsWhole
    <2>4. execAttempt' \in Exec!AttemptRows /\ execAttempt'.at = v /\ execAttempt'.result = Exec!None
      BY <1>0, <2>1, <2>2, <2>3, AttemptMoves
    <2> QED
      BY <1>0, <1>7, <2>1, <2>3, <2>4 DEF Exec!Decide, Exec!ExecInv, Exec!TypeOK, Exec!Terminal,
         Exec!Decided, Exec!Working, Exec!WholeSession
  <1>8. CASE Exec!Finish
    <2>1. execAttempt' \in Exec!AttemptRows /\ execAttempt'.result = execAttempt.at /\
             execAttempt'.at = execAttempt.at
      BY <1>0, <1>8, AttemptMoves DEF Exec!Finish, Exec!Decided
    <2> QED
      BY <1>0, <1>8, <2>1 DEF Exec!Finish, Exec!ExecInv, Exec!TypeOK, Exec!Terminal, Exec!Decided,
         Exec!Working, Exec!WholeSession
  <1>9. ASSUME NEW ok \in BOOLEAN, Exec!Cancel(ok) \/ Exec!Timeout(ok) PROVE Exec!ExecInv'
    <2>1. /\ execAttempt' \in Exec!AttemptRows /\ execAttempt'.at = execAttempt.at /\
                execAttempt'.result = execAttempt.result
      <3>1. execAttempt.stop \in {Exec!None, "cancelled", "timeout"}
        BY <1>0 DEF Exec!AttemptRows
      <3>2. execAttempt' = execAttempt \/ \E x \in {Exec!None, "cancelled", "timeout"} :
               execAttempt' = [execAttempt EXCEPT !.stop = x]
        BY <1>9, <3>1 DEF Exec!Cancel, Exec!Timeout
      <3>3. CASE execAttempt' = execAttempt
        BY <1>0, <3>3
      <3>4. ASSUME NEW x \in {Exec!None, "cancelled", "timeout"}, execAttempt' = [execAttempt EXCEPT !.stop = x]
            PROVE  execAttempt' \in Exec!AttemptRows /\ execAttempt'.at = execAttempt.at /\
                execAttempt'.result = execAttempt.result
        BY <1>0, <3>4, AttemptMoves
      <3> QED
        BY <3>2, <3>3, <3>4
    <2>2. execChild' \in {execChild, [state |-> "exited", clean |-> FALSE]}
      BY <1>9 DEF Exec!Cancel, Exec!Timeout, Exec!Killed
    <2>3. execChild' \in Exec!ChildRows /\ (execChild'.state = "running" => execChild.state = "running")
      BY <1>0, <1>01, <2>2
    <2>4. execAttempt.at # "absent" /\ UNCHANGED <<execSeen, execStdout, execRecord, execSchemaFile,
             execStarts>>
      BY <1>9 DEF Exec!Cancel, Exec!Timeout, Exec!Registered
    <2> QED
      BY <1>0, <2>1, <2>3, <2>4 DEF Exec!ExecInv, Exec!TypeOK, Exec!Terminal, Exec!Decided,
         Exec!Working, Exec!WholeSession
  <1>10. CASE Exec!Restart
    <2>1. execStdout' \in Seq(Exec!Frames) /\ Len(execStdout') <= ExecMaxFrames
      BY <1>0, <1>10 DEF Exec!Restart
    <2>2. execChild' \in Exec!ChildRows /\ execChild'.state = "absent"
      BY <1>01, <1>10 DEF Exec!Restart
    <2>3. execAttempt' = Exec!Fresh /\ execSeen' = Exec!NothingSeen /\ execSchemaFile' = FALSE /\
             UNCHANGED <<execRecord, execStarts>>
      BY <1>10 DEF Exec!Restart
    <2> QED
      BY <1>0, <1>01, <2>1, <2>2, <2>3 DEF Exec!ExecInv, Exec!TypeOK, Exec!Terminal, Exec!Decided, Exec!Working
  <1>11. CASE UNCHANGED Exec!vars
    BY <1>11 DEF Exec!vars, Exec!ExecInv, Exec!TypeOK, Exec!Terminal, Exec!Decided, Exec!Working,
       Exec!WholeSession
  <1> QED
    BY <1>1, <1>2, <1>3, <1>4, <1>5, <1>6, <1>7, <1>8, <1>9, <1>10, <1>11 DEF Exec!Next

\* Nothing runs at the start.
LEMMA ExecInit == ASSUME Exec!BoundsKnown, Exec!Init PROVE Exec!ExecInv
  <1>1. /\ Exec!Fresh \in Exec!AttemptRows /\ Exec!Fresh.at = "absent" /\
              Exec!Fresh.result = Exec!None /\ Exec!NothingSeen \in Exec!SeenRows
        /\ [state |-> "absent", clean |-> TRUE] \in Exec!ChildRows
    BY DEF Exec!Fresh, Exec!AttemptRows, Exec!NothingSeen, Exec!SeenRows, Exec!ChildRows, Exec!None
  <1>2. execAttempt = Exec!Fresh /\ execSeen = Exec!NothingSeen /\
           execChild = [state |-> "absent", clean |-> TRUE] /\ execStdout = <<>>
        /\ execRecord = FALSE /\ execSchemaFile = FALSE /\ execStarts = 0
    BY DEF Exec!Init
  <1>3. execStdout \in Seq(Exec!Frames) /\ Len(execStdout) <= ExecMaxFrames /\
           execStarts \in 0..ExecMaxStarts /\ execChild.state = "absent"
    BY <1>2 DEF Exec!BoundsKnown
  <1> QED
    BY <1>1, <1>2, <1>3 DEF Exec!ExecInv, Exec!TypeOK, Exec!Working, Exec!Terminal, Exec!Decided

\* What is decided with the stop flag set is the stop.
LEMMA StopIsRead ==
    ASSUME Exec!ExecInv, [Exec!Next]_(Exec!vars), execAttempt.stop # Exec!None,
           execAttempt.at = "waiting", execAttempt'.at \notin {"waiting", "absent"}
    PROVE  execAttempt'.at \in {"cancelled", "interrupted"}
  <1>0. execAttempt \in Exec!AttemptRows
    BY DEF Exec!ExecInv, Exec!TypeOK
  <1>1. CASE Exec!Decide
    <2>1. PICK v \in {Exec!Verdict} \cup (IF Exec!Verdict = "succeeded" THEN {"failed"} ELSE {}) :
             execAttempt' = [execAttempt EXCEPT !.at = v]
      BY <1>1 DEF Exec!Decide
    <2>2. v \in {"cancelled", "interrupted"}
      BY <2>1, VerdictIsWhole
    <2> QED
      BY <1>0, <2>1, <2>2, AttemptMoves
  <1>2. ASSUME NEW ok \in BOOLEAN, Exec!Cancel(ok) \/ Exec!Timeout(ok) PROVE execAttempt'.at = execAttempt.at
    BY <1>0, <1>2 DEF Exec!Cancel, Exec!Timeout, Exec!AttemptRows
  <1>3. CASE Exec!ObserveLine \/ Exec!AtEOF \/ Exec!Finish \/ Exec!StartProcess \/
                \E op \in {"start", "resume"} : Exec!Begin(op)
    BY <1>3 DEF Exec!ObserveLine, Exec!AtEOF, Exec!Finish, Exec!Decided, Exec!StartProcess, Exec!Begin
  <1>4. CASE \/ Exec!Restart \/ UNCHANGED Exec!vars \/ (\E f \in Exec!Frames : Exec!Write(f)) \/
                   \E c \in BOOLEAN : Exec!Exit(c)
    BY <1>4 DEF Exec!Restart, Exec!Fresh, Exec!vars, Exec!Write, Exec!Exit
  <1> QED
    BY <1>1, <1>2, <1>3, <1>4 DEF Exec!Next

\* What an attempt of codex exec promises.
LEMMA ExecHolds ==
    Exec!Spec => /\ [](Exec!TypeOK /\ Exec!ResultAfterExit /\ Exec!SuccessIsWhole /\ Exec!RecordBeforeProcess)
                 /\ Exec!StopDecides
  <1>1. Exec!Init => Exec!ExecInv
    BY ExecInit, ExecAssumption
  <1>2. Exec!ExecInv /\ [Exec!Next]_(Exec!vars) => Exec!ExecInv'
    BY ExecStep, ExecAssumption
  <1>3. Exec!ExecInv =>
          Exec!TypeOK /\ Exec!ResultAfterExit /\ Exec!SuccessIsWhole /\ Exec!RecordBeforeProcess
    <2> SUFFICES ASSUME Exec!ExecInv
                 PROVE  Exec!TypeOK /\ Exec!ResultAfterExit /\ Exec!SuccessIsWhole /\ Exec!RecordBeforeProcess
      OBVIOUS
    <2>1. execAttempt.result \in {Exec!None, "cancelled", "interrupted", "failed", "succeeded"}
      BY DEF Exec!ExecInv, Exec!TypeOK, Exec!AttemptRows
    <2> QED
      BY <2>1 DEF Exec!ExecInv, Exec!ResultAfterExit, Exec!SuccessIsWhole, Exec!RecordBeforeProcess,
         Exec!Terminal, Exec!Decided, Exec!Working, Exec!None
  <1>4. Exec!ExecInv /\ [Exec!Next]_(Exec!vars) =>
          [execAttempt.stop # Exec!None /\ execAttempt.at = "waiting" /\
             execAttempt'.at \notin {"waiting", "absent"} =>
              execAttempt'.at \in {"cancelled", "interrupted"}]_(Exec!vars)
    BY StopIsRead
  <1> QED
    BY <1>1, <1>2, <1>3, <1>4, PTL DEF Exec!Spec, Exec!StopDecides

-----------------------------------------------------------------------------
(* A deletion works on what it read, and is whole.                           *)

Deletion == INSTANCE WorkDeletion WITH
        Runs <- DeletionRuns, Callers <- DeletionCallers,
        MaxRestarts <- DeletionMaxRestarts, MaxVersion <- DeletionMaxVersion,
        MaxReviews <- DeletionMaxReviews, work <- deletionWork, run <- deletionRun,
        attempt <- deletionAttempt, control <- deletionControl,
        review <- deletionReview, task <- deletionTask, holder <- deletionHolder,
        cancelled <- deletionCancelled, restarts <- deletionRestarts

\* A step that leaves a pass alone and is calm for every run keeps what it knows.
LEMMA CalmKeepsPass ==
    ASSUME Deletion!DeletionInv, NEW p \in Deletion!Passes, deletionTask'[p] = deletionTask[p], Deletion!Rows',
           \A r \in DeletionRuns : Deletion!Calm(r), deletionWork # "retained" => deletionWork' # "retained",
           deletionTask[p].at = "append" => deletionHolder' = deletionHolder
    PROVE  Deletion!PassHolds(p)'
  <1>1. deletionTask[p] \in Deletion!Tasks /\ Deletion!PassHolds(p) /\ \A r \in DeletionRuns :
           deletionTask[p].read[r] \in Nat
    BY DEF Deletion!DeletionInv, Deletion!Rows, Deletion!Tasks
  <1>2. \A r \in DeletionRuns : deletionRun[r].version \in Nat /\ deletionRun'[r].version \in Nat
    BY DEF Deletion!DeletionInv, Deletion!Rows, Deletion!RunRows
  <1>3. ASSUME NEW r \in DeletionRuns
        PROVE  /\ deletionTask[p].read[r] <= deletionRun'[r].version
               /\ deletionTask[p].read[r] = deletionRun'[r].version =>
                     deletionRun'[r] = deletionRun[r] /\
                        (deletionControl'[r] = "pending" => deletionControl[r] = "pending")
               /\ deletionWork # "retained" /\ deletionRun[r].status \in Deletion!Done =>
                     deletionRun'[r].status \in Deletion!Done
               /\ deletionWork # "retained" /\ Deletion!Over(r) => Deletion!Over(r)'
               /\ deletionRun[r].status \in Deletion!Done /\ deletionControl'[r] = "pending" =>
                     deletionControl[r] = "pending"
               /\ deletionRun[r].status \in Deletion!Done /\
                     deletionReview'[r].status \in Deletion!Pending =>
                        deletionReview[r].status \in Deletion!Pending
    <2>1. Deletion!Calm(r) /\ deletionTask[p].read[r] <= deletionRun[r].version
      BY <1>1 DEF Deletion!PassHolds, Deletion!ReadHolds
    <2>2. /\ deletionTask[p].read[r] <= deletionRun'[r].version
          /\ deletionTask[p].read[r] = deletionRun'[r].version => deletionRun'[r] = deletionRun[r] /\
                ~(deletionRun'[r].version > deletionRun[r].version)
      BY <1>1, <1>2, <2>1 DEF Deletion!Calm
    <2> QED
      BY <2>1, <2>2 DEF Deletion!Calm, Deletion!Over
  <1>4. deletionTask[p].runs \subseteq DeletionRuns
    BY <1>1 DEF Deletion!Tasks
  <1>5. Deletion!ReadHolds(p)'
    BY <1>1, <1>3, <1>4 DEF Deletion!PassHolds, Deletion!ReadHolds
  <1>6. Deletion!DueHolds(p)'
    <2> SUFFICES ASSUME deletionTask[p].at = "withdraw", NEW r \in DeletionRuns
                 PROVE  /\ deletionControl'[r] = "pending" /\
                            (r \in deletionTask[p].runs =>
                               deletionTask[p].read[r] = deletionRun'[r].version) =>
                              Deletion!Due(p, r, "control")
                        /\ deletionReview'[r].status \in Deletion!Pending /\
                              r \notin deletionTask[p].runs => Deletion!Due(p, r, "review")
      BY DEF Deletion!DueHolds, Deletion!Due
    <2>1. r \notin deletionTask[p].runs => deletionRun[r].status \in Deletion!Done
      BY <1>1 DEF Deletion!PassHolds, Deletion!ReadHolds
    <2> QED
      BY <1>1, <1>3, <2>1 DEF Deletion!PassHolds, Deletion!DueHolds
  <1>7. Deletion!CancelHolds(p)'
    BY <1>1, <1>3, <1>4 DEF Deletion!PassHolds, Deletion!ReadHolds, Deletion!CancelHolds
  <1>8. Deletion!AppendHolds(p)'
    BY <1>1, <1>2 DEF Deletion!PassHolds, Deletion!AppendHolds, Deletion!Calm, Deletion!Tasks
  <1> QED
    BY <1>5, <1>6, <1>7, <1>8 DEF Deletion!PassHolds

\* ... and keeps what is finished finished.
LEMMA CalmKeepsOver ==
    ASSUME Deletion!DeletionInv, \A r \in DeletionRuns : Deletion!Calm(r), UNCHANGED deletionWork
    PROVE  /\ deletionWork = "deleted" => \A r \in DeletionRuns : Deletion!Over(r)'
           /\ Deletion!DeletedRunsFinished'
           /\ deletionCancelled' = deletionCancelled => Deletion!AnswersHold'
           /\ \A r \in DeletionRuns : deletionWork # "retained" /\ Deletion!Over(r) => Deletion!Over(r)'
  <1>1. \A r \in DeletionRuns : deletionWork # "retained" /\ Deletion!Over(r) => Deletion!Over(r)'
    BY DEF Deletion!Over, Deletion!Calm
  <1>2. Deletion!DeletedRunsFinished'
    BY DEF Deletion!DeletionInv, Deletion!DeletedRunsFinished, Deletion!Deletable, Deletion!Calm
  <1>3. deletionCancelled' = deletionCancelled => Deletion!AnswersHold'
    BY <1>1 DEF Deletion!DeletionInv, Deletion!AnswersHold
  <1> QED
    BY <1>1, <1>2, <1>3 DEF Deletion!DeletionInv

\* A step of a run: the passes are left alone.
LEMMA CalmKeeps ==
    ASSUME Deletion!DeletionInv, Deletion!Rows', \A r \in DeletionRuns : Deletion!Calm(r),
           UNCHANGED <<deletionWork, deletionTask, deletionHolder, deletionCancelled>>
    PROVE  Deletion!DeletionInv'
  <1>1. \A p \in Deletion!Passes : Deletion!PassHolds(p)'
    BY CalmKeepsPass
  <1> QED
    BY <1>1, CalmKeepsOver DEF Deletion!DeletionInv

\* One run's row, its approvals or its attempt change.
LEMMA RunChanges ==
    ASSUME Deletion!DeletionInv, NEW r \in DeletionRuns,
           \/ deletionRun' = deletionRun
           \/ \E s \in {"running", "waiting", "completed", "failed", "cancelled", "reconcile_required"} :
                 /\ deletionRun' = [deletionRun EXCEPT ![r] = [status |-> s, version |-> @.version + 1]]
                 /\ deletionRun[r].status \in Deletion!Done => s \in Deletion!Done \/ deletionWork = "retained",
           \/ deletionAttempt' = deletionAttempt
           \/ \E a \in {"live", "uncertain", "over"} :
                 /\ deletionAttempt' = [deletionAttempt EXCEPT ![r] = a]
                 /\ a # "over" => deletionWork = "retained" \/ deletionAttempt[r] \in {"live", "uncertain"},
           \/ deletionControl' = deletionControl
           \/ \E c \in {"none", "withdrawn", "closed", "pending"} :
                 /\ deletionControl' = [deletionControl EXCEPT ![r] = c]
                 /\ c = "pending" => deletionRun'[r].version > deletionRun[r].version /\
                       deletionRun[r].status \notin Deletion!Done,
           \/ deletionReview' = deletionReview
           \/ deletionReview' = [deletionReview EXCEPT ![r].status = "none"]
           \/ \E s \in {"human", "agent", "approved", "withdrawn", "closed"} :
                 /\ deletionReview' = [deletionReview EXCEPT ![r] = [status |-> s, version |-> @.version + 1]]
                 /\ s \in Deletion!Pending => deletionReview[r].status \in Deletion!Pending \/
                       (deletionHolder = {} /\ deletionRun[r].status \notin Deletion!Done),
           deletionWork' \in {"retained", "deleting", "deleted"},
              deletionTask' \in [Deletion!Passes -> Deletion!Tasks]
    PROVE  Deletion!Rows' /\ \A q \in DeletionRuns : Deletion!Calm(q)
  <1>1. Deletion!Rows
    BY DEF Deletion!DeletionInv
  <1>2. /\ deletionRun' \in [DeletionRuns -> Deletion!RunRows]
        /\ \A q \in DeletionRuns \ {r} : deletionRun'[q] = deletionRun[q]
        /\ deletionRun'[r] = deletionRun[r] \/ deletionRun'[r].version > deletionRun[r].version
        /\ deletionWork # "retained" /\ deletionRun[r].status \in Deletion!Done =>
              deletionRun'[r].status \in Deletion!Done
    <2>1. deletionRun \in [DeletionRuns -> Deletion!RunRows]
      BY <1>1 DEF Deletion!Rows
    <2>2. CASE deletionRun' = deletionRun
      BY <2>1, <2>2
    <2>3. ASSUME NEW s \in {"running", "waiting", "completed", "failed", "cancelled", "reconcile_required"},
                 deletionRun' = [deletionRun EXCEPT ![r] = [status |-> s, version |-> @.version + 1]]
          PROVE  /\ deletionRun' \in [DeletionRuns -> Deletion!RunRows]
                 /\ \A q \in DeletionRuns \ {r} : deletionRun'[q] = deletionRun[q]
                 /\ deletionRun'[r].version > deletionRun[r].version /\ deletionRun'[r].status = s
      <3>1. deletionRun[r].version \in Nat
        BY <2>1 DEF Deletion!RunRows
      <3>2. [status |-> s, version |-> deletionRun[r].version + 1] \in Deletion!RunRows
        BY <3>1 DEF Deletion!RunRows
      <3> QED
        BY <2>1, <2>3, <3>1, <3>2
    <2> QED
      BY <2>2, <2>3
  <1>3. /\ deletionAttempt' \in [DeletionRuns -> {"none", "live", "uncertain", "over"}]
        /\ \A q \in DeletionRuns \ {r} : deletionAttempt'[q] = deletionAttempt[q]
        /\ deletionWork # "retained" /\ deletionAttempt[r] \notin {"live", "uncertain"} =>
              deletionAttempt'[r] \notin {"live", "uncertain"}
    <2>1. deletionAttempt \in [DeletionRuns -> {"none", "live", "uncertain", "over"}]
      BY <1>1 DEF Deletion!Rows
    <2>2. CASE deletionAttempt' = deletionAttempt
      BY <2>1, <2>2
    <2>3. ASSUME NEW a \in {"live", "uncertain", "over"}, deletionAttempt' = [deletionAttempt EXCEPT ![r] = a],
                 a # "over" => deletionWork = "retained" \/ deletionAttempt[r] \in {"live", "uncertain"}
          PROVE  /\ deletionAttempt' \in [DeletionRuns -> {"none", "live", "uncertain", "over"}]
                 /\ \A q \in DeletionRuns \ {r} : deletionAttempt'[q] = deletionAttempt[q]
                 /\ deletionAttempt'[r] = a
      BY <2>1, <2>3
    <2> QED
      BY <2>2, <2>3
  <1>4. /\ deletionControl' \in [DeletionRuns -> {"none", "pending", "withdrawn", "closed"}]
        /\ \A q \in DeletionRuns \ {r} : deletionControl'[q] = deletionControl[q]
        /\ deletionControl'[r] = "pending" =>
              deletionControl[r] = "pending" \/ (deletionRun'[r].version > deletionRun[r].version /\
                 deletionRun[r].status \notin Deletion!Done)
    <2>1. deletionControl \in [DeletionRuns -> {"none", "pending", "withdrawn", "closed"}]
      BY <1>1 DEF Deletion!Rows
    <2>2. CASE deletionControl' = deletionControl
      BY <2>1, <2>2
    <2>3. ASSUME NEW c \in {"none", "withdrawn", "closed", "pending"},
                 deletionControl' = [deletionControl EXCEPT ![r] = c]
          PROVE  /\ deletionControl' \in [DeletionRuns -> {"none", "pending", "withdrawn", "closed"}]
                 /\ \A q \in DeletionRuns \ {r} : deletionControl'[q] = deletionControl[q]
                 /\ deletionControl'[r] = c
      BY <2>1, <2>3
    <2> QED
      BY <2>2, <2>3
  <1>5. /\ deletionReview' \in [DeletionRuns -> [status :
              {"none", "human", "agent", "approved", "withdrawn", "closed"}, version : Nat]]
        /\ \A q \in DeletionRuns \ {r} : deletionReview'[q] = deletionReview[q]
        /\ deletionReview'[r].status \in Deletion!Pending => deletionReview'[r].version > 0
        /\ deletionReview'[r].status \in Deletion!Pending =>
              deletionReview[r].status \in Deletion!Pending \/
                 (deletionHolder = {} /\ deletionRun[r].status \notin Deletion!Done)
    BY <1>1 DEF Deletion!Rows, Deletion!Pending
  <1>6. \A q \in DeletionRuns : deletionReview'[q].status \in Deletion!Pending => deletionReview'[q].version > 0
    BY <1>1, <1>5 DEF Deletion!Rows
  <1>7. \A q \in DeletionRuns : Deletion!Calm(q)
    BY <1>2, <1>3, <1>4, <1>5 DEF Deletion!Calm
  <1> QED
    BY <1>2, <1>3, <1>4, <1>5, <1>6, <1>7 DEF Deletion!Rows

\* Workers, reviewers and controls.
LEMMA RunStepKeeps ==
    ASSUME Deletion!DeletionInv, NEW r \in DeletionRuns, Deletion!RunStep(r)
    PROVE  Deletion!DeletionInv'
  <1> DEFINE Fits == Deletion!Rows' /\ \A q \in DeletionRuns : Deletion!Calm(q)
  <1>0. /\ UNCHANGED <<deletionWork, deletionTask, deletionHolder, deletionCancelled>>
        /\ deletionWork' \in {"retained", "deleting", "deleted"} /\
              deletionTask' \in [Deletion!Passes -> Deletion!Tasks]
    BY DEF Deletion!RunStep, Deletion!RunEnds, Deletion!RunAsks, Deletion!DecideCheckpoint,
       Deletion!OpenReview, Deletion!StartRevision, Deletion!Advance,
           Deletion!RevisionEnds, Deletion!ReviewMoves, Deletion!RunContinues, Deletion!UserCancels,
              Deletion!DeletionInv, Deletion!Rows
  <1>r. deletionRun[r].version \in Nat /\ deletionRun[r].version + 1 > deletionRun[r].version /\
           r \in DOMAIN deletionRun
    BY DEF Deletion!DeletionInv, Deletion!Rows, Deletion!RunRows
  <1>1. CASE Deletion!RunEnds(r)
    <2>1. Fits
      BY <1>0, <1>1, RunChanges DEF Deletion!RunEnds, Deletion!Move, Deletion!Done
    <2> QED
      BY <1>0, <2>1, CalmKeeps
  <1>2. CASE Deletion!RunAsks(r)
    <2>1. deletionRun' = [deletionRun EXCEPT ![r] = [status |-> "waiting", version |-> @.version + 1]]
      BY <1>2 DEF Deletion!RunAsks, Deletion!Move
    <2>2. deletionRun'[r].version > deletionRun[r].version /\ deletionRun[r].status \notin Deletion!Done
      BY <1>r, <1>2, <2>1 DEF Deletion!RunAsks, Deletion!Move, Deletion!Done
    <2>3. Fits
      BY <1>0, <1>2, <2>1, <2>2, RunChanges DEF Deletion!RunAsks
    <2> QED
      BY <1>0, <2>3, CalmKeeps
  <1>3. CASE Deletion!DecideCheckpoint(r) \/ Deletion!Advance(r)
    <2>1. CASE Deletion!NextVisit(r) /\ deletionWork = "retained"
      <3>1. Fits
        BY <1>0, <2>1, RunChanges DEF Deletion!NextVisit, Deletion!Move, Deletion!Done
      <3> QED
        BY <1>0, <3>1, CalmKeeps
    <2>2. CASE /\ Deletion!Move(r, {"waiting"}, "cancelled") /\
                     deletionControl' = [deletionControl EXCEPT ![r] = "closed"]
               /\ UNCHANGED <<deletionAttempt, deletionReview>>
      <3>1. Fits
        BY <1>0, <2>2, RunChanges DEF Deletion!Move, Deletion!Done
      <3> QED
        BY <1>0, <3>1, CalmKeeps
    <2> QED
      BY <1>3, <2>1, <2>2 DEF Deletion!DecideCheckpoint, Deletion!Advance
  <1>4. CASE Deletion!OpenReview(r)
    <2>1. Fits
      BY <1>0, <1>4, RunChanges DEF Deletion!OpenReview, Deletion!Reviewed, Deletion!Retires, Deletion!Done
    <2> QED
      BY <1>0, <2>1, CalmKeeps
  <1>5. CASE Deletion!StartRevision(r)
    <2>1. Fits
      BY <1>0, <1>5, RunChanges DEF Deletion!StartRevision, Deletion!Reviewed, Deletion!Retires,
         Deletion!Move, Deletion!Pending, Deletion!Done
    <2> QED
      BY <1>0, <2>1, CalmKeeps
  <1>6. CASE Deletion!RevisionEnds(r) \/ Deletion!RunContinues(r)
    <2>1. Fits
      BY <1>0, <1>6, RunChanges DEF Deletion!RevisionEnds, Deletion!RunContinues, Deletion!Move, Deletion!Done
    <2> QED
      BY <1>0, <2>1, CalmKeeps
  <1>7. CASE Deletion!ReviewMoves(r)
    <2>1. Fits
      BY <1>0, <1>7, RunChanges DEF Deletion!ReviewMoves, Deletion!Reviewed, Deletion!Pending
    <2> QED
      BY <1>0, <2>1, CalmKeeps
  <1>8. CASE Deletion!UserCancels(r)
    <2>1. PICK a \in {deletionAttempt[r], "over"} : deletionAttempt' = [deletionAttempt EXCEPT ![r] = a]
      BY <1>8 DEF Deletion!UserCancels
    <2>2. deletionAttempt' = deletionAttempt \/ deletionAttempt' = [deletionAttempt EXCEPT ![r] = "over"]
      BY <2>1 DEF Deletion!DeletionInv, Deletion!Rows
    <2>3. deletionRun' = [deletionRun EXCEPT ![r] = [status |-> "cancelled", version |-> @.version + 1]]
      BY <1>8 DEF Deletion!UserCancels, Deletion!Move
    <2>4. \/ deletionReview' = deletionReview
          \/ deletionReview' = [deletionReview EXCEPT ![r] = [status |-> "closed", version |-> @.version + 1]]
      BY <1>8 DEF Deletion!UserCancels
    <2>5. deletionControl' = deletionControl \/ deletionControl' = [deletionControl EXCEPT ![r] = "closed"]
      BY <1>8 DEF Deletion!UserCancels
    <2>6. Fits
      BY <1>0, <2>2, <2>3, <2>4, <2>5, RunChanges DEF Deletion!Done, Deletion!Pending
    <2> QED
      BY <1>0, <2>6, CalmKeeps
  <1> QED
    BY <1>1, <1>2, <1>3, <1>4, <1>5, <1>6, <1>7, <1>8 DEF Deletion!RunStep

\* A step of one pass that leaves the runs alone: the others keep what they know.
LEMMA PassMoves ==
    ASSUME Deletion!DeletionInv, NEW p \in Deletion!Passes, NEW t \in Deletion!Tasks,
           deletionTask' = [deletionTask EXCEPT ![p] = t],
           UNCHANGED <<deletionRun, deletionAttempt, deletionControl, deletionReview, deletionCancelled>>,
           deletionWork' \in {deletionWork, "deleting", "deleted"},
           deletionWork' = "deleted" => Deletion!Deletable /\ \A r \in DeletionRuns : Deletion!Over(r),
           deletionTask[p].at # "append" => deletionHolder' = deletionHolder \/ deletionHolder = {},
           deletionTask[p].at = "append" => deletionHolder' = {},
           Deletion!PassHolds(p)'
    PROVE  Deletion!DeletionInv'
  <1>1. Deletion!Rows' /\ deletionTask'[p] = t /\ \A q \in Deletion!Passes \ {p} :
           deletionTask'[q] = deletionTask[q]
    BY DEF Deletion!DeletionInv, Deletion!Rows
  <1>2. \A r \in DeletionRuns : Deletion!Calm(r) /\ (Deletion!Over(r) <=> Deletion!Over(r)')
    BY DEF Deletion!Calm, Deletion!Over
  <1>3. ASSUME NEW q \in Deletion!Passes \ {p} PROVE Deletion!PassHolds(q)'
    <2>1. deletionTask[q].at = "append" => deletionHolder = {q} /\
             (deletionTask[p].at = "append" => deletionHolder = {p})
      BY DEF Deletion!DeletionInv, Deletion!PassHolds, Deletion!AppendHolds
    <2>2. deletionTask[q].at = "append" => deletionHolder' = deletionHolder
      BY <2>1
    <2> QED
      BY <1>1, <1>2, <2>2, CalmKeepsPass
  <1>4. Deletion!AnswersHold' /\ Deletion!DeletedRunsFinished' /\
           (deletionWork' = "deleted" => \A r \in DeletionRuns : Deletion!Over(r)')
    BY <1>2 DEF Deletion!DeletionInv, Deletion!AnswersHold, Deletion!DeletedRunsFinished, Deletion!Deletable
  <1> QED
    BY <1>1, <1>3, <1>4 DEF Deletion!DeletionInv

\* Beginning, listing, reading the approvals and going on from them.
LEMMA PassReads ==
    ASSUME Deletion!DeletionInv, NEW p \in Deletion!Passes,
           \/ Deletion!DeleteWork(p) \/ Deletion!ListRuns(p) \/ Deletion!ReadApprovals(p) \/
                 Deletion!Withdrawn(p) \/ Deletion!RecordDeleted(p)
           \/ p = Deletion!Queue /\ Deletion!Reconcile
    PROVE  Deletion!DeletionInv'
  <1>0. Deletion!Rows /\ deletionTask[p] \in Deletion!Tasks /\ Deletion!PassHolds(p) /\
           deletionTask \in [Deletion!Passes -> Deletion!Tasks]
    BY DEF Deletion!DeletionInv, Deletion!Rows
  <1>n. /\ Deletion!NoTask \in Deletion!Tasks /\ Deletion!NoTask.at = "idle" /\
              Deletion!NoTask.runs = {} /\ Deletion!NoTask.failed = FALSE
        /\ \A r \in DeletionRuns : Deletion!NoTask.read[r] = 0
    BY DEF Deletion!NoTask, Deletion!Tasks
  <1>v. \A r \in DeletionRuns : deletionRun[r].version \in Nat /\ deletionRun[r].version >= 0
    BY <1>0 DEF Deletion!Rows, Deletion!RunRows
  <1>1. CASE Deletion!DeleteWork(p) \/ (p = Deletion!Queue /\ Deletion!Reconcile)
    <2> DEFINE t == [Deletion!NoTask EXCEPT !.at = "list"]
    <2>1. t \in Deletion!Tasks /\ t.at = "list" /\ t.runs = {} /\ \A r \in DeletionRuns : t.read[r] = 0
      BY <1>n DEF Deletion!Tasks
    <2>2. /\ deletionTask' = [deletionTask EXCEPT ![p] = t] /\ deletionWork' = "deleting" /\
                deletionTask[p].at = "idle"
          /\ UNCHANGED <<deletionRun, deletionAttempt, deletionControl, deletionReview, deletionHolder,
                deletionCancelled>>
      BY <1>1 DEF Deletion!DeleteWork, Deletion!Reconcile
    <2> HIDE DEF t
    <2>3. deletionTask'[p] = t
      BY <1>0, <2>2
    <2>4. Deletion!PassHolds(p)'
      BY <1>v, <2>1, <2>2, <2>3 DEF Deletion!PassHolds, Deletion!ReadHolds, Deletion!DueHolds,
         Deletion!CancelHolds, Deletion!AppendHolds
    <2> QED
      BY <2>1, <2>2, <2>4, PassMoves
  <1>2. CASE Deletion!ListRuns(p)
    <2> DEFINE t == [Deletion!NoTask EXCEPT !.at = "approvals",
           !.runs = {r \in DeletionRuns : deletionRun[r].status \notin Deletion!Done},
                                   !.read = [r \in DeletionRuns |-> deletionRun[r].version]]
    <2>1. /\ t \in Deletion!Tasks /\ t.at = "approvals" /\
                t.runs = {r \in DeletionRuns : deletionRun[r].status \notin Deletion!Done}
          /\ \A r \in DeletionRuns : t.read[r] = deletionRun[r].version
      BY <1>n, <1>v DEF Deletion!Tasks
    <2>2. /\ deletionTask' = [deletionTask EXCEPT ![p] = t] /\ deletionTask[p].at = "list"
          /\ UNCHANGED <<deletionWork, deletionRun, deletionAttempt, deletionControl, deletionReview,
                deletionHolder, deletionCancelled>>
      BY <1>2 DEF Deletion!ListRuns
    <2> HIDE DEF t
    <2>3. deletionTask'[p] = t /\ deletionWork # "retained"
      BY <1>0, <2>2 DEF Deletion!PassHolds, Deletion!ReadHolds
    <2>4. Deletion!PassHolds(p)'
      BY <1>v, <2>1, <2>2, <2>3 DEF Deletion!PassHolds, Deletion!ReadHolds, Deletion!DueHolds,
         Deletion!CancelHolds, Deletion!AppendHolds
    <2> QED
      BY <2>1, <2>2, <2>4, PassMoves DEF Deletion!DeletionInv, Deletion!DeletedRunsFinished
  <1>3. CASE Deletion!ReadApprovals(p)
    <2> DEFINE d == {[run |-> r, kind |-> "control", version |-> 0] :
           r \in {q \in DeletionRuns : deletionControl[q] = "pending"}}
                    \cup {[run |-> r, kind |-> "review", version |-> deletionReview[r].version] :
                             r \in {q \in DeletionRuns : deletionReview[q].status \in Deletion!Pending}}
               t == [deletionTask[p] EXCEPT !.at = "withdraw", !.due = d]
    <2>1. /\ deletionTask' = [deletionTask EXCEPT ![p] = t] /\ deletionTask[p].at = "approvals"
          /\ UNCHANGED <<deletionWork, deletionRun, deletionAttempt, deletionControl, deletionReview,
                deletionHolder, deletionCancelled>>
      BY <1>0, <1>3 DEF Deletion!ReadApprovals
    <2>2. d \in SUBSET Deletion!Dues
      <3>1. \A r \in DeletionRuns : deletionReview[r].version \in Nat
        BY <1>0 DEF Deletion!Rows
      <3> QED
        BY <3>1 DEF Deletion!Dues
    <2>3. /\ \A r \in DeletionRuns : deletionControl[r] = "pending" => \E a \in d : a.run = r /\
                a.kind = "control"
          /\ \A r \in DeletionRuns : deletionReview[r].status \in Deletion!Pending => \E a \in d :
                a.run = r /\ a.kind = "review"
      <3>1. ASSUME NEW r \in DeletionRuns, deletionControl[r] = "pending"
            PROVE \E a \in d : a.run = r /\ a.kind = "control"
        <4>1. [run |-> r, kind |-> "control", version |-> 0] \in d
          BY <3>1
        <4> QED
          BY <4>1
      <3>2. ASSUME NEW r \in DeletionRuns, deletionReview[r].status \in Deletion!Pending
            PROVE \E a \in d : a.run = r /\ a.kind = "review"
        <4>1. [run |-> r, kind |-> "review", version |-> deletionReview[r].version] \in d
          BY <3>2
        <4> QED
          BY <4>1
      <3> QED
        BY <3>1, <3>2
    <2> HIDE DEF d
    <2>4. t \in Deletion!Tasks /\ t.at = "withdraw" /\ t.runs = deletionTask[p].runs /\
             t.read = deletionTask[p].read /\ t.due = d
      BY <1>0, <2>2 DEF Deletion!Tasks
    <2> HIDE DEF t
    <2>5. deletionTask'[p] = t
      BY <1>0, <2>1
    <2>6. Deletion!ReadHolds(p)'
      BY <1>0, <2>1, <2>4, <2>5 DEF Deletion!PassHolds, Deletion!ReadHolds
    <2>7. Deletion!DueHolds(p)'
      BY <2>1, <2>3, <2>4, <2>5 DEF Deletion!DueHolds, Deletion!Due
    <2>8. Deletion!PassHolds(p)'
      BY <2>4, <2>5, <2>6, <2>7 DEF Deletion!PassHolds, Deletion!CancelHolds, Deletion!AppendHolds
    <2> QED
      BY <2>1, <2>4, <2>8, PassMoves DEF Deletion!DeletionInv, Deletion!DeletedRunsFinished
  <1>4. CASE Deletion!Withdrawn(p)
    <2> DEFINE t == [deletionTask[p] EXCEPT !.at = "cancel"]
    <2>1. /\ deletionTask' = [deletionTask EXCEPT ![p] = t] /\ deletionTask[p].at = "withdraw" /\
                deletionTask[p].due = {}
          /\ UNCHANGED <<deletionWork, deletionRun, deletionAttempt, deletionControl, deletionReview,
                deletionHolder, deletionCancelled>>
      BY <1>0, <1>4 DEF Deletion!Withdrawn
    <2>2. t \in Deletion!Tasks /\ t.at = "cancel" /\ t.runs = deletionTask[p].runs /\
             t.read = deletionTask[p].read /\ t.failed = deletionTask[p].failed
      BY <1>0 DEF Deletion!Tasks
    <2> HIDE DEF t
    <2>3. deletionTask'[p] = t
      BY <1>0, <2>1
    <2>4. Deletion!ReadHolds(p)'
      BY <1>0, <2>1, <2>2, <2>3 DEF Deletion!PassHolds, Deletion!ReadHolds
    <2>5. \A r \in DeletionRuns :
             /\ deletionControl[r] = "pending" => r \in deletionTask[p].runs /\
                   deletionTask[p].read[r] # deletionRun[r].version
             /\ deletionReview[r].status \in Deletion!Pending => r \in deletionTask[p].runs
             /\ r \notin deletionTask[p].runs => deletionRun[r].status \in Deletion!Done
      BY <1>0, <2>1 DEF Deletion!PassHolds, Deletion!ReadHolds, Deletion!DueHolds, Deletion!Due
    <2>6. deletionTask[p].runs \subseteq DeletionRuns
      BY <1>0 DEF Deletion!Tasks
    <2>7. Deletion!CancelHolds(p)'
      BY <2>1, <2>2, <2>3, <2>5, <2>6 DEF Deletion!CancelHolds, Deletion!Over
    <2>8. Deletion!PassHolds(p)'
      BY <2>2, <2>3, <2>4, <2>7 DEF Deletion!PassHolds, Deletion!DueHolds, Deletion!AppendHolds
    <2> QED
      BY <2>1, <2>2, <2>8, PassMoves DEF Deletion!DeletionInv, Deletion!DeletedRunsFinished
  <1>5. CASE Deletion!RecordDeleted(p)
    <2>1. /\ deletionTask' = [deletionTask EXCEPT ![p] = Deletion!NoTask] /\
                deletionTask[p].at = "cancel" /\ deletionTask[p].runs = {}
          /\ UNCHANGED <<deletionRun, deletionAttempt, deletionControl, deletionReview, deletionHolder,
                deletionCancelled>>
          /\ deletionWork' = IF ~deletionTask[p].failed /\ Deletion!Deletable THEN "deleted" ELSE deletionWork
      BY <1>5 DEF Deletion!RecordDeleted
    <2>2. deletionTask'[p] = Deletion!NoTask
      BY <1>0, <2>1
    <2>3. Deletion!PassHolds(p)'
      BY <1>n, <1>v, <2>1, <2>2 DEF Deletion!PassHolds, Deletion!ReadHolds, Deletion!DueHolds,
         Deletion!CancelHolds, Deletion!AppendHolds
    <2>4. ~deletionTask[p].failed => \A r \in DeletionRuns : Deletion!Over(r)
      BY <1>0, <2>1 DEF Deletion!PassHolds, Deletion!CancelHolds
    <2>5. deletionWork' = "deleted" => Deletion!Deletable /\ \A r \in DeletionRuns : Deletion!Over(r)
      BY <2>1, <2>4 DEF Deletion!DeletionInv, Deletion!DeletedRunsFinished
    <2> QED
      BY <1>n, <2>1, <2>3, <2>5, PassMoves
  <1> QED
    BY <1>1, <1>2, <1>3, <1>4, <1>5

\* A pass withdraws one approval, or stops at one that has changed.
LEMMA WithdrawKeeps ==
    ASSUME Deletion!DeletionInv, NEW p \in Deletion!Passes, NEW a \in deletionTask[p].due,
           Deletion!WithdrawApproval(p, a)
    PROVE  Deletion!DeletionInv'
  <1>0. Deletion!Rows /\ deletionTask[p] \in Deletion!Tasks /\ Deletion!PassHolds(p) /\
           deletionTask \in [Deletion!Passes -> Deletion!Tasks]
    BY DEF Deletion!DeletionInv, Deletion!Rows
  <1>1. a \in Deletion!Dues /\ a.run \in DeletionRuns /\ a.kind \in {"control", "review"} /\
           deletionTask[p].at = "withdraw"
    BY <1>0 DEF Deletion!Tasks, Deletion!Dues, Deletion!WithdrawApproval
  <1>2. CASE Deletion!Current(a)
    <2> DEFINE t == [deletionTask[p] EXCEPT !.due = @ \ {a}]
    <2>1. deletionTask' = [deletionTask EXCEPT ![p] = t] /\
             UNCHANGED <<deletionWork, deletionRun, deletionAttempt, deletionHolder, deletionCancelled>>
      BY <1>0, <1>2 DEF Deletion!WithdrawApproval
    <2>2. /\ t \in Deletion!Tasks /\ t.at = "withdraw" /\ t.runs = deletionTask[p].runs /\
                t.read = deletionTask[p].read
          /\ t.due = deletionTask[p].due \ {a}
      BY <1>0, <1>1 DEF Deletion!Tasks
    <2> HIDE DEF t
    <2>3. deletionTask' \in [Deletion!Passes -> Deletion!Tasks] /\ deletionTask'[p] = t /\
             \A q \in Deletion!Passes \ {p} : deletionTask'[q] = deletionTask[q]
      BY <1>0, <2>1, <2>2
    <2>4. /\ a.kind = "control" => deletionControl' = [deletionControl EXCEPT ![a.run] = "withdrawn"] /\
                deletionReview' = deletionReview
          /\ a.kind = "review" => /\ deletionControl' = deletionControl
                /\ deletionReview' = [deletionReview EXCEPT ![a.run] = [status |-> "withdrawn",
                      version |-> @.version + 1]]
      BY <1>1, <1>2 DEF Deletion!WithdrawApproval
    <2>5. Deletion!Rows' /\ \A r \in DeletionRuns : Deletion!Calm(r)
      BY <1>0, <1>1, <2>1, <2>3, <2>4, RunChanges DEF Deletion!Rows, Deletion!Pending
    <2>6. \A q \in Deletion!Passes \ {p} : Deletion!PassHolds(q)'
      BY <2>1, <2>3, <2>5, CalmKeepsPass
    <2>7. Deletion!ReadHolds(p)'
      BY <1>0, <1>1, <2>1, <2>2, <2>3 DEF Deletion!PassHolds, Deletion!ReadHolds
    <2>8. Deletion!DueHolds(p)'
      <3> SUFFICES ASSUME NEW r \in DeletionRuns
                   PROVE  /\ deletionControl'[r] = "pending" /\
                              (r \in deletionTask[p].runs =>
                                 deletionTask[p].read[r] = deletionRun[r].version) =>
                                \E b \in deletionTask[p].due \ {a} : b.run = r /\ b.kind = "control"
                          /\ deletionReview'[r].status \in Deletion!Pending /\ r \notin deletionTask[p].runs =>
                                \E b \in deletionTask[p].due \ {a} : b.run = r /\ b.kind = "review"
        BY <2>1, <2>2, <2>3 DEF Deletion!DueHolds, Deletion!Due
      <3>1. /\ deletionControl'[r] = "pending" => deletionControl[r] = "pending" /\
                  ~(a.run = r /\ a.kind = "control")
            /\ deletionReview'[r].status \in Deletion!Pending =>
                  deletionReview[r].status \in Deletion!Pending /\ ~(a.run = r /\ a.kind = "review")
        BY <1>0, <1>1, <2>4 DEF Deletion!Rows, Deletion!Pending
      <3>2. /\ deletionControl[r] = "pending" /\ (r \in deletionTask[p].runs =>
                  deletionTask[p].read[r] = deletionRun[r].version) =>
                  \E b \in deletionTask[p].due : b.run = r /\ b.kind = "control"
            /\ deletionReview[r].status \in Deletion!Pending /\ r \notin deletionTask[p].runs =>
                  \E b \in deletionTask[p].due : b.run = r /\ b.kind = "review"
        BY <1>0, <1>1 DEF Deletion!PassHolds, Deletion!DueHolds, Deletion!Due
      <3> QED
        BY <3>1, <3>2
    <2>9. Deletion!PassHolds(p)'
      BY <2>2, <2>3, <2>7, <2>8 DEF Deletion!PassHolds, Deletion!CancelHolds, Deletion!AppendHolds
    <2> QED
      BY <2>1, <2>5, <2>6, <2>9, CalmKeepsOver DEF Deletion!DeletionInv
  <1>3. CASE ~Deletion!Current(a) /\ Deletion!ByAnother(a)
    <2> DEFINE t == [deletionTask[p] EXCEPT !.due = @ \ {a}]
    <2>1. /\ deletionTask' = [deletionTask EXCEPT ![p] = t]
          /\ UNCHANGED <<deletionWork, deletionRun, deletionAttempt, deletionControl, deletionReview,
                deletionHolder, deletionCancelled>>
      BY <1>0, <1>3 DEF Deletion!WithdrawApproval
    <2>2. /\ t \in Deletion!Tasks /\ t.at = "withdraw" /\ t.runs = deletionTask[p].runs /\
                t.read = deletionTask[p].read
          /\ t.due = deletionTask[p].due \ {a}
      BY <1>0, <1>1 DEF Deletion!Tasks
    <2> HIDE DEF t
    <2>3. deletionTask'[p] = t
      BY <1>0, <2>1
    <2>4. /\ a.kind = "control" => deletionControl[a.run] # "pending"
          /\ a.kind = "review" => deletionReview[a.run].status \notin Deletion!Pending
      BY <1>3 DEF Deletion!ByAnother, Deletion!Pending
    <2>5. Deletion!ReadHolds(p)'
      BY <1>0, <1>1, <2>1, <2>2, <2>3 DEF Deletion!PassHolds, Deletion!ReadHolds
    <2>6. Deletion!DueHolds(p)'
      BY <1>0, <1>1, <2>1, <2>2, <2>3, <2>4 DEF Deletion!PassHolds, Deletion!DueHolds, Deletion!Due
    <2>7. Deletion!PassHolds(p)'
      BY <2>2, <2>3, <2>5, <2>6 DEF Deletion!PassHolds, Deletion!CancelHolds, Deletion!AppendHolds
    <2> QED
      BY <1>1, <2>1, <2>2, <2>7, PassMoves DEF Deletion!DeletionInv, Deletion!DeletedRunsFinished
  <1>4. CASE ~Deletion!Current(a) /\ ~Deletion!ByAnother(a)
    <2>1. /\ deletionTask' = [deletionTask EXCEPT ![p] = Deletion!NoTask]
          /\ UNCHANGED <<deletionWork, deletionRun, deletionAttempt, deletionControl, deletionReview,
                deletionHolder, deletionCancelled>>
      BY <1>4 DEF Deletion!WithdrawApproval
    <2>2. Deletion!NoTask \in Deletion!Tasks /\ Deletion!NoTask.at = "idle" /\
             Deletion!NoTask.runs = {} /\ \A r \in DeletionRuns : Deletion!NoTask.read[r] = 0
      BY DEF Deletion!NoTask, Deletion!Tasks
    <2>3. deletionTask'[p] = Deletion!NoTask /\ \A r \in DeletionRuns : deletionRun[r].version \in Nat
      BY <1>0, <2>1 DEF Deletion!Rows, Deletion!RunRows
    <2>4. Deletion!PassHolds(p)'
      BY <2>1, <2>2, <2>3 DEF Deletion!PassHolds, Deletion!ReadHolds, Deletion!DueHolds,
         Deletion!CancelHolds, Deletion!AppendHolds
    <2> QED
      BY <1>1, <2>1, <2>2, <2>4, PassMoves DEF Deletion!DeletionInv, Deletion!DeletedRunsFinished
  <1> QED
    BY <1>2, <1>3, <1>4

\* Cancel answers from the record, refuses, or goes on to its append.
LEMMA CancelReadKeeps ==
    ASSUME Deletion!DeletionInv, NEW p \in Deletion!Passes, NEW r \in DeletionRuns, Deletion!CancelReads(p, r)
    PROVE  Deletion!DeletionInv'
  <1>0. Deletion!Rows /\ deletionTask[p] \in Deletion!Tasks /\ Deletion!PassHolds(p) /\
           deletionTask \in [Deletion!Passes -> Deletion!Tasks]
    BY DEF Deletion!DeletionInv, Deletion!Rows
  <1>1. /\ deletionTask[p].at = "cancel" /\ r \in deletionTask[p].runs /\ deletionHolder = {} /\
              deletionTask[p].runs \subseteq DeletionRuns
        /\ UNCHANGED <<deletionWork, deletionRun, deletionAttempt, deletionControl, deletionReview,
              deletionCancelled>>
        /\ deletionTask[p].read[r] \in Nat
    BY <1>0 DEF Deletion!CancelReads, Deletion!Tasks
  <1>d. deletionWork = "deleted" => Deletion!Deletable /\ \A q \in DeletionRuns : Deletion!Over(q)
    BY DEF Deletion!DeletionInv, Deletion!DeletedRunsFinished
  <1>2. CASE <<r, deletionTask[p].read[r]>> \in deletionCancelled
    <2> DEFINE t == [deletionTask[p] EXCEPT !.runs = @ \ {r}]
    <2>1. deletionTask' = [deletionTask EXCEPT ![p] = t] /\ deletionHolder' = deletionHolder
      BY <1>0, <1>2 DEF Deletion!CancelReads
    <2>2. t \in Deletion!Tasks /\ t.at = "cancel" /\ t.runs = deletionTask[p].runs \ {r} /\
             t.read = deletionTask[p].read /\ t.failed = deletionTask[p].failed
      BY <1>0, <1>1 DEF Deletion!Tasks
    <2> HIDE DEF t
    <2>3. deletionTask'[p] = t /\ Deletion!Over(r) /\ \A q \in DeletionRuns :
             Deletion!Over(q)' <=> Deletion!Over(q)
      BY <1>0, <1>1, <1>2, <2>1 DEF Deletion!DeletionInv, Deletion!AnswersHold, Deletion!Over
    <2>4. Deletion!ReadHolds(p)' /\ Deletion!CancelHolds(p)'
      BY <1>0, <1>1, <2>2, <2>3 DEF Deletion!PassHolds, Deletion!ReadHolds, Deletion!CancelHolds
    <2>5. Deletion!PassHolds(p)'
      BY <2>2, <2>3, <2>4 DEF Deletion!PassHolds, Deletion!DueHolds, Deletion!AppendHolds
    <2> QED
      BY <1>1, <1>d, <2>1, <2>2, <2>5, PassMoves
  <1>3. CASE /\ deletionTask' = [deletionTask EXCEPT ![p].runs = @ \ {r}, ![p].failed = TRUE]
             /\ deletionHolder' = deletionHolder
    <2> DEFINE t == [deletionTask[p] EXCEPT !.runs = @ \ {r}, !.failed = TRUE]
    <2>1. deletionTask' = [deletionTask EXCEPT ![p] = t]
      BY <1>0, <1>3
    <2>2. t \in Deletion!Tasks /\ t.at = "cancel" /\ t.runs = deletionTask[p].runs \ {r} /\
             t.read = deletionTask[p].read /\ t.failed = TRUE
      BY <1>0, <1>1 DEF Deletion!Tasks
    <2> HIDE DEF t
    <2>3. deletionTask'[p] = t
      BY <1>0, <2>1
    <2>4. Deletion!ReadHolds(p)' /\ Deletion!CancelHolds(p)'
      BY <1>0, <1>1, <2>2, <2>3 DEF Deletion!PassHolds, Deletion!ReadHolds, Deletion!CancelHolds
    <2>5. Deletion!PassHolds(p)'
      BY <2>2, <2>3, <2>4 DEF Deletion!PassHolds, Deletion!DueHolds, Deletion!AppendHolds
    <2> QED
      BY <1>1, <1>3, <1>d, <2>1, <2>2, <2>5, PassMoves
  <1>4. CASE /\ deletionTask' = [deletionTask EXCEPT ![p].at = "append", ![p].on = {r}, ![p].seen =
                            IF deletionReview[r].status \in Deletion!Pending
                               THEN deletionReview[r].version ELSE 0]
             /\ deletionHolder' = {p}
    <2> DEFINE n == IF deletionReview[r].status \in Deletion!Pending THEN deletionReview[r].version ELSE 0
               t == [deletionTask[p] EXCEPT !.at = "append", !.on = {r}, !.seen = n]
    <2>1. deletionTask' = [deletionTask EXCEPT ![p] = t]
      BY <1>0, <1>4
    <2>2. n \in Nat /\ (n = 0 => deletionReview[r].status \notin Deletion!Pending)
      BY <1>0 DEF Deletion!Rows
    <2> HIDE DEF n
    <2>3. /\ t \in Deletion!Tasks /\ t.at = "append" /\ t.runs = deletionTask[p].runs /\
                t.read = deletionTask[p].read /\ t.failed = deletionTask[p].failed
          /\ t.on = {r} /\ t.seen = n
      BY <1>0, <1>1, <2>2 DEF Deletion!Tasks
    <2> HIDE DEF t
    <2>4. deletionTask'[p] = t /\ \A q \in DeletionRuns : Deletion!Over(q)' <=> Deletion!Over(q)
      BY <1>0, <1>1, <2>1 DEF Deletion!Over
    <2>5. Deletion!ReadHolds(p)' /\ Deletion!CancelHolds(p)'
      BY <1>0, <1>1, <2>3, <2>4 DEF Deletion!PassHolds, Deletion!ReadHolds, Deletion!CancelHolds
    <2>6. Deletion!AppendHolds(p)'
      BY <1>1, <1>4, <2>2, <2>3, <2>4 DEF Deletion!AppendHolds
    <2>7. Deletion!PassHolds(p)'
      BY <2>3, <2>4, <2>5, <2>6 DEF Deletion!PassHolds, Deletion!DueHolds
    <2> QED
      BY <1>1, <1>d, <2>1, <2>3, <2>7, PassMoves
  <1> QED
    BY <1>2, <1>3, <1>4 DEF Deletion!CancelReads

\* Cancel closes the run with everything it saw on it, or nothing changes.
LEMMA CancelAppendKeeps ==
    ASSUME Deletion!DeletionInv, NEW p \in Deletion!Passes, NEW r \in DeletionRuns, Deletion!CancelAppends(p, r)
    PROVE  Deletion!DeletionInv'
  <1>0. Deletion!Rows /\ deletionTask[p] \in Deletion!Tasks /\ Deletion!PassHolds(p) /\
           deletionTask \in [Deletion!Passes -> Deletion!Tasks]
    BY DEF Deletion!DeletionInv, Deletion!Rows
  <1>1. /\ deletionTask[p].at = "append" /\ r \in deletionTask[p].runs /\ deletionTask[p].on = {r} /\
              deletionHolder = {p} /\ deletionHolder' = {}
        /\ deletionTask[p].runs \subseteq DeletionRuns /\ deletionTask[p].read[r] \in Nat /\
              deletionWork # "retained" /\ UNCHANGED deletionWork
    BY <1>0 DEF Deletion!CancelAppends, Deletion!PassHolds, Deletion!AppendHolds, Deletion!ReadHolds,
       Deletion!Tasks
  <1>d. deletionWork = "deleted" => Deletion!Deletable /\ \A q \in DeletionRuns : Deletion!Over(q)
    BY DEF Deletion!DeletionInv, Deletion!DeletedRunsFinished
  <1> DEFINE T(f) == [deletionTask[p] EXCEPT !.at = "cancel", !.runs = @ \ {r}, !.failed = f]
  <1>2. ASSUME NEW f \in BOOLEAN
        PROVE  /\ T(f) \in Deletion!Tasks /\ T(f).at = "cancel" /\ T(f).runs = deletionTask[p].runs \ {r}
               /\ T(f).read = deletionTask[p].read /\ T(f).failed = f
    BY <1>0, <1>1 DEF Deletion!Tasks
  <1> HIDE DEF T
  <1>3. CASE /\ deletionTask' = [deletionTask EXCEPT ![p] = T(TRUE)]
             /\ UNCHANGED <<deletionRun, deletionAttempt, deletionControl, deletionReview, deletionCancelled>>
    <2>1. deletionTask'[p] = T(TRUE)
      BY <1>0, <1>3
    <2>2. Deletion!ReadHolds(p)' /\ Deletion!CancelHolds(p)'
      BY <1>0, <1>1, <1>2, <1>3, <2>1 DEF Deletion!PassHolds, Deletion!ReadHolds, Deletion!CancelHolds
    <2>3. Deletion!PassHolds(p)'
      BY <1>2, <2>1, <2>2 DEF Deletion!PassHolds, Deletion!DueHolds, Deletion!AppendHolds
    <2> QED
      BY <1>1, <1>2, <1>3, <1>d, <2>3, PassMoves
  <1>4. ASSUME NEW s \in {"cancelled", "reconcile_required"}, NEW f \in BOOLEAN,
               deletionRun[r].version = deletionTask[p].read[r],
               deletionReview[r].version = deletionTask[p].seen \/ deletionTask[p].seen = 0,
               deletionControl' = IF deletionRun[r].status = "waiting" /\ deletionControl[r] = "pending"
                          THEN [deletionControl EXCEPT ![r] = "closed"] ELSE deletionControl,
               deletionReview' = IF deletionTask[p].seen # 0
                         THEN [deletionReview EXCEPT ![r] = [status |-> "closed", version |-> @.version + 1]]
                         ELSE deletionReview,
               deletionRun' = [deletionRun EXCEPT ![r] = [status |-> s, version |-> @.version + 1]],
               deletionAttempt' = [deletionAttempt EXCEPT ![r] = "over"]
               \/ (deletionAttempt[r] = "live" /\
                     deletionAttempt' = [deletionAttempt EXCEPT ![r] = "uncertain"]),
               deletionTask' = [deletionTask EXCEPT ![p] = T(f)],
               deletionCancelled' = deletionCancelled \/
                  (s = "cancelled" /\ deletionCancelled' = deletionCancelled \cup {<<r,
                     deletionTask[p].read[r]>>}),
               f = TRUE \/ (s = "cancelled" /\ f = deletionTask[p].failed)
        PROVE  Deletion!DeletionInv'
    <2>1. /\ deletionRun[r].status \notin Deletion!Done /\ deletionControl[r] # "pending"
          /\ deletionTask[p].seen = 0 => deletionReview[r].status \notin Deletion!Pending
      BY <1>0, <1>1, <1>4 DEF Deletion!PassHolds, Deletion!ReadHolds, Deletion!CancelHolds, Deletion!AppendHolds
    <2>2. deletionTask' \in [Deletion!Passes -> Deletion!Tasks] /\ deletionTask'[p] = T(f) /\
             \A q \in Deletion!Passes \ {p} : deletionTask'[q] = deletionTask[q]
      BY <1>0, <1>2, <1>4
    <2>3. deletionControl' = deletionControl /\ (deletionReview' = deletionReview \/
             deletionReview' = [deletionReview EXCEPT ![r] = [status |-> "closed", version |-> @.version + 1]])
      BY <1>4, <2>1
    <2>4. deletionAttempt' = deletionAttempt \/ \E a \in {"live", "uncertain", "over"} :
             /\ deletionAttempt' = [deletionAttempt EXCEPT ![r] = a]
             /\ a # "over" => deletionWork = "retained" \/ deletionAttempt[r] \in {"live", "uncertain"}
      BY <1>4
    <2>5. Deletion!Rows' /\ \A q \in DeletionRuns : Deletion!Calm(q)
      BY <1>0, <1>1, <1>4, <2>1, <2>2, <2>3, <2>4, RunChanges DEF Deletion!Rows, Deletion!Pending
    <2>6. ASSUME NEW q \in Deletion!Passes \ {p} PROVE Deletion!PassHolds(q)'
      <3>1. deletionTask[q].at # "append"
        BY <1>1 DEF Deletion!DeletionInv, Deletion!PassHolds, Deletion!AppendHolds
      <3> QED
        BY <1>1, <2>2, <2>5, <3>1, CalmKeepsPass
    <2>7. /\ deletionRun'[r].status = s /\ deletionRun'[r].version > deletionRun[r].version /\
                deletionControl'[r] # "pending"
          /\ deletionReview'[r].status \notin Deletion!Pending /\ \A q \in DeletionRuns \ {r} :
                deletionRun'[q] = deletionRun[q]
      <3>1. deletionRun'[r].status = s /\ deletionRun'[r].version > deletionRun[r].version /\
               \A q \in DeletionRuns \ {r} : deletionRun'[q] = deletionRun[q]
        BY <1>0, <1>4 DEF Deletion!Rows, Deletion!RunRows
      <3>2. deletionReview'[r].status \notin Deletion!Pending
        BY <1>0, <1>4, <2>1 DEF Deletion!Rows, Deletion!Pending
      <3> QED
        BY <2>1, <2>3, <3>1, <3>2
    <2>8. s = "cancelled" => Deletion!Over(r)'
      BY <2>7 DEF Deletion!Over, Deletion!Done
    <2>9. /\ Deletion!DeletedRunsFinished' /\ (deletionWork = "deleted" => \A q \in DeletionRuns :
                Deletion!Over(q)')
          /\ deletionCancelled' = deletionCancelled => Deletion!AnswersHold'
          /\ \A q \in DeletionRuns : Deletion!Over(q) => Deletion!Over(q)'
      BY <1>1, <2>5, CalmKeepsOver
    <2>10. Deletion!AnswersHold'
      BY <1>1, <1>4, <2>8, <2>9 DEF Deletion!DeletionInv, Deletion!AnswersHold
    <2>11. \A q \in DeletionRuns : deletionRun[q].version \in Nat /\ deletionRun'[q].version \in Nat /\
              deletionTask[p].read[q] \in Nat
      BY <1>0, <2>5 DEF Deletion!Rows, Deletion!RunRows, Deletion!Tasks
    <2>12. Deletion!ReadHolds(p)'
      BY <1>0, <1>1, <1>2, <1>4, <2>2, <2>7, <2>11 DEF Deletion!PassHolds, Deletion!ReadHolds
    <2>13. Deletion!CancelHolds(p)'
      BY <1>0, <1>1, <1>2, <1>4, <2>2, <2>3, <2>7, <2>8, <2>9 DEF Deletion!PassHolds, Deletion!CancelHolds
    <2>14. Deletion!PassHolds(p)'
      BY <1>2, <2>2, <2>12, <2>13 DEF Deletion!PassHolds, Deletion!DueHolds, Deletion!AppendHolds
    <2> QED
      BY <1>1, <2>5, <2>6, <2>9, <2>10, <2>14 DEF Deletion!DeletionInv
  <1>5. /\ [deletionTask EXCEPT ![p].at = "cancel",
              ![p].runs = @ \ {r}] = [deletionTask EXCEPT ![p] = T(deletionTask[p].failed)]
        /\ [deletionTask EXCEPT ![p].at = "cancel", ![p].runs = @ \ {r}, ![p].failed = TRUE] =
              [deletionTask EXCEPT ![p] = T(TRUE)]
        /\ deletionTask[p].failed \in BOOLEAN
    BY <1>0 DEF T, Deletion!Tasks
  <1> QED
    BY <1>3, <1>4, <1>5 DEF Deletion!CancelAppends

\* Every step keeps what the passes know.
LEMMA DeletionStep == Deletion!DeletionInv /\ [Deletion!Next]_(Deletion!vars) => Deletion!DeletionInv'
  <1> SUFFICES ASSUME Deletion!DeletionInv, [Deletion!Next]_(Deletion!vars) PROVE Deletion!DeletionInv'
    OBVIOUS
  <1>1. ASSUME NEW p \in Deletion!Passes, Deletion!PassStep(p) PROVE Deletion!DeletionInv'
    BY <1>1, PassReads, WithdrawKeeps, CancelReadKeeps, CancelAppendKeeps DEF Deletion!PassStep
  <1>2. CASE Deletion!Reconcile
    BY <1>2, PassReads DEF Deletion!Passes
  <1>3. CASE Deletion!Restart
    <2>1. /\ deletionTask' = [p \in Deletion!Passes |-> Deletion!NoTask]
          /\ UNCHANGED <<deletionWork, deletionRun, deletionAttempt, deletionControl, deletionReview,
                deletionCancelled>>
      BY <1>3 DEF Deletion!Restart
    <2>2. Deletion!NoTask \in Deletion!Tasks /\ Deletion!NoTask.at = "idle" /\
             Deletion!NoTask.runs = {} /\ \A r \in DeletionRuns : Deletion!NoTask.read[r] = 0
      BY DEF Deletion!NoTask, Deletion!Tasks
    <2>3. \A p \in Deletion!Passes : deletionTask'[p] = Deletion!NoTask
      BY <2>1
    <2>4. Deletion!Rows' /\ \A r \in DeletionRuns : deletionRun'[r].version \in Nat
      BY <2>1, <2>2 DEF Deletion!DeletionInv, Deletion!Rows, Deletion!RunRows
    <2>5. \A p \in Deletion!Passes : Deletion!PassHolds(p)'
      BY <2>2, <2>3, <2>4 DEF Deletion!PassHolds, Deletion!ReadHolds, Deletion!DueHolds,
         Deletion!CancelHolds, Deletion!AppendHolds
    <2> QED
      BY <2>1, <2>4, <2>5 DEF Deletion!DeletionInv, Deletion!AnswersHold, Deletion!DeletedRunsFinished,
         Deletion!Deletable, Deletion!Over
  <1>4. CASE UNCHANGED Deletion!vars
    <2>1. Deletion!Rows' /\ \A r \in DeletionRuns : Deletion!Calm(r)
      BY <1>4 DEF Deletion!vars, Deletion!DeletionInv, Deletion!Rows, Deletion!Calm
    <2> QED
      BY <1>4, <2>1, CalmKeeps DEF Deletion!vars
  <1> QED
    BY <1>1, <1>2, <1>3, <1>4, RunStepKeeps DEF Deletion!Next

\* Runs under way, and no pass.
LEMMA InitDeletion == Deletion!Init => Deletion!DeletionInv
  <1> SUFFICES ASSUME Deletion!Init PROVE Deletion!DeletionInv
    OBVIOUS
  <1>1. Deletion!NoTask \in Deletion!Tasks /\ Deletion!NoTask.at = "idle" /\
           Deletion!NoTask.runs = {} /\ \A r \in DeletionRuns : Deletion!NoTask.read[r] = 0
    BY DEF Deletion!NoTask, Deletion!Tasks
  <1>2. Deletion!Rows /\ \A r \in DeletionRuns : deletionRun[r].version \in Nat
    BY <1>1 DEF Deletion!Init, Deletion!Rows, Deletion!RunRows, Deletion!Pending
  <1>3. \A p \in Deletion!Passes : deletionTask[p] = Deletion!NoTask
    BY DEF Deletion!Init
  <1>4. \A p \in Deletion!Passes : Deletion!PassHolds(p)
    BY <1>1, <1>2, <1>3 DEF Deletion!PassHolds, Deletion!ReadHolds, Deletion!DueHolds,
       Deletion!CancelHolds, Deletion!AppendHolds
  <1> QED
    BY <1>2, <1>4 DEF Deletion!Init, Deletion!DeletionInv, Deletion!AnswersHold, Deletion!DeletedRunsFinished

\* Whatever workers, reviewers, controls and other passes do between the steps of
\* a pass, and however often it is cut off and begun again: deleted work has every
\* run finished for good, and no decision left that someone could still be asked
\* for (work_deletion.go).
THEOREM DeletionIsWhole == Deletion!Spec => [](Deletion!DeletedRunsFinished /\ Deletion!DeletedNothingPending)
  <1>1. Deletion!DeletionInv => Deletion!DeletedRunsFinished /\ Deletion!DeletedNothingPending
    BY DEF Deletion!DeletionInv, Deletion!DeletedNothingPending, Deletion!Over
  <1> QED
    BY <1>1, InitDeletion, DeletionStep, PTL DEF Deletion!Spec

\* The work item, the approvals and the lock keep their types.
THEOREM DeletionTypes ==
    ASSUME DeletionMaxRestarts \in Nat
    PROVE  Deletion!Spec => []Deletion!TypeOK
  <1> DEFINE Bounded == deletionRestarts \in 0 .. DeletionMaxRestarts /\
         deletionHolder \subseteq Deletion!Passes
  <1>1. Deletion!Init => Deletion!DeletionInv /\ Bounded
    BY InitDeletion DEF Deletion!Init
  <1>2. Bounded /\ [Deletion!Next]_(Deletion!vars) => Bounded'
    <2> SUFFICES ASSUME Bounded, [Deletion!Next]_(Deletion!vars) PROVE Bounded'
      OBVIOUS
    <2>1. CASE Deletion!Restart
      BY <2>1 DEF Deletion!Restart
    <2>2. ASSUME NEW p \in Deletion!Passes, Deletion!PassStep(p) PROVE Bounded'
      BY <2>2 DEF Deletion!PassStep, Deletion!DeleteWork, Deletion!ListRuns, Deletion!ReadApprovals,
         Deletion!WithdrawApproval, Deletion!Withdrawn,
         Deletion!CancelReads, Deletion!CancelAppends, Deletion!RecordDeleted
    <2>3. ASSUME NEW r \in DeletionRuns, Deletion!RunStep(r) PROVE Bounded'
      BY <2>3 DEF Deletion!RunStep, Deletion!RunEnds, Deletion!RunAsks, Deletion!DecideCheckpoint,
         Deletion!OpenReview, Deletion!StartRevision,
         Deletion!Advance, Deletion!RevisionEnds, Deletion!ReviewMoves, Deletion!RunContinues,
            Deletion!UserCancels
    <2>4. CASE Deletion!Reconcile \/ UNCHANGED Deletion!vars
      BY <2>4 DEF Deletion!Reconcile, Deletion!vars
    <2> QED
      BY <2>1, <2>2, <2>3, <2>4 DEF Deletion!Next
  <1>3. Deletion!DeletionInv /\ Bounded => Deletion!TypeOK
    BY DEF Deletion!DeletionInv, Deletion!Rows, Deletion!TypeOK
  <1> QED
    BY <1>1, <1>2, <1>3, DeletionStep, PTL DEF Deletion!Spec

-----------------------------------------------------------------------------
(* The event store: commands and revisions in the log.                       *)

Events == INSTANCE EventStore WITH
        Scopes <- EventsScopes, MaxEvents <- EventsMaxEvents, kinds <- eventsKinds,
        log <- eventsLog, revision <- eventsRevision, projection <- eventsProjection,
        manifest <- eventsManifest

\* The callers name aggregates the store knows.
ASSUME EventsAssumption == Events!ScopesKnown

\* One iteration keeps the log in order: a new event has the next revision of its
\* aggregate and a command that is not there.
LEMMA AppendsInOrder ==
    ASSUME NEW tx, Events!Sound(tx), NEW p \in Events!Asks
    PROVE  Events!Sound(Events!AppendOne(tx, p))
  <1>1. ASSUME NEW b PROVE Events!Sound([tx EXCEPT !.ok = b])
    <2> DEFINE ux == [tx EXCEPT !.ok = b]
    <2>1. ux = [ok |-> b, log |-> tx.log, revision |-> tx.revision, projection |-> tx.projection]
      BY DEF Events!Sound
    <2>2. ux.log = tx.log /\ ux.revision = tx.revision /\ ux.ok = b /\ ux.projection = tx.projection
      BY <2>1
    <2> HIDE DEF ux
    <2> QED
      BY <2>1, <2>2 DEF Events!Sound, ux
  <1>2. ASSUME Events!ByCommand(tx.log, p) = {}, tx.revision[p.type] = p.expected,
               NEW r, r = [tx.revision EXCEPT ![p.type] = @ + 1], NEW q,
               NEW e, e = Events!Event(p), NEW l, l = Append(tx.log, e)
        PROVE  Events!Sound([ok |-> TRUE, log |-> l, revision |-> r, projection |-> q])
    <2> DEFINE n == Len(tx.log)
    <2>1. e \in Events!Events /\ e.type = p.type /\ e.revision = p.expected + 1 /\ e.command = p.command
      BY <1>2 DEF Events!Event, Events!Asks, Events!Events
    <2>2. n \in Nat /\ DOMAIN tx.log = 1 .. n /\ tx.log \in Seq(Events!Events)
      BY DEF Events!Sound
    <2>3. l \in Seq(Events!Events) /\ Len(l) = n + 1 /\ l[n + 1] = e /\ \A i \in 1 .. n : l[i] = tx.log[i]
      BY <1>2, <2>1, <2>2
    <2>4. DOMAIN l = 1 .. n + 1
      BY <2>3
    <2>5. \A i \in 1 .. n : tx.log[i].type \in Events!AggregateTypes /\ tx.log[i].revision \in Nat
      <3>1. \A i \in 1 .. n : tx.log[i] \in Events!Events
        BY <2>2
      <3> QED
        BY <3>1 DEF Events!Events
    <2>6. p.type \in Events!AggregateTypes /\ p.expected \in Nat /\
             tx.revision \in [Events!AggregateTypes -> Nat]
      BY DEF Events!Asks, Events!Sound
    <2>7. r \in [Events!AggregateTypes -> Nat] /\ r[p.type] = p.expected + 1
          /\ \A t \in Events!AggregateTypes : tx.revision[t] <= r[t]
      BY <1>2, <2>6
    <2>8. \A i \in 1 .. n : tx.log[i].revision <= tx.revision[tx.log[i].type]
      BY <2>2 DEF Events!Sound
    <2>9. \A i \in 1 .. n : tx.log[i].type = p.type => tx.log[i].command # p.command
      BY <1>2, <2>2 DEF Events!ByCommand
    <2> HIDE DEF n
    <2>10. ASSUME NEW i \in DOMAIN l PROVE l[i].revision <= r[l[i].type]
      <3>1. CASE i \in 1 .. n
        BY <2>3, <2>5, <2>6, <2>7, <2>8, <3>1
      <3>2. CASE i = n + 1
        BY <2>1, <2>3, <2>6, <2>7, <3>2
      <3> QED
        BY <2>2, <2>4, <2>10, <3>1, <3>2
    <2>11. ASSUME NEW i \in DOMAIN l, NEW j \in DOMAIN l, i < j, l[i].type = l[j].type
           PROVE  l[i].revision < l[j].revision /\ l[i].command # l[j].command
      <3>1. i \in 1 .. n /\ (j \in 1 .. n \/ j = n + 1)
        BY <2>2, <2>4, <2>11
      <3>2. CASE j \in 1 .. n
        <4>1. tx.log[i].revision < tx.log[j].revision
          BY <2>2, <2>3, <2>11, <3>1, <3>2 DEF Events!Sound, Events!RevisionsRise
        <4>2. tx.log[i].command # tx.log[j].command
          BY <2>2, <2>3, <2>11, <3>1, <3>2 DEF Events!Sound, Events!CommandsDiffer
        <4> QED
          BY <2>3, <3>1, <3>2, <4>1, <4>2
      <3>3. CASE j = n + 1
        <4>1. tx.log[i].type = p.type /\ tx.log[i].revision <= p.expected
          BY <1>2, <2>1, <2>3, <2>8, <2>11, <3>1, <3>3
        <4> QED
          BY <2>1, <2>3, <2>5, <2>6, <2>9, <3>1, <3>3, <4>1
      <3> QED
        BY <3>1, <3>2, <3>3
    <2>12. Events!RevisionsRise(l)
      BY <2>11 DEF Events!RevisionsRise
    <2>13. Events!CommandsDiffer(l)
      <3>1. ASSUME NEW i \in DOMAIN l, NEW j \in DOMAIN l, l[i].type = l[j].type, l[i].command = l[j].command
            PROVE  i = j
        <4>1. ~(i < j) /\ ~(j < i)
          BY <2>11, <3>1
        <4> QED
          BY <2>2, <2>4, <3>1, <4>1
      <3> QED
        BY <3>1 DEF Events!CommandsDiffer
    <2> QED
      BY <2>3, <2>7, <2>10, <2>12, <2>13 DEF Events!Sound
  <1>3. CASE ~tx.ok
    BY <1>3 DEF Events!AppendOne
  <1>4. CASE tx.ok /\ Events!ByCommand(tx.log, p) # {}
    BY <1>1, <1>4 DEF Events!AppendOne
  <1>5. CASE tx.ok /\ Events!ByCommand(tx.log, p) = {} /\
                (tx.revision[p.type] # p.expected \/ ~Events!Applies(tx.projection, Events!Event(p)))
    BY <1>1, <1>5 DEF Events!AppendOne
  <1>6. CASE tx.ok /\ Events!ByCommand(tx.log, p) = {} /\
                ~(tx.revision[p.type] # p.expected \/ ~Events!Applies(tx.projection, Events!Event(p)))
    BY <1>2, <1>6 DEF Events!AppendOne
  <1> QED
    BY <1>3, <1>4, <1>5, <1>6

\* What a caller asks for is well-formed, and a commit is of what it appended.
LEMMA LogStep == Events!ScopesKnown /\ Events!LogInv /\ [Events!Next]_(Events!vars) => Events!LogInv'
  <1> SUFFICES ASSUME Events!ScopesKnown, Events!LogInv, [Events!Next]_(Events!vars) PROVE Events!LogInv'
    OBVIOUS
  <1>1. Events!Sound(Events!Begun) /\ eventsKinds \in SUBSET (Events!AggregateTypes \X STRING)
    BY DEF Events!LogInv, Events!ScopesKnown
  <1>2. eventsLog \in Seq(Events!Events) /\ eventsRevision \in [Events!AggregateTypes -> Nat]
    BY <1>1 DEF Events!Sound, Events!Begun
  <1>3. ASSUME NEW p \in Events!Pending PROVE p \in Events!Asks
    <2>1. PICK k \in eventsKinds : \E x \in {eventsRevision[k[1]], eventsRevision[k[1]] - 1} \cap Nat,
             c \in Events!Commands(k[1]), d \in Events!DataOf(k[2]) :
             p = [type |-> k[1], kind |-> k[2], expected |-> x, command |-> c, data |-> d]
      BY <1>3 DEF Events!Pending
    <2>2. k[1] \in Events!AggregateTypes /\ k[2] \in STRING
      BY <1>1
    <2>3. Events!Commands(k[1]) \subseteq Nat
      <3>1. Len(eventsLog) + 1 \in Nat /\ \A i \in DOMAIN eventsLog : eventsLog[i] \in Events!Events
        BY <1>2
      <3>2. \A i \in DOMAIN eventsLog : eventsLog[i].command \in Nat
        BY <3>1 DEF Events!Events
      <3> QED
        BY <3>1, <3>2 DEF Events!Commands
    <2>4. Events!DataOf(k[2]) \subseteq Nat
      BY DEF Events!DataOf
    <2> QED
      BY <2>1, <2>2, <2>3, <2>4 DEF Events!Asks
  <1>4. ASSUME NEW tk \in eventsKinds PROVE Events!Follower(tk) \in Events!Asks
    <2>1. tk[1] \in Events!AggregateTypes /\ tk[2] \in STRING
      BY <1>1, <1>4
    <2>2. eventsRevision[tk[1]] \in Nat /\ Len(eventsLog) + 1 \in Nat
      BY <1>2, <2>1
    <2> QED
      BY <2>1, <2>2 DEF Events!Follower, Events!Asks
  <1>5. ASSUME NEW tx, Events!Sound(tx), Events!Commit(tx) PROVE Events!LogInv'
    <2>1. tx.log = eventsLog' /\ tx.revision = eventsRevision' /\ eventsKinds' = eventsKinds
      BY <1>5 DEF Events!Commit
    <2> QED
      BY <1>5, <2>1 DEF Events!Sound, Events!Begun, Events!LogInv
  <1>6. CASE Events!AppendEvent
    BY <1>1, <1>3, <1>5, <1>6, AppendsInOrder DEF Events!AppendEvent
  <1>7. CASE Events!AppendPair
    <2>1. PICK p \in Events!Pending, tk \in eventsKinds :
             Events!Commit(Events!AppendOne(Events!AppendOne(Events!Begun, p), Events!Follower(tk)))
      BY <1>7 DEF Events!AppendPair
    <2>2. Events!Sound(Events!AppendOne(Events!Begun, p))
      BY <1>1, <1>3, AppendsInOrder
    <2>3. Events!Sound(Events!AppendOne(Events!AppendOne(Events!Begun, p), Events!Follower(tk)))
      BY <1>4, <2>2, AppendsInOrder
    <2> QED
      BY <1>5, <2>1, <2>3
  <1>8. CASE Events!StoreManifest \/ Events!RebuildProjections \/ UNCHANGED Events!vars
    <2>1. UNCHANGED <<eventsKinds, eventsLog, eventsRevision>>
      BY <1>8 DEF Events!StoreManifest, Events!RebuildProjections, Events!vars
    <2> QED
      BY <2>1 DEF Events!LogInv, Events!Sound, Events!Begun
  <1> QED
    BY <1>6, <1>7, <1>8 DEF Events!Next

\* An empty log is in order.
LEMMA LogInit == Events!Init => Events!LogInv
  BY DEF Events!Init, Events!LogInv, Events!Sound, Events!Begun, Events!RevisionsRise, Events!CommandsDiffer

\* The log keeps its invariant.
LEMMA EventsHolds == Events!Spec => []Events!LogInv
  <1>1. Events!LogInv /\ [Events!Next]_(Events!vars) => Events!LogInv'
    BY LogStep, EventsAssumption
  <1> QED
    BY <1>1, LogInit, PTL DEF Events!Spec

-----------------------------------------------------------------------------
(* Questions: an answer is recorded before it is delivered.                  *)

Question == INSTANCE Interactions WITH
        Users <- QuestionUsers, MaxRestarts <- QuestionMaxRestarts,
        request <- questionRequest, owner <- questionOwner, adapter <- questionAdapter,
        received <- questionReceived, calls <- questionCalls,
        restarts <- questionRestarts

\* Restarts are counted.
ASSUME QuestionAssumption == QuestionMaxRestarts \in Nat

\* Every step of a decision, a delivery, a receipt or a restart keeps it.
LEMMA AnswerStep == Question!AnswerInv /\ [Question!Next]_(Question!vars) => Question!AnswerInv'
  <1> SUFFICES ASSUME Question!AnswerInv, [Question!Next]_(Question!vars) PROVE Question!AnswerInv'
    OBVIOUS
  <1> USE DEF Question!AnswerInv
  <1>1. ASSUME NEW u \in QuestionUsers, NEW c \in [at : {"record", "deliver"}, read : 1 .. 3],
               questionCalls' = [questionCalls EXCEPT ![u] = c],
               c.at = "record" => questionRequest.status = "pending" /\ c.read = questionRequest.version,
               c.at = "deliver" => questionRequest.status = "recorded" /\ c.read = questionRequest.version,
               UNCHANGED <<questionRequest, questionReceived>>
        PROVE  Question!AnswerInv'
    BY <1>1 DEF Question!Progress, Question!CallsRead, Question!Answers, Question!OneAnswer,
       Question!AnsweredWasReceived
  <1>2. ASSUME NEW u \in QuestionUsers, Question!Returns(u), UNCHANGED <<questionRequest, questionReceived>>
        PROVE  Question!AnswerInv'
    BY <1>2 DEF Question!Returns, Question!Idle, Question!Progress, Question!CallsRead, Question!Answers,
       Question!OneAnswer, Question!AnsweredWasReceived
  <1>3. ASSUME NEW u \in QuestionUsers, Question!AnswerOrDeliver(u),
               UNCHANGED <<questionRequest, questionReceived>>
        PROVE  Question!AnswerInv'
    BY <1>1, <1>3 DEF Question!AnswerOrDeliver, Question!At, Question!Progress
  <1>4. ASSUME NEW u \in QuestionUsers, Question!AnswerInput(u) \/ Question!DecideProviderPermission(u)
        PROVE  Question!AnswerInv'
    BY <1>3, <1>4 DEF Question!AnswerInput, Question!DecideProviderPermission
  <1>5. ASSUME NEW u \in QuestionUsers, Question!RetryInputDelivery(u) \/
               Question!RetryProviderPermissionDelivery(u)
        PROVE  Question!AnswerInv'
    BY <1>1, <1>5 DEF Question!RetryInputDelivery, Question!RetryProviderPermissionDelivery, Question!At,
       Question!Progress
  <1>6. ASSUME NEW u \in QuestionUsers, Question!Record(u)
        PROVE  Question!AnswerInv'
    <2>1. CASE questionCalls[u].read = questionRequest.version /\ questionOwner.retained
      <3>1. questionRequest.version = 1 /\ questionRequest.status = "pending" /\ questionReceived = {}
        BY <1>6, <2>1 DEF Question!Record, Question!Progress, Question!CallsRead, Question!Answers
      <3>2. /\ questionRequest' = [questionRequest EXCEPT !.status = "recorded", !.version = 2, !.answer = u]
            /\ questionCalls' = [questionCalls EXCEPT ![u] = [at |-> "deliver", read |-> 2]]
            /\ questionReceived' = {}
        BY <1>6, <2>1, <3>1 DEF Question!Record
      <3>3. \A v \in QuestionUsers : questionCalls[v].at \notin {"deliver", "receipt"}
        BY <3>1 DEF Question!CallsRead
      <3>4. Question!Progress' /\ questionRequest'.status = "recorded" /\ questionRequest'.version = 2
        <4>1. questionRequest' = [kind |-> questionRequest.kind, status |-> "recorded", version |-> 2,
                 answer |-> u]
          BY <3>2 DEF Question!Progress
        <4>2. questionRequest.kind \in {"question", "permission"}
          BY DEF Question!Progress
        <4> QED
          BY <4>1, <4>2 DEF Question!Progress
      <3>5. Question!CallsRead'
        BY <3>2, <3>3, <3>4 DEF Question!CallsRead
      <3> QED
        BY <3>2, <3>4, <3>5 DEF Question!Answers, Question!OneAnswer, Question!AnsweredWasReceived
    <2>2. CASE ~(questionCalls[u].read = questionRequest.version /\ questionOwner.retained)
      BY <1>2, <1>6, <2>2 DEF Question!Record
    <2> QED
      BY <2>1, <2>2
  <1>7. ASSUME NEW u \in QuestionUsers, Question!Deliver(u)
        PROVE  Question!AnswerInv'
    <2>1. CASE Question!Returns(u) /\ UNCHANGED <<questionAdapter, questionReceived>>
      BY <1>2, <1>7, <2>1 DEF Question!Deliver
    <2>2. CASE /\ questionReceived' = questionReceived \cup {questionRequest.answer}
               /\ questionCalls' = [questionCalls EXCEPT ![u].at = "receipt"]
      <3>1. questionRequest' = questionRequest /\ questionCalls[u].at = "deliver"
        BY <1>7 DEF Question!Deliver
      <3> QED
        BY <2>2, <3>1 DEF Question!Progress, Question!CallsRead, Question!Answers, Question!OneAnswer,
           Question!AnsweredWasReceived
    <2> QED
      BY <1>7, <2>1, <2>2 DEF Question!Deliver
  <1>8. ASSUME NEW u \in QuestionUsers, Question!Receipt(u)
        PROVE  Question!AnswerInv'
    <2>1. CASE questionCalls[u].read = questionRequest.version
      <3>1. questionRequest.version = 2 /\ questionRequest.answer \in questionReceived
        BY <1>8, <2>1 DEF Question!Receipt, Question!CallsRead
      <3>2. questionRequest' = [questionRequest EXCEPT !.status = "answered", !.version = 3] /\
               questionReceived' = questionReceived
        BY <1>8, <2>1, <3>1 DEF Question!Receipt
      <3>3. questionCalls' = [questionCalls EXCEPT ![u] = Question!Idle]
        BY <1>8 DEF Question!Receipt, Question!Returns
      <3>4. /\ Question!Progress' /\ questionRequest'.status = "answered" /\ questionRequest'.version = 3
            /\ questionRequest'.answer = questionRequest.answer
        <4>1. questionRequest' = [kind |-> questionRequest.kind, status |-> "answered", version |-> 3,
                 answer |-> questionRequest.answer]
          BY <3>2 DEF Question!Progress
        <4>2. questionRequest.kind \in {"question", "permission"} /\
                 questionRequest.answer \in QuestionUsers \cup {Question!None}
          BY DEF Question!Progress
        <4> QED
          BY <4>1, <4>2 DEF Question!Progress
      <3>5. Question!CallsRead'
        BY <3>2, <3>3, <3>4 DEF Question!CallsRead, Question!Idle
      <3> QED
        BY <3>1, <3>2, <3>4, <3>5 DEF Question!Answers, Question!OneAnswer, Question!AnsweredWasReceived
    <2>2. CASE questionCalls[u].read # questionRequest.version
      BY <1>2, <1>8, <2>2 DEF Question!Receipt
    <2> QED
      BY <2>1, <2>2
  <1>9. CASE Question!OwnerEnds \/ Question!WorkDeleting \/ Question!Resume \/ UNCHANGED Question!vars
    BY <1>9 DEF Question!OwnerEnds, Question!WorkDeleting, Question!Resume, Question!vars, Question!Progress,
       Question!CallsRead, Question!Answers, Question!OneAnswer, Question!AnsweredWasReceived
  <1>10. CASE Question!Restart
    BY <1>10 DEF Question!Restart, Question!Idle, Question!Progress, Question!CallsRead, Question!Answers,
       Question!OneAnswer, Question!AnsweredWasReceived
  <1> QED
    BY <1>4, <1>5, <1>6, <1>7, <1>8, <1>9, <1>10 DEF Question!Next

\* However many users decide at once, through lost deliveries, retries and
\* restarts: the provider receives no answer but the recorded one (inputs.go,
\* permissions.go), and a request shown as answered was received.
THEOREM AnswersOnce == Question!Spec => [](Question!OneAnswer /\ Question!AnsweredWasReceived)
  <1>1. Question!Init => Question!AnswerInv
    BY DEF Question!Init, Question!Idle, Question!AnswerInv, Question!Progress, Question!CallsRead,
       Question!Answers, Question!OneAnswer, Question!AnsweredWasReceived
  <1>2. Question!AnswerInv => Question!OneAnswer /\ Question!AnsweredWasReceived
    BY DEF Question!AnswerInv, Question!Answers
  <1> QED
    BY <1>1, <1>2, AnswerStep, PTL DEF Question!Spec

\* The request, the provider's session and what it received stay what they are;
\* the version never passes the third event.
LEMMA QuestionTypes == Question!Spec => []Question!TypeOK
  <1> DEFINE Session == questionAdapter \in {"absent", "open"} \cup QuestionUsers /\
         questionReceived \subseteq QuestionUsers
             Named == questionRequest.status # "pending" => questionRequest.answer \in QuestionUsers
             Bounded == questionRestarts \in 0 .. QuestionMaxRestarts
             Sessions == Session /\ Named /\ Bounded
  <1> QuestionMaxRestarts \in Nat
    BY QuestionAssumption
  <1>1. Question!Init => Question!AnswerInv /\ Sessions
    BY DEF Question!Init, Question!Idle, Question!AnswerInv, Question!Progress, Question!CallsRead,
       Question!Answers, Question!OneAnswer, Question!AnsweredWasReceived
  <1>2. Question!AnswerInv /\ Sessions /\ [Question!Next]_(Question!vars) => Sessions'
    <2> SUFFICES ASSUME Question!AnswerInv, Sessions, [Question!Next]_(Question!vars) PROVE Sessions'
      OBVIOUS
    <2>1. ASSUME NEW u \in QuestionUsers, Question!Deliver(u) PROVE Sessions'
      <3>1. questionCalls[u].at = "deliver" /\ UNCHANGED <<questionRequest, questionRestarts>>
        BY <2>1 DEF Question!Deliver
      <3>2. questionRequest.answer \in QuestionUsers
        BY <3>1 DEF Question!AnswerInv, Question!Progress, Question!CallsRead
      <3> QED
        BY <2>1, <3>1, <3>2 DEF Question!Deliver
    <2>2. ASSUME NEW u \in QuestionUsers, Question!Record(u) PROVE Sessions'
      <3>1. CASE questionRequest' = [questionRequest EXCEPT !.status = "recorded", !.version = @ + 1,
                    !.answer = u]
        <4>1. {"kind", "status", "version", "answer"} \subseteq DOMAIN questionRequest
          BY DEF Question!AnswerInv, Question!Progress
        <4>2. questionRequest'.answer = u
          BY <3>1, <4>1
        <4> QED
          BY <2>2, <4>2 DEF Question!Record
      <3> QED
        BY <2>2, <3>1 DEF Question!Record
    <2>3. ASSUME NEW u \in QuestionUsers, Question!Receipt(u) PROVE Sessions'
      <3>1. CASE questionCalls[u].read = questionRequest.version
        <4>1. questionRequest.version = 2 /\ questionRequest.status # "pending"
          BY <2>3, <3>1 DEF Question!Receipt, Question!AnswerInv, Question!Progress, Question!CallsRead
        <4>2. {"kind", "status", "version", "answer"} \subseteq DOMAIN questionRequest
          BY DEF Question!AnswerInv, Question!Progress
        <4>3. questionRequest'.answer = questionRequest.answer
          BY <2>3, <3>1, <4>2 DEF Question!Receipt
        <4> QED
          BY <2>3, <4>1, <4>3 DEF Question!Receipt
      <3> QED
        BY <2>3, <3>1 DEF Question!Receipt
    <2>4. ASSUME NEW u \in QuestionUsers,
                 \/ Question!AnswerInput(u) \/ Question!DecideProviderPermission(u)
                 \/ Question!RetryInputDelivery(u) \/ Question!RetryProviderPermissionDelivery(u)
          PROVE  Sessions'
      BY <2>4 DEF Question!AnswerInput, Question!DecideProviderPermission, Question!RetryInputDelivery,
                  Question!RetryProviderPermissionDelivery
    <2>5. CASE Question!OwnerEnds \/ Question!WorkDeleting \/ Question!Restart \/ Question!Resume \/
                  UNCHANGED Question!vars
      BY <2>5 DEF Question!OwnerEnds, Question!WorkDeleting, Question!Restart, Question!Resume, Question!vars
    <2> QED
      BY <2>1, <2>2, <2>3, <2>4, <2>5 DEF Question!Next
  <1>3. Question!AnswerInv /\ Sessions => Question!TypeOK
    BY DEF Question!AnswerInv, Question!Progress, Question!TypeOK
  <1> QED
    BY <1>1, <1>2, <1>3, AnswerStep, PTL DEF Question!Spec

-----------------------------------------------------------------------------
(* Configuration: the layers of a document.                                  *)

Layers == INSTANCE ConfigLayers WITH
        Scopes <- LayersScopes, Layers <- LayersLayers, layer <- layersLayer,
        merged <- layersMerged, values <- layersValues, sources <- layersSources

\* Scopes have names.
ASSUME LayersAssumption == LayersScopes \in Seq(STRING)

\* The layer that decides a path below the ones merged so far decides it still
\* when the next layer says nothing about it.
LEMMA LayersStep ==
    ASSUME Layers!TypeOK, Layers!LeavesAreAttributed, [Layers!Next]_(Layers!vars)
    PROVE  Layers!TypeOK' /\ Layers!LeavesAreAttributed'
  <1> USE DEF Layers!TypeOK, Layers!LeavesAreAttributed
  <1>1. Len(LayersScopes) \in Nat /\ layersMerged \in 0 .. Len(LayersScopes)
    BY LayersAssumption
  <1>2. CASE UNCHANGED Layers!vars
    BY <1>2 DEF Layers!vars, Layers!Decides
  <1>3. CASE Layers!Next
    <2>0. PICK m \in Nat : m = layersMerged + 1
      BY <1>1
    <2> DEFINE doc == layersLayer[m]
               scope == LayersScopes[m]
               incoming == DOMAIN doc
               old == {p \in DOMAIN layersValues : Layers!Survives(p, incoming)}
               kept == {p \in DOMAIN layersSources : Layers!Kept(p, incoming)}
    <2>1. /\ layersMerged' = m /\ m \in 1 .. Len(LayersScopes) /\ layersLayer' = layersLayer
          /\ layersValues' = [p \in old \cup incoming |-> IF p \in incoming THEN doc[p] ELSE layersValues[p]]
          /\ layersSources' = [p \in kept \cup incoming |-> IF p \in incoming THEN scope ELSE layersSources[p]]
      BY <1>1, <1>3, <2>0 DEF Layers!Next, Layers!Resolve, Layers!MergeMap
    <2>2. \A j \in 1 .. m : j = m \/ j \in 1 .. layersMerged
      BY <1>1, <2>0
    <2>3. ASSUME NEW p, Layers!Survives(p, incoming), p \in DOMAIN layersValues
          PROVE  p \in kept /\ p \notin incoming
      <3>1. \A q \in incoming : ~Layers!AtOrBelow(q, p) /\ ~Layers!Below(p, q)
        BY <2>3 DEF Layers!Survives
      <3>2. p \in DOMAIN layersSources
        BY <2>3
      <3> QED
        BY <3>1, <3>2 DEF Layers!Kept, Layers!AtOrBelow
    <2>4. ASSUME NEW i \in 1 .. layersMerged, NEW p
          PROVE  Layers!Decides(i, p)' <=> Layers!Decides(i, p) /\ Layers!Survives(p, incoming)
      <3>1. (i + 1) .. m = ((i + 1) .. layersMerged) \cup {m}
        BY <1>1, <2>0
      <3> QED
        BY <2>1, <3>1 DEF Layers!Decides, Layers!Survives
    <2>5. ASSUME NEW p
          PROVE  Layers!Decides(m, p)' <=> p \in incoming
      <3>1. (m + 1) .. m = {}
        BY <1>1, <2>0
      <3> QED
        BY <2>1, <3>1 DEF Layers!Decides
    <2> HIDE DEF doc, scope, incoming
    <2>6. \A p \in DOMAIN layersSources' : layersSources'[p] \in {LayersScopes[i] :
             i \in 1 .. Len(LayersScopes)}
      <3>1. scope \in {LayersScopes[i] : i \in 1 .. Len(LayersScopes)}
        BY <2>1 DEF scope
      <3> QED
        BY <2>1, <3>1
    <2>7. ASSUME NEW p \in DOMAIN layersValues'
          PROVE  /\ p \in DOMAIN layersSources'
                 /\ \E i \in 1 .. m : /\ Layers!Decides(i, p)' /\ layersValues'[p] = layersLayer'[i][p]
                                      /\ layersSources'[p] = LayersScopes[i]
      <3>1. CASE p \in incoming
        <4>1. layersValues'[p] = layersLayer'[m][p] /\ layersSources'[p] = LayersScopes[m] /\
                 p \in DOMAIN layersSources'
          BY <2>1, <3>1 DEF doc, scope
        <4>2. m \in 1 .. m
          BY <1>1, <2>0
        <4> QED
          BY <2>5, <3>1, <4>1, <4>2
      <3>2. CASE p \notin incoming
        <4>1. p \in DOMAIN layersValues /\ Layers!Survives(p, incoming)
          BY <2>1, <3>2
        <4>2. p \in kept
          BY <2>3, <4>1
        <4>3. layersValues'[p] = layersValues[p] /\ layersSources'[p] = layersSources[p] /\
                 p \in DOMAIN layersSources'
          BY <2>1, <3>2, <4>1, <4>2
        <4>4. PICK i \in 1 .. layersMerged :
                 Layers!Decides(i, p) /\ layersValues[p] = layersLayer[i][p] /\
                    layersSources[p] = LayersScopes[i]
          BY <4>1
        <4>5. i \in 1 .. m /\ Layers!Decides(i, p)'
          BY <1>1, <2>0, <2>4, <4>1, <4>4
        <4> QED
          BY <2>1, <4>3, <4>4, <4>5
      <3> QED
        BY <3>1, <3>2
    <2>8. ASSUME NEW i \in 1 .. m, NEW p \in DOMAIN layersLayer'[i], Layers!Decides(i, p)'
          PROVE  p \in DOMAIN layersValues'
      <3>1. CASE i = m
        BY <2>1, <2>5, <2>8, <3>1
      <3>2. CASE i \in 1 .. layersMerged
        BY <2>1, <2>4, <2>8, <3>2
      <3> QED
        BY <2>2, <3>1, <3>2
    <2>9. layersMerged' \in 0 .. Len(LayersScopes)
      BY <1>1, <2>1
    <2> QED
      BY <2>1, <2>6, <2>7, <2>8, <2>9
  <1> QED
    BY <1>2, <1>3

\* The layers keep their types, and every leaf its attribution.
LEMMA LayersHolds == Layers!Spec => [](Layers!TypeOK /\ Layers!LeavesAreAttributed)
  <1>1. Layers!Init => Layers!TypeOK /\ Layers!LeavesAreAttributed
    BY LayersAssumption DEF Layers!Init, Layers!TypeOK, Layers!LeavesAreAttributed
  <1>2. Layers!TypeOK /\ Layers!LeavesAreAttributed /\ [Layers!Next]_(Layers!vars)
        => Layers!TypeOK' /\ Layers!LeavesAreAttributed'
    BY LayersAssumption, LayersStep
  <1> QED
    BY <1>1, <1>2, PTL DEF Layers!Spec

-----------------------------------------------------------------------------
(* The other components, and all of them together.                           *)

Board == INSTANCE WorkBoard WITH
        Calls <- BoardCalls, Keys <- BoardKeys, MaxRuns <- BoardMaxRuns,
        MaxPos <- BoardMaxPos, MaxStops <- BoardMaxStops, work <- boardWork,
        runs <- boardRuns, pos <- boardPos, request <- boardRequest,
        command <- boardCommand, prepared <- boardPrepared,
        controlled <- boardControlled, effects <- boardEffects, call <- boardCall,
        stops <- boardStops
Queue == INSTANCE AttentionQueue WITH
        Items <- QueueItems, Source <- QueueSource, Work <- QueueWork,
        Priority <- QueuePriority, Limit <- QueueLimit, Users <- QueueUsers,
        MaxPages <- QueueMaxPages, status <- queueStatus, owner <- queueOwner,
        kept <- queueKept, reader <- queueReader, shown <- queueShown,
        steady <- queueSteady, decision <- queueDecision, version <- queueVersion,
        call <- queueCall
Decisions == INSTANCE AttentionQueue WITH
        Items <- DecisionsItems, Source <- DecisionsSource, Work <- DecisionsWork,
        Priority <- DecisionsPriority, Limit <- DecisionsLimit,
        Users <- DecisionsUsers, MaxPages <- DecisionsMaxPages,
        status <- decisionsStatus, owner <- decisionsOwner, kept <- decisionsKept,
        reader <- decisionsReader, shown <- decisionsShown, steady <- decisionsSteady,
        decision <- decisionsDecision, version <- decisionsVersion,
        call <- decisionsCall
Daemon == INSTANCE DaemonLifecycle WITH
        Daemons <- DaemonDaemons, Clients <- DaemonClients,
        MaxDeaths <- DaemonMaxDeaths, file <- daemonFile, endpoint <- daemonEndpoint,
        lock <- daemonLock, daemon <- daemonDaemon, signalled <- daemonSignalled,
        client <- daemonClient, deaths <- daemonDeaths
Slots == INSTANCE RunExecutionProofs WITH
        Runs <- SlotsRuns, Nodes <- SlotsNodes, Entry <- SlotsEntry,
        Successors <- SlotsSuccessors, Terminals <- SlotsTerminals,
        BuiltinNodes <- SlotsBuiltinNodes, CheckpointNodes <- {}, Limit <- SlotsLimit,
        MaxVisits <- SlotsMaxVisits, MaxRetries <- SlotsMaxRetries,
        Operations <- SlotsOperations, phase <- slotsPhase,
        scheduling <- slotsScheduling, todo <- slotsTodo, runStatus <- slotsRunStatus,
        visits <- slotsVisits, attempts <- slotsAttempts, workers <- slotsWorkers,
        launching <- slotsLaunching, admission <- slotsAdmission,
        control <- slotsControl
Writers == INSTANCE StartupRecoveryProofs WITH
        LeaseIds <- WritersLeaseIds, Scopes <- WritersScopes,
        Holders <- WritersHolders, Daemons <- WritersDaemons,
        QueueItems <- WritersQueueItems, Priorities <- WritersPriorities,
        Duration <- WritersDuration, TicksPerSecond <- WritersTicksPerSecond,
        MaxTime <- WritersMaxTime, MaxToken <- WritersMaxToken,
        Evidence <- WritersEvidence, OpIds <- WritersOpIds,
        ObserverOutcomes <- WritersObserverOutcomes, now <- writersNow,
        leases <- writersLeases, lastToken <- writersLastToken, queue <- writersQueue,
        issued <- writersIssued, phase <- writersPhase, daemon <- writersDaemon,
        usedIds <- writersUsedIds, ops <- writersOps, pending <- writersPending,
        report <- writersReport, decisions <- writersDecisions,
        scheduling <- writersScheduling
Config == INSTANCE ConfigMutation WITH
        Requests <- ConfigRequests, Files <- ConfigFiles, Sends <- ConfigSends,
        MaxCrashes <- ConfigMaxCrashes, MaxFailures <- ConfigMaxFailures,
        MaxEdits <- ConfigMaxEdits, file <- configFile, backup <- configBackup,
        command <- configCommand, event <- configEvent, expected <- configExpected,
        sent <- configSent, handler <- configHandler, held <- configHeld,
        made <- configMade, byHand <- configByHand, resent <- configResent,
        replaced <- configReplaced, crashes <- configCrashes,
        failures <- configFailures, edits <- configEdits
Clients == INSTANCE ConfigMutation WITH
        Requests <- ClientsRequests, Files <- ClientsFiles, Sends <- ClientsSends,
        MaxCrashes <- ClientsMaxCrashes, MaxFailures <- ClientsMaxFailures,
        MaxEdits <- ClientsMaxEdits, file <- clientsFile, backup <- clientsBackup,
        command <- clientsCommand, event <- clientsEvent, expected <- clientsExpected,
        sent <- clientsSent, handler <- clientsHandler, held <- clientsHeld,
        made <- clientsMade, byHand <- clientsByHand, resent <- clientsResent,
        replaced <- clientsReplaced, crashes <- clientsCrashes,
        failures <- clientsFailures, edits <- clientsEdits
Secret == INSTANCE ConfigMutation WITH
        Requests <- SecretRequests, Files <- SecretFiles, Sends <- SecretSends,
        MaxCrashes <- SecretMaxCrashes, MaxFailures <- SecretMaxFailures,
        MaxEdits <- SecretMaxEdits, file <- secretFile, backup <- secretBackup,
        command <- secretCommand, event <- secretEvent, expected <- secretExpected,
        sent <- secretSent, handler <- secretHandler, held <- secretHeld,
        made <- secretMade, byHand <- secretByHand, resent <- secretResent,
        replaced <- secretReplaced, crashes <- secretCrashes,
        failures <- secretFailures, edits <- secretEdits
Ticket == INSTANCE TicketExecution WITH
        Tickets <- TicketTickets, Revisions <- TicketRevisions, Unfit <- TicketUnfit,
        Runs <- TicketRuns, Callers <- TicketCallers, MaxAge <- TicketMaxAge,
        MaxTime <- TicketMaxTime, MaxBinding <- TicketMaxBinding,
        MaxLineage <- TicketMaxLineage, MaxEvents <- TicketMaxEvents,
        clock <- ticketClock, selected <- ticketSelected, scan <- ticketScan,
        cache <- ticketCache, lost <- ticketLost, works <- ticketWorks,
        lineages <- ticketLineages, checks <- ticketChecks,
        admissions <- ticketAdmissions, runs <- ticketRuns, calls <- ticketCalls,
        events <- ticketEvents

eventsVars ==
    <<eventsKinds, eventsLog, eventsRevision, eventsProjection, eventsManifest>>
questionVars ==
    <<questionRequest, questionOwner, questionAdapter, questionReceived, questionCalls,
      questionRestarts>>
deletionVars ==
    <<deletionWork, deletionRun, deletionAttempt, deletionControl, deletionReview,
      deletionTask, deletionHolder, deletionCancelled, deletionRestarts>>
storageVars ==
    <<storageBlobs, storageOperations, storageMetadata, storageVersions, storageTexts,
      storageAudit, storageCall, storageRequests>>
boardVars ==
    <<boardWork, boardRuns, boardPos, boardRequest, boardCommand, boardPrepared,
      boardControlled, boardEffects, boardCall, boardStops>>
queueVars ==
    <<queueStatus, queueOwner, queueKept, queueReader, queueShown, queueSteady,
      queueDecision, queueVersion, queueCall>>
decisionsVars ==
    <<decisionsStatus, decisionsOwner, decisionsKept, decisionsReader, decisionsShown,
      decisionsSteady, decisionsDecision, decisionsVersion, decisionsCall>>
daemonVars ==
    <<daemonFile, daemonEndpoint, daemonLock, daemonDaemon, daemonSignalled,
      daemonClient, daemonDeaths>>
slotsVars ==
    <<slotsPhase, slotsScheduling, slotsTodo, slotsRunStatus, slotsVisits,
      slotsAttempts, slotsWorkers, slotsLaunching, slotsAdmission, slotsControl>>
writersVars ==
    <<writersNow, writersLeases, writersLastToken, writersQueue, writersIssued,
      writersPhase, writersDaemon, writersUsedIds, writersOps, writersPending,
      writersReport, writersDecisions, writersScheduling>>
configVars ==
    <<configFile, configBackup, configCommand, configEvent, configExpected, configSent,
      configHandler, configHeld, configMade, configByHand, configResent,
      configReplaced, configCrashes, configFailures, configEdits>>
clientsVars ==
    <<clientsFile, clientsBackup, clientsCommand, clientsEvent, clientsExpected,
      clientsSent, clientsHandler, clientsHeld, clientsMade, clientsByHand,
      clientsResent, clientsReplaced, clientsCrashes, clientsFailures, clientsEdits>>
secretVars ==
    <<secretFile, secretBackup, secretCommand, secretEvent, secretExpected, secretSent,
      secretHandler, secretHeld, secretMade, secretByHand, secretResent,
      secretReplaced, secretCrashes, secretFailures, secretEdits>>
layersVars ==
    <<layersLayer, layersMerged, layersValues, layersSources>>
folderVars ==
    <<folderFiles, folderTemps, folderWhole, folderMu, folderCalls, folderArtifacts,
      folderAttached, folderAnswers, folderStarted>>
pointsVars ==
    <<pointsFiles, pointsHistory, pointsSealed, pointsCall>>
deliveryVars ==
    <<deliveryStage, deliveryJob, deliveryMain, deliveryRecord, deliveryWork,
      deliverySealed, deliveryIntent, deliveryPublished, deliveryAccepted,
      deliveryRemote, deliveryPulls, deliveryCrashes, deliveryLost, deliveryStray,
      deliveryForeign>>
execVars ==
    <<execAttempt, execSeen, execChild, execStdout, execRecord, execSchemaFile,
      execStarts>>
ticketVars ==
    <<ticketClock, ticketSelected, ticketScan, ticketCache, ticketLost, ticketWorks,
      ticketLineages, ticketChecks, ticketAdmissions, ticketRuns, ticketCalls,
      ticketEvents>>
editVars ==
    <<editTicket, editHistory, editOperations, editCommands, editTargets, editCalls,
      editAnswers, editStarted>>
vars == <<subject, eventsVars, questionVars, deletionVars, storageVars, boardVars, queueVars,
     decisionsVars, daemonVars, slotsVars, writersVars, configVars, clientsVars, secretVars, layersVars,
        folderVars, pointsVars, deliveryVars, execVars, ticketVars, editVars>>

Init ==
    /\ subject \in {"events", "question", "deletion", "storage", "board", "queue", "decisions",
          "daemon", "slots", "writers", "config", "clients", "secret", "layers", "folder", "points",
             "delivery", "exec", "ticket", "edit"}
    /\ subject = "events" \/ eventsKinds = CHOOSE s \in EventScopes : TRUE
    /\ Events!Init
    /\ subject = "question" \/ questionRequest = [kind |-> "question", status |-> "pending",
          version |-> 1, answer |-> "none"]
    /\ Question!Init
    /\ Deletion!Init
    /\ Storage!Init
    /\ Board!Init
    /\ Queue!Init
    /\ Decisions!Init
    /\ subject = "daemon" \/ daemonDaemon = [d \in DaemonDaemons |-> "unborn"]
    /\ subject = "daemon" \/ daemonFile = "none"
    /\ subject = "daemon" \/ daemonEndpoint = "none"
    /\ Daemon!Init
    /\ Slots!Init
    /\ Writers!Init
    /\ Config!Init
    /\ Clients!Init
    /\ Secret!Init
    /\ subject = "layers" \/ layersLayer = [i \in 1..Len(LayersScopes) |-> CHOOSE d \in LayersLayers : TRUE]
    /\ Layers!Init
    /\ Folder!Init
    /\ Points!Init
    /\ Delivery!Init
    /\ Exec!Init
    /\ Ticket!Init
    /\ Edit!Init


Next ==
    /\ UNCHANGED subject
    /\ \/ /\ subject = "events" /\ Events!Next
          /\ UNCHANGED <<questionVars, deletionVars, storageVars, boardVars, queueVars, decisionsVars,
                daemonVars, slotsVars, writersVars, configVars, clientsVars, secretVars, layersVars,
                   folderVars, pointsVars, deliveryVars, execVars, ticketVars, editVars>>
       \/ /\ subject = "question" /\ Question!Next
          /\ UNCHANGED <<eventsVars, deletionVars, storageVars, boardVars, queueVars, decisionsVars,
                daemonVars, slotsVars, writersVars, configVars, clientsVars, secretVars, layersVars,
                   folderVars, pointsVars, deliveryVars, execVars, ticketVars, editVars>>
       \/ /\ subject = "deletion" /\ Deletion!Next
          /\ UNCHANGED <<eventsVars, questionVars, storageVars, boardVars, queueVars, decisionsVars,
                daemonVars, slotsVars, writersVars, configVars, clientsVars, secretVars, layersVars,
                   folderVars, pointsVars, deliveryVars, execVars, ticketVars, editVars>>
       \/ /\ subject = "storage" /\ Storage!Next
          /\ UNCHANGED <<eventsVars, questionVars, deletionVars, boardVars, queueVars, decisionsVars,
                daemonVars, slotsVars, writersVars, configVars, clientsVars, secretVars, layersVars,
                   folderVars, pointsVars, deliveryVars, execVars, ticketVars, editVars>>
       \/ /\ subject = "board" /\ Board!Next
          /\ UNCHANGED <<eventsVars, questionVars, deletionVars, storageVars, queueVars, decisionsVars,
                daemonVars, slotsVars, writersVars, configVars, clientsVars, secretVars, layersVars,
                   folderVars, pointsVars, deliveryVars, execVars, ticketVars, editVars>>
       \/ /\ subject = "queue" /\ Queue!Next
          /\ UNCHANGED <<eventsVars, questionVars, deletionVars, storageVars, boardVars, decisionsVars,
                daemonVars, slotsVars, writersVars, configVars, clientsVars, secretVars, layersVars,
                   folderVars, pointsVars, deliveryVars, execVars, ticketVars, editVars>>
       \/ /\ subject = "decisions" /\ Decisions!Next
          /\ UNCHANGED <<eventsVars, questionVars, deletionVars, storageVars, boardVars, queueVars,
                daemonVars, slotsVars, writersVars, configVars, clientsVars, secretVars, layersVars,
                   folderVars, pointsVars, deliveryVars, execVars, ticketVars, editVars>>
       \/ /\ subject = "daemon" /\ Daemon!Next
          /\ UNCHANGED <<eventsVars, questionVars, deletionVars, storageVars, boardVars, queueVars,
                decisionsVars, slotsVars, writersVars, configVars, clientsVars, secretVars, layersVars,
                   folderVars, pointsVars, deliveryVars, execVars, ticketVars, editVars>>
       \/ /\ subject = "slots" /\ Slots!Next
          /\ UNCHANGED <<eventsVars, questionVars, deletionVars, storageVars, boardVars, queueVars,
                decisionsVars, daemonVars, writersVars, configVars, clientsVars, secretVars, layersVars,
                   folderVars, pointsVars, deliveryVars, execVars, ticketVars, editVars>>
       \/ /\ subject = "writers" /\ Writers!Next
          /\ UNCHANGED <<eventsVars, questionVars, deletionVars, storageVars, boardVars, queueVars,
                decisionsVars, daemonVars, slotsVars, configVars, clientsVars, secretVars, layersVars,
                   folderVars, pointsVars, deliveryVars, execVars, ticketVars, editVars>>
       \/ /\ subject = "config" /\ Config!Next
          /\ UNCHANGED <<eventsVars, questionVars, deletionVars, storageVars, boardVars, queueVars,
                decisionsVars, daemonVars, slotsVars, writersVars, clientsVars, secretVars, layersVars,
                   folderVars, pointsVars, deliveryVars, execVars, ticketVars, editVars>>
       \/ /\ subject = "clients" /\ Clients!Next
          /\ UNCHANGED <<eventsVars, questionVars, deletionVars, storageVars, boardVars, queueVars,
                decisionsVars, daemonVars, slotsVars, writersVars, configVars, secretVars, layersVars,
                   folderVars, pointsVars, deliveryVars, execVars, ticketVars, editVars>>
       \/ /\ subject = "secret" /\ Secret!Next
          /\ UNCHANGED <<eventsVars, questionVars, deletionVars, storageVars, boardVars, queueVars,
                decisionsVars, daemonVars, slotsVars, writersVars, configVars, clientsVars, layersVars,
                   folderVars, pointsVars, deliveryVars, execVars, ticketVars, editVars>>
       \/ /\ subject = "layers" /\ Layers!Next
          /\ UNCHANGED <<eventsVars, questionVars, deletionVars, storageVars, boardVars, queueVars,
                decisionsVars, daemonVars, slotsVars, writersVars, configVars, clientsVars, secretVars,
                   folderVars, pointsVars, deliveryVars, execVars, ticketVars, editVars>>
       \/ /\ subject = "folder" /\ Folder!Next
          /\ UNCHANGED <<eventsVars, questionVars, deletionVars, storageVars, boardVars, queueVars,
                decisionsVars, daemonVars, slotsVars, writersVars, configVars, clientsVars, secretVars,
                   layersVars, pointsVars, deliveryVars, execVars, ticketVars, editVars>>
       \/ /\ subject = "points" /\ Points!Next
          /\ UNCHANGED <<eventsVars, questionVars, deletionVars, storageVars, boardVars, queueVars,
                decisionsVars, daemonVars, slotsVars, writersVars, configVars, clientsVars, secretVars,
                   layersVars, folderVars, deliveryVars, execVars, ticketVars, editVars>>
       \/ /\ subject = "delivery" /\ Delivery!Next
          /\ UNCHANGED <<eventsVars, questionVars, deletionVars, storageVars, boardVars, queueVars,
                decisionsVars, daemonVars, slotsVars, writersVars, configVars, clientsVars, secretVars,
                   layersVars, folderVars, pointsVars, execVars, ticketVars, editVars>>
       \/ /\ subject = "exec" /\ Exec!Next
          /\ UNCHANGED <<eventsVars, questionVars, deletionVars, storageVars, boardVars, queueVars,
                decisionsVars, daemonVars, slotsVars, writersVars, configVars, clientsVars, secretVars,
                   layersVars, folderVars, pointsVars, deliveryVars, ticketVars, editVars>>
       \/ /\ subject = "ticket" /\ Ticket!Next
          /\ UNCHANGED <<eventsVars, questionVars, deletionVars, storageVars, boardVars, queueVars,
                decisionsVars, daemonVars, slotsVars, writersVars, configVars, clientsVars, secretVars,
                   layersVars, folderVars, pointsVars, deliveryVars, execVars, editVars>>
       \/ /\ subject = "edit" /\ Edit!Next
          /\ UNCHANGED <<eventsVars, questionVars, deletionVars, storageVars, boardVars, queueVars,
                decisionsVars, daemonVars, slotsVars, writersVars, configVars, clientsVars, secretVars,
                   layersVars, folderVars, pointsVars, deliveryVars, execVars, ticketVars>>

Spec == Init /\ [][Next]_vars

-----------------------------------------------------------------------------

\* Appends to the event store (events.go).
\* CommandOnce: A command changes an aggregate at most once, whatever version
\* it is retried with.
\* RevisionsInOrder: Of two writers that expected one revision of an aggregate
\* at most one appends: the revisions of its events rise along the log.
CommandsApplyOnce ==
    /\ subject = "events" => Events!CommandOnce /\ Events!RevisionsInOrder

\* Projections of the event store (events.go, reducer.go).
\* DeletedAtRest: Once work is deleted its runs and attempts are at rest, and
\* stay so.
\* RebuildKeeps: A rebuild gives back the projections the appends left: they
\* are a function of the log.
ProjectionsFollowTheLog ==
    /\ [](subject = "events" => Events!TypeOK /\ Events!DeletedAtRest)
    /\ Events!RebuildKeeps

\* Questions to people (inputs.go, permissions.go, attention/service.go).
\* OneAnswer: The provider never receives an answer other than the recorded
\* one, however many users decide at once and however often delivery is
\* retried.
\* AnsweredWasReceived: A request shown as answered was received by the
\* provider.
\* NothingIsSkipped: Whoever reads to the last page has seen every request that
\* was open the whole time: a request that moves on, comes or goes between two
\* reads or two pages hides no other.
\* AnswerIsRecorded: One decision resolves an approval, and a decision that is
\* answered as taken is the one that is recorded, under its user's name.
AnswersArriveOnce ==
    /\ subject = "question" =>
          Question!TypeOK /\ Question!OneAnswer /\ Question!AnsweredWasReceived
    /\ subject = "queue" => Queue!TypeOK /\ Queue!NothingIsSkipped
    /\ subject = "decisions" => Decisions!TypeOK /\ Decisions!AnswerIsRecorded

\* Work items (work_deletion.go, worklifecycle/service.go).
\* DeletedRunsFinished: Deleted work has no unfinished run and no open attempt,
\* now or later.
\* DeletedNothingPending: Deleted work leaves no decision pending, whatever was
\* asked for while its runs were being cancelled: a checkpoint's approval moves
\* its run's version and fails the pass, and a review, which does not, is
\* withdrawn by Cancel itself.
\* OpenWorkLaunchesOnce: Of the runs prepared while the work item was open only
\* one is launched, although several may be prepared at once: the launch
\* compares the work item's version with the assessed one, and the first launch
\* changes it.
\* EffectOncePerKey: A command has one effect at most, sent twice at once or
\* again after the daemon stopped in the middle of it.
\* SuccessHappened: Success is reported only for an effect that happened.
WorkIsDoneOnce ==
    /\ subject = "deletion" =>
          Deletion!TypeOK /\ Deletion!DeletedRunsFinished /\
          Deletion!DeletedNothingPending
    /\ subject = "board" =>
          Board!TypeOK /\ Board!OpenWorkLaunchesOnce /\ Board!EffectOncePerKey /\
          Board!SuccessHappened

\* Artifact content (artifactstore/folder/store.go, sqlite/artifacts.go).
\* RegisteredIsReadable: Whatever is registered can be read back: its blob and
\* metadata were published first, also when it was another call, since stopped,
\* that published a part of them.
\* OneContentPerKey: An idempotency key stands for one content and one version,
\* in the store and in the registry, although both are written by racing calls
\* and retries.
\* RevisionsFollowBase: A revision directly follows the version its author saw.
ArtifactsAreKept ==
    /\ subject = "storage" =>
          Storage!TypeOK /\ Storage!RegisteredIsReadable /\ Storage!OneContentPerKey /\
          Storage!RevisionsFollowBase

\* The slots of the scheduler (runexecution/queue.go).
\* Capacity: Where no checkpoint decision brings a waiting run back past the
\* queue, at most scheduler.maxConcurrentRuns runs are running or have a
\* worker, although queue loop, finishing workers and ResumeActive each launch
\* on their own reading of the projections (hasRunCapacityLocked).
Capacity ==
    /\ subject = "slots" => Slots!TypeOK /\ Slots!Capacity

\* The repository write queue (sqlite/coordination.go).
\* NoOvertaking: Counting time in whole seconds, a repository writer never
\* overtakes an available writer with a higher priority, or with its own
\* priority and an earlier enqueue time, even when both try at once
\* (AcquireRepositoryLock).
NoOvertaking ==
    /\ [](subject = "writers" => Writers!TypeOK)
    /\ Writers!NoOvertaking

\* The daemon of a runtime directory (daemon/lifecycle.go).
\* OneService: Two daemons never have the runtime service open at once, however
\* many are started, killed or stopped: the database has one writer.
\* RunningAccepts: A daemon that daemon.json names and that has not begun to
\* close accepts API requests at the recorded endpoint: "a process reported as
\* running already has an accepting API".
\* CleanupCannotRace: The clean-up of a stale or malformed record never removes
\* the record of a live daemon, whatever happened since the record was first
\* inspected.
OneDaemonServes ==
    /\ [](subject = "daemon" => Daemon!TypeOK /\ Daemon!OneService /\ Daemon!RunningAccepts)
    /\ Daemon!CleanupCannotRace

\* Configuration (configmutation/service.go,
\* configurationstore/filesystem/store.go, config.go).
\* AnswersAreTrue: What a client is told is what happened, wherever the daemon
\* stopped, whoever else wrote in between and however often the request was
\* delivered: a change answered with success was in the file while its command
\* was open, and one answered with a failure was made only if a repetition of
\* it, sent while the first handler was at work, made it.  (A repeated restore
\* or secret takes any change of the file for its own.)
\* NoLostUpdate: Between the daemon's clients no change is lost: a publication
\* replaces what its client saw and nothing newer another client wrote, on the
\* first attempt and on every repetition.  (An edit by hand during the write is
\* lost.)
\* LeavesAreAttributed: Whatever the layers hold (values where others hold
\* mappings, empty mappings), the merged leaves are those some layer decides,
\* each with that layer's value and attributed to it.
ConfigurationIsTrue ==
    /\ subject = "config" => Config!TypeOK /\ Config!AnswersAreTrue /\ Config!NoLostUpdate
    /\ subject = "clients" =>
          Clients!TypeOK /\ Clients!AnswersAreTrue /\ Clients!NoLostUpdate
    /\ subject = "secret" => Secret!TypeOK /\ Secret!AnswersAreTrue /\ Secret!NoLostUpdate
    /\ subject = "layers" => Layers!TypeOK /\ Layers!LeavesAreAttributed

\* Plugin workspaces (pluginworkspace/service.go, adapters/workspace/folder).
\* WholeStaysWhole: A file that was complete once is never torn again and never
\* disappears, wherever the daemon stops (ReplaceFile fills a temporary file;
\* only a first write can leave a torn one).
\* PublishedIsAttached: A publication that was answered is an artifact with
\* exactly the bytes answered, attached to the work item, whatever became of
\* the staged file since, and retries of its key give the same (Call).
\* NoLostReplacement: Nobody's bytes are lost: a complete file changes only
\* through a caller that named the bytes it replaces, though the comparison and
\* the write are several operations of the file system (ReplaceFile).
\* StoredWasThere: "Stored" is said only when the file holds the bytes at some
\* moment of the call (ReadBack after a failure).
FilesAreWhole ==
    /\ [](subject = "folder" =>
          Folder!TypeOK /\ Folder!WholeStaysWhole /\ Folder!PublishedIsAttached)
    /\ Folder!NoLostReplacement /\ Folder!StoredWasThere

\* Commits: the points of a plan (pointexecution/service.go,
\* pointfinalization/service.go), and the delivery of a run to its branch and
\* pull request (workflow_delivery.go, repository/git).
\* CommitsWereValidated: The branch holds only trees that were captured from
\* their parent and validated, whatever was edited meanwhile and whoever else
\* committed; and whoever was told of a commit, at once or on a retry, finds
\* its own candidate and operation there.
\* DeliveredIsAChain: The commits a run delivers are one chain from the
\* recorded base: each holds one node's changes on top of the previous
\* delivered commit, once, and nothing of anybody else, however often the node
\* was tried.
\* OnePullRequest: A visit leaves one pull request, though the answer to its
\* creation may have been lost and the first one closed or merged since.
\* RemoteOnlyGrows: A publication adds to the remote branch: it never takes
\* away what it holds, though the tip was read before it was replaced.
CommitsAreDelivered ==
    /\ [](subject = "points" => Points!TypeOK /\ Points!CommitsWereValidated)
    /\ [](subject = "delivery" =>
          Delivery!TypeOK /\ Delivery!DeliveredIsAChain /\ Delivery!OnePullRequest)
    /\ Delivery!RemoteOnlyGrows

\* An attempt of codex exec (provider/codex/exec_adapter.go).
\* ResultAfterExit: A result is published only after the process has been
\* awaited, and with the temporary schema file removed, also when a
\* cancellation and a timeout meet.
\* SuccessIsWhole: A success was read from a complete session that ended by
\* itself.
\* StopDecides: A stop that precedes the end of the process decides the result:
\* an attempt the pump had not finished reading is never reported as failed or
\* succeeded.
\* RecordBeforeProcess: What can be resumed after a restart was saved before
\* its process existed.
ExecAttemptIsWhole ==
    /\ [](subject = "exec" =>
          Exec!TypeOK /\ Exec!ResultAfterExit /\ Exec!SuccessIsWhole /\
          Exec!RecordBeforeProcess)
    /\ Exec!StopDecides

\* Tickets (source_runs.go, source_checks.go, native_tracker.go).
\* OneExecution: No two runs work on one source ticket at a time, an attempt
\* that outlives its cancelled run included, although work may be rebound to
\* another ticket and runs may be retried; the exception is a completed run
\* that is continued after its work has moved to another ticket.  Work that is
\* deleted has no run at work, even if one was prepared before the deletion.
\* SnapshotVerifies: RunSourceSnapshot: what a run froze can be verified ever
\* after, against its exact approval and the lineage the work had, whatever the
\* work is bound to now.
\* CreatedFromCurrent: A run is created from the version that is current,
\* accessible and recently checked when its event is written, not when it was
\* prepared.
\* NewestIsKept: While work stays bound to a ticket, what is known of the
\* ticket is never replaced by something checked earlier, whichever of a scan
\* and two exact checks is recorded last.
\* EditsFollowWhatWasSeen: Nobody overwrites what they have not seen and
\* nothing is applied twice: however calls, retries, stops and uncertain
\* commits interleave, entry n of the history is at revision n, was asked for
\* by a user who had loaded revision n - 1, and no operation has two entries
\* (mutate, MutateNativeTicket).
\* AnsweredIsApplied: A request answered with success was applied: the history
\* shown in the answer holds it, and the journal holds the receipt that a later
\* retry will find (mutate, Reconcile).
\* AnswersAgree: Every successful answer to one key is the same, though racing
\* calls of the key each loaded the detail at another moment (CompleteCommand
\* closes a command once; the others fail).
TicketsAreKept ==
    /\ [](subject = "ticket" =>
          Ticket!TypeOK /\ Ticket!OneExecution /\ Ticket!SnapshotVerifies)
    /\ Ticket!CreatedFromCurrent /\ Ticket!NewestIsKept
    /\ [](subject = "edit" =>
          Edit!TypeOK /\ Edit!EditsFollowWhatWasSeen /\ Edit!AnsweredIsApplied /\
          Edit!AnswersAgree)

-----------------------------------------------------------------------------
(* Proofs.  A behaviour of this module is, seen from each component, a      *)
(* behaviour of that component: its steps are the component's or leave its  *)
(* variables alone.  So what is proved of a component for every value of its *)
(* constants holds here, for every value of this module's.                  *)

\* What the theorems assume of the other constants: bounds are numbers, names are
\* told apart, and what the components themselves assume.
ASSUME PeopleAssumption == Queue!QueueAssumption /\ Decisions!QueueAssumption
ASSUME WorkAssumption == DeletionMaxRestarts \in Nat /\ BoardMaxPos \in Nat \ {0}
ASSUME DaemonAssumption == Daemon!DistinctNames /\ DaemonMaxDeaths \in Nat
ASSUME SlotsAssumption ==
    /\ IsFiniteSet(SlotsRuns) /\ SlotsEntry \in SlotsNodes
    /\ SlotsSuccessors \in [SlotsNodes -> SUBSET SlotsNodes]
    /\ SlotsTerminals \subseteq SlotsNodes /\ SlotsBuiltinNodes \subseteq SlotsNodes
    /\ SlotsLimit \in Nat \ {0} /\ SlotsMaxVisits \in Nat \ {0} /\ SlotsMaxRetries \in Nat
    /\ SlotsOperations \subseteq {"pause", "cancel", "retry", "continue", "guide", "crash", "stop"}
ASSUME WritersAssumption ==
    /\ WritersDuration \in Nat \ {0} /\ WritersTicksPerSecond \in 1 .. 10
    /\ WritersMaxTime \in Nat /\ WritersMaxToken \in Nat
    /\ WritersQueueItems \subseteq Nat /\ WritersPriorities \subseteq Nat
    /\ WritersObserverOutcomes \subseteq Writers!Outcomes
ASSUME TicketAssumption == Ticket!BoundsKnown
ASSUME ConfigAssumption == Config!RequestsKnown /\ Clients!RequestsKnown /\ Secret!RequestsKnown

\* Every component goes on as its module says.
LEMMA EachComponent ==
    Spec =>
      /\ Events!Spec /\ Question!Spec /\ Queue!Spec /\ Decisions!Spec
      /\ Deletion!Spec /\ Board!Spec /\ Storage!Spec /\ Clients!Spec
      /\ Folder!Spec /\ Points!Spec /\ Delivery!Spec /\ Exec!Spec
      /\ Ticket!Spec /\ Edit!Spec /\ Daemon!Spec /\ Slots!Spec
      /\ Writers!Spec /\ Config!Spec /\ Secret!Spec /\ Layers!Spec
  <1>1. Init =>
          /\ Events!Init /\ Question!Init /\ Queue!Init /\ Decisions!Init
          /\ Deletion!Init /\ Board!Init /\ Storage!Init /\ Clients!Init
          /\ Folder!Init /\ Points!Init /\ Delivery!Init /\ Exec!Init
          /\ Ticket!Init /\ Edit!Init /\ Daemon!Init /\ Slots!Init
          /\ Writers!Init /\ Config!Init /\ Secret!Init /\ Layers!Init
    BY DEF Init
  <1>2. [Next]_vars =>
          /\ (Events!Next \/ UNCHANGED eventsVars) /\ (Question!Next \/ UNCHANGED questionVars)
          /\ (Queue!Next \/ UNCHANGED queueVars) /\ (Decisions!Next \/ UNCHANGED decisionsVars)
          /\ (Deletion!Next \/ UNCHANGED deletionVars) /\ (Board!Next \/ UNCHANGED boardVars)
          /\ (Storage!Next \/ UNCHANGED storageVars) /\ (Clients!Next \/ UNCHANGED clientsVars)
          /\ (Folder!Next \/ UNCHANGED folderVars) /\ (Points!Next \/ UNCHANGED pointsVars)
          /\ (Delivery!Next \/ UNCHANGED deliveryVars) /\ (Exec!Next \/ UNCHANGED execVars)
          /\ (Ticket!Next \/ UNCHANGED ticketVars) /\ (Edit!Next \/ UNCHANGED editVars)
          /\ (Daemon!Next \/ UNCHANGED daemonVars) /\ (Slots!Next \/ UNCHANGED slotsVars)
          /\ (Writers!Next \/ UNCHANGED writersVars) /\ (Config!Next \/ UNCHANGED configVars)
          /\ (Secret!Next \/ UNCHANGED secretVars) /\ (Layers!Next \/ UNCHANGED layersVars)
    BY DEF Next, vars
  <1>3. UNCHANGED eventsVars => UNCHANGED Events!vars
    BY DEF eventsVars, Events!vars
  <1>4. UNCHANGED questionVars => UNCHANGED Question!vars
    BY DEF questionVars, Question!vars
  <1>5. UNCHANGED queueVars => UNCHANGED Queue!vars
    BY DEF queueVars, Queue!vars
  <1>6. UNCHANGED decisionsVars => UNCHANGED Decisions!vars
    BY DEF decisionsVars, Decisions!vars
  <1>7. UNCHANGED deletionVars => UNCHANGED Deletion!vars
    BY DEF deletionVars, Deletion!vars
  <1>8. UNCHANGED boardVars => UNCHANGED Board!vars
    BY DEF boardVars, Board!vars
  <1>9. UNCHANGED storageVars => UNCHANGED Storage!vars
    BY DEF storageVars, Storage!vars
  <1>10. UNCHANGED clientsVars => UNCHANGED Clients!vars
    BY DEF clientsVars, Clients!vars
  <1>11. UNCHANGED folderVars => UNCHANGED Folder!vars
    BY DEF folderVars, Folder!vars
  <1>12. UNCHANGED pointsVars => UNCHANGED Points!vars
    BY DEF pointsVars, Points!vars
  <1>13. UNCHANGED deliveryVars => UNCHANGED Delivery!vars
    BY DEF deliveryVars, Delivery!vars
  <1>14. UNCHANGED execVars => UNCHANGED Exec!vars
    BY DEF execVars, Exec!vars
  <1>15. UNCHANGED ticketVars => UNCHANGED Ticket!vars
    BY DEF ticketVars, Ticket!vars
  <1>16. UNCHANGED editVars => UNCHANGED Edit!vars
    BY DEF editVars, Edit!vars
  <1>17. UNCHANGED daemonVars => UNCHANGED Daemon!vars
    BY DEF daemonVars, Daemon!vars
  <1>18. UNCHANGED slotsVars => UNCHANGED Slots!vars
    BY DEF slotsVars, Slots!vars
  <1>19. UNCHANGED writersVars => UNCHANGED Writers!vars
    BY DEF writersVars, Writers!vars, Writers!coordVars, Writers!recVars
  <1>20. UNCHANGED configVars => UNCHANGED Config!vars
    BY DEF configVars, Config!vars
  <1>21. UNCHANGED secretVars => UNCHANGED Secret!vars
    BY DEF secretVars, Secret!vars
  <1>22. UNCHANGED layersVars => UNCHANGED Layers!vars
    BY DEF layersVars, Layers!vars
  <1>23. [Next]_vars =>
          /\ [Events!Next]_(Events!vars) /\ [Question!Next]_(Question!vars)
          /\ [Queue!Next]_(Queue!vars) /\ [Decisions!Next]_(Decisions!vars)
          /\ [Deletion!Next]_(Deletion!vars) /\ [Board!Next]_(Board!vars)
          /\ [Storage!Next]_(Storage!vars) /\ [Clients!Next]_(Clients!vars)
          /\ [Folder!Next]_(Folder!vars) /\ [Points!Next]_(Points!vars)
          /\ [Delivery!Next]_(Delivery!vars) /\ [Exec!Next]_(Exec!vars)
          /\ [Ticket!Next]_(Ticket!vars) /\ [Edit!Next]_(Edit!vars)
          /\ [Daemon!Next]_(Daemon!vars) /\ [Slots!Next]_(Slots!vars)
          /\ [Writers!Next]_(Writers!vars) /\ [Config!Next]_(Config!vars)
          /\ [Secret!Next]_(Secret!vars) /\ [Layers!Next]_(Layers!vars)
    BY <1>2, <1>3, <1>4, <1>5, <1>6, <1>7, <1>8, <1>9, <1>10, <1>11, <1>12, <1>13, <1>14,
       <1>15, <1>16, <1>17, <1>18, <1>19, <1>20, <1>21, <1>22
  <1> QED
    BY <1>1, <1>23, PTL
    DEF Spec, Events!Spec, Question!Spec, Queue!Spec, Decisions!Spec, Deletion!Spec,
        Board!Spec, Storage!Spec, Clients!Spec, Folder!Spec, Points!Spec,
        Delivery!Spec, Exec!Spec, Ticket!Spec, Edit!Spec, Daemon!Spec, Slots!Spec,
        Writers!Spec, Config!Spec, Secret!Spec, Layers!Spec

\* A question is answered once, the queue of open requests skips none, and a
\* decision is answered as it was recorded (inputs.go, permissions.go,
\* attention/service.go).
THEOREM AnsweredOnce == Spec => []AnswersArriveOnce
  <1>1. Queue!Spec => []Queue!TypeOK /\ []Queue!NothingIsSkipped
    BY PeopleAssumption, Queue!TypeCorrect, Queue!NoneSkipped
  <1>2. Decisions!Spec => []Decisions!TypeOK /\ []Decisions!AnswerIsRecorded
    BY PeopleAssumption, Decisions!TypeCorrect, Decisions!DecisionsStand
  <1> QED
    BY EachComponent, QuestionTypes, AnswersOnce, <1>1, <1>2, PTL DEF AnswersArriveOnce

\* Deleted work is finished work, and a command has its effect once
\* (work_deletion.go, worklifecycle/service.go).
THEOREM WorkDoneOnce == Spec => []WorkIsDoneOnce
  <1>1. Deletion!Spec => []Deletion!TypeOK
    BY WorkAssumption, DeletionTypes
  <1>2. Board!Spec => []Board!TypeOK
    BY WorkAssumption, Board!TypeCorrect
  <1>3. Board!Spec => []Board!OpenWorkLaunchesOnce /\ [](Board!EffectOncePerKey /\ Board!SuccessHappened)
    BY Board!LaunchedOnce, Board!EffectsOnce
  <1> QED
    BY EachComponent, DeletionIsWhole, <1>1, <1>2, <1>3, PTL DEF WorkIsDoneOnce

\* On a route without checkpoints the scheduler keeps its limit (runexecution/queue.go).
THEOREM CapacityHolds == Spec => []Capacity
  <1>1. Slots!IsFiniteSet(SlotsRuns)
    BY SlotsAssumption DEF IsFiniteSet, Slots!IsFiniteSet
  <1>2. Slots!Spec => []Slots!TypeOK /\ []Slots!Capacity
    BY SlotsAssumption, <1>1, Slots!TypeCorrect, Slots!LimitHolds
  <1> QED
    BY EachComponent, <1>2, PTL DEF Capacity

\* The repository writers are served in order (sqlite/coordination.go).
THEOREM WritersServedInOrder == Spec => NoOvertaking
  <1>1. Writers!Spec => []Writers!TypeOK /\ Writers!NoOvertaking
    BY WritersAssumption, Writers!TypeCorrect, Writers!WritersInOrder
  <1> QED
    BY EachComponent, <1>1, PTL DEF NoOvertaking

\* One daemon serves a runtime directory (daemon/lifecycle.go).
THEOREM DaemonServesAlone == Spec => OneDaemonServes
  <1>1. Daemon!Spec => []Daemon!TypeOK /\ [](Daemon!OneService /\ Daemon!RunningAccepts)
    BY DaemonAssumption, Daemon!TypeCorrect, Daemon!OneDaemonWrites
  <1>2. Daemon!Spec => Daemon!CleanupCannotRace
    BY DaemonAssumption, Daemon!CleanupIsSafe
  <1> QED
    BY EachComponent, <1>1, <1>2, PTL DEF OneDaemonServes

\* A client of the configuration is told what happened and loses no change, and
\* every effective value is that of the layer it is attributed to
\* (configmutation/service.go, config.go).
THEOREM ConfigurationTrue == Spec => []ConfigurationIsTrue
  <1>1. Config!Spec => []Config!TypeOK /\ []Config!NoLostUpdate
    BY ConfigAssumption, Config!TypeCorrect, Config!NoUpdateLost
  <1>2. Config!Spec => []Config!AnswersAreTrue
    BY ConfigAssumption, Config!AnswersTrue
  <1>3. Secret!Spec => []Secret!TypeOK /\ []Secret!NoLostUpdate
    BY ConfigAssumption, Secret!TypeCorrect, Secret!NoUpdateLost
  <1>4. Secret!Spec => []Secret!AnswersAreTrue
    BY ConfigAssumption, Secret!AnswersTrue
  <1>5. Clients!Spec => []Clients!TypeOK /\ []Clients!NoLostUpdate
    BY ConfigAssumption, Clients!TypeCorrect, Clients!NoUpdateLost
  <1>6. Clients!Spec => []Clients!AnswersAreTrue
    BY ConfigAssumption, Clients!AnswersTrue
  <1> QED
    BY EachComponent, LayersHolds, <1>1, <1>2, <1>3, <1>4, <1>5, <1>6, PTL DEF ConfigurationIsTrue

\* Whatever the folder store and the registries hold was published whole: a
\* registered version or text can be read back, an idempotency key stands for one
\* content and one version, and a revision follows its base, however the calls of
\* ingestion and extraction interleave, stop between two commits and are retried,
\* for any calls, keys and documents.
THEOREM ArtifactsStored == Spec => []ArtifactsAreKept
  <1>1. Storage!StoreInv => ArtifactsAreKept
    BY StoreHolds DEF ArtifactsAreKept
  <1> QED
    BY EachComponent, StorageHolds, <1>1, PTL

\* A command changes an aggregate at most once, whatever version it is retried
\* with, and of two writers that expected one revision at most one appends: in the
\* log the commands of an aggregate differ and its revisions rise.  For any scopes
\* of events and any length of the log.
THEOREM CommandsOnce == Spec => []CommandsApplyOnce
  <1>1. Events!LogInv => CommandsApplyOnce
    BY DEF Events!LogInv, Events!Sound, Events!Begun, Events!CommandsDiffer, CommandsApplyOnce,
       Events!CommandOnce, Events!RevisionsInOrder
  <1> QED
    BY EachComponent, EventsHolds, <1>1, PTL

\* The files of plugins are whole: a complete file is never torn or lost, it changes only
\* through a caller that named its bytes, a call that answers "stored" found them there,
\* and a publication that was answered is attached (pluginworkspace/service.go).
THEOREM FilesKept == Spec => FilesAreWhole
  BY EachComponent, FolderHolds, PTL DEF FilesAreWhole

\* Commits are delivered: the branch of a story holds only trees that were captured
\* from their parent and validated, and who is told of a commit finds its own there,
\* whatever callers overlap (pointfinalization/service.go, repository/git); the commits
\* of a run follow each other on its branch, the remote branch is only added to, and a
\* run has one pull request (workflow_delivery.go).
THEOREM CommitsDelivered == Spec => CommitsAreDelivered
  BY EachComponent, PointsAreValidated, DeliveryHolds, PTL DEF CommitsAreDelivered

\* An attempt of codex exec is whole: its result is published after its process ended and
\* its schema file is gone, a success was read from a complete session, a stop that came
\* first decides, and what a restart resumes was recorded before its process existed
\* (provider/codex/exec_adapter.go).
THEOREM ExecAttemptWhole == Spec => ExecAttemptIsWhole
  BY EachComponent, ExecHolds, PTL DEF ExecAttemptIsWhole

\* Tickets are kept.  A ticket has at most one execution at a time, a run is created from the version
\* of its ticket that is current and was approved, what it froze verifies against the
\* approval, and what is known of a ticket never becomes older (source_runs.go,
\* source_checks.go).  An edit follows the revision it was authorised for, what was answered
\* was applied, and the same key is always answered the same (native_tracker.go).
THEOREM TicketsKept == Spec => TicketsAreKept
  <1>1. Ticket!Spec => [](Ticket!TypeOK /\ Ticket!OneExecution /\ Ticket!SnapshotVerifies)
                       /\ Ticket!CreatedFromCurrent /\ Ticket!NewestIsKept
    BY Ticket!TicketIsWhole, TicketAssumption
  <1> QED
    BY EachComponent, EditHolds, <1>1, PTL DEF TicketsAreKept
=============================================================================
