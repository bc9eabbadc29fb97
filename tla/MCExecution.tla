---------------------------- MODULE MCExecution ----------------------------
(***************************************************************************)
(* Long-running activities of the daemon, for TLC: a command attempt, an   *)
(* attempt of the Codex provider plugin, and the backlog poller.  They share*)
(* no state: a behaviour belongs to one of them, its subject, and the others*)
(* stay in their initial states.                                           *)
(***************************************************************************)
EXTENDS Naturals, Sequences, FiniteSets

VARIABLES subject,
    \* CommandAttempt
    commandRunner, commandCtx, commandHeld, commandJournal, commandProc,
    commandObserve, commandOutcome, commandStream, commandDone, commandQueue,
    commandResponse, commandCaller, commandFaults,
    \* PluginAttempt
    pluginReg, pluginStarts, pluginAnswers, pluginTurns, pluginChild, pluginFailure,
    pluginInbox, pluginHeard, pluginEnded, pluginObs, pluginTracked, pluginSent,
    pluginStopping, pluginObserved, pluginStops, pluginComp, pluginSeqno, pluginSlots,
    pluginEvents, pluginResult, pluginReader,
    \* Backlog
    scanBindings, scanCheckpoints, scanRows, scanObservations, scanCalls, scanPolling,
    scanRemote, scanEvents

Command == INSTANCE CommandAttempt WITH
        Keys <- {"k"}, MaxFaults <- 1, runner <- commandRunner, ctx <- commandCtx,
        held <- commandHeld, journal <- commandJournal, proc <- commandProc,
        observe <- commandObserve, outcome <- commandOutcome, stream <- commandStream,
        done <- commandDone, queue <- commandQueue, response <- commandResponse,
        caller <- commandCaller, faults <- commandFaults
Plugin == INSTANCE PluginAttempt WITH
        MaxStarts <- 2, Stoppers <- {"cancel"}, Keys <- {"k1"},
        Kinds <- {"ask", "resolved", "tool", "edit", "foreign", "completed", "failed", "interrupted"},
        BatchLimit <- 1, MaxMessages <- 2, reg <- pluginReg, starts <- pluginStarts,
        answers <- pluginAnswers, turns <- pluginTurns, child <- pluginChild,
        failure <- pluginFailure, inbox <- pluginInbox, heard <- pluginHeard,
        ended <- pluginEnded, obs <- pluginObs, tracked <- pluginTracked,
        sent <- pluginSent, stopping <- pluginStopping, observed <- pluginObserved,
        stops <- pluginStops, comp <- pluginComp, seqno <- pluginSeqno,
        slots <- pluginSlots, events <- pluginEvents, result <- pluginResult,
        reader <- pluginReader
Scan == INSTANCE Backlog WITH
        Sources <- {"linear"}, Tickets <- {"a", "b"}, Queries <- {"all", "one"},
        Listing <- [q \in {"all", "one"} |-> IF q = "all" THEN <<"a", "b">> ELSE <<"b">>],
        Poller <- "poller", Users <- {"user"}, MaxPages <- 1, PollInterval <- 1,
        MaxBackoff <- 1, Advised <- 2, MaxSelections <- 1, MaxEvents <- 3,
        bindings <- scanBindings, checkpoints <- scanCheckpoints, rows <- scanRows,
        observations <- scanObservations, calls <- scanCalls, polling <- scanPolling,
        remote <- scanRemote, events <- scanEvents

commandVars ==
    <<commandRunner, commandCtx, commandHeld, commandJournal, commandProc,
      commandObserve, commandOutcome, commandStream, commandDone, commandQueue,
      commandResponse, commandCaller, commandFaults>>
pluginVars ==
    <<pluginReg, pluginStarts, pluginAnswers, pluginTurns, pluginChild, pluginFailure,
      pluginInbox, pluginHeard, pluginEnded, pluginObs, pluginTracked, pluginSent,
      pluginStopping, pluginObserved, pluginStops, pluginComp, pluginSeqno,
      pluginSlots, pluginEvents, pluginResult, pluginReader>>
scanVars ==
    <<scanBindings, scanCheckpoints, scanRows, scanObservations, scanCalls,
      scanPolling, scanRemote, scanEvents>>
vars == <<subject, commandVars, pluginVars, scanVars>>

Init ==
    /\ subject \in {"command", "plugin", "scan"}
    /\ Command!Init
    /\ Plugin!Init
    /\ Scan!Init


Next ==
    /\ UNCHANGED subject
    /\ \/ /\ subject = "command" /\ Command!Next
          /\ UNCHANGED <<pluginVars, scanVars>>
       \/ /\ subject = "plugin" /\ Plugin!Next
          /\ UNCHANGED <<commandVars, scanVars>>
       \/ /\ subject = "scan" /\ Scan!Next
          /\ UNCHANGED <<commandVars, pluginVars>>

\* None of the fair actions is enabled in an initial state, so the fairness of
\* a component says nothing about the behaviours of the others.
Spec == Init /\ [][Next]_vars /\ Command!Fairness /\ Plugin!Fairness /\ Scan!Fairness

-----------------------------------------------------------------------------

\* A command attempt (attemptexecution/runner.go, executor/command/command.go).
\* CommittedIsComplete: Commit is the sole success boundary: a committed
\* attempt's command ended by itself with status zero and uncut output, its
\* evidence is stored, and its start and both of its events were journalled.
\* CancelIsTrue: A caller of Cancel that got an answer may rely on it: the
\* process is gone; and where it was told that its request ended the command,
\* the attempt was not committed.
\* AttemptEnds: However the attempt goes, its command does not outlive its
\* timeout and its resources are given back.
CommandIsAccountedFor ==
    /\ [](subject = "command" =>
          Command!TypeOK /\ Command!CommittedIsComplete /\ Command!CancelIsTrue)
    /\ Command!AttemptEnds

\* An attempt of the Codex plugin (plugins/provider-codex/src/index.ts).
\* OneTurn: However often the start is repeated while the app server is being
\* started, at most one turn is begun, and every starter is answered with that
\* turn's handle or every one with its error.
\* KnownMeansGone: A result other than unknown, and a stop answered as graceful
\* or forced, mean that the app server is gone, so that no turn is left behind
\* that still edits the workspace.
\* SucceededIsWhole: An attempt that succeeded has a whole stream: sequences
\* without a gap or a repetition, with its structured output, and a host that
\* read to the end has read all of it - whatever stops, repeated completions
\* and exits came in between.
\* OneAnswerPerKey: Each response key writes at most one answer to the app
\* server, though responses are retried.
\* ResultIsFinal: The result, once set, is never replaced: not by the stop that
\* waited, not by the process that exits afterwards.
\* EndIsSettled: An active attempt that is stopped, whose turn ended or whose
\* client failed gets a result, and the host's stream ends.
PluginAttemptIsWhole ==
    /\ [](subject = "plugin" =>
          Plugin!TypeOK /\ Plugin!OneTurn /\ Plugin!KnownMeansGone /\
          Plugin!SucceededIsWhole /\ Plugin!OneAnswerPerKey)
    /\ Plugin!ResultIsFinal /\ Plugin!EndIsSettled

\* The cached backlog of a source (backlog/refresh.go, sqlite/backlog.go).
\* ScanIsContiguous: Whoever committed which page, across failures, changed
\* queries and exact reads, a scan has seen every ticket its query lists before
\* the cursor, all of them once it is complete, and never one the query does
\* not list.
\* RowsAreRetained: What a row shows is what is retained under its revision: a
\* source that reuses a revision for other content is refused, whichever of two
\* refreshes came first.
\* BackoffHolds: A failed source is not asked again before its time, whoever
\* asks and with whatever query.
\* OldSourceIsFrozen: A refresh that was under way when another source was
\* selected leaves what is cached of the old one alone.
\* ScanCompletes: A source that answers, and keeps to its revisions, is scanned
\* to the end again and again, whatever the users do in between.
BacklogIsScanned ==
    /\ [](subject = "scan" => Scan!TypeOK /\ Scan!ScanIsContiguous /\ Scan!RowsAreRetained)
    /\ Scan!BackoffHolds /\ Scan!OldSourceIsFrozen /\ Scan!ScanCompletes
=============================================================================
