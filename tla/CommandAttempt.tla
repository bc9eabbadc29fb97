--------------------------- MODULE CommandAttempt ---------------------------
(***************************************************************************)
(* One node attempt by the attempt runner (core/attemptexecution) with the *)
(* command executor (adapters/executor/command): the runner's journalled   *)
(* lifecycle, the process, the goroutine that observes it, its event       *)
(* stream, and callers of Cancel.  Any journal call may fail, the context  *)
(* may be cancelled at any time, and the process ends by itself, by the    *)
(* timeout, by too much output or by a signal.                             *)
(***************************************************************************)
EXTENDS Naturals, Sequences, FiniteSets, SequencesExt

CONSTANTS Keys,         \* idempotency keys of the Cancel calls
          MaxFaults     \* how many journal or evidence writes fail

VARIABLES runner,       \* where Run is
          ctx,          \* its context was cancelled
          held,         \* "none", "held" or the outcome the resources were released with
          journal,      \* [acquired, started, events, end]
          proc,         \* [at, code, over, json]: over = more output than the limit
          observe,      \* where the observing goroutine is
          outcome,      \* [completion, disposition, asked: whose Cancel, evidence]
          stream,       \* the event channel: [items, closed]
          done,         \* execution.done is closed
          queue,        \* the cancel channel, of capacity one
          response,     \* the response channels that hold an answer
          caller,       \* key -> where a Cancel call with it is, or its remembered answer
          faults

vars == <<runner, ctx, held, journal, proc, observe, outcome, stream, done, queue, response, caller, faults>>
runnerSide == <<runner, held, journal>>
processSide == <<proc, observe, outcome, stream, done, queue, response>>

Init ==
    /\ runner = "idle" /\ ctx = "live" /\ held = "none"
    /\ journal = [acquired |-> FALSE, started |-> FALSE, events |-> <<>>, end |-> "none"]
    /\ proc = [at |-> "none", code |-> "none", over |-> FALSE, json |-> FALSE]
    /\ observe = "none" /\ outcome = [completion |-> "none", disposition |-> "none", asked |-> "none", evidence |-> "none"]
    /\ stream = [items |-> <<>>, closed |-> FALSE] /\ done = FALSE
    /\ queue = <<>> /\ response = [k \in Keys |-> "none"] /\ caller = [k \in Keys |-> "none"] /\ faults = 0

Fault == faults < MaxFaults /\ faults' = faults + 1
Cancelled == ctx = "cancelled"

-----------------------------------------------------------------------------
(* Run, one journal call after the other.  A call with a cancelled context   *)
(* fails.                                                                    *)

\* recordFailure, with a context that cannot be cancelled.
Records == journal' = [journal EXCEPT !.end = IF Cancelled THEN "interrupted" ELSE "failed"]
Reject == runner' = "release" /\ \/ Records /\ UNCHANGED faults
                                 \/ UNCHANGED journal /\ Fault
\* A call that fails because of the context, or because the journal refuses or
\* what it answers (allocation, context, reference, event, result) is not valid.
Attempt(success) ==
    \/ ~Cancelled /\ success /\ UNCHANGED faults
    \/ Cancelled /\ Reject
    \/ ~Cancelled /\ faults < MaxFaults /\ faults' = faults + 1 /\ runner' = "release" /\ Records

Acquire ==
    /\ runner = "idle" /\ runner' = "acquired" /\ held' = "held"
    /\ UNCHANGED <<ctx, journal, processSide, caller, faults>>
RecordAcquired ==
    /\ runner = "acquired"
    /\ Attempt(runner' = "context" /\ journal' = [journal EXCEPT !.acquired = TRUE])
    /\ UNCHANGED <<ctx, held, processSide, caller>>
\* invoke: the context is frozen, the executor resolved, the process started.
\* A context cancelled by now starts nothing.
Invoke ==
    /\ runner = "context"
    /\ Attempt(runner' = "starting" /\ UNCHANGED journal)
    /\ IF runner' = "starting"
       THEN /\ proc' = [proc EXCEPT !.at = "running"] /\ observe' = "select"
            /\ stream' = [stream EXCEPT !.items = <<"1">>]
       ELSE UNCHANGED <<proc, observe, stream>>
    /\ UNCHANGED <<ctx, held, outcome, done, queue, response, caller>>
RecordStarted ==
    /\ runner = "starting"
    /\ Attempt(runner' = "stream" /\ journal' = [journal EXCEPT !.started = TRUE])
    /\ UNCHANGED <<ctx, held, processSide, caller>>
\* stream: every event is journalled before the next one is received.  Receive
\* does not watch the context.
Receive ==
    /\ runner = "stream" /\ stream.items # <<>>
    /\ LET cursor == Head(stream.items) IN
       IF cursor \in ToSet(journal.events) THEN Reject
       ELSE Attempt(runner' = "stream" /\ journal' = [journal EXCEPT !.events = Append(@, cursor)])
    /\ stream' = [stream EXCEPT !.items = Tail(@)]
    /\ UNCHANGED <<ctx, held, proc, observe, outcome, done, queue, response, caller>>
EndOfStream ==
    /\ runner = "stream" /\ stream.items = <<>> /\ stream.closed
    /\ runner' = "wait"
    /\ UNCHANGED <<ctx, held, journal, processSide, caller, faults>>
\* Wait, and what it takes of the outcome (waitOutcome): the evidence is stored
\* and the command succeeded with a candidate.
Usable == outcome.evidence = "stored" /\ outcome.completion = "succeeded" /\ proc.json
Wait ==
    /\ runner = "wait" /\ (Cancelled \/ done)
    /\ \/ Cancelled /\ Reject
       \/ done /\ IF Usable THEN runner' = "validate" /\ UNCHANGED <<journal, faults>> ELSE Reject
    /\ UNCHANGED <<ctx, held, processSide, caller>>
\* The validator accepts the candidate or not.
Validate ==
    /\ runner = "validate"
    /\ \/ Attempt(runner' = "commit" /\ UNCHANGED journal)
       \/ Reject
    /\ UNCHANGED <<ctx, held, processSide, caller>>
\* Commit: the one place where an attempt succeeds.
Commit ==
    /\ runner = "commit"
    /\ Attempt(runner' = "committed" /\ journal' = [journal EXCEPT !.end = "committed"])
    /\ UNCHANGED <<ctx, held, processSide, caller>>
\* The deferred Release.
Release ==
    /\ runner \in {"release", "committed"} /\ runner' = "done"
    /\ held' = IF runner = "committed" THEN "committed" ELSE IF Cancelled THEN "interrupted" ELSE "failed"
    /\ UNCHANGED <<ctx, journal, processSide, caller, faults>>
CancelContext ==
    /\ ctx = "live" /\ runner # "done" /\ ctx' = "cancelled"
    /\ UNCHANGED <<runnerSide, processSide, caller, faults>>

-----------------------------------------------------------------------------
(* The process (external).                                                   *)
Exit ==
    /\ proc.at = "running"
    /\ \E c \in {"zero", "nonzero"}, j \in BOOLEAN : proc' = [proc EXCEPT !.at = "gone", !.code = c, !.json = j]
    /\ UNCHANGED <<runnerSide, ctx, observe, outcome, stream, done, queue, response, caller, faults>>
\* boundedCapture.Write past the limit.
Overflow ==
    /\ proc.at = "running" /\ ~proc.over /\ proc' = [proc EXCEPT !.over = TRUE]
    /\ UNCHANGED <<runnerSide, ctx, observe, outcome, stream, done, queue, response, caller, faults>>

-----------------------------------------------------------------------------
(* observe: one select, then the process is waited for.                      *)
naturalCompletion == IF proc.code = "zero" THEN "succeeded" ELSE "failed"
\* Kill: the process group is gone afterwards.  One that is gone already may
\* make it fail (its job was closed with it).
Signalled == IF proc.at = "running" THEN [proc EXCEPT !.at = "gone", !.code = "signal"] ELSE proc
Kill(completion, key) ==
    /\ proc' = Signalled
    /\ \/ outcome' = [outcome EXCEPT !.completion = completion, !.disposition = "forced", !.asked = key]
       \/ /\ proc.at = "gone"
          /\ outcome' = [outcome EXCEPT !.completion = "uncertain", !.disposition = "uncertain", !.asked = key]
KillFor(completion) ==
    /\ observe = "select" /\ Kill(completion, "none") /\ observe' = "reaped"
    /\ UNCHANGED <<runnerSide, ctx, stream, done, queue, response, caller, faults>>
ObserveExit ==
    /\ observe = "select" /\ proc.at = "gone" /\ observe' = "reaped"
    /\ outcome' = [outcome EXCEPT !.completion = naturalCompletion]
    /\ UNCHANGED <<runnerSide, ctx, proc, stream, done, queue, response, caller, faults>>
\* (A mutant of ObserveTimeout.)
ObserveTimeoutOnlyOnCancel == Cancelled /\ KillFor("timed_out")
ObserveTimeout == KillFor("timed_out")
ObserveContext == Cancelled /\ KillFor("cancelled")
ObserveOverflow == proc.over /\ KillFor("output_limited")
\* (A mutant of ObserveCancel: answered before the process has ended.)
ObserveCancelEarly ==
    /\ observe = "select" /\ queue # <<>> /\ queue' = <<>>
    /\ outcome' = [outcome EXCEPT !.completion = "cancelled", !.asked = Head(queue)]
    /\ response' = [response EXCEPT ![Head(queue)] = "graceful"]
    /\ observe' = "grace" /\ UNCHANGED proc
    /\ UNCHANGED <<runnerSide, ctx, stream, done, caller, faults>>
\* A request to cancel: killed at once without a grace period, otherwise asked
\* to end first.
ObserveCancel ==
    /\ observe = "select" /\ queue # <<>> /\ queue' = <<>>
    /\ \/ Kill("cancelled", Head(queue)) /\ observe' = "reaped"
       \/ /\ outcome' = [outcome EXCEPT !.completion = "cancelled", !.asked = Head(queue)]
          /\ observe' = "grace" /\ UNCHANGED proc
    /\ UNCHANGED <<runnerSide, ctx, stream, done, response, caller, faults>>
GraceEnds ==
    /\ observe = "grace" /\ observe' = "reaped"
    /\ \/ proc.at = "gone" /\ outcome' = [outcome EXCEPT !.disposition = "graceful"] /\ UNCHANGED proc
       \/ Kill("cancelled", outcome.asked)
    /\ UNCHANGED <<runnerSide, ctx, stream, done, queue, response, caller, faults>>
\* (A mutant of Classified.)
ClassifiedAsSelected == outcome.completion
\* What was captured is looked at once more: a command whose output was cut is
\* not one that ended by itself.
Classified ==
    IF proc.over /\ outcome.completion \in {"succeeded", "failed"} THEN "output_limited" ELSE outcome.completion
\* recordEvidence, with a context of its own.
RecordEvidence ==
    /\ observe = "reaped" /\ observe' = "recorded"
    /\ \/ outcome' = [outcome EXCEPT !.completion = Classified, !.evidence = "stored"] /\ UNCHANGED faults
       \/ outcome' = [outcome EXCEPT !.completion = Classified, !.evidence = "failed"] /\ Fault
    /\ UNCHANGED <<runnerSide, ctx, proc, stream, done, queue, response, caller>>
\* command.completed, the end of the stream, the answer to Cancel, then done.
Complete ==
    /\ observe = "recorded" /\ observe' = "answer"
    /\ stream' = [items |-> Append(stream.items, "2"), closed |-> TRUE]
    /\ UNCHANGED <<runnerSide, ctx, proc, outcome, done, queue, response, caller, faults>>
Answer ==
    /\ observe = "answer" /\ observe' = "done"
    /\ response' = [k \in Keys |-> IF k = outcome.asked THEN outcome.disposition ELSE response[k]]
    /\ UNCHANGED <<runnerSide, ctx, proc, outcome, stream, done, queue, caller, faults>>
CloseDone ==
    /\ observe = "done" /\ observe' = "closed" /\ done' = TRUE
    /\ UNCHANGED <<runnerSide, ctx, proc, outcome, stream, queue, response, caller, faults>>

-----------------------------------------------------------------------------
(* Cancel: one call at a time (cancelMu); an answer is remembered by its key.*)
InCancel == \E k \in Keys : caller[k] \in {"called", "sent"}
Call(k) ==
    /\ observe # "none" /\ ~InCancel /\ caller[k] \in {"none", "left"}
    /\ caller' = [caller EXCEPT ![k] = "called"]
    /\ UNCHANGED <<runnerSide, ctx, processSide, faults>>
Remember(k, disposition) == caller' = [caller EXCEPT ![k] = disposition]
Send(k) ==
    /\ caller[k] = "called"
    /\ \/ done /\ Remember(k, "already_terminal") /\ UNCHANGED queue
       \/ queue = <<>> /\ queue' = <<k>> /\ caller' = [caller EXCEPT ![k] = "sent"]
    /\ UNCHANGED <<runnerSide, ctx, proc, observe, outcome, stream, done, response, faults>>
\* With an answer and a closed channel at once, either is taken.
Await(k) ==
    /\ caller[k] = "sent"
    /\ \/ response[k] # "none" /\ Remember(k, response[k])
       \/ done /\ Remember(k, "already_terminal")
    /\ UNCHANGED <<runnerSide, ctx, processSide, faults>>
\* The caller's own context ends; the request stays in the channel.
GiveUp(k) ==
    /\ caller[k] \in {"called", "sent"} /\ caller' = [caller EXCEPT ![k] = "left"]
    /\ UNCHANGED <<runnerSide, ctx, processSide, faults>>

Observes ==
    \/ ObserveExit \/ ObserveTimeout \/ ObserveContext \/ ObserveOverflow \/ ObserveCancel
    \/ GraceEnds \/ RecordEvidence \/ Complete \/ Answer \/ CloseDone
Runs ==
    \/ RecordAcquired \/ Invoke \/ RecordStarted \/ Receive \/ EndOfStream
    \/ Wait \/ Validate \/ Commit \/ Release
Next ==
    \/ Acquire \/ Runs \/ CancelContext \/ Exit \/ Overflow \/ Observes
    \/ \E k \in Keys : Call(k) \/ Send(k) \/ Await(k) \/ GiveUp(k)

\* Both goroutines go on, the timer fires, and so does a caller of Cancel.  A
\* process need not end by itself.
Fairness == WF_vars(Runs) /\ WF_vars(Observes) /\ \A k \in Keys : WF_vars(Send(k) \/ Await(k))
Spec == Init /\ [][Next]_vars /\ Fairness

-----------------------------------------------------------------------------
Dispositions == {"graceful", "forced", "uncertain", "already_terminal"}
Completions == {"none", "succeeded", "failed", "timed_out", "cancelled", "output_limited", "uncertain"}
TypeOK ==
    /\ runner \in {"idle", "acquired", "context", "starting", "stream", "wait", "validate", "commit",
                   "committed", "release", "done"}
    /\ ctx \in {"live", "cancelled"} /\ held \in {"none", "held", "committed", "interrupted", "failed"}
    /\ journal \in [acquired : BOOLEAN, started : BOOLEAN, events : {<<>>, <<"1">>, <<"1", "2">>},
                    end : {"none", "committed", "failed", "interrupted"}]
    /\ proc \in [at : {"none", "running", "gone"}, code : {"none", "zero", "nonzero", "signal"},
                 over : BOOLEAN, json : BOOLEAN]
    /\ observe \in {"none", "select", "grace", "reaped", "recorded", "answer", "done", "closed"}
    /\ outcome \in [completion : Completions, disposition : Dispositions \cup {"none"}, asked : Keys \cup {"none"},
                    evidence : {"none", "stored", "failed"}]
    /\ stream.items \in {<<>>, <<"1">>, <<"2">>, <<"1", "2">>} /\ stream.closed \in BOOLEAN /\ done \in BOOLEAN
    /\ queue \in {<<>>} \cup {<<k>> : k \in Keys}
    /\ response \in [Keys -> Dispositions \cup {"none"}]
    /\ caller \in [Keys -> Dispositions \cup {"none", "called", "sent", "left"}] /\ faults \in 0..MaxFaults

\* Commit is the sole success boundary: a committed attempt's command ended by
\* itself with status zero and uncut output, its evidence is stored, and its
\* start and both of its events were journalled.
CommittedIsComplete ==
    journal.end = "committed" =>
        /\ proc.at = "gone" /\ proc.code = "zero" /\ ~proc.over
        /\ outcome.completion = "succeeded" /\ outcome.evidence = "stored"
        /\ journal.acquired /\ journal.started /\ journal.events = <<"1", "2">>

\* A caller of Cancel that got an answer may rely on it: the process is gone;
\* and where it was told that its request ended the command, the attempt was
\* not committed.
CancelIsTrue ==
    \A k \in Keys :
        /\ caller[k] \in Dispositions => proc.at = "gone"
        /\ caller[k] \in {"graceful", "forced"} => journal.end # "committed" /\ outcome.completion = "cancelled"

\* However the attempt goes, its command does not outlive its timeout and its
\* resources are given back.
AttemptEnds == (runner # "idle") ~> (runner = "done" /\ held # "held" /\ proc.at # "running")

\* Resources that were released are used by no process.  (The code does not
\* promise it: an attempt rejected by its journal leaves its command running.)
ReleasedIsUnused == runner = "done" => proc.at # "running"
=============================================================================
