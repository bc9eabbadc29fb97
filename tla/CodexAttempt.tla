---------------------------- MODULE CodexAttempt ----------------------------
(***************************************************************************)
(* One attempt of the Codex App Server adapter                             *)
(* (adapters/provider/codex/adapter.go): start or resume, the pump that    *)
(* reads the server's messages, interaction responses, and the two ways to *)
(* stop it, cancellation and timeout.  The server process is external: it  *)
(* may answer, fail or stay silent at every call.                          *)
(***************************************************************************)
EXTENDS Naturals, Sequences, FiniteSets

CONSTANTS Requests,     \* IDs of server requests that ask for a response
          Keys,         \* idempotency keys of callers
          MaxMessages   \* bound on what the server sends before the turn ends

VARIABLES launch,       \* progress of StartAttempt or ResumeAttempt
          process,      \* the owned App Server process
          turn,         \* the turn as the server sees it
          wire,         \* client.Messages(): what the pump has not read
          pump,         \* the goroutine pump and, in Shutdown, its next result
          stop,         \* codexAttempt.stop and the progress of executeStop
          interrupted,  \* the channel of that name is closed
          result,       \* codexAttempt.result
          requests,     \* codexAttempt.requests, pending interactions
          responses,    \* codexAttempt.responses
          written,      \* responses the server has received, per request
          told,         \* answers of CancelAttempt, with the result at the time
          panicked      \* a nil error was dereferenced

vars == <<launch, process, turn, wire, pump, stop, interrupted, result,
          requests, responses, written, told, panicked>>
attemptVars == <<launch, stop, interrupted, requests, responses, written, told, panicked>>

None == "none"
Results == {"succeeded", "failed", "interrupted", "cancelled", "unknown"}
Terminal == result # None

Init ==
    /\ launch = [op |-> None, at |-> "idle"]
    /\ process = "absent" /\ turn = "idle" /\ wire = <<>>
    /\ pump = [at |-> "off", next |-> None]
    /\ stop = [cause |-> None, key |-> None, at |-> "off", answer |-> None]
    /\ interrupted = FALSE /\ result = None
    /\ requests = {} /\ responses = [r \in Requests |-> None]
    /\ written = [r \in Requests |-> 0]
    /\ told = {} /\ panicked = FALSE

\* (A mutant of Completed.)
CompletedLast(r) == r
\* (A mutant of Completed.)
CompletedRaw(r) == IF Terminal THEN "conflict" ELSE r
\* complete: the first result stays.
Completed(r) == IF Terminal THEN result ELSE r

-----------------------------------------------------------------------------
(* Start and resume.                                                       *)

\* Requests that pass validation; any other is refused and changes nothing.
Operations == {"start", "resume"}

\* The attempt is registered before the process exists; a repeated request
\* waits for this one, a different one is refused.
Begin(op) ==
    /\ launch.at = "idle"
    /\ launch' = [op |-> op, at |-> "client"]
    /\ UNCHANGED <<process, turn, wire, pump, stop, interrupted, result,
                   requests, responses, written, told, panicked>>

\* startErr is recorded for ever and the process killed or shut down; errors of
\* that are ignored, so it may live on.
FailLaunch(p) ==
    /\ launch' = [launch EXCEPT !.at = "failed"]
    /\ process' = p
    /\ UNCHANGED <<turn, wire, pump, stop, interrupted, result,
                   requests, responses, written, told, panicked>>

\* factory; the transport-selection evidence of a start.
OpenClient ==
    /\ launch.at = "client"
    /\ \/ launch' = [launch EXCEPT !.at = "thread"] /\ process' = "up"
          /\ UNCHANGED <<turn, wire, pump, stop, interrupted, result,
                         requests, responses, written, told, panicked>>
       \/ FailLaunch("absent")
       \/ \E p \in {"gone", "up"} : FailLaunch(p)

\* StartThread and StartTurn; the handle is published and the pump started.
StartTurn ==
    /\ launch.at = "thread" /\ launch.op = "start"
    /\ \/ /\ process = "up"
          /\ launch' = [launch EXCEPT !.at = "ready"]
          /\ turn' = "inProgress"
          /\ pump' = [pump EXCEPT !.at = "reading"]
          /\ UNCHANGED <<process, wire, stop, interrupted, result,
                         requests, responses, written, told, panicked>>
       \/ \E p \in {"gone", process} : FailLaunch(p)

\* ResumeThread must return the recorded thread with the recorded turn active.
ResumeThread(active) ==
    /\ launch.at = "thread" /\ launch.op = "resume"
    /\ IF process = "up" /\ active
       THEN /\ launch' = [launch EXCEPT !.at = "ready"]
            /\ turn' = "inProgress"
            /\ pump' = [pump EXCEPT !.at = "reading"]
            /\ UNCHANGED <<process, wire, stop, interrupted, result,
                           requests, responses, written, told, panicked>>
       ELSE \E p \in {"gone", process} : FailLaunch(p)

-----------------------------------------------------------------------------
(* The server (external).                                                  *)

Send(m) ==
    /\ process = "up" /\ turn = "inProgress"
    /\ wire' = Append(wire, m)
    /\ UNCHANGED <<attemptVars, process, pump, result>>

ServerAsks(r) == Len(wire) < MaxMessages /\ Send(<<"request", r>>) /\ UNCHANGED turn
ServerResolves(r) == Len(wire) < MaxMessages /\ Send(<<"resolved", r>>) /\ UNCHANGED turn
ServerCallsTool(own) ==
    /\ Len(wire) < MaxMessages
    /\ Send(<<IF own THEN "tool" ELSE "foreignTool", None>>) /\ UNCHANGED turn
ServerDrifts == Len(wire) < MaxMessages /\ Send(<<"malformed", None>>) /\ UNCHANGED turn
TurnEnds(how) == Send(<<how, None>>) /\ turn' = "over"
ServerDies ==
    /\ process = "up" /\ process' = "gone"
    /\ UNCHANGED <<attemptVars, turn, wire, pump, result>>

-----------------------------------------------------------------------------
(* The pump.                                                               *)

Message == wire[1]
\* Shutdown takes time and may fail; the result is known before it starts.
PumpShutsDown(next) == pump' = [at |-> "shutdown", next |-> next]
Reading == pump.at = "reading" /\ wire # <<>> /\ ~panicked /\ wire' = Tail(wire)
PumpFrame == UNCHANGED <<launch, process, turn, stop, told, result>>

\* trackInteraction: a second request with the ID of an answered one is refused.
ReadRequest ==
    /\ Reading /\ Message[1] = "request"
    /\ LET r == Message[2] IN
       IF responses[r] # None
       THEN PumpShutsDown("failed") /\ UNCHANGED requests
       ELSE requests' = requests \cup {r} /\ UNCHANGED pump
    /\ UNCHANGED <<interrupted, responses, written, panicked>> /\ PumpFrame

ReadResolved ==
    /\ Reading /\ Message[1] = "resolved"
    /\ requests' = requests \ {Message[2]}
    /\ UNCHANGED <<pump, interrupted, responses, written, panicked>> /\ PumpFrame

\* A tool call is answered in the pump; the answer may fail to be written.
ReadToolCall ==
    /\ Reading /\ Message[1] = "tool"
    /\ \/ process = "up" /\ UNCHANGED pump
       \/ PumpShutsDown("failed")
    /\ UNCHANGED <<requests, interrupted, responses, written, panicked>> /\ PumpFrame

\* failPump is called with a nil cause and reads cause.Error().
ReadForeignTool ==
    /\ Reading /\ Message[1] = "foreignTool"
    /\ panicked' = TRUE
    /\ UNCHANGED <<pump, requests, interrupted, responses, written>> /\ PumpFrame

\* Normalisation, evidence or tracking failed: failPump.
ReadMalformed ==
    /\ Reading /\ Message[1] = "malformed"
    /\ PumpShutsDown("failed")
    /\ UNCHANGED <<requests, interrupted, responses, written, panicked>> /\ PumpFrame

\* observeEvent on turn.interrupted: a stop in progress takes over.
ReadInterrupted ==
    /\ Reading /\ Message[1] = "interrupted"
    /\ IF stop.cause # None
       THEN interrupted' = TRUE /\ pump' = [pump EXCEPT !.at = "done"]
       ELSE PumpShutsDown("interrupted") /\ UNCHANGED interrupted
    /\ UNCHANGED <<requests, responses, written, panicked>> /\ PumpFrame

\* finishTurn: a turn that completed with valid output is a success, if the
\* process is released; every other end is a failure.
FinishTurn ==
    /\ Reading /\ Message[1] \in {"completed", "incomplete"}
    /\ \E next \in (IF Message[1] = "completed" THEN {"succeeded", "failed"} ELSE {"failed"}) :
          PumpShutsDown(next)
    /\ UNCHANGED <<requests, interrupted, responses, written, panicked>> /\ PumpFrame

\* (A mutant of AfterShutdown.)
AfterShutdownTrusting(next, released) == next
\* Success and interruption are reported only of a released process.
AfterShutdown(next, released) ==
    IF next = "failed" \/ released THEN next ELSE "unknown"

PumpEnds(r) ==
    /\ pump' = [pump EXCEPT !.at = "done"]
    /\ result' = Completed(r)
    /\ UNCHANGED <<attemptVars, turn, wire>>

\* shutdownClient returned: every thread unsubscribed, stdin closed, the
\* process awaited; or an error, after which it may still run.
PumpFinishes ==
    /\ pump.at = "shutdown"
    /\ \/ process \in {"up", "gone"} /\ process' = "gone" /\ PumpEnds(AfterShutdown(pump.next, TRUE))
       \/ UNCHANGED process /\ PumpEnds(AfterShutdown(pump.next, FALSE))

\* Messages() is closed.  Without a stop this is a failure of the attempt.
PumpAtEOF ==
    /\ pump.at = "reading" /\ wire = <<>> /\ process # "up" /\ ~panicked
    /\ pump' = IF Terminal \/ stop.cause # None THEN [pump EXCEPT !.at = "done"]
               ELSE [at |-> "shutdown", next |-> "failed"]
    /\ UNCHANGED <<attemptVars, process, turn, wire, result>>

-----------------------------------------------------------------------------
(* Interaction responses.                                                  *)

\* (A mutant of Respond.)
RespondUnclaimed(r, k, delivered) ==
    /\ launch.at = "ready" /\ ~panicked /\ r \in requests /\ written[r] < 2
    /\ responses' = [responses EXCEPT ![r] = k]
    /\ written' = [written EXCEPT ![r] = @ + (IF delivered THEN 1 ELSE 0)]
    /\ delivered => process = "up"
    /\ UNCHANGED <<launch, process, turn, wire, pump, stop, interrupted, result,
                   requests, told, panicked>>
\* A response is taken for a pending request of a started attempt that nobody has
\* answered yet; its kind must suit the request.
Answerable(r) == launch.at = "ready" /\ ~panicked /\ responses[r] = None /\ r \in requests
\* The first response to a request claims it; a repeat under the same key is
\* answered from the record, another is refused.
Respond(r, k, delivered) ==
    /\ Answerable(r)
    /\ responses' = [responses EXCEPT ![r] = k]
    /\ written' = [written EXCEPT ![r] = @ + (IF delivered THEN 1 ELSE 0)]
    /\ delivered => process = "up"
    /\ UNCHANGED <<launch, process, turn, wire, pump, stop, interrupted, result,
                   requests, told, panicked>>

-----------------------------------------------------------------------------
(* Cancellation and timeout.                                               *)

Answer(d) == told' = told \cup {[disposition |-> d, result |-> result]}

\* CancelAttempt with beginStop.
Cancel(k) ==
    /\ launch.at = "ready" /\ ~panicked
    /\ \/ /\ stop.cause = None /\ ~Terminal
          /\ stop' = [cause |-> "cancelled", key |-> k, at |-> "interrupting", answer |-> None]
          /\ UNCHANGED told
       \/ /\ (stop.cause = None /\ Terminal) \/ stop.cause = "timeout"
          /\ Answer("already_terminal")
          /\ UNCHANGED stop
       \/ /\ stop.cause = "cancelled" /\ stop.key = k /\ stop.at = "ready"
          /\ Answer(stop.answer)
          /\ UNCHANGED stop
    /\ UNCHANGED <<launch, process, turn, wire, pump, interrupted, result,
                   requests, responses, written, panicked>>

\* enforceTimeout; a resumed attempt has no timeout.
Timeout ==
    /\ launch = [op |-> "start", at |-> "ready"] /\ ~panicked
    /\ stop.cause = None /\ ~Terminal
    /\ stop' = [cause |-> "timeout", key |-> None, at |-> "interrupting", answer |-> None]
    /\ UNCHANGED <<launch, process, turn, wire, pump, interrupted, result,
                   requests, responses, written, told, panicked>>

StopTo(at) == stop' = [stop EXCEPT !.at = at]
StopFrame == UNCHANGED <<launch, turn, wire, pump, interrupted, requests,
                         responses, written, told, panicked>>

\* (A mutant of FinishStop.)
FinishStopEarly(answer, r) ==
    /\ stop' = [stop EXCEPT !.at = "ready", !.answer = answer]
    /\ UNCHANGED result
    /\ StopFrame
\* executeStop ends: its result is completed, then the callers are released.
FinishStop(answer, r) ==
    /\ stop' = [stop EXCEPT !.at = "ready", !.answer = answer]
    /\ result' = Completed(r)
    /\ StopFrame

StoppedResult == IF stop.cause = "timeout" THEN "interrupted" ELSE "cancelled"

\* InterruptTurn returned or ran into the deadline.
Interrupt ==
    /\ stop.at = "interrupting" /\ ~panicked
    /\ StopTo("waiting")
    /\ UNCHANGED <<process, result>> /\ StopFrame

\* waitForStopObservation: any of the ready channels, or the deadline.
Observe ==
    /\ stop.at = "waiting" /\ ~panicked /\ UNCHANGED process
    /\ \/ Terminal /\ FinishStop("graceful", result)
       \/ interrupted /\ StopTo("shutdown") /\ UNCHANGED result /\ StopFrame
       \/ StopTo("killing") /\ UNCHANGED result /\ StopFrame

StopShutsDown ==
    /\ stop.at = "shutdown" /\ ~panicked
    /\ \/ process' = "gone" /\ FinishStop("graceful", StoppedResult)
       \/ StopTo("killing") /\ UNCHANGED <<process, result>> /\ StopFrame

Kill ==
    /\ stop.at = "killing" /\ ~panicked
    /\ \/ process' = "gone" /\ StopTo("draining") /\ UNCHANGED result /\ StopFrame
       \/ UNCHANGED process /\ FinishStop("uncertain", "unknown")

\* The pump has ended or the wait for it is over; recordStopOutcome may fail.
Drain ==
    /\ stop.at = "draining" /\ ~panicked /\ UNCHANGED process
    /\ \/ pump.at = "done" /\ FinishStop("forced", StoppedResult)
       \/ FinishStop("uncertain", "unknown")

Next ==
    \/ \E op \in Operations : Begin(op)
    \/ OpenClient \/ StartTurn \/ \E a \in BOOLEAN : ResumeThread(a)
    \/ \E r \in Requests : ServerAsks(r) \/ ServerResolves(r)
    \/ \E own \in BOOLEAN : ServerCallsTool(own)
    \/ ServerDrifts \/ ServerDies
    \/ \E how \in {"completed", "incomplete", "interrupted"} : TurnEnds(how)
    \/ ReadRequest \/ ReadResolved \/ ReadToolCall \/ ReadForeignTool
    \/ ReadMalformed \/ ReadInterrupted \/ FinishTurn \/ PumpFinishes \/ PumpAtEOF
    \/ \E r \in Requests, k \in Keys, d \in BOOLEAN : Respond(r, k, d)
    \/ \E k \in Keys : Cancel(k)
    \/ Timeout \/ Interrupt \/ Observe \/ StopShutsDown \/ Kill \/ Drain

\* Calls and waits of executeStop have deadlines, and goroutines run on.  The
\* server owes nothing.
Fairness ==
    /\ WF_vars(Interrupt) /\ WF_vars(Observe) /\ WF_vars(StopShutsDown)
    /\ WF_vars(Kill) /\ WF_vars(Drain)

Spec == Init /\ [][Next]_vars /\ Fairness

-----------------------------------------------------------------------------
TypeOK ==
    /\ launch \in [op : Operations \cup {None},
                   at : {"idle", "client", "thread", "ready", "failed"}]
    /\ process \in {"absent", "up", "gone"}
    /\ turn \in {"idle", "inProgress", "over"}
    /\ Len(wire) <= MaxMessages + 1
    /\ pump \in [at : {"off", "reading", "shutdown", "done"}, next : Results \cup {None}]
    /\ stop \in [cause : {None, "cancelled", "timeout"}, key : Keys \cup {None},
                 at : {"off", "interrupting", "waiting", "shutdown", "killing", "draining", "ready"},
                 answer : {None, "graceful", "forced", "uncertain"}]
    /\ interrupted \in BOOLEAN /\ panicked \in BOOLEAN
    /\ result \in Results \cup {None}
    /\ requests \subseteq Requests
    /\ responses \in [Requests -> Keys \cup {None}]
    /\ written \in [Requests -> 0..2]

\* An attempt reported as succeeded, cancelled or interrupted has no process
\* left, whichever of pump, cancellation and timeout reported it.
ReportedIsReleased ==
    result \in {"succeeded", "cancelled", "interrupted"} => process # "up"

\* Whatever the pump and the stop do concurrently, the first result stays.
ResultStays == [][result # None => result' = result]_vars

\* A request of the server is answered at most once.
AnsweredOnce == \A r \in Requests : written[r] <= 1

\* A caller of CancelAttempt that was told how the attempt ended finds it ended.
CancelTellsEnd ==
    \A t \in told : t.disposition \in {"graceful", "forced"} => t.result # None

\* A caller is told already_terminal only of an attempt that has a result.
AlreadyTerminal ==
    \A t \in told : t.disposition = "already_terminal" => t.result # None

\* Cancellation and timeout end with a result although the server may ignore
\* the interruption, die, or survive the kill.
StopEnds == (stop.at # "off") ~> (panicked \/ (stop.at = "ready" /\ Terminal))
=============================================================================
