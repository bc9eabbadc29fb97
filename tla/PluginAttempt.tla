--------------------------- MODULE PluginAttempt ---------------------------
(***************************************************************************)
(* An attempt inside the Codex provider plugin                             *)
(* (plugins/provider-codex/src/index.ts), as its host sees it through      *)
(* adapters/provider/typescript.  The plugin is one JavaScript thread: a   *)
(* step runs from one await to the next.  What interleaves is the chain    *)
(* that observes the app server's messages one after the other, the        *)
(* operations that stop the attempt, the completion that ends it, repeated *)
(* starts and responses, and the host's reader of the event stream.        *)
(*                                                                         *)
(* A message of the app server is its kind.  Every event waits for the     *)
(* host to keep its evidence, which may fail.                              *)
(***************************************************************************)
EXTENDS Integers, Sequences, FiniteSets, SequencesExt

CONSTANTS
    MaxStarts,    \* bound on the calls of provider.start for the attempt, all with one request
    Stoppers,     \* what may stop it: "cancel" and "timeout"
    Keys,         \* idempotency keys of responses
    Kinds,        \* the messages the app server may send
    BatchLimit,   \* events in one answer to provider.events
    MaxMessages   \* bound on the app server's messages

VARIABLES
    reg,       \* the attempt: "none", how far begin came, "active" or "rejected"
    starts,    \* how often the attempt was started
    answers,   \* what the starters were answered
    turns,     \* turn/start requests sent
    child,     \* the app server process: "none", "up" or "exited"
    failure,   \* the client met an error: it takes no further call
    inbox,     \* messages received and not yet observed
    heard,     \* number of messages received
    ended,     \* the app server's turn has ended
    obs,       \* what the chain is doing, and with which message
    tracked,   \* an interaction waits for its response
    sent,      \* for each key, the responses written to the app server
    stopping,  \* the cause of the stop, or "none"
    observed,  \* the interrupted turn was seen
    stops,     \* for each stopper, how far it came
    comp,      \* the completion: its phase and the result it will set
    seqno,     \* sequence of the latest event
    slots,     \* events that wait for their evidence, of the chain and of the completion
    events,    \* the events of the attempt
    result,    \* the attempt's result, or "none"
    reader     \* the host's stream: its phase, cursor and what it was given

vars == <<reg, starts, answers, turns, child, failure, inbox, heard, ended, obs, tracked, sent, stopping, observed,
          stops, comp, seqno, slots, events, result, reader>>
beginning == <<reg, starts, answers, turns>>
server == <<child, failure, inbox, heard, ended>>
interactions == <<tracked, sent>>
ending == <<stopping, observed, stops, comp, result>>
stream == <<seqno, slots, events>>

None == "none"
Quiet == [pc |-> "idle", msg |-> None]
Empty == [seq |-> 0, kind |-> None]
Phases == {"client", "thread", "turn"}

Init ==
    /\ reg = None
    /\ starts = 0 /\ answers = {} /\ turns = 0
    /\ child = None /\ failure = FALSE
    /\ inbox = <<>> /\ heard = 0 /\ ended = FALSE
    /\ obs = Quiet
    /\ tracked = FALSE /\ sent = [k \in Keys |-> 0]
    /\ stopping = None /\ observed = FALSE
    /\ stops = [s \in Stoppers |-> "idle"]
    /\ comp = [pc |-> None, kind |-> None]
    /\ seqno = 0 /\ slots = [w \in {"chain", "completion"} |-> Empty] /\ events = <<>>
    /\ result = None
    /\ reader = [pc |-> "reading", after |-> 0, got |-> 0]

-----------------------------------------------------------------------------
(* Events and completion *)

\* emit computes the sequence before it waits for the host.
Waiting(w, kind) == slots' = [slots EXCEPT ![w] = [seq |-> seqno + 1, kind |-> kind]]
\* emit, once the evidence is kept.
Kept(w) ==
    /\ seqno' = slots[w].seq
    /\ events' = Append(events, slots[w])
    /\ slots' = [slots EXCEPT ![w] = Empty]
Lost(w) == slots' = [slots EXCEPT ![w] = Empty] /\ UNCHANGED <<seqno, events>>

completingAgain == TRUE
\* complete: the first completion is the one every later caller waits for.
completing == comp.pc = None
complete(kind) == comp' = IF completing THEN [pc |-> "closing", kind |-> kind] ELSE comp

\* What a stop makes of the attempt.
stopKind(cause) == IF cause = "timeout" THEN "failed" ELSE "cancelled"
stopEvent(cause) == IF cause = "timeout" THEN "attempt.failed" ELSE "attempt.cancelled"

onCloseUnheard == UNCHANGED comp
\* AppServer.fail: pending calls are rejected, and the attempt hears of it unless the client is being closed.
onClose ==
    IF reg = "active" /\ comp.pc = None /\ result = None /\ stopping = None THEN complete("unknown") ELSE UNCHANGED comp

-----------------------------------------------------------------------------
(* provider.start *)

reservedLate == reg \in {None} \cup Phases
\* The attempt is reserved before the process is created; a repeated start waits for the same begin.
reserved == reg = None
start ==
    /\ starts < MaxStarts
    /\ starts' = starts + 1
    /\ reg' = IF reserved THEN "client" ELSE reg
    /\ answers' = answers \cup (CASE reg = "active" -> {"handle"} [] reg = "rejected" -> {"error"} [] OTHER -> {})
    /\ UNCHANGED <<turns, server, obs, interactions, ending, stream, reader>>

\* validateRequest refuses it, or the app server cannot be started and initialised.
validateRequestFails ==
    /\ reg = "client"
    /\ reg' = "rejected" /\ answers' = answers \cup {"error"}
    /\ UNCHANGED <<starts, turns, server, obs, interactions, ending, stream, reader>>

client ==
    /\ reg = "client"
    /\ reg' = "thread"
    /\ child' = "up"
    /\ UNCHANGED <<starts, answers, turns, failure, inbox, heard, ended, obs, interactions, ending, stream, reader>>

\* thread/start answered: turn/start is sent.
begin ==
    /\ reg = "thread" /\ ~failure
    /\ reg' = "turn"
    /\ turns' = turns + 1
    /\ UNCHANGED <<starts, answers, server, obs, interactions, ending, stream, reader>>

\* turn/start answered: the handle is set and the queued messages are handed over.
listen ==
    /\ reg = "turn" /\ ~failure
    /\ reg' = "active" /\ answers' = answers \cup {"handle"}
    /\ UNCHANGED <<starts, turns, server, obs, interactions, ending, stream, reader>>

\* A call of begin is refused, times out or fails: the client is closed, and the process may outlive the wait.
beginFails ==
    /\ reg \in {"thread", "turn"}
    /\ reg' = "rejected" /\ answers' = answers \cup {"error"}
    /\ child' \in {child, "exited"}
    /\ failure' = TRUE
    /\ UNCHANGED <<starts, turns, inbox, heard, ended, obs, interactions, ending, stream, reader>>

-----------------------------------------------------------------------------
(* The app server *)

\* A message is received and queued for the chain.  Nothing follows the end of the turn.
Deliver(kind) ==
    /\ child = "up" /\ reg \in {"turn", "active"} /\ ~ended /\ heard < MaxMessages
    /\ kind = "resolved" => tracked
    /\ inbox' = Append(inbox, kind)
    /\ heard' = heard + 1
    /\ ended' = (kind \in {"completed", "failed", "interrupted"})
    /\ UNCHANGED <<beginning, child, failure, obs, interactions, ending, stream, reader>>

\* An invalid or uncorrelated frame.
BadFrame ==
    /\ child = "up" /\ ~failure /\ reg = "active"
    /\ failure' = TRUE
    /\ onClose
    /\ UNCHANGED <<beginning, child, inbox, heard, ended, obs, interactions, stopping, observed, stops, result, stream, reader>>

Exit ==
    /\ child = "up"
    /\ child' = "exited" /\ failure' = TRUE
    /\ onClose
    /\ UNCHANGED <<beginning, inbox, heard, ended, obs, interactions, stopping, observed, stops, result, stream, reader>>

-----------------------------------------------------------------------------
(* The chain: one message after the other *)

\* kindOf, for the messages told apart here.
kindOf(msg) ==
    CASE msg = "interrupted" -> "turn.interrupted"
      [] msg \in {"completed", "failed"} -> "turn.completed"
      [] msg \in {"tool", "edit"} -> "item.completed"
      [] msg = "resolved" -> "response_recorded"
      [] msg = "ask" -> "requested"
      [] OTHER -> "unknown.provider_event"
\* checkpoint: which requests of the app server become interactions.
checkpoint(msg) == msg = "ask"

\* observe, up to its first await: a message of another attempt ends the attempt as unknown.
observe ==
    /\ reg = "active" /\ obs.pc = "idle" /\ inbox # <<>>
    /\ inbox' = Tail(inbox)
    /\ LET msg == Head(inbox) IN
       CASE result # None -> UNCHANGED <<obs, tracked, slots, comp>>
         [] result = None /\ msg = "foreign" ->
              /\ complete("unknown")
              /\ obs' = [pc |-> "completing", msg |-> msg]
              /\ UNCHANGED <<tracked, slots>>
         [] result = None /\ msg \in {"tool", "edit"} ->
              /\ obs' = [pc |-> "host", msg |-> msg]
              /\ UNCHANGED <<tracked, slots, comp>>
         [] OTHER ->
              /\ tracked' = ((tracked \/ checkpoint(msg)) /\ msg # "resolved")
              /\ obs' = [pc |-> "emit", msg |-> msg]
              /\ Waiting("chain", kindOf(msg))
              /\ UNCHANGED comp
    /\ UNCHANGED <<beginning, child, failure, heard, ended, sent, stopping, observed, stops, result, seqno, events, reader>>

\* The host made the tool call, or captured the documents an edit changed; a failed capture ends the attempt.
HostAnswers ==
    /\ obs.pc = "host"
    /\ \/ obs' = [obs EXCEPT !.pc = "emit"] /\ Waiting("chain", kindOf(obs.msg)) /\ UNCHANGED comp
       \/ /\ obs.msg = "edit"
          /\ obs' = [obs EXCEPT !.pc = "completing"] /\ complete("unknown") /\ UNCHANGED slots
    /\ UNCHANGED <<beginning, server, interactions, stopping, observed, stops, result, seqno, events, reader>>

\* The evidence of the observed message is kept: what follows depends on the message.
emit ==
    /\ obs.pc = "emit"
    /\ Kept("chain")
    /\ observed' = (observed \/ obs.msg = "interrupted")
    /\ CASE obs.msg = "interrupted" ->
              /\ complete(IF stopping = None THEN "interrupted" ELSE stopKind(stopping))
              /\ obs' = [obs EXCEPT !.pc = "completing"]
         [] obs.msg = "failed" -> complete("failed") /\ obs' = [obs EXCEPT !.pc = "completing"]
         [] obs.msg = "completed" -> obs' = [obs EXCEPT !.pc = "resolve"] /\ UNCHANGED comp
         [] OTHER -> obs' = Quiet /\ UNCHANGED comp
    /\ UNCHANGED <<beginning, server, interactions, stopping, stops, result, reader>>

\* outputs.resolve: the outputs are assembled, or the attempt fails.
resolve ==
    /\ obs.pc = "resolve"
    /\ \/ obs' = [obs EXCEPT !.pc = "output"] /\ Waiting("chain", "structured_output.completed") /\ UNCHANGED comp
       \/ obs' = [obs EXCEPT !.pc = "completing"] /\ complete("failed") /\ UNCHANGED slots
    /\ UNCHANGED <<beginning, server, interactions, stopping, observed, stops, result, seqno, events, reader>>

emitOutput ==
    /\ obs.pc = "output"
    /\ Kept("chain")
    /\ complete("succeeded")
    /\ obs' = [obs EXCEPT !.pc = "completing"]
    /\ UNCHANGED <<beginning, server, interactions, stopping, observed, stops, result, reader>>

\* The host did not keep the evidence: the chain's catch ends the attempt.
emitFails ==
    /\ obs.pc \in {"emit", "output"}
    /\ Lost("chain")
    /\ complete("unknown")
    /\ obs' = [obs EXCEPT !.pc = "completing"]
    /\ UNCHANGED <<beginning, server, interactions, stopping, observed, stops, result, reader>>

observeEnds ==
    /\ obs.pc = "completing" /\ comp.pc = "done"
    /\ obs' = Quiet
    /\ UNCHANGED <<beginning, server, interactions, ending, stream, reader>>

-----------------------------------------------------------------------------
(* Completion *)

closedAssumed == comp.kind
\* A process that cannot be seen to end leaves the outcome unknown.
closedKind == IF child = "exited" THEN comp.kind ELSE "unknown"

\* AppServer.close returned: the process was ended, or it still runs after the kill.
settle ==
    /\ comp' = [pc |-> IF stopping = None THEN "done" ELSE "emit", kind |-> closedKind]
    /\ IF stopping = None
       THEN result' = closedKind /\ UNCHANGED slots
       ELSE Waiting("completion", stopEvent(stopping)) /\ UNCHANGED result
close ==
    /\ comp.pc = "closing"
    /\ child' = "exited" /\ failure' = TRUE
    /\ comp' = [comp EXCEPT !.pc = "closed"]
    /\ UNCHANGED <<beginning, inbox, heard, ended, obs, interactions, stopping, observed, stops, result, stream, reader>>
closeFails ==
    /\ comp.pc = "closing" /\ child = "up"
    /\ comp' = [comp EXCEPT !.pc = "closed"]
    /\ UNCHANGED <<beginning, server, obs, interactions, stopping, observed, stops, result, stream, reader>>
closed ==
    /\ comp.pc = "closed"
    /\ settle
    /\ UNCHANGED <<beginning, server, obs, interactions, stopping, observed, stops, seqno, events, reader>>

\* The event that says how the attempt was stopped; without its evidence the outcome is unknown.
stopEvidence ==
    /\ comp.pc = "emit"
    /\ \/ Kept("completion") /\ result' = comp.kind
       \/ Lost("completion") /\ result' = "unknown"
    /\ comp' = [comp EXCEPT !.pc = "done"]
    /\ UNCHANGED <<beginning, server, obs, interactions, stopping, observed, stops, reader>>

-----------------------------------------------------------------------------
(* Stopping: provider.cancel and the attempt's own timeout *)

\* The timer is cleared when the attempt completes; a cancel may come at any time.  turn/interrupt is sent, and whether
\* it is answered or not the result is awaited for the grace period.
stop(s) ==
    /\ reg = "active" /\ stops[s] = "idle"
    /\ s = "timeout" => comp.pc = None
    /\ IF result # None
       THEN stops' = [stops EXCEPT ![s] = "already_terminal"] /\ UNCHANGED stopping
       ELSE stops' = [stops EXCEPT ![s] = "grace"] /\ stopping' = s
    /\ UNCHANGED <<beginning, server, obs, interactions, observed, comp, result, stream, reader>>

disposition(graceful) == IF result = "unknown" THEN "uncertain" ELSE graceful
graceful(s) ==
    /\ stops[s] = "grace" /\ result # None
    /\ stops' = [stops EXCEPT ![s] = disposition("graceful")]
    /\ UNCHANGED <<beginning, server, obs, interactions, stopping, observed, comp, result, stream, reader>>

deadline(s) ==
    /\ stops[s] = "grace" /\ result = None
    /\ complete(stopKind(s))
    /\ stops' = [stops EXCEPT ![s] = "forcing"]
    /\ UNCHANGED <<beginning, server, obs, interactions, stopping, observed, result, stream, reader>>

forced(s) ==
    /\ stops[s] = "forcing" /\ comp.pc = "done"
    /\ stops' = [stops EXCEPT ![s] = disposition("forced")]
    /\ UNCHANGED <<beginning, server, obs, interactions, stopping, observed, comp, result, stream, reader>>

-----------------------------------------------------------------------------
(* provider.respond *)

answeredBeforeNever(k) == FALSE
\* A repeated response is answered from its receipt.
answeredBefore(k) == sent[k] > 0
respond(k) ==
    /\ reg = "active" /\ tracked /\ child = "up" /\ sent[k] < 2
    /\ sent' = IF answeredBefore(k) THEN sent ELSE [sent EXCEPT ![k] = @ + 1]
    /\ UNCHANGED <<beginning, server, obs, tracked, ending, stream, reader>>

-----------------------------------------------------------------------------
(* provider.events and the host's stream *)

availableAfter(cursor) == SelectSeq(events, LAMBDA e : e.seq > cursor)
batchAfter(cursor) == LET all == availableAfter(cursor) IN SubSeq(all, 1, IF Len(all) < BatchLimit THEN Len(all) ELSE BatchLimit)
terminalEarly(cursor) == result # None
\* The stream ends once there is a result and nothing is left behind this answer.
terminal(cursor) == result # None /\ Len(batchAfter(cursor)) = Len(availableAfter(cursor))

\* stream.Receive refuses an answer whose sequences do not follow its cursor; the plugin refuses a cursor beyond its own.
inOrder(batch, cursor) == \A i \in DOMAIN batch : batch[i].seq = cursor + i

Receive ==
    /\ reg = "active" /\ reader.pc = "reading"
    /\ result # None \/ seqno # reader.after
    /\ LET batch == batchAfter(reader.after) IN
       reader' = IF reader.after <= seqno /\ inOrder(batch, reader.after)
                 THEN [pc |-> IF terminal(reader.after) THEN "ended" ELSE "reading", after |-> reader.after + Len(batch), got |-> reader.got + Len(batch)]
                 ELSE [reader EXCEPT !.pc = "refused"]
    /\ UNCHANGED <<beginning, server, obs, interactions, ending, stream>>

-----------------------------------------------------------------------------
Chain == observe \/ HostAnswers \/ emit \/ resolve \/ emitOutput \/ emitFails \/ observeEnds
Completion == close \/ closeFails \/ closed \/ stopEvidence
Stopping(s) == graceful(s) \/ deadline(s) \/ forced(s)

\* The host keeps reading to the end of the stream, so a run that settled rests.
Settled ==
    /\ reg = "rejected" \/ reader.pc # "reading"
    /\ UNCHANGED vars

Next ==
    \/ start \/ validateRequestFails \/ client \/ begin \/ listen \/ beginFails
    \/ \E kind \in Kinds : Deliver(kind)
    \/ BadFrame \/ Exit
    \/ Chain
    \/ Completion
    \/ \E s \in Stoppers : stop(s) \/ Stopping(s)
    \/ \E k \in Keys : respond(k)
    \/ Receive
    \/ Settled

\* The JavaScript event loop runs every continuation, the host answers every call it takes, and the timers of a stop fire.
Fairness ==
    /\ WF_vars(Chain) /\ WF_vars(Completion) /\ WF_vars(Receive)
    /\ \A s \in Stoppers : WF_vars(Stopping(s))

-----------------------------------------------------------------------------
TypeOK ==
    /\ reg \in {None, "client", "thread", "turn", "active", "rejected"}
    /\ starts \in 0..MaxStarts /\ answers \subseteq {"handle", "error"}
    /\ child \in {None, "up", "exited"} /\ failure \in BOOLEAN
    /\ inbox \in Seq(Kinds) /\ heard \in 0..MaxMessages /\ ended \in BOOLEAN
    /\ obs.msg \in Kinds \cup {None}
    /\ tracked \in BOOLEAN /\ sent \in [Keys -> 0..2]
    /\ stopping \in Stoppers \cup {None}
    /\ comp.pc \in {None, "closing", "closed", "emit", "done"}
    /\ \A i \in DOMAIN events : events[i].seq \in Nat \ {0}
    /\ result \in {None, "succeeded", "failed", "interrupted", "cancelled", "unknown"}
    /\ reader.pc \in {"reading", "ended", "refused"}

\* However often the start is repeated while the app server is being started, at most one turn is begun, and every
\* starter is answered with that turn's handle or every one with its error.
OneTurn == turns <= 1 /\ Cardinality(answers) <= 1

\* A result other than unknown, and a stop answered as graceful or forced, mean that the app server is gone, so that
\* no turn is left behind that still edits the workspace.
KnownMeansGone ==
    /\ result \notin {None, "unknown"} => child = "exited"
    /\ \A s \in Stoppers : stops[s] \in {"graceful", "forced"} => child = "exited"

\* An attempt that succeeded has a whole stream: sequences without a gap or a repetition, with its structured output,
\* and a host that read to the end has read all of it - whatever stops, repeated completions and exits came in between.
SucceededIsWhole ==
    result = "succeeded" =>
        /\ inOrder(events, 0)
        /\ \E i \in DOMAIN events : events[i].kind = "structured_output.completed"
        /\ reader.pc # "refused"
        /\ reader.pc = "ended" => reader.got = Len(events)

\* Each response key writes at most one answer to the app server, though responses are retried.
OneAnswerPerKey == \A k \in Keys : sent[k] <= 1

\* The result, once set, is never replaced: not by the stop that waited, not by the process that exits afterwards.
ResultIsFinal == [][result # None => result' = result]_vars

\* An active attempt that is stopped, whose turn ended or whose client failed gets a result, and the host's stream ends.
EndIsSettled == (reg = "active" /\ (stopping # None \/ ended \/ failure)) ~> (result # None /\ reader.pc # "reading")
=============================================================================
