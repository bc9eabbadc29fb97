--------------------------- MODULE PluginSession ---------------------------
(***************************************************************************)
(* The host's side of a provider plugin (adapters/provider/typescript):    *)
(* an adapter that opens a plugin process on first use, keeps it for its   *)
(* attempts, and opens a process of its own for every probe; and the       *)
(* session that multiplexes calls and the plugin's callbacks over the      *)
(* process's pipes.  Any goroutine may be between two of these steps while *)
(* a call is cancelled, an answer is late or repeated, a write is stuck or *)
(* the process exits.                                                      *)
(***************************************************************************)
EXTENDS Integers, FiniteSets, FiniteSetsExt

CONSTANTS
    Callers,       \* goroutines that call the adapter
    Sessions,      \* the processes that may be started, in order: 1..n
    MaxPending,    \* outstanding requests of a session
    MaxCallbacks,  \* the plugin's calls under way in the host
    MaxCalls,      \* bound on calls
    MaxFaults      \* bound on faults of callers and plugins

VARIABLES
    client,    \* the session the adapter keeps, or 0
    alive,     \* sessions whose process runs
    opened,    \* number of sessions started
    next,      \* for each session, the latest request id
    writer,    \* for each session, who writes a frame
    callbacks, \* for each session, the plugin's calls under way
    calls,     \* for each caller, how far it came
    wire,      \* requests the plugin has and did not answer
    answered,  \* requests the plugin answered once
    made,      \* how many of MaxCalls happened
    faults     \* how many of MaxFaults happened

vars == <<client, alive, opened, next, writer, callbacks, calls, wire, answered, made, faults>>
transport == <<opened, next, writer, callbacks>>
plugin == <<wire, answered>>

Nobody == "nobody"
NoReply == <<>>
Idle == [op |-> "none", pc |-> "idle", stage |-> "none", s |-> 0, id |-> 0, reply |-> NoReply, ok |-> TRUE]

Init ==
    /\ client = 0
    /\ alive = {} /\ opened = 0
    /\ next = [s \in Sessions |-> 0]
    /\ writer = [s \in Sessions |-> Nobody]
    /\ callbacks = [s \in Sessions |-> 0]
    /\ calls = [c \in Callers |-> Idle]
    /\ wire = {} /\ answered = {}
    /\ made = 0 /\ faults = 0

At(c, pc) == calls[c].pc = pc
Fault == faults < MaxFaults /\ faults' = faults + 1
Go(c, changes) == calls' = [calls EXCEPT ![c] = [f \in DOMAIN Idle |-> IF f \in DOMAIN changes THEN changes[f] ELSE @[f]]]

\* fail: once, it ends the process; every call waiting on the session sees it.
fail(s) == alive' = alive \ {s}

pendingOf(s) == {c \in Callers : calls[c].s = s /\ calls[c].pc \in {"token", "writing", "waiting"}}

-----------------------------------------------------------------------------
(* The adapter *)

\* startSession: the process is started and its output read.
startSession(c, op) ==
    /\ opened < Cardinality(Sessions)
    /\ opened' = opened + 1
    /\ alive' = alive \cup {opened + 1}
    /\ Go(c, [op |-> op, pc |-> "register", stage |-> "open", s |-> opened + 1, ok |-> TRUE])
    /\ UNCHANGED <<next, writer, callbacks>>

\* StartAttempt and ResumeAttempt: prepare uses the adapter's session or opens one.
StartAttempt(c) ==
    /\ At(c, "idle") /\ made < MaxCalls
    /\ made' = made + 1
    /\ IF client # 0
       THEN Go(c, [op |-> "start", pc |-> "call", ok |-> TRUE]) /\ UNCHANGED <<alive, transport>>
       ELSE startSession(c, "start")
    /\ UNCHANGED <<client, plugin, faults>>

\* ProbeHealth and Capabilities: a session of their own.
isolated(c) ==
    /\ At(c, "idle") /\ made < MaxCalls
    /\ made' = made + 1
    /\ startSession(c, "probe")
    /\ UNCHANGED <<client, plugin, faults>>

\* open: describe and configure were answered, or the session is closed.
\* The second of two prepares that opened a session closes its own and goes on with the kept one.
loserKept == "call"
loser == "close"
prepare(c) ==
    /\ At(c, "returned") /\ calls[c].stage = "open"
    /\ CASE ~calls[c].ok -> Go(c, [pc |-> "close", stage |-> "failed"]) /\ UNCHANGED client
         [] calls[c].ok /\ calls[c].op = "probe" -> Go(c, [pc |-> "register", stage |-> "call"]) /\ UNCHANGED client
         [] calls[c].ok /\ calls[c].op = "start" /\ client = 0 -> client' = calls[c].s /\ Go(c, [pc |-> "call", s |-> 0])
         [] OTHER -> Go(c, IF loser = "call" THEN [pc |-> "call", s |-> 0] ELSE [pc |-> loser, stage |-> "lost"]) /\ UNCHANGED client
    /\ UNCHANGED <<alive, transport, plugin, made, faults>>

\* Adapter.call: on the session kept at this moment, which a failed start may have taken away.
call(c) ==
    /\ At(c, "call")
    /\ Go(c, IF client = 0 THEN [pc |-> "returned", stage |-> "call", ok |-> FALSE] ELSE [pc |-> "register", stage |-> "call", s |-> client])
    /\ UNCHANGED <<client, alive, transport, plugin, made, faults>>

\* A probe closes its session, whatever the answer was.
probed(c) ==
    /\ At(c, "returned") /\ calls[c].stage = "call" /\ calls[c].op = "probe"
    /\ Go(c, [pc |-> "close", stage |-> "done"])
    /\ UNCHANGED <<client, alive, transport, plugin, made, faults>>

\* Adapter.Close takes the session away from every caller.
closeAdapter(c) == client' = 0 /\ Go(c, [pc |-> "close", stage |-> "done", s |-> client])

\* The start or the resumption returned: an error closes the adapter's session.
returned(c) ==
    /\ At(c, "returned") /\ calls[c].stage = "call" /\ calls[c].op = "start"
    /\ IF ~calls[c].ok /\ client # 0 THEN closeAdapter(c) ELSE calls' = [calls EXCEPT ![c] = Idle] /\ UNCHANGED client
    /\ UNCHANGED <<alive, transport, plugin, made, faults>>

\* session.Close: the shutdown call, answered or not, and the end of the process.
Close(c) ==
    /\ At(c, "close")
    /\ fail(calls[c].s)
    /\ IF calls[c].stage = "lost" THEN Go(c, [pc |-> "call", s |-> 0]) ELSE calls' = [calls EXCEPT ![c] = Idle]
    /\ UNCHANGED <<client, transport, plugin, made, faults>>

-----------------------------------------------------------------------------
(* session.call and session.send *)

Return(c, ok) == Go(c, [pc |-> "returned", ok |-> ok, reply |-> NoReply])

\* An id that follows the number of requests outstanding.
freshAmongPending(s) == Cardinality(pendingOf(s)) + 1
\* Ids are never used again, so that the late answer to a cancelled call finds nobody.
fresh(s) == next[s] + 1
register(c) ==
    /\ At(c, "register")
    /\ LET s == calls[c].s IN
       IF Cardinality(pendingOf(s)) >= MaxPending
       THEN Return(c, FALSE) /\ UNCHANGED next
       ELSE Go(c, [pc |-> "token", id |-> fresh(s), reply |-> NoReply]) /\ next' = [next EXCEPT ![s] = @ + 1]
    /\ UNCHANGED <<client, alive, opened, writer, callbacks, plugin, made, faults>>

\* One frame is written at a time.
takeToken(c) ==
    /\ At(c, "token") /\ calls[c].s \in alive /\ writer[calls[c].s] = Nobody
    /\ writer' = [writer EXCEPT ![calls[c].s] = c]
    /\ Go(c, [pc |-> "writing"])
    /\ UNCHANGED <<client, alive, opened, next, callbacks, plugin, made, faults>>

written(c) ==
    /\ At(c, "writing") /\ calls[c].s \in alive
    /\ writer' = [writer EXCEPT ![calls[c].s] = Nobody]
    /\ wire' = wire \cup {<<calls[c].s, calls[c].id, c, calls[c].stage>>}
    /\ Go(c, [pc |-> "waiting"])
    /\ UNCHANGED <<client, alive, opened, next, callbacks, answered, made, faults>>

\* A cancelled context: before and after the write the call just ends; in the write the frame is torn and the session fails.
cancelled(c) ==
    /\ calls[c].pc \in {"token", "writing", "waiting"} /\ Fault
    /\ Return(c, FALSE)
    /\ IF At(c, "writing")
       THEN fail(calls[c].s) /\ writer' = [writer EXCEPT ![calls[c].s] = Nobody]
       ELSE UNCHANGED <<alive, writer>>
    /\ UNCHANGED <<client, opened, next, callbacks, plugin, made>>

waitsForever(c) == FALSE
\* A call on a failed session ends with the session's error.
seesDone(c) == calls[c].s \notin alive
ended(c) ==
    /\ calls[c].pc \in {"token", "writing", "waiting"} /\ seesDone(c)
    /\ Return(c, FALSE)
    /\ writer' = IF At(c, "writing") THEN [writer EXCEPT ![calls[c].s] = Nobody] ELSE writer
    /\ UNCHANGED <<client, alive, opened, next, callbacks, plugin, made, faults>>

\* The answer is taken; whether the plugin did what was asked is its business.
receive(c) ==
    /\ At(c, "waiting") /\ calls[c].reply # NoReply
    /\ \E ok \in BOOLEAN : Return(c, ok)
    /\ UNCHANGED <<client, alive, transport, plugin, made, faults>>

-----------------------------------------------------------------------------
(* session.read and the plugin *)

waitingFor(s, id) == {c \in Callers : calls[c].s = s /\ calls[c].id = id /\ calls[c].pc \in {"token", "writing", "waiting"}}

\* An answer goes to the call with its id, or to nobody.
deliver(request) ==
    LET s == request[1]
        to == waitingFor(s, request[2])
    IN IF \E c \in to : calls[c].reply # NoReply
       THEN fail(s) /\ UNCHANGED calls   \* a second answer to one request
       ELSE calls' = [c \in Callers |-> IF c \in to THEN [calls[c] EXCEPT !.reply = <<request[3], request[4]>>] ELSE calls[c]] /\ UNCHANGED alive
respond(request) ==
    /\ request \in wire /\ request[1] \in alive
    /\ deliver(request)
    /\ wire' = wire \ {request} /\ answered' = answered \cup {request}
    /\ UNCHANGED <<client, transport, made, faults>>
respondAgain(request) ==
    /\ request \in answered /\ request[1] \in alive /\ Fault
    /\ deliver(request)
    /\ UNCHANGED <<client, transport, plugin, made>>

\* The plugin calls the host; beyond the limit the session fails.
atLimit(s) == callbacks[s] >= MaxCallbacks
hostCall(s) ==
    /\ s \in alive /\ Fault
    /\ IF atLimit(s)
       THEN fail(s) /\ UNCHANGED callbacks
       ELSE callbacks' = [callbacks EXCEPT ![s] = @ + 1] /\ UNCHANGED alive
    /\ UNCHANGED <<client, opened, next, writer, calls, plugin, made>>

\* The host's result is written between the frames of calls.
hostResult(s) ==
    /\ callbacks[s] > 0 /\ (s \in alive => writer[s] = Nobody)
    /\ callbacks' = [callbacks EXCEPT ![s] = @ - 1]
    /\ UNCHANGED <<client, alive, opened, next, writer, calls, plugin, made, faults>>

\* The process exits, or writes what is no frame.
exits(s) ==
    /\ s \in alive /\ Fault
    /\ fail(s)
    /\ UNCHANGED <<client, transport, calls, plugin, made>>

-----------------------------------------------------------------------------
Step(c) == prepare(c) \/ call(c) \/ probed(c) \/ returned(c) \/ Close(c) \/ register(c) \/ takeToken(c) \/ written(c) \/ ended(c) \/ receive(c)

\* An adapter nobody calls rests.
Rest == (\A c \in Callers : calls[c].pc \in {"idle", "waiting"}) /\ UNCHANGED vars

Next ==
    \/ \E c \in Callers : StartAttempt(c) \/ isolated(c) \/ cancelled(c) \/ Step(c)
    \/ \E r \in wire : respond(r)
    \/ \E r \in answered : respondAgain(r)
    \/ \E s \in Sessions : hostCall(s) \/ hostResult(s) \/ exits(s)
    \/ Rest

\* The goroutines of the daemon run; a plugin owes no answer.
Fairness == \A c \in Callers : WF_vars(Step(c))

-----------------------------------------------------------------------------
TypeOK ==
    /\ client \in Sessions \cup {0}
    /\ alive \subseteq Sessions /\ opened \in 0..Cardinality(Sessions)
    /\ writer \in [Sessions -> Callers \cup {Nobody}]
    /\ callbacks \in [Sessions -> 0..MaxCallbacks]
    /\ \A c \in Callers : calls[c].s \in Sessions \cup {0} /\ calls[c].ok \in BOOLEAN

\* A call only ever takes the answer to its own request, whatever answers were late, repeated or out of order.
ReplyIsMine == \A c \in Callers : calls[c].reply # NoReply => calls[c].reply = <<c, calls[c].stage>>

\* Every plugin process that runs is the adapter's own or in the hands of a caller that will close or install it.
NoLeakedSession == \A s \in alive : s = client \/ \E c \in Callers : calls[c].s = s /\ calls[c].pc # "idle"

\* Every call on a session that failed returns.
CallsEnd == \A c \in Callers : (calls[c].pc \in {"token", "writing", "waiting"} /\ calls[c].s \notin alive) ~> (calls[c].pc \notin {"token", "writing", "waiting"} \/ calls[c].s \in alive)
=============================================================================
