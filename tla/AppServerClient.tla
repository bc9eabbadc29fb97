--------------------------- MODULE AppServerClient ---------------------------
(***************************************************************************)
(* The JSON-RPC client of the Codex App Server                             *)
(* (adapters/provider/codex/appserver_client.go): concurrent calls matched *)
(* to responses by ID, one reader, unbounded relays to the consumers, and  *)
(* Shutdown, which releases the threads before it closes stdin.            *)
(***************************************************************************)
EXTENDS Naturals, Sequences, FiniteSets

CONSTANTS Callers, Threads, MaxSent

VARIABLES call,       \* per caller: idle, waiting, or how the call returned
          reply,      \* per caller: the buffered channel of its call
          pending,    \* client.pending
          threads,    \* client.threads
          stdout,     \* lines of the server not yet read
          queue,      \* the relay of Messages()
          taken,      \* messages the consumer has received
          sent,       \* messages the server has sent
          server,     \* "up" or "gone"
          closing, done, stdinClosed,
          shutdown    \* progress of the Shutdown that won the flag

vars == <<call, reply, pending, threads, stdout, queue, taken, sent, server,
          closing, done, stdinClosed, shutdown>>

Releaser == "shutdown"
Ids == Callers \cup {Releaser}
Reply(c, status) == [kind |-> "reply", to |-> c, status |-> status]
Note(n) == [kind |-> "note", to |-> n, status |-> "ok"]
Garbage == [kind |-> "garbage", to |-> 0, status |-> "ok"]

Init ==
    /\ call = [c \in Ids |-> "idle"] /\ reply = [c \in Ids |-> "empty"]
    /\ pending = {} /\ threads = Threads /\ stdout = <<>> /\ queue = <<>>
    /\ taken = 0 /\ sent = 0 /\ server = "up"
    /\ closing = FALSE /\ done = FALSE /\ stdinClosed = FALSE
    /\ shutdown = "off"

\* call: register, then write; a failed write takes the registration back.
Issue(c) ==
    IF server = "up" /\ ~stdinClosed
    THEN /\ pending' = pending \cup {c}
         /\ call' = [call EXCEPT ![c] = "waiting"]
    ELSE /\ UNCHANGED pending
         /\ call' = [call EXCEPT ![c] = "error"]

Call(c) ==
    /\ call[c] = "idle"
    /\ IF closing THEN call' = [call EXCEPT ![c] = "error"] /\ UNCHANGED pending ELSE Issue(c)
    /\ UNCHANGED <<reply, threads, stdout, queue, taken, sent, server, closing,
                   done, stdinClosed, shutdown>>

\* The select at the end of call: reply, context, or the end of the connection,
\* in which case a reply that is already there still counts.
Returns(c, how) ==
    /\ call' = [call EXCEPT ![c] = how]
    /\ reply' = [reply EXCEPT ![c] = "empty"]
    /\ UNCHANGED <<threads, stdout, queue, taken, sent, server, closing, done,
                   stdinClosed, shutdown>>

\* (A mutant of Return.)
ReturnRepliesOnly(c) ==
    /\ call[c] = "waiting" /\ reply[c] = "ok"
    /\ Returns(c, reply[c]) /\ UNCHANGED pending
Return(c) ==
    /\ call[c] = "waiting"
    /\ \/ reply[c] # "empty" /\ Returns(c, reply[c]) /\ UNCHANGED pending
       \/ done /\ reply[c] = "empty" /\ Returns(c, "error") /\ UNCHANGED pending
GiveUp(c) ==
    /\ call[c] = "waiting"
    /\ pending' = pending \ {c}
    /\ Returns(c, "error")

-----------------------------------------------------------------------------
(* The server (external): it may answer a call, send messages, or die.     *)

ServerFrame == UNCHANGED <<call, reply, pending, threads, queue, taken,
                           closing, done, stdinClosed, shutdown>>
ServerAnswers(c, status) ==
    /\ server = "up" /\ c \in pending
    /\ ~\E i \in DOMAIN stdout : stdout[i].kind = "reply" /\ stdout[i].to = c
    /\ stdout' = Append(stdout, Reply(c, status))
    /\ UNCHANGED <<sent, server>> /\ ServerFrame
ServerSends ==
    /\ server = "up" /\ sent < MaxSent
    /\ stdout' = Append(stdout, Note(sent + 1)) /\ sent' = sent + 1
    /\ UNCHANGED server /\ ServerFrame
ServerGarbles ==
    /\ server = "up" /\ Len(stdout) = 0
    /\ stdout' = <<Garbage>>
    /\ UNCHANGED <<sent, server>> /\ ServerFrame
ServerExits ==
    /\ server = "up" /\ server' = "gone"
    /\ UNCHANGED <<stdout, sent>> /\ ServerFrame

-----------------------------------------------------------------------------
(* readLoop, deliverResponse, terminate, relay.                            *)

Deliver(m) ==
    IF m.to \in pending
    THEN reply' = [reply EXCEPT ![m.to] = m.status] /\ pending' = pending \ {m.to}
    ELSE UNCHANGED <<reply, pending>>

Terminate ==
    /\ done' = TRUE
    /\ reply' = [c \in Ids |-> IF c \in pending THEN "error" ELSE reply[c]]
    /\ pending' = {}

ReadLine ==
    /\ ~done /\ stdout # <<>>
    /\ LET m == stdout[1] IN
       CASE m.kind = "reply" -> Deliver(m) /\ UNCHANGED <<queue, done>>
         [] m.kind = "note" -> queue' = Append(queue, m.to) /\ UNCHANGED <<reply, pending, done>>
         [] OTHER -> Terminate /\ UNCHANGED queue
    /\ stdout' = Tail(stdout)
    /\ UNCHANGED <<call, threads, taken, sent, server, closing, stdinClosed, shutdown>>
ReadEOF ==
    /\ ~done /\ stdout = <<>> /\ server = "gone"
    /\ Terminate
    /\ UNCHANGED <<call, threads, stdout, queue, taken, sent, server, closing,
                   stdinClosed, shutdown>>
\* (A mutant of Consume.)
ConsumeNewest ==
    /\ queue # <<>>
    /\ taken' = queue[Len(queue)] /\ queue' = SubSeq(queue, 1, Len(queue) - 1)
    /\ UNCHANGED <<call, reply, pending, threads, stdout, sent, server, closing,
                   done, stdinClosed, shutdown>>
Consume ==
    /\ queue # <<>>
    /\ taken' = queue[1] /\ queue' = Tail(queue)
    /\ UNCHANGED <<call, reply, pending, threads, stdout, sent, server, closing,
                   done, stdinClosed, shutdown>>

-----------------------------------------------------------------------------
(* Shutdown and KillOwnedProcess.                                          *)

ShutdownFrame == UNCHANGED <<reply, stdout, queue, taken, sent, server, done>>

\* The second caller waits for the connection to end; it is not modelled further.
BeginShutdown ==
    /\ ~closing /\ closing' = TRUE /\ shutdown' = "releasing"
    /\ UNCHANGED <<call, pending, threads, stdinClosed>> /\ ShutdownFrame
\* One unsubscribe call per thread, in order; an error ends Shutdown.
Unsubscribe ==
    /\ shutdown = "releasing" /\ threads # {} /\ call[Releaser] = "idle"
    /\ Issue(Releaser)
    /\ UNCHANGED <<threads, closing, stdinClosed, shutdown>> /\ ShutdownFrame
\* (A mutant of Released.)
ReleasedIgnoringErrors ==
    /\ shutdown = "releasing" /\ call[Releaser] \in {"ok", "error"}
    /\ shutdown' = "waiting" /\ stdinClosed' = TRUE
    /\ call' = [call EXCEPT ![Releaser] = "idle"]
    /\ UNCHANGED <<pending, threads, closing>> /\ ShutdownFrame
Released ==
    /\ shutdown = "releasing" /\ call[Releaser] \in {"ok", "error"}
    /\ IF call[Releaser] = "ok"
       THEN /\ \E t \in threads : threads' = threads \ {t}
            /\ UNCHANGED shutdown
       ELSE shutdown' = "failed" /\ UNCHANGED threads
    /\ call' = [call EXCEPT ![Releaser] = "idle"]
    /\ UNCHANGED <<pending, closing, stdinClosed>> /\ ShutdownFrame
CloseStdin ==
    /\ shutdown = "releasing" /\ threads = {}
    /\ stdinClosed' = TRUE /\ shutdown' = "waiting"
    /\ UNCHANGED <<call, pending, threads, closing>> /\ ShutdownFrame
AwaitProcess ==
    /\ shutdown = "waiting"
    /\ shutdown' \in (IF server = "gone" THEN {"complete"} ELSE {}) \cup {"failed"}
    /\ UNCHANGED <<call, pending, threads, closing, stdinClosed>> /\ ShutdownFrame
KillOwnedProcess ==
    /\ closing' = TRUE /\ server' = "gone"
    /\ UNCHANGED <<call, reply, pending, threads, stdout, queue, taken, sent,
                   done, stdinClosed, shutdown>>

Next ==
    \/ \E c \in Callers : Call(c)
    \/ \E c \in Ids : Return(c) \/ GiveUp(c) \/ \E s \in {"ok", "error"} : ServerAnswers(c, s)
    \/ ServerSends \/ ServerGarbles \/ ServerExits
    \/ ReadLine \/ ReadEOF \/ Consume
    \/ BeginShutdown \/ Unsubscribe \/ Released \/ CloseStdin \/ AwaitProcess
    \/ KillOwnedProcess

\* The reader, the relays and the callers are goroutines that run on.
Fairness == WF_vars(ReadLine) /\ WF_vars(ReadEOF) /\ WF_vars(Consume) /\ \A c \in Ids : WF_vars(Return(c))

Spec == Init /\ [][Next]_vars /\ Fairness

-----------------------------------------------------------------------------
TypeOK ==
    /\ call \in [Ids -> {"idle", "waiting", "ok", "error"}]
    /\ reply \in [Ids -> {"empty", "ok", "error"}]
    /\ pending \subseteq Ids /\ threads \subseteq Threads
    /\ taken \in 0..MaxSent /\ sent \in 0..MaxSent
    /\ shutdown \in {"off", "releasing", "waiting", "complete", "failed"}

\* "every owned thread is unsubscribed successfully before stdin is closed",
\* whatever answers, errors and kills come in between.
ReleasedBeforeClose == stdinClosed => threads = {}

\* The consumer sees the server's messages in order and without a gap.
WireOrder == [][taken' # taken => taken' = taken + 1]_vars

\* A call whose connection ends returns: no caller waits for ever on a server
\* that is gone, in whichever order registration, death and reading happen.
CallsReturn == \A c \in Ids : (server = "gone" /\ call[c] = "waiting") ~> call[c] # "waiting"

\* Messages read before the connection ended still reach the consumer.
Drained == done ~> (queue = <<>>)
=============================================================================
