----------------------------- MODULE TicketEdit -----------------------------
(***************************************************************************)
(* Editing a ticket of the built-in tracker (core/ticketmanagement,        *)
(* adapters/tracker/builtin, sqlite/native_tracker.go and commands.go).    *)
(* An edit or a transition is a command with an idempotency key.  It first *)
(* saves the exact target it was authorised for, then asks the operation   *)
(* journal whether it was applied, and applies it only when it was not;    *)
(* the ticket, its history and the journal change in one transaction.      *)
(* Every statement of the store is a step here, so calls with the same or  *)
(* different keys interleave between any two of them.                      *)
(*                                                                         *)
(* There is one ticket: commands, operations and history are all kept per  *)
(* ticket.  The adapter's pin and scope never change for a native tracker. *)
(***************************************************************************)
EXTENDS Integers, Sequences, FiniteSets

CONSTANTS
    Callers, Keys,
    Edits,          \* what an edit sets the fields to
    BadIds,         \* edits with an empty ID or a number that is none
    Unfit,          \* edits with a blank title, a priority out of range or a repeated ID
    States,         \* business states
    MaxCalls        \* bound on calls and stops

VARIABLES
    ticket, history,
    operations,  \* for each operation, what the journal holds of it
    commands,    \* for each operation, its command
    targets,     \* for each operation, the command of its authorised target
    calls,       \* for each caller, how far its request came
    answers,     \* the requests that were answered with success
    started      \* how many of MaxCalls happened

vars == <<ticket, history, operations, commands, targets, calls, answers, started>>

\* makeIntent: the operation is named after the kind of request and its key.
Kinds == {"edit", "transition"}
Operations == Kinds \X Keys
Requests == [kind : {"edit"}, revision : Nat, value : Edits] \cup [kind : {"transition"}, revision : Nat, value : States]

Absent == [status |-> "absent"]
Idle == [pc |-> "idle"]
First == [revision |-> 1, fields |-> "first", state |-> CHOOSE s \in States : TRUE]
FirstEntry == [op |-> <<"create", "first">>, request |-> [kind |-> "create", revision |-> 0, value |-> "first"], snapshot |-> First]

Init ==
    /\ ticket = First
    /\ history = <<FirstEntry>>
    /\ operations = [o \in Operations |-> Absent]
    /\ commands = [o \in Operations |-> Absent]
    /\ targets = [o \in Operations |-> Absent]
    /\ calls = [c \in Callers |-> Idle]
    /\ answers = {}
    /\ started = 0

At(c, pc) == calls[c].pc = pc
Goto(c, pc) == calls' = [calls EXCEPT ![c].pc = pc]
\* The call ends in an error; what it did so far stays.
Refuse(c) == calls' = [calls EXCEPT ![c] = Idle] /\ UNCHANGED answers
\* The caller gets the detail of the ticket.
Answer(c, detail) ==
    /\ calls' = [calls EXCEPT ![c] = Idle]
    /\ answers' = answers \cup {[op |-> calls[c].op, request |-> calls[c].request, detail |-> detail]}

-----------------------------------------------------------------------------
(* Commands *)

\* BeginCommand: insert, or read the command that is there; a different request is a conflict.
begun(table, o, request) == IF table[o] = Absent THEN [table EXCEPT ![o] = [status |-> "pending", request |-> request]] ELSE table
conflicts(table, o, request) == table[o] # Absent /\ table[o].request # request

\* CompleteCommand: once.
completed(table, o, response) == [table EXCEPT ![o] = [status |-> "completed", request |-> table[o].request, response |-> response]]
pendingAlways(table, o) == TRUE
pending(table, o) == table[o].status = "pending"

-----------------------------------------------------------------------------
(* What the writer offers and accepts *)

\* Inspect: the exact ticket and the transitions its state allows.
Inspect == [revision |-> ticket.revision, state |-> ticket.state, transitions |-> States \ {ticket.state}]

\* validateFields: the fields of an edit are advertised and well typed.
validateFields(request) == request.value \notin BadIds
\* A transition is one of those offered.
validateTransition(request, options) == request.value \in options.transitions
\* checkTarget: the ticket is what was authorised, its revision and its state.
checkTarget(options, target) == options.revision = target.revision /\ options.state = target.state
ValidateIntent(request, target, options) ==
    /\ checkTarget(options, target)
    /\ request.kind = "edit" => validateFields(request)
    /\ request.kind = "transition" => validateTransition(request, options)

\* updateFields refuses what the types let through.
updateFields(request) == request.value \notin Unfit
\* applyEffect: the record that replaces the ticket.
applyEffect(value, request) ==
    IF request.kind = "edit" THEN [value EXCEPT !.fields = request.value, !.revision = @ + 1]
    ELSE [value EXCEPT !.state = request.value, !.revision = @ + 1]

\* operationFingerprint: the whole intent, its target included.
operationFingerprint(request, target) == [request |-> request, target |-> target]
\* nativeOperation: absent, the receipt, or a conflict.
journalled(o) == operations[o] # Absent
fingerprintDiffers(o, fingerprint) == journalled(o) /\ operations[o].fingerprint # fingerprint
\* The receipt names the exact operation.
ValidateReceipt(o, request) == operations[o].fingerprint.request = request

-----------------------------------------------------------------------------
(* mutate *)

\* The user names the revision the ticket had when it was loaded.
Begin(c, o, request) ==
    /\ At(c, "idle") /\ request.kind = o[1]
    /\ started < MaxCalls /\ started' = started + 1
    /\ request.revision \in 1..ticket.revision
    /\ commands' = begun(commands, o, request)
    /\ calls' = [calls EXCEPT ![c] =
          IF conflicts(commands, o, request) THEN Idle
          ELSE [pc |-> IF commands'[o].status = "completed" THEN "replay" ELSE "begun", op |-> o, request |-> request, target |-> Absent, value |-> Absent]]
    /\ UNCHANGED <<ticket, history, operations, targets, answers>>

Replay(c) ==
    /\ At(c, "replay")
    /\ Answer(c, commands[calls[c].op].response)
    /\ UNCHANGED <<ticket, history, operations, commands, targets, started>>

\* The target saved by an earlier call of this key is used, whatever the ticket is now.
BeginTarget(c) ==
    LET o == calls[c].op IN
    /\ At(c, "begun")
    /\ targets' = begun(targets, o, calls[c].request)
    /\ calls' = IF targets'[o].status = "completed"
                THEN [calls EXCEPT ![c].pc = "planned", ![c].target = targets'[o].response]
                ELSE [calls EXCEPT ![c].pc = "authorizing"]
    /\ UNCHANGED <<ticket, history, operations, commands, answers, started>>

\* The ticket must still be at the revision the user saw.
authorised(request, target) == target.revision = request.revision
Authorize(c) ==
    LET target == [revision |-> Inspect.revision, state |-> Inspect.state] IN
    /\ At(c, "authorizing")
    /\ IF authorised(calls[c].request, target) /\ ValidateIntent(calls[c].request, target, Inspect)
       THEN calls' = [calls EXCEPT ![c].pc = "authorized", ![c].target = target] /\ UNCHANGED answers
       ELSE Refuse(c)
    /\ UNCHANGED <<ticket, history, operations, commands, targets, started>>

SaveTarget(c) ==
    LET o == calls[c].op IN
    /\ At(c, "authorized")
    /\ IF pending(targets, o)
       THEN targets' = completed(targets, o, calls[c].target) /\ Goto(c, "planned") /\ UNCHANGED answers
       ELSE Refuse(c) /\ UNCHANGED targets
    /\ UNCHANGED <<ticket, history, operations, commands, started>>

\* Reconcile: the journal proves that the operation was or was not applied.
Reconcile(c) ==
    LET o == calls[c].op  fingerprint == operationFingerprint(calls[c].request, calls[c].target) IN
    /\ At(c, "planned")
    /\ IF fingerprintDiffers(o, fingerprint) THEN Refuse(c)
       ELSE IF journalled(o) THEN ValidateReceipt(o, calls[c].request) /\ Goto(c, "applied") /\ UNCHANGED answers
       ELSE Goto(c, "absent") /\ UNCHANGED answers
    /\ UNCHANGED <<ticket, history, operations, commands, targets, started>>

\* The check before the write is dispatched.
Preflight(c) ==
    /\ At(c, "absent")
    /\ IF ValidateIntent(calls[c].request, calls[c].target, Inspect) THEN Goto(c, "checked") /\ UNCHANGED answers ELSE Refuse(c)
    /\ UNCHANGED <<ticket, history, operations, commands, targets, started>>

-----------------------------------------------------------------------------
(* Apply *)

ApplyPrior(c) ==
    LET o == calls[c].op IN
    /\ At(c, "checked")
    /\ Goto(c, IF journalled(o) THEN "applied" ELSE "applying")
    /\ UNCHANGED <<ticket, history, operations, commands, targets, answers, started>>

ApplyInspect(c) ==
    /\ At(c, "applying")
    /\ IF ValidateIntent(calls[c].request, calls[c].target, Inspect) THEN Goto(c, "deriving") /\ UNCHANGED answers ELSE Refuse(c)
    /\ UNCHANGED <<ticket, history, operations, commands, targets, started>>

ApplyDerive(c) ==
    LET request == calls[c].request IN
    /\ At(c, "deriving")
    /\ IF ticket.revision = calls[c].target.revision /\ (request.kind = "edit" => updateFields(request))
       THEN calls' = [calls EXCEPT ![c].pc = "mutating", ![c].value = applyEffect(ticket, request)] /\ UNCHANGED answers
       ELSE Refuse(c)
    /\ UNCHANGED <<ticket, history, operations, commands, targets, started>>

unchangedSinceDerived(value) == ticket.revision <= value.revision
\* MutateNativeTicket: ticket, history and journal in one transaction, against the revision the record was derived from.
unchanged(value) == ticket.revision = value.revision - 1
mutated(o, request, target, value) ==
    /\ ticket' = value
    /\ history' = Append(history, [op |-> o, request |-> request, snapshot |-> value])
    /\ operations' = [operations EXCEPT ![o] = [status |-> "committed", fingerprint |-> operationFingerprint(request, target)]]
MutateNativeTicket(c) ==
    LET o == calls[c].op IN
    /\ At(c, "mutating")
    /\ \/ /\ journalled(o)
          /\ Goto(c, "applied")
          /\ UNCHANGED <<ticket, history, operations, answers>>
       \/ /\ ~journalled(o) /\ unchanged(calls[c].value)
          /\ mutated(o, calls[c].request, calls[c].target, calls[c].value)
          /\ Goto(c, "applied")
          /\ UNCHANGED answers
       \/ /\ ~journalled(o) /\ ~unchanged(calls[c].value)
          /\ Refuse(c)
          /\ UNCHANGED <<ticket, history, operations>>
    /\ UNCHANGED <<commands, targets, started>>

uncertainIsApplied(c) == Goto(c, "applied") /\ UNCHANGED answers
\* The commit fails and nobody knows whether it took effect.
uncertain(c) == Refuse(c)
CommitUncertain(c) ==
    /\ At(c, "mutating")
    /\ ~journalled(calls[c].op) /\ unchanged(calls[c].value)
    /\ \/ mutated(calls[c].op, calls[c].request, calls[c].target, calls[c].value)
       \/ UNCHANGED <<ticket, history, operations>>
    /\ started < MaxCalls /\ started' = started + 1
    /\ uncertain(c)
    /\ UNCHANGED <<commands, targets>>

-----------------------------------------------------------------------------
(* Detail, then the end of the command *)

DetailReads(c) ==
    /\ At(c, "applied")
    /\ calls' = [calls EXCEPT ![c].pc = "reading", ![c].value = ticket]
    /\ UNCHANGED <<ticket, history, operations, commands, targets, answers, started>>

\* The capabilities must be those of the ticket that was read.
DetailInspects(c) ==
    /\ At(c, "reading")
    /\ IF Inspect.revision = calls[c].value.revision THEN Goto(c, "inspected") /\ UNCHANGED answers ELSE Refuse(c)
    /\ UNCHANGED <<ticket, history, operations, commands, targets, started>>

DetailHistory(c) ==
    /\ At(c, "inspected")
    /\ calls' = [calls EXCEPT ![c].pc = "detailed", ![c].value = [ticket |-> calls[c].value, history |-> history]]
    /\ UNCHANGED <<ticket, history, operations, commands, targets, answers, started>>

Complete(c) ==
    LET o == calls[c].op IN
    /\ At(c, "detailed")
    /\ IF pending(commands, o)
       THEN commands' = completed(commands, o, calls[c].value) /\ Answer(c, calls[c].value)
       ELSE Refuse(c) /\ UNCHANGED commands
    /\ UNCHANGED <<ticket, history, operations, targets, started>>

\* The daemon stops: the calls are gone.
Stop ==
    /\ \E c \in Callers : ~At(c, "idle")
    /\ started < MaxCalls /\ started' = started + 1
    /\ calls' = [c \in Callers |-> Idle]
    /\ UNCHANGED <<ticket, history, operations, commands, targets, answers>>

RequestsOf(k) ==
    IF k = "edit" THEN {[kind |-> k, revision |-> r, value |-> v] : r \in 1..ticket.revision, v \in Edits}
    ELSE {[kind |-> k, revision |-> r, value |-> v] : r \in 1..ticket.revision, v \in States}
Next ==
    \/ \E c \in Callers, o \in Operations : \E request \in RequestsOf(o[1]) : Begin(c, o, request)
    \/ \E c \in Callers :
          \/ Replay(c) \/ BeginTarget(c) \/ Authorize(c) \/ SaveTarget(c) \/ Reconcile(c) \/ Preflight(c)
          \/ ApplyPrior(c) \/ ApplyInspect(c) \/ ApplyDerive(c) \/ MutateNativeTicket(c) \/ CommitUncertain(c)
          \/ DetailReads(c) \/ DetailInspects(c) \/ DetailHistory(c) \/ Complete(c)
    \/ Stop

Spec == Init /\ [][Next]_vars

-----------------------------------------------------------------------------
TypeOK ==
    /\ ticket.state \in States /\ ticket.fields \in {"first"} \cup Edits
    /\ ticket = history[Len(history)].snapshot
    /\ \A o \in Operations : commands[o].status \in {"absent", "pending", "completed"} /\ targets[o].status \in {"absent", "pending", "completed"}
    /\ started \in 0..MaxCalls

\* Nobody overwrites what they have not seen and nothing is applied twice: however calls, retries,
\* stops and uncertain commits interleave, entry n of the history is at revision n, was asked for by a user
\* who had loaded revision n - 1, and no operation has two entries (mutate, MutateNativeTicket).
EditsFollowWhatWasSeen ==
    /\ \A i \in 1..Len(history) : history[i].snapshot.revision = i /\ history[i].request.revision = i - 1
    /\ \A i, j \in 1..Len(history) : history[i].op = history[j].op => i = j

\* A request answered with success was applied: the history shown in the answer holds it, and the
\* journal holds the receipt that a later retry will find (mutate, Reconcile).
AnsweredIsApplied ==
    \A a \in answers :
        /\ journalled(a.op) /\ operations[a.op].fingerprint.request = a.request
        /\ \E i \in 1..Len(a.detail.history) : a.detail.history[i].op = a.op /\ a.detail.history[i].request = a.request

\* Every successful answer to one key is the same, though racing calls of the key each loaded
\* the detail at another moment (CompleteCommand closes a command once; the others fail).
AnswersAgree == \A a, b \in answers : a.op = b.op => a = b

-----------------------------------------------------------------------------
(* The inductive invariant: a call carries the request of its command and the *)
(* target its revision was authorised for, and the journal, the history and   *)
(* what was answered tell of the same operations.                             *)

\* There is a state to begin with, and calls are counted.
EditsKnown == MaxCalls \in Nat /\ States # {}

TicketRows == [revision : Nat, fields : {"first"} \cup Edits, state : States]
Entries == [op : Operations \cup {FirstEntry.op}, request : Requests \cup {FirstEntry.request}, snapshot : TicketRows]
Shows(shown, o, request) == \E i \in 1..Len(shown) : shown[i].op = o /\ shown[i].request = request

EditTypes ==
    /\ ticket \in TicketRows /\ history \in Seq(Entries) /\ started \in 0..MaxCalls
    /\ operations = [o \in Operations |-> operations[o]] /\ commands = [o \in Operations |-> commands[o]]
    /\ targets = [o \in Operations |-> targets[o]] /\ calls = [c \in Callers |-> calls[c]]
    /\ \A o \in Operations :
          /\ commands[o].status \in {"absent", "pending", "completed"} /\ (commands[o].status = "absent" <=> commands[o] = Absent)
          /\ targets[o].status \in {"absent", "pending", "completed"} /\ (targets[o].status = "absent" <=> targets[o] = Absent)

HistoryFits ==
    /\ ticket.revision = Len(history) /\ Len(history) >= 1 /\ ticket = history[Len(history)].snapshot
    /\ EditsFollowWhatWasSeen
    /\ \A i \in 1..Len(history) : history[i].op \in Operations => journalled(history[i].op)

RowsFit ==
    \A o \in Operations :
       /\ targets[o].status # "absent" => commands[o].status # "absent" /\ targets[o].request = commands[o].request
       /\ targets[o].status = "completed" => targets[o].response.revision = commands[o].request.revision
       /\ journalled(o) => /\ commands[o].status # "absent" /\ operations[o].fingerprint.request = commands[o].request
                           /\ Shows(history, o, commands[o].request)
       /\ commands[o].status = "completed" => journalled(o) /\ Shows(commands[o].response.history, o, commands[o].request)

Authorised == {"authorized", "planned", "absent", "checked", "applying", "deriving", "mutating"}
Applied == {"applied", "reading", "inspected", "detailed"}
Call(pc, o, request, target, value) == [pc |-> pc, op |-> o, request |-> request, target |-> target, value |-> value]
CallFits(c) ==
    LET x == calls[c]
    IN  \/ x = Idle
        \/ /\ x = Call(x.pc, x.op, x.request, x.target, x.value)
           /\ x.pc \in {"replay", "begun", "authorizing"} \cup Authorised \cup Applied
           /\ x.op \in Operations /\ x.request \in Requests
           /\ commands[x.op].status # "absent" /\ commands[x.op].request = x.request
           /\ x.pc = "replay" => commands[x.op].status = "completed"
           /\ x.pc \in Authorised => x.target.revision = x.request.revision
           /\ x.pc = "mutating" => x.value \in TicketRows /\ x.value.revision = x.request.revision + 1
           /\ x.pc \in Applied => journalled(x.op)
           /\ x.pc = "detailed" => Shows(x.value.history, x.op, x.request)

AnswersFit ==
    \A a \in answers :
       /\ a.op \in Operations /\ commands[a.op].status = "completed"
       /\ a = [op |-> a.op, request |-> commands[a.op].request, detail |-> commands[a.op].response]

EditInv == EditTypes /\ HistoryFits /\ RowsFit /\ AnswersFit /\ \A c \in Callers : CallFits(c)
=============================================================================
