---------------------------- MODULE ExecAttempt -----------------------------
(***************************************************************************)
(* One attempt of the Codex exec fallback                                  *)
(* (adapters/provider/codex/exec_adapter.go): a process per attempt that   *)
(* writes JSON lines, is stopped by killing it, and whose end decides the  *)
(* result.  The daemon may restart; the recovery record then lets a new    *)
(* process resume the session.                                             *)
(***************************************************************************)
EXTENDS Naturals, Sequences

CONSTANTS MaxFrames, MaxStarts

VARIABLES attempt,    \* the registered execAttempt: operation, stage, stop, result
          seen,       \* lifecycle boundaries and output observed by the pump
          child,      \* the process: running or exited, and its exit
          stdout,     \* frames written and not yet read
          record,     \* the durable recovery record exists
          schemaFile, \* the temporary schema file of this attempt exists
          starts      \* processes started so far

vars == <<attempt, seen, child, stdout, record, schemaFile, starts>>

None == "none"
Frames == {"thread", "otherThread", "turnStarted", "turnCompleted", "output", "badOutput", "malformed"}
Fresh == [op |-> None, at |-> "absent", stop |-> None, result |-> None]
NothingSeen == [thread |-> FALSE, turnStarted |-> FALSE, turnCompleted |-> FALSE,
                output |-> None, error |-> FALSE]

Init ==
    /\ attempt = Fresh /\ seen = NothingSeen
    /\ child = [state |-> "absent", clean |-> TRUE] /\ stdout = <<>>
    /\ record = FALSE /\ schemaFile = FALSE
    /\ starts = 0

Terminal == attempt.result # None

\* (A mutant of Begin.)
BeginUnrecorded(op) ==
    /\ attempt.at = "absent" /\ starts < MaxStarts
    /\ op = "resume" => record
    /\ attempt' = [Fresh EXCEPT !.op = op, !.at = "starting"]
    /\ UNCHANGED <<seen, child, stdout, record, schemaFile, starts>>
\* begin: the attempt is registered; a start saves the recovery record first.
\* A failure removes the attempt, so that the request may be repeated.
Begin(op) ==
    /\ attempt.at = "absent" /\ starts < MaxStarts
    /\ op = "resume" => record
    /\ \/ /\ record' = TRUE
          /\ attempt' = [Fresh EXCEPT !.op = op, !.at = "starting"]
       \/ record' \in {record, TRUE} /\ UNCHANGED attempt
    /\ UNCHANGED <<seen, child, stdout, schemaFile, starts>>

\* writeExecSchema, recordSelection and the factory; the file is removed when a
\* later step fails.
StartProcess ==
    /\ attempt.at = "starting"
    /\ \/ /\ schemaFile' = TRUE
          /\ child' = [state |-> "running", clean |-> TRUE]
          /\ stdout' = <<>> /\ seen' = NothingSeen
          /\ starts' = starts + 1
          /\ attempt' = [attempt EXCEPT !.at = "pumping"]
       \/ /\ attempt' = Fresh
          /\ schemaFile' = FALSE
          /\ UNCHANGED <<child, stdout, seen, starts>>
    /\ UNCHANGED record

-----------------------------------------------------------------------------
(* The process (external).                                                 *)

Write(f) ==
    /\ child.state = "running" /\ Len(stdout) < MaxFrames
    /\ stdout' = Append(stdout, f)
    /\ UNCHANGED <<attempt, seen, child, record, schemaFile, starts>>

Exit(clean) ==
    /\ child.state = "running"
    /\ child' = [state |-> "exited", clean |-> clean]
    /\ UNCHANGED <<attempt, seen, stdout, record, schemaFile, starts>>

-----------------------------------------------------------------------------
(* pumpExec and finishExec.                                                *)

\* observeExecLine: the session identity of a resumed attempt may not change.
LineError(f) == f = "malformed" \/ (f = "otherThread" /\ attempt.op = "resume")

ObserveLine ==
    /\ attempt.at = "pumping" /\ stdout # <<>>
    /\ LET f == stdout[1] IN
       IF LineError(f)
       THEN /\ seen' = [seen EXCEPT !.error = TRUE]
            /\ child' \in {child, [state |-> "exited", clean |-> FALSE]}
            /\ stdout' = <<>>
            /\ attempt' = [attempt EXCEPT !.at = "waiting"]
       ELSE /\ seen' = [seen EXCEPT
                  !.thread = @ \/ f \in {"thread", "otherThread"},
                  !.turnStarted = @ \/ f = "turnStarted",
                  !.turnCompleted = @ \/ f = "turnCompleted",
                  !.output = IF f \in {"output", "badOutput"} THEN f ELSE @]
            /\ stdout' = Tail(stdout)
            /\ UNCHANGED <<child, attempt>>
    /\ UNCHANGED <<record, schemaFile, starts>>

AtEOF ==
    /\ attempt.at = "pumping" /\ stdout = <<>> /\ child.state = "exited"
    /\ attempt' = [attempt EXCEPT !.at = "waiting"]
    /\ UNCHANGED <<seen, child, stdout, record, schemaFile, starts>>

\* (A mutant of Verdict.)
VerdictErrorFirst ==
    IF seen.error \/ ~child.clean THEN "failed"
    ELSE IF attempt.stop = "cancelled" THEN "cancelled"
    ELSE IF attempt.stop = "timeout" THEN "interrupted"
    ELSE IF seen.thread /\ seen.turnStarted /\ seen.turnCompleted /\ seen.output = "output" THEN "succeeded"
    ELSE "failed"
\* (A mutant of Verdict.)
VerdictNoBoundaries ==
    IF attempt.stop = "cancelled" THEN "cancelled"
    ELSE IF attempt.stop = "timeout" THEN "interrupted"
    ELSE IF seen.error \/ ~child.clean \/ seen.output # "output" THEN "failed"
    ELSE "succeeded"
\* process.Wait, removal of the schema file, and finishExec's decision, which
\* is taken from one reading of the stop flag.
Verdict ==
    IF attempt.stop = "cancelled" THEN "cancelled"
    ELSE IF attempt.stop = "timeout" THEN "interrupted"
    ELSE IF seen.error \/ ~child.clean THEN "failed"
    ELSE IF ~(seen.thread /\ seen.turnStarted /\ seen.turnCompleted) \/ seen.output # "output" THEN "failed"
    ELSE "succeeded"

\* (A mutant of Decide.)
DecideUnwaited ==
    /\ attempt.at = "pumping" /\ attempt.stop # None
    /\ attempt' = [attempt EXCEPT !.at = "cancelled"]
    /\ UNCHANGED <<seen, child, stdout, record, schemaFile, starts>>
Decide ==
    /\ attempt.at = "waiting" /\ child.state = "exited"
    /\ schemaFile' = FALSE
    /\ \E v \in {Verdict} \cup (IF Verdict = "succeeded" THEN {"failed"} ELSE {}) :
          attempt' = [attempt EXCEPT !.at = v]
    /\ UNCHANGED <<seen, child, stdout, record, starts>>

Decided == attempt.at \in {"cancelled", "interrupted", "failed", "succeeded"}

Finish ==
    /\ Decided /\ ~Terminal
    /\ attempt' = [attempt EXCEPT !.result = attempt.at]
    /\ UNCHANGED <<seen, child, stdout, record, schemaFile, starts>>

-----------------------------------------------------------------------------
(* Stops and restart.                                                      *)

Registered == attempt.at \notin {"absent", "starting"}
Killed(ok) == IF ok /\ child.state = "running" THEN [state |-> "exited", clean |-> FALSE] ELSE child

\* CancelAttempt: the flag is set once and the process killed.
Cancel(ok) ==
    /\ Registered
    /\ IF Terminal
       THEN UNCHANGED <<attempt, child>>
       ELSE /\ attempt' = [attempt EXCEPT !.stop = IF @ = None THEN "cancelled" ELSE @]
            /\ child' = Killed(ok)
    /\ UNCHANGED <<seen, stdout, record, schemaFile, starts>>

\* enforceExecTimeout fires once; a failing kill is not repeated.
Timeout(ok) ==
    /\ Registered /\ ~Terminal /\ attempt.stop = None
    /\ attempt' = [attempt EXCEPT !.stop = "timeout"]
    /\ child' = Killed(ok)
    /\ UNCHANGED <<seen, stdout, record, schemaFile, starts>>

\* The daemon dies: the attempt, its process and its temporary file are
\* forgotten, the recovery record stays.
Restart ==
    /\ attempt.at # "absent"
    /\ attempt' = Fresh /\ seen' = NothingSeen /\ stdout' = <<>>
    /\ child' = [state |-> "absent", clean |-> TRUE] /\ schemaFile' = FALSE
    /\ UNCHANGED <<record, starts>>

Next ==
    \/ \E op \in {"start", "resume"} : Begin(op)
    \/ StartProcess
    \/ \E f \in Frames : Write(f)
    \/ \E c \in BOOLEAN : Exit(c)
    \/ ObserveLine \/ AtEOF \/ Decide \/ Finish
    \/ \E ok \in BOOLEAN : Cancel(ok) \/ Timeout(ok)
    \/ Restart

Spec == Init /\ [][Next]_vars

-----------------------------------------------------------------------------
AttemptRows == [op : {None, "start", "resume"},
                at : {"absent", "starting", "pumping", "waiting", "cancelled",
                      "interrupted", "failed", "succeeded"},
                stop : {None, "cancelled", "timeout"},
                result : {None, "cancelled", "interrupted", "failed", "succeeded"}]
SeenRows == [thread : BOOLEAN, turnStarted : BOOLEAN, turnCompleted : BOOLEAN,
             output : {None, "output", "badOutput"}, error : BOOLEAN]
ChildRows == [state : {"absent", "running", "exited"}, clean : BOOLEAN]
TypeOK ==
    /\ attempt \in AttemptRows /\ seen \in SeenRows /\ child \in ChildRows
    /\ stdout \in Seq(Frames) /\ Len(stdout) <= MaxFrames
    /\ record \in BOOLEAN /\ schemaFile \in BOOLEAN /\ starts \in 0..MaxStarts

\* A result is published only after the process has been awaited, and with the
\* temporary schema file removed, also when a cancellation and a timeout meet.
ResultAfterExit == Terminal => child.state # "running" /\ ~schemaFile

WholeSession ==
    seen.thread /\ seen.turnStarted /\ seen.turnCompleted /\ seen.output = "output" /\ ~seen.error
\* A success was read from a complete session that ended by itself.
SuccessIsWhole == attempt.result = "succeeded" => WholeSession

\* A stop that precedes the end of the process decides the result: an attempt
\* the pump had not finished reading is never reported as failed or succeeded.
StopDecides ==
    [][attempt.stop # None /\ attempt.at = "waiting" /\ attempt'.at \notin {"waiting", "absent"} =>
          attempt'.at \in {"cancelled", "interrupted"}]_vars

\* What can be resumed after a restart was saved before its process existed.
RecordBeforeProcess == child.state = "running" => record

-----------------------------------------------------------------------------
(* The inductive invariant: a process belongs to a pump that has not decided  *)
(* yet, and a decision keeps what was seen.                                   *)

\* Frames and starts are counted.
BoundsKnown == MaxFrames \in Nat /\ MaxStarts \in Nat

Working == attempt.at \in {"pumping", "waiting"}
ExecInv ==
    /\ TypeOK
    /\ attempt.at = "absent" => attempt = Fresh
    /\ Terminal => attempt.result = attempt.at
    /\ attempt.at # "absent" => record
    /\ attempt.at = "starting" => starts < MaxStarts
    /\ child.state = "running" => Working
    /\ Decided => ~schemaFile
    /\ attempt.at = "succeeded" => WholeSession
=============================================================================
