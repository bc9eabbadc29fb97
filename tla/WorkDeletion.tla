---------------------------- MODULE WorkDeletion ----------------------------
(***************************************************************************)
(* Deleting a work item (core/runexecution/work_deletion.go): a durable    *)
(* request, then a pass that withdraws pending approvals, cancels the runs *)
(* one by one and records the deletion.  Requests and the queue loop run   *)
(* passes side by side; workers, reviewers and controls of the runs come   *)
(* between their steps.  Only Cancel, the review pass and the checkpoint   *)
(* decisions exclude each other (checkpointMu).                            *)
(***************************************************************************)
EXTENDS Naturals, FiniteSets

CONSTANTS Runs, Callers,                            \* of DeleteWork at one time
          MaxRestarts, MaxVersion, MaxReviews       \* bounds

VARIABLES work,       \* retained, deleting, deleted
          run,        \* status and version of each run
          attempt,    \* none, live, uncertain (reconcile_required) or over, per run
          control,    \* the approval asked for with run.waiting, of the current visit
          review,     \* the artifact review of the current visit: status, version
          task,       \* each pass: its step, what it read, what is left of it
          holder,     \* the passes inside Cancel: one or none
          cancelled,  \* answers of completed cancel commands: <<run, version>>
          restarts

vars == <<work, run, attempt, control, review, task, holder, cancelled, restarts>>

Queue == "queue"
Passes == Callers \cup {Queue}

Done == {"completed", "cancelled"}
Pending == {"human", "agent"}          \* a review waits for a person or for a revision
NoTask == [at |-> "idle", runs |-> {}, read |-> [r \in Runs |-> 0], due |-> {},
           on |-> {}, seen |-> 0, failed |-> FALSE]

Init ==
    /\ work = "retained"
    /\ run = [r \in Runs |-> [status |-> "running", version |-> 1]]
    /\ attempt = [r \in Runs |-> "live"]
    /\ control = [r \in Runs |-> "none"]
    /\ review = [r \in Runs |-> [status |-> "none", version |-> 0]]
    /\ task = [p \in Passes |-> NoTask] /\ holder = {}
    /\ cancelled = {} /\ restarts = 0

-----------------------------------------------------------------------------
\* A pass

\* DeleteWork: work.deletion_requested, then a pass; a repeated request
\* reconciles again.
DeleteWork(p) ==
    /\ p \in Callers /\ task[p].at = "idle" /\ work \in {"retained", "deleting"}
    /\ work' = "deleting"
    /\ task' = [task EXCEPT ![p] = [NoTask EXCEPT !.at = "list"]]
    /\ UNCHANGED <<run, attempt, control, review, holder, cancelled, restarts>>

\* ReconcileWorkDeletions, every second in the queue loop.
Reconcile ==
    /\ task[Queue].at = "idle" /\ work = "deleting"
    /\ task' = [task EXCEPT ![Queue] = [NoTask EXCEPT !.at = "list"]]
    /\ UNCHANGED <<work, run, attempt, control, review, holder, cancelled, restarts>>

\* RunsForWorkItem: statuses and versions are used as read here.
ListRuns(p) ==
    /\ task[p].at = "list"
    /\ task' = [task EXCEPT ![p] = [NoTask EXCEPT
                  !.at = "approvals", !.runs = {r \in Runs : run[r].status \notin Done},
                  !.read = [r \in Runs |-> run[r].version]]]
    /\ UNCHANGED <<work, run, attempt, control, review, holder, cancelled, restarts>>

\* Approvals(pending) of these runs, with the versions they have now.
ReadApprovals(p) ==
    /\ task[p].at = "approvals"
    /\ task' = [task EXCEPT ![p].at = "withdraw", ![p].due =
                  {[run |-> r, kind |-> "control", version |-> 0] :
                      r \in {q \in Runs : control[q] = "pending"}}
                  \cup {[run |-> r, kind |-> "review", version |-> review[r].version] :
                      r \in {q \in Runs : review[q].status \in Pending}}]
    /\ UNCHANGED <<work, run, attempt, control, review, holder, cancelled, restarts>>

Current(a) == IF a.kind = "control" THEN control[a.run] = "pending"
              ELSE review[a.run].version = a.version

\* The same append by another pass that read the approval as this one did.
ByAnother(a) == IF a.kind = "control" THEN control[a.run] = "withdrawn"
                ELSE review[a.run] = [status |-> "withdrawn", version |-> a.version + 1]

\* Append(approval.cancelled), one after the other: it is the same command in every
\* pass, and an approval that has changed otherwise ends the pass.
WithdrawApproval(p, a) ==
    /\ task[p].at = "withdraw" /\ a \in task[p].due
    /\ task' = IF Current(a) \/ ByAnother(a) THEN [task EXCEPT ![p].due = @ \ {a}]
               ELSE [task EXCEPT ![p] = NoTask]
    /\ control' = IF a.kind = "control" /\ Current(a) THEN [control EXCEPT ![a.run] = "withdrawn"] ELSE control
    /\ review' = IF a.kind = "review" /\ Current(a)
                 THEN [review EXCEPT ![a.run] = [status |-> "withdrawn", version |-> @.version + 1]] ELSE review
    /\ UNCHANGED <<work, run, attempt, holder, cancelled, restarts>>

Withdrawn(p) ==
    /\ task[p].at = "withdraw" /\ task[p].due = {}
    /\ task' = [task EXCEPT ![p].at = "cancel"]
    /\ UNCHANGED <<work, run, attempt, control, review, holder, cancelled, restarts>>

\* Cancel(run, version read) up to its reads: the answer of the same command is
\* returned again, and another version or a finished run is refused.  Otherwise
\* it asks the worker to stop and reads the run's approvals.
CancelReads(p, r) ==
    /\ task[p].at = "cancel" /\ r \in task[p].runs /\ holder = {}
    /\ IF <<r, task[p].read[r]>> \in cancelled
       THEN task' = [task EXCEPT ![p].runs = @ \ {r}] /\ UNCHANGED holder
       ELSE IF run[r].version # task[p].read[r] \/ run[r].status \in Done
       THEN task' = [task EXCEPT ![p].runs = @ \ {r}, ![p].failed = TRUE] /\ UNCHANGED holder
       ELSE /\ task' = [task EXCEPT ![p].at = "append", ![p].on = {r}, ![p].seen =
                          IF review[r].status \in Pending THEN review[r].version ELSE 0]
            /\ holder' = {p}
    /\ UNCHANGED <<work, run, attempt, control, review, cancelled, restarts>>

\* ... and its append: attempts, the waiting visit, both kinds of approvals and
\* the run close together, or nothing does.  A stop that is not confirmed leaves
\* attempt and run to be reconciled.
CancelAppends(p, r) ==
    /\ task[p].at = "append" /\ task[p].on = {r} /\ holder = {p}
    /\ holder' = {}
    /\ \/ /\ run[r].version = task[p].read[r]
          /\ review[r].version = task[p].seen \/ task[p].seen = 0
          /\ control' = IF run[r].status = "waiting" /\ control[r] = "pending"
                        THEN [control EXCEPT ![r] = "closed"] ELSE control
          /\ review' = IF task[p].seen # 0
                       THEN [review EXCEPT ![r] = [status |-> "closed", version |-> @.version + 1]]
                       ELSE review
          /\ \/ /\ attempt' = [attempt EXCEPT ![r] = "over"]
                /\ run' = [run EXCEPT ![r] = [status |-> "cancelled", version |-> @.version + 1]]
                /\ cancelled' = cancelled \cup {<<r, task[p].read[r]>>}
                /\ task' = [task EXCEPT ![p].at = "cancel", ![p].runs = @ \ {r}]
             \/ /\ attempt[r] = "live" /\ run[r].status # "reconcile_required"
                /\ attempt' = [attempt EXCEPT ![r] = "uncertain"]
                /\ run' = [run EXCEPT ![r] = [status |-> "reconcile_required", version |-> @.version + 1]]
                /\ task' = [task EXCEPT ![p].at = "cancel", ![p].runs = @ \ {r}, ![p].failed = TRUE]
                /\ UNCHANGED cancelled
       \/ /\ task' = [task EXCEPT ![p].at = "cancel", ![p].runs = @ \ {r}, ![p].failed = TRUE]
          /\ UNCHANGED <<run, attempt, control, review, cancelled>>
    /\ UNCHANGED <<work, restarts>>

\* The store refuses work.deleted while a run is unfinished or an attempt is open.
Deletable == \A r \in Runs : run[r].status \in Done /\ attempt[r] \notin {"live", "uncertain"}

RecordDeleted(p) ==
    /\ task[p].at = "cancel" /\ task[p].runs = {}
    /\ task' = [task EXCEPT ![p] = NoTask]
    /\ work' = IF ~task[p].failed /\ Deletable THEN "deleted" ELSE work
    /\ UNCHANGED <<run, attempt, control, review, holder, cancelled, restarts>>

-----------------------------------------------------------------------------
(* The runs between two steps of a pass.  run.resumed, run.continued,       *)
(* attempt.created and approval.decided need the work to be retained.       *)

Move(r, from, to) ==
    /\ run[r].status \in from /\ run[r].version < MaxVersion
    /\ run' = [run EXCEPT ![r] = [status |-> to, version |-> @.version + 1]]

\* The last visit has no checkpoint and completes the run, or its attempt fails.
RunEnds(r) ==
    /\ attempt[r] = "live" /\ attempt' = [attempt EXCEPT ![r] = "over"]
    /\ \/ control[r] = "none" /\ Move(r, {"running"}, "completed")
       \/ Move(r, {"running"}, "failed")
    /\ UNCHANGED <<work, control, review, task, holder, cancelled, restarts>>

\* A visit with a checkpoint ends: its approval and run.waiting in one append.
RunAsks(r) ==
    /\ attempt[r] = "live" /\ attempt' = [attempt EXCEPT ![r] = "over"]
    /\ control[r] = "none" /\ control' = [control EXCEPT ![r] = "pending"]
    /\ Move(r, {"running"}, "waiting")
    /\ UNCHANGED <<work, review, task, holder, cancelled, restarts>>

\* The next visit, or the end of the workflow, after a decision.
NextVisit(r) ==
    /\ control' = [control EXCEPT ![r] = "none"]
    /\ review' = [review EXCEPT ![r].status = "none"]
    /\ \/ Move(r, {"waiting"}, "running") /\ attempt' = [attempt EXCEPT ![r] = "live"]
       \/ Move(r, {"waiting"}, "completed") /\ UNCHANGED attempt

\* ApplyWorkflowCheckpointDecision: approve or reject.
DecideCheckpoint(r) ==
    /\ work = "retained" /\ holder = {}
    /\ run[r].status = "waiting" /\ control[r] = "pending" /\ review[r].status = "none"
    /\ \/ NextVisit(r)
       \/ /\ Move(r, {"waiting"}, "cancelled") /\ control' = [control EXCEPT ![r] = "closed"]
          /\ UNCHANGED <<attempt, review>>
    /\ UNCHANGED <<work, task, holder, cancelled, restarts>>

Reviewed(r, to) ==
    /\ review[r].version < MaxReviews
    /\ review' = [review EXCEPT ![r] = [status |-> to, version |-> @.version + 1]]

\* ReconcileArtifactReviews retires the checkpoint's approval once reviews exist;
\* the append may fail, and the next pass tries again.
Retires(r) ==
    \/ control[r] = "pending" /\ control' = [control EXCEPT ![r] = "closed"]
    \/ UNCHANGED control

\* ... opens the reviews of a waiting visit, on their own aggregate alone
OpenReview(r) ==
    /\ holder = {} /\ run[r].status = "waiting" /\ control[r] # "none"
    /\ review[r].status = "none" /\ Reviewed(r, "human")
    /\ Retires(r)
    /\ UNCHANGED <<work, run, attempt, task, holder, cancelled, restarts>>

\* ... starts the revision that was asked for
StartRevision(r) ==
    /\ work = "retained" /\ holder = {}
    /\ review[r].status = "agent" /\ Reviewed(r, "agent")
    /\ Move(r, {"waiting"}, "running") /\ attempt' = [attempt EXCEPT ![r] = "live"]
    /\ Retires(r)
    /\ UNCHANGED <<work, task, holder, cancelled, restarts>>

\* ... and goes on when the reviews are approved.
Advance(r) ==
    /\ work = "retained" /\ holder = {}
    /\ review[r].status = "approved" /\ NextVisit(r)
    /\ UNCHANGED <<work, task, holder, cancelled, restarts>>

\* The attempt of a revision ends; the run waits again.
RevisionEnds(r) ==
    /\ attempt[r] = "live" /\ attempt' = [attempt EXCEPT ![r] = "over"]
    /\ review[r].status = "agent" /\ Move(r, {"running"}, "waiting")
    /\ UNCHANGED <<work, control, review, task, holder, cancelled, restarts>>

\* SubmitFeedback, RecordAgentResponse and Decide of a review look at the review
\* alone; a revised answer replaces the review by the next one in one append.
ReviewMoves(r) ==
    /\ \/ review[r].status = "human" /\ Reviewed(r, "agent")
       \/ review[r].status = "agent" /\ Reviewed(r, "human")
       \/ /\ work = "retained" /\ review[r].status = "human"
          /\ \E to \in {"approved", "closed"} : Reviewed(r, to)
    /\ UNCHANGED <<work, run, attempt, control, task, holder, cancelled, restarts>>

\* Retry, continue or extend.
RunContinues(r) ==
    /\ work = "retained"
    /\ Move(r, {"completed", "failed"}, "running")
    /\ attempt' = [attempt EXCEPT ![r] = "live"]
    /\ UNCHANGED <<work, control, review, task, holder, cancelled, restarts>>

\* A user's Cancel.  An attempt it read too early stays open (module RunExecution).
UserCancels(r) ==
    /\ holder = {}
    /\ Move(r, {"running", "waiting", "failed", "reconcile_required"}, "cancelled")
    /\ \E a \in {attempt[r], "over"} : attempt' = [attempt EXCEPT ![r] = a]
    /\ control' = IF run[r].status = "waiting" /\ control[r] = "pending"
                  THEN [control EXCEPT ![r] = "closed"] ELSE control
    /\ review' = IF review[r].status \in Pending
                 THEN [review EXCEPT ![r] = [status |-> "closed", version |-> @.version + 1]]
                 ELSE review
    /\ UNCHANGED <<work, task, holder, cancelled, restarts>>

Restart ==
    /\ restarts < MaxRestarts /\ restarts' = restarts + 1
    /\ task' = [p \in Passes |-> NoTask] /\ holder' = {}
    /\ UNCHANGED <<work, run, attempt, control, review, cancelled>>

PassStep(p) ==
    \/ DeleteWork(p) \/ ListRuns(p) \/ ReadApprovals(p) \/ Withdrawn(p) \/ RecordDeleted(p)
    \/ \E a \in task[p].due : WithdrawApproval(p, a)
    \/ \E r \in Runs : CancelReads(p, r) \/ CancelAppends(p, r)

RunStep(r) ==
    \/ RunEnds(r) \/ RunAsks(r) \/ DecideCheckpoint(r) \/ OpenReview(r) \/ StartRevision(r)
    \/ Advance(r) \/ RevisionEnds(r) \/ ReviewMoves(r) \/ RunContinues(r) \/ UserCancels(r)

Next ==
    \/ \E p \in Passes : PassStep(p)
    \/ Reconcile \/ Restart
    \/ \E r \in Runs : RunStep(r)

Spec == Init /\ [][Next]_vars

-----------------------------------------------------------------------------
TypeOK ==
    /\ work \in {"retained", "deleting", "deleted"}
    /\ \A r \in Runs : control[r] \in {"none", "pending", "withdrawn", "closed"}
    /\ holder \subseteq Passes /\ restarts \in 0..MaxRestarts

\* Deleted work has no unfinished run and no open attempt, now or later.
DeletedRunsFinished == work = "deleted" => Deletable

\* Deleted work leaves no decision pending, whatever was asked for while its runs
\* were being cancelled: a checkpoint's approval moves its run's version and fails
\* the pass, and a review, which does not, is withdrawn by Cancel itself.
DeletedNothingPending ==
    work = "deleted" =>
        \A r \in Runs : control[r] # "pending" /\ review[r].status \notin Pending
-----------------------------------------------------------------------------
(* Why: between its steps a pass knows this of the runs, and no step of      *)
(* another pass, a worker, a reviewer or a control takes it away.            *)

RunRows == [status : {"running", "waiting", "completed", "failed", "cancelled", "reconcile_required"},
            version : Nat]
Dues == [run : Runs, kind : {"control", "review"}, version : Nat]
Tasks == [at : {"idle", "list", "approvals", "withdraw", "cancel", "append"}, runs : SUBSET Runs,
          read : [Runs -> Nat], due : SUBSET Dues, on : SUBSET Runs, seen : Nat, failed : BOOLEAN]

Rows ==
    /\ work \in {"retained", "deleting", "deleted"}
    /\ run \in [Runs -> RunRows]
    /\ attempt \in [Runs -> {"none", "live", "uncertain", "over"}]
    /\ control \in [Runs -> {"none", "pending", "withdrawn", "closed"}]
    /\ review \in [Runs -> [status : {"none", "human", "agent", "approved", "withdrawn", "closed"}, version : Nat]]
    /\ task \in [Passes -> Tasks]
    /\ \A r \in Runs : review[r].status \in Pending => review[r].version > 0

\* A finished run with nothing left to decide.
Over(r) ==
    /\ run[r].status \in Done
    /\ control[r] # "pending" /\ review[r].status \notin Pending

Due(p, r, k) == \E a \in task[p].due : a.run = r /\ a.kind = k

\* What a pass read is old or still true: a run that is unfinished as read is
\* unfinished, and a run that was finished when it was read stays so.
ReadHolds(p) ==
    /\ task[p].at # "idle" => work # "retained"
    /\ \A r \in Runs : task[p].read[r] <= run[r].version
    /\ \A r \in task[p].runs : task[p].read[r] = run[r].version => run[r].status \notin Done
    /\ task[p].at \in {"approvals", "withdraw"} =>
          \A r \in Runs \ task[p].runs : run[r].status \in Done

\* What is pending on a run the pass can still close, or has found finished, is due.
DueHolds(p) ==
    task[p].at = "withdraw" =>
        \A r \in Runs :
            /\ control[r] = "pending" /\ (r \in task[p].runs => task[p].read[r] = run[r].version) =>
                  Due(p, r, "control")
            /\ review[r].status \in Pending /\ r \notin task[p].runs => Due(p, r, "review")

\* A pass that cancels has closed every run it is done with, or has failed.
CancelHolds(p) ==
    task[p].at \in {"cancel", "append"} =>
        /\ ~task[p].failed => \A r \in Runs \ task[p].runs : Over(r)
        /\ \A r \in task[p].runs : task[p].read[r] = run[r].version => control[r] # "pending"

\* Inside Cancel nobody opens a review that it did not see.
AppendHolds(p) ==
    task[p].at = "append" =>
        /\ holder = {p} /\ task[p].on \subseteq task[p].runs
        /\ task[p].seen = 0 => \A r \in task[p].on : review[r].status \notin Pending

PassHolds(p) == ReadHolds(p) /\ DueHolds(p) /\ CancelHolds(p) /\ AppendHolds(p)

AnswersHold ==
    /\ cancelled # {} => work # "retained"
    /\ \A r \in Runs, v \in Nat : <<r, v>> \in cancelled => Over(r)

DeletionInv ==
    /\ Rows /\ AnswersHold /\ DeletedRunsFinished
    /\ work = "deleted" => \A r \in Runs : Over(r)
    /\ \A p \in Passes : PassHolds(p)

\* What any step that is not the pass's own may do to a run.
Calm(r) ==
    /\ run'[r] = run[r] \/ run'[r].version > run[r].version
    /\ control'[r] = "pending" =>
          control[r] = "pending" \/ (run'[r].version > run[r].version /\ run[r].status \notin Done)
    /\ review'[r].status \in Pending =>
          review[r].status \in Pending \/ (holder = {} /\ run[r].status \notin Done)
    /\ work # "retained" /\ run[r].status \in Done => run'[r].status \in Done
    /\ work # "retained" /\ attempt[r] \notin {"live", "uncertain"} =>
          attempt'[r] \notin {"live", "uncertain"}
=============================================================================
