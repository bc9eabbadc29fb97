------------------------ MODULE RunExecutionProofs ------------------------
(***************************************************************************)
(* Proofs about the run service (RunExecution), for any set of runs, any   *)
(* route, any limit and any bounds: what the projections of a run say      *)
(* stays consistent through queue loop, workers, controls, decisions,      *)
(* crashes and restarts, and what an attempt came to is never rewritten.   *)
(*                                                                         *)
(* None of the invariants the runs check is inductive.  That a run has one *)
(* live attempt, for one, depends on what a completion finds: it creates a *)
(* successor without asking for the status of the run, so it must be known *)
(* that the attempt it completes is the newest, that its visit is the only *)
(* open one, and that a run that is over has neither.  RunOK states that   *)
(* of one run, as a predicate on a status, a sequence of visits and a      *)
(* sequence of attempts, so that what a batch of events does to a run is a *)
(* lemma about sequences without primes; IndInv adds what the rest of the  *)
(* process refers to.                                                      *)
(*                                                                         *)
(* The proof has three layers: batches of one run (StatusMoves to          *)
(* Cancels), steps of the system in terms of them (one lemma per action or *)
(* group of actions), and the theorems.                                    *)
(***************************************************************************)
EXTENDS RunExecution, FiniteSetTheorems, SequenceTheorems, TLAPS

LiveStates == {"created", "running"}
OpenVisit == {"pending", "running"}

\* Sizes: a run has at least one attempt for each visit, more by the retries, and
\* every attempt works for a visit that exists.
Shape(V, A) ==
    /\ V \in Seq(VisitStates)
    /\ A \in Seq(Attempt)
    /\ Len(V) <= MaxVisits
    /\ Len(V) <= Len(A)
    /\ Len(A) <= Len(V) + MaxRetries
    /\ \A i \in 1 .. Len(A) : A[i].visit \in 1 .. Len(V)

\* A run goes on only from a visit that succeeded.
OnlyLastOpen(V) == \A v \in 1 .. Len(V) : v < Len(V) => V[v] = "succeeded"

\* Only the newest attempt is live, and its visit is open.
LiveIsLast(V, A) ==
    \A i \in 1 .. Len(A) :
        A[i].status \in LiveStates => i = Len(A) /\ V[A[i].visit] \in OpenVisit

\* An attempt that succeeded leaves a visit that is decided or waits, and no retry
\* follows it there.
SuccessIsLast(V, A) ==
    \A i \in 1 .. Len(A) :
        A[i].status = "succeeded" =>
            /\ V[A[i].visit] \in {"waiting_checkpoint", "succeeded", "rejected", "cancelled"}
            /\ A[i].visit = Len(V) => i = Len(A)

\* Every visit but the newest has the success that the next one was created for.
Earned(V, A) ==
    \A v \in 1 .. Len(V) :
        v < Len(V) => \E i \in 1 .. Len(A) : A[i].visit = v /\ A[i].status = "succeeded"

\* No attempt is live.
Over(A) == \A i \in 1 .. Len(A) : A[i].status \notin LiveStates

\* A run that completed or failed has nothing open; one that completed went all
\* the way.
ClosedWhenDone(s, V, A) ==
    /\ s \in {"completed", "failed"} =>
          Over(A) /\ \A v \in 1 .. Len(V) : V[v] \in VisitTerminal
    /\ s = "completed" =>
          /\ Len(A) > 0
          /\ \A v \in 1 .. Len(V) : V[v] = "succeeded"
          /\ A[Len(A)].node \in Terminals

\* Run and attempts agree about reconciliation, and while it is needed nothing is
\* live.
Agrees(s, A) ==
    /\ s = "reconcile_required" => Over(A)
    /\ s = "reconcile_required"
       <=> \E i \in 1 .. Len(A) : A[i].status = "reconcile_required"

\* The projections of one run: its status, its visits and its attempts.
RunOK(s, V, A) ==
    /\ s \in RunStates
    /\ Shape(V, A)
    /\ OnlyLastOpen(V)
    /\ LiveIsLast(V, A)
    /\ SuccessIsLast(V, A)
    /\ Earned(V, A)
    /\ ClosedWhenDone(s, V, A)
    /\ Agrees(s, A)

\* Outcomes of A are those of B (OutcomeFinal, for one run).
Kept(A, B) ==
    /\ Len(A) <= Len(B)
    /\ \A i \in 1 .. Len(A) :
          A[i].status \in AttemptTerminal =>
             \/ B[i] = A[i]
             \/ A[i].status = "reconcile_required" /\ B[i].status = "cancelled"

\* The projections.
StoreOK ==
    /\ runStatus \in [Runs -> RunStates]
    /\ visits \in [Runs -> Seq(VisitStates)]
    /\ attempts \in [Runs -> Seq(Attempt)]
    /\ \A r \in Runs : RunOK(runStatus[r], visits[r], attempts[r])

\* The types of what the process holds.
ProcOK ==
    /\ phase \in {"down", "resuming", "serving", "stopping"}
    /\ scheduling \in BOOLEAN
    /\ todo \subseteq Runs \X AttemptIdx
    /\ launching \subseteq Runs \X AttemptIdx \X Origins
    /\ admission \in Admission
    /\ control \in [Runs -> [ControlOps -> Control]]

\* A worker about to complete has a result.
WorkersOK ==
    /\ workers \in [Runs -> [AttemptIdx -> Worker]]
    /\ \A r \in Runs, i \in AttemptIdx :
          workers[r][i].stage = "completing" => workers[r][i].result \in Results

\* Launches and the work list of ResumeActive name attempts that exist.
IndicesKnown ==
    /\ \A r \in Runs, i \in AttemptIdx, o \in Origins :
          <<r, i, o>> \in launching => i \in 1 .. Len(attempts[r])
    /\ \A r \in Runs, i \in AttemptIdx : <<r, i>> \in todo => i \in 1 .. Len(attempts[r])

\* The run that DispatchQueue is about to give its entry attempt has none: only
\* the queue loop, one admission at a time, creates first attempts.
AdmissionFresh ==
    \A r \in admission.runs :
        ~admission.created => attempts[r] = <<>> /\ runStatus[r] \in {"queued", "waiting", "cancelled"}

\* The inductive invariant.
IndInv == ProcOK /\ StoreOK /\ WorkersOK /\ IndicesKnown /\ AdmissionFresh

\* No step rewrites an outcome.
AllKept == \A r \in Runs : Kept(attempts[r], attempts'[r])

-----------------------------------------------------------------------------
\* What an attempt's new status changes of the sequence (SetAttempt).
Changed(A, B, i, st) ==
    /\ B \in Seq(Attempt)
    /\ Len(B) = Len(A)
    /\ \A k \in 1 .. Len(A) : k # i => B[k] = A[k]
    /\ B[i].status = st /\ B[i].visit = A[i].visit /\ B[i].node = A[i].node

\* SetAttempt changes the status of one attempt, and nothing else.
LEMMA StatusChanged ==
    ASSUME NEW A \in Seq(Attempt), NEW i \in 1 .. Len(A), NEW st \in AttemptStates
    PROVE  Changed(A, [A EXCEPT ![i].status = st], i, st)
  <1> DEFINE e == [A[i] EXCEPT !.status = st]
  <1>1. A[i] \in Attempt
    OBVIOUS
  <1>2. e \in Attempt /\ e.status = st /\ e.visit = A[i].visit /\ e.node = A[i].node
    BY <1>1 DEF Attempt
  <1> HIDE DEF e
  <1>3. [A EXCEPT ![i] = e] \in Seq(Attempt) /\ Changed(A, [A EXCEPT ![i] = e], i, st)
    BY <1>2, ExceptSeq DEF Changed
  <1> QED
    BY <1>3 DEF e

\* Append, as the proofs below use it: a new attempt or visit at the end.
LEMMA AppendFacts ==
    ASSUME NEW S, NEW q \in Seq(S), NEW e \in S
    PROVE  /\ Append(q, e) \in Seq(S)
           /\ Len(Append(q, e)) = Len(q) + 1
           /\ \A k \in 1 .. Len(q) : Append(q, e)[k] = q[k]
           /\ Append(q, e)[Len(q) + 1] = e
  OBVIOUS

\* The visit of an attempt takes another state (SetVisit).
LEMMA VisitChanged ==
    ASSUME NEW V \in Seq(VisitStates), NEW v \in 1 .. Len(V), NEW w \in VisitStates
    PROVE  /\ [V EXCEPT ![v] = w] \in Seq(VisitStates)
           /\ Len([V EXCEPT ![v] = w]) = Len(V)
           /\ \A k \in 1 .. Len(V) : [V EXCEPT ![v] = w][k] = IF k = v THEN w ELSE V[k]
  BY ExceptSeq

\* Successes and outcomes stay as they are when a live attempt changes.
LEMMA LiveChangeKeeps ==
    ASSUME NEW V, NEW A, A \in Seq(Attempt), NEW i \in 1 .. Len(A), A[i].status \in LiveStates,
           NEW st, NEW B, Changed(A, B, i, st)
    PROVE  /\ Kept(A, B)
           /\ Earned(V, A) => Earned(V, B)
  <1>1. ASSUME NEW k \in 1 .. Len(A), A[k].status \in AttemptTerminal
        PROVE  B[k] = A[k]
    BY <1>1 DEF Changed, AttemptTerminal, LiveStates
  <1>2. Kept(A, B)
    BY <1>1 DEF Kept, Changed
  <1>3. ASSUME NEW k \in 1 .. Len(A), A[k].status = "succeeded"
        PROVE  B[k] = A[k]
    BY <1>3 DEF Changed, LiveStates
  <1>4. Len(B) = Len(A)
    BY DEF Changed
  <1> QED
    BY <1>2, <1>3, <1>4 DEF Earned

-----------------------------------------------------------------------------
\* The transitions of one run, as the batches of the service make them.

\* The status alone: launch, pause, resume, continue, guidance.
LEMMA StatusMoves ==
    ASSUME NEW s, NEW V, NEW A, RunOK(s, V, A), s # "reconcile_required",
           NEW t \in {"ready", "queued", "running", "waiting", "cancelled"}
    PROVE  RunOK(t, V, A)
  BY DEF RunOK, RunStates, ClosedWhenDone, Agrees

\* startWorkflowVisit
LEMMA VisitRuns ==
    ASSUME NEW s \in Executable, NEW V, NEW A, RunOK(s, V, A),
           NEW i \in 1 .. Len(A), V[A[i].visit] \in OpenVisit
    PROVE  RunOK("running", [V EXCEPT ![A[i].visit] = "running"], A)
  <1> DEFINE v == A[i].visit
             W == [V EXCEPT ![v] = "running"]
  <1>1. v \in 1 .. Len(V) /\ V \in Seq(VisitStates) /\ v = Len(V)
    <2>1. v \in 1 .. Len(V) /\ V \in Seq(VisitStates)
      BY DEF RunOK, Shape
    <2>2. V[v] \notin {"succeeded", "failed", "cancelled"} /\ V[v] \in OpenVisit
      BY DEF OpenVisit
    <2>3. v = Len(V)
      BY <2>1, <2>2 DEF RunOK, OnlyLastOpen
    <2> QED
      BY <2>1, <2>3
  <1>2. /\ W \in Seq(VisitStates) /\ Len(W) = Len(V)
        /\ \A k \in 1 .. Len(V) : W[k] = IF k = v THEN "running" ELSE V[k]
    BY <1>1, VisitChanged DEF VisitStates
  <1> HIDE DEF v, W
  <1>3. Shape(W, A)
    BY <1>2 DEF RunOK, Shape
  <1>4. OnlyLastOpen(W)
    BY <1>1, <1>2 DEF RunOK, OnlyLastOpen
  <1>5. LiveIsLast(W, A)
    BY <1>2 DEF RunOK, Shape, LiveIsLast, OpenVisit
  <1>6. V[v] \in OpenVisit
    BY DEF v
  <1>7. SuccessIsLast(W, A)
    BY <1>1, <1>2, <1>6 DEF RunOK, Shape, SuccessIsLast, OpenVisit
  <1>8. Earned(W, A)
    BY <1>2 DEF RunOK, Shape, Earned
  <1> QED
    BY <1>3, <1>4, <1>5, <1>7, <1>8
    DEF RunOK, RunStates, ClosedWhenDone, Agrees, Executable, v, W

\* attempt.started, attempt.resumed
LEMMA AttemptRuns ==
    ASSUME NEW s, NEW V, NEW A, RunOK(s, V, A),
           NEW i \in 1 .. Len(A), A[i].status \in LiveStates,
           NEW B, Changed(A, B, i, "running")
    PROVE  RunOK(s, V, B) /\ Kept(A, B)
  <1>1. Shape(V, B)
    BY DEF RunOK, Shape, Changed
  <1>2. LiveIsLast(V, B)
    BY DEF RunOK, Shape, LiveIsLast, Changed, LiveStates
  <1>3. SuccessIsLast(V, B)
    BY DEF RunOK, Shape, SuccessIsLast, Changed
  <1>4. Earned(V, B)
    BY LiveChangeKeeps DEF RunOK, Shape
  <1>5. ~Over(A)
    BY DEF Over
  <1>6. ClosedWhenDone(s, V, B)
    BY <1>5 DEF RunOK, ClosedWhenDone
  <1>7. Agrees(s, B)
    BY <1>5 DEF RunOK, Shape, Agrees, Changed, LiveStates
  <1>8. Kept(A, B)
    BY LiveChangeKeeps DEF RunOK, Shape
  <1> QED
    BY <1>1, <1>2, <1>3, <1>4, <1>6, <1>7, <1>8 DEF RunOK

\* What a failure or another outcome than success makes of the attempt, of its
\* visit and of the run.
EndsAs(a, w, t) ==
    \/ a \in {"failed", "interrupted"} /\ w = "failed" /\ t = "failed"
    \/ a = "cancelled" /\ w = "cancelled" /\ t = "cancelled"
    \/ a = "reconcile_required" /\ w = "failed" /\ t = "reconcile_required"

\* failAttemptWithCode and completeAttempt: the live attempt ends without
\* success, its visit with it, and the run follows.
LEMMA AttemptEnds ==
    ASSUME NEW s, NEW V, NEW A, RunOK(s, V, A), s # "reconcile_required",
           NEW i \in 1 .. Len(A), A[i].status \in LiveStates,
           NEW a, NEW w, NEW t, EndsAs(a, w, t),
           NEW B, Changed(A, B, i, a)
    PROVE  RunOK(t, [V EXCEPT ![A[i].visit] = w], B) /\ Kept(A, B)
  <1> USE DEF EndsAs
  <1> DEFINE v == A[i].visit
             W == [V EXCEPT ![v] = w]
  <1>2. v \in 1 .. Len(V) /\ v = Len(V) /\ i = Len(A) /\ V[v] \in OpenVisit
    BY DEF RunOK, Shape, OnlyLastOpen, LiveIsLast, OpenVisit
  <1>3. /\ W \in Seq(VisitStates) /\ Len(W) = Len(V)
        /\ \A k \in 1 .. Len(V) : W[k] = IF k = v THEN w ELSE V[k]
    BY <1>2, VisitChanged DEF RunOK, Shape, VisitStates
  <1>1. B[i].visit = v
    BY DEF Changed
  <1> HIDE DEF W, v
  <1>4. Shape(W, B)
    BY <1>1, <1>2, <1>3 DEF RunOK, Shape, Changed
  <1>5. OnlyLastOpen(W)
    BY <1>2, <1>3 DEF RunOK, OnlyLastOpen
  <1>6. Over(B)
    BY <1>2 DEF RunOK, LiveIsLast, Over, LiveStates, Changed
  <1>7. LiveIsLast(W, B)
    BY <1>6 DEF LiveIsLast, Over
  <1>8. SuccessIsLast(W, B)
    BY <1>1, <1>2, <1>3 DEF RunOK, Shape, SuccessIsLast, OpenVisit, Changed
  <1>9. Earned(V, B) /\ Kept(A, B)
    BY LiveChangeKeeps DEF RunOK, Shape
  <1>12. Earned(W, B)
    BY <1>3, <1>9 DEF Earned
  <1>10. ClosedWhenDone(t, W, B)
    BY <1>2, <1>3, <1>6 DEF RunOK, ClosedWhenDone, OnlyLastOpen, VisitTerminal, Shape
  <1>11. Agrees(t, B)
    BY <1>2, <1>6 DEF RunOK, Agrees, Changed
  <1> QED
    BY <1>4, <1>5, <1>7, <1>8, <1>9, <1>10, <1>11, <1>12 DEF RunOK, RunStates, W, v

\* What a success makes of the visit and of the run.
SucceedsAs(w, t, n) ==
    \/ w = "waiting_checkpoint" /\ t = "waiting"
    \/ w = "succeeded" /\ t = "completed" /\ n \in Terminals
    \/ w = "succeeded" /\ t = "running"

\* completeWorkflowSucceeded up to the successor: the run waits for its
\* checkpoint, has completed, or runs on with its newest visit succeeded.
LEMMA AttemptSucceeds ==
    ASSUME NEW V, NEW A, RunOK("running", V, A),
           NEW i \in 1 .. Len(A), A[i].status \in LiveStates,
           NEW w, NEW t, SucceedsAs(w, t, A[i].node),
           NEW B, Changed(A, B, i, "succeeded")
    PROVE  /\ RunOK(t, [V EXCEPT ![A[i].visit] = w], B)
           /\ Kept(A, B)
           /\ Over(B) /\ i = Len(A) /\ A[i].visit = Len(V)
  <1> USE DEF SucceedsAs
  <1> DEFINE v == A[i].visit
             W == [V EXCEPT ![v] = w]
  <1>2. v \in 1 .. Len(V) /\ v = Len(V) /\ i = Len(A) /\ V[v] \in OpenVisit
    BY DEF RunOK, Shape, OnlyLastOpen, LiveIsLast, OpenVisit
  <1>3. /\ W \in Seq(VisitStates) /\ Len(W) = Len(V)
        /\ \A k \in 1 .. Len(V) : W[k] = IF k = v THEN w ELSE V[k]
    BY <1>2, VisitChanged DEF RunOK, Shape, VisitStates
  <1>1. B[i].visit = v
    BY DEF Changed
  <1> HIDE DEF W, v
  <1>4. Shape(W, B)
    BY <1>1, <1>2, <1>3 DEF RunOK, Shape, Changed
  <1>5. OnlyLastOpen(W)
    BY <1>2, <1>3 DEF RunOK, OnlyLastOpen
  <1>6. Over(B)
    BY <1>2 DEF RunOK, LiveIsLast, Over, LiveStates, Changed
  <1>7. LiveIsLast(W, B)
    BY <1>6 DEF LiveIsLast, Over
  <1>8. SuccessIsLast(W, B)
    BY <1>1, <1>2, <1>3 DEF RunOK, Shape, SuccessIsLast, OpenVisit, Changed
  <1>9. Earned(V, B) /\ Kept(A, B)
    BY LiveChangeKeeps DEF RunOK, Shape
  <1>12. Earned(W, B)
    BY <1>3, <1>9 DEF Earned
  <1>10. ClosedWhenDone(t, W, B)
    BY <1>2, <1>3, <1>6 DEF RunOK, ClosedWhenDone, OnlyLastOpen, VisitTerminal, Shape, Changed
  <1>11. Agrees(t, B)
    BY <1>2, <1>6 DEF RunOK, Agrees, Changed
  <1> QED
    BY <1>2, <1>4, <1>5, <1>6, <1>7, <1>8, <1>9, <1>10, <1>11, <1>12 DEF RunOK, RunStates, W, v

\* What a decision makes of the visit and of the run.
DecidesAs(w, t, n) ==
    \/ w = "rejected" /\ t = "cancelled"
    \/ w = "succeeded" /\ t = "completed" /\ n \in Terminals
    \/ w = "succeeded" /\ t = "running"

\* ApplyWorkflowCheckpointDecision up to the successor.
LEMMA VisitDecided ==
    ASSUME NEW V, NEW A, RunOK("waiting", V, A),
           NEW i \in 1 .. Len(A), A[i].status = "succeeded",
           V[A[i].visit] = "waiting_checkpoint",
           NEW w, NEW t, DecidesAs(w, t, A[i].node)
    PROVE  /\ RunOK(t, [V EXCEPT ![A[i].visit] = w], A)
           /\ Over(A) /\ i = Len(A) /\ A[i].visit = Len(V)
  <1> USE DEF DecidesAs
  <1> DEFINE v == A[i].visit
             W == [V EXCEPT ![v] = w]
  <1>1. v \in 1 .. Len(V) /\ v = Len(V) /\ i = Len(A) /\ V[v] = "waiting_checkpoint"
    <2>1. v \in 1 .. Len(V) /\ V \in Seq(VisitStates) /\ OnlyLastOpen(V) /\ SuccessIsLast(V, A)
      BY DEF RunOK, Shape
    <2>2. v = Len(V)
      BY <2>1 DEF OnlyLastOpen
    <2> QED
      BY <2>1, <2>2 DEF SuccessIsLast
  <1>2. /\ W \in Seq(VisitStates) /\ Len(W) = Len(V)
        /\ \A k \in 1 .. Len(V) : W[k] = IF k = v THEN w ELSE V[k]
    BY <1>1, VisitChanged DEF RunOK, Shape, VisitStates
  <1> HIDE DEF W, v
  <1>3. Shape(W, A)
    BY <1>1, <1>2 DEF RunOK, Shape
  <1>4. OnlyLastOpen(W)
    BY <1>1, <1>2 DEF RunOK, OnlyLastOpen
  <1>5. Over(A)
    BY <1>1 DEF RunOK, LiveIsLast, Over, LiveStates
  <1>6. LiveIsLast(W, A)
    BY <1>5 DEF LiveIsLast, Over
  <1>7. SuccessIsLast(W, A)
    BY <1>1, <1>2 DEF RunOK, Shape, SuccessIsLast
  <1>8. Earned(W, A)
    BY <1>1, <1>2 DEF RunOK, Shape, Earned
  <1>9. ClosedWhenDone(t, W, A)
    BY <1>1, <1>2, <1>5 DEF RunOK, ClosedWhenDone, OnlyLastOpen, VisitTerminal, Shape
  <1>10. Agrees(t, A)
    BY <1>5 DEF RunOK, Agrees
  <1> QED
    BY <1>1, <1>3, <1>4, <1>5, <1>6, <1>7, <1>8, <1>9, <1>10 DEF RunOK, RunStates, W, v

\* The next visit and its attempt are created, by a success or by an approval.
LEMMA Advances ==
    ASSUME NEW V, NEW A, RunOK("running", V, A), Over(A), Len(V) < MaxVisits, Len(V) > 0,
           V[Len(V)] = "succeeded",
           NEW i \in 1 .. Len(A), A[i].status = "succeeded", A[i].visit = Len(V),
           NEW n \in Nodes
    PROVE  /\ RunOK("running", Append(V, "pending"), Append(A, NewAttempt(n, Len(V) + 1)))
           /\ Kept(A, Append(A, NewAttempt(n, Len(V) + 1)))
  <1> DEFINE e == NewAttempt(n, Len(V) + 1)
             B == Append(A, e)
             W == Append(V, "pending")
  <1>1. /\ V \in Seq(VisitStates) /\ A \in Seq(Attempt)
        /\ Len(A) \in Nat /\ Len(V) \in Nat /\ Len(A) + 1 <= MaxAttempts
    BY RunExecutionAssumption DEF RunOK, Shape, MaxAttempts
  <1>2. /\ e \in Attempt
        /\ e.status = "created" /\ e.visit = Len(V) + 1
    BY <1>1, RunExecutionAssumption DEF NewAttempt, Attempt, AttemptIdx, AttemptStates, RunOK, Shape, MaxAttempts
  <1> HIDE DEF e
  <1>3. /\ B \in Seq(Attempt) /\ Len(B) = Len(A) + 1
        /\ \A k \in 1 .. Len(A) : B[k] = A[k]
        /\ B[Len(A) + 1] = e
    BY <1>1, <1>2, AppendFacts
  <1>4. /\ W \in Seq(VisitStates) /\ Len(W) = Len(V) + 1
        /\ \A k \in 1 .. Len(V) : W[k] = V[k]
        /\ W[Len(V) + 1] = "pending"
    BY <1>1, AppendFacts DEF VisitStates
  <1> HIDE DEF B, W
  <1>14. \A k \in 1 .. Len(B) : \/ k \in 1 .. Len(A) /\ B[k] = A[k]
                                \/ k = Len(A) + 1 /\ B[k] = e
    <2> SUFFICES ASSUME NEW k \in 1 .. Len(B)
                 PROVE  \/ k \in 1 .. Len(A) /\ B[k] = A[k]
                        \/ k = Len(A) + 1 /\ B[k] = e
      OBVIOUS
    <2>1. k \in 1 .. Len(A) \/ k = Len(A) + 1
      BY <1>1, <1>3
    <2> QED
      BY <2>1, <1>3
  <1>5. \A k \in 1 .. Len(A) : A[k].visit \in 1 .. Len(V)
    BY DEF RunOK, Shape
  <1>6. \A k \in 1 .. Len(B) : B[k].visit \in 1 .. Len(W)
    BY <1>1, <1>2, <1>3, <1>4, <1>5
  <1>7. Shape(W, B)
    BY <1>1, <1>3, <1>4, <1>6, RunExecutionAssumption DEF RunOK, Shape
  <1>8. OnlyLastOpen(W)
    BY <1>1, <1>4 DEF RunOK, OnlyLastOpen
  <1>9. LiveIsLast(W, B)
    <2> SUFFICES ASSUME NEW k \in 1 .. Len(B), B[k].status \in LiveStates
                 PROVE  k = Len(B) /\ W[B[k].visit] \in OpenVisit
      BY DEF LiveIsLast
    <2>1. k = Len(A) + 1 /\ B[k] = e
      BY <1>14 DEF Over
    <2> QED
      BY <2>1, <1>2, <1>3, <1>4 DEF OpenVisit
  <1>10. SuccessIsLast(W, B)
    <2> SUFFICES ASSUME NEW k \in 1 .. Len(B), B[k].status = "succeeded"
                 PROVE  /\ W[B[k].visit] \in {"waiting_checkpoint", "succeeded", "rejected", "cancelled"}
                        /\ B[k].visit = Len(W) => k = Len(B)
      BY DEF SuccessIsLast
    <2>1. k \in 1 .. Len(A) /\ B[k] = A[k]
      BY <1>14, <1>2
    <2>2. /\ A[k].visit \in 1 .. Len(V)
          /\ V[A[k].visit] \in {"waiting_checkpoint", "succeeded", "rejected", "cancelled"}
      BY <2>1, <1>5 DEF RunOK, SuccessIsLast
    <2> QED
      BY <2>1, <2>2, <1>1, <1>4
  <1>11. ASSUME NEW v \in 1 .. Len(W), v < Len(W)
         PROVE  \E k \in 1 .. Len(B) : B[k].visit = v /\ B[k].status = "succeeded"
    <2>1. CASE v = Len(V)
      BY <2>1, <1>1, <1>3
    <2>2. CASE v < Len(V)
      <3>1. PICK k \in 1 .. Len(A) : A[k].visit = v /\ A[k].status = "succeeded"
        BY <2>2, <1>1, <1>4 DEF RunOK, Earned
      <3> QED
        BY <3>1, <1>1, <1>3
    <2> QED
      BY <2>1, <2>2, <1>1, <1>4, <1>11
  <1>12. Agrees("running", B)
    <2>1. \A k \in 1 .. Len(A) : A[k].status # "reconcile_required"
      BY DEF RunOK, Agrees
    <2>2. \A k \in 1 .. Len(B) : B[k].status # "reconcile_required"
      BY <2>1, <1>14, <1>2
    <2> QED
      BY <2>2 DEF Agrees
  <1>13. Kept(A, B)
    BY <1>1, <1>3 DEF Kept
  <1> QED
    BY <1>7, <1>8, <1>9, <1>10, <1>11, <1>12, <1>13
    DEF RunOK, RunStates, ClosedWhenDone, Earned, B, W, e

\* Retry: a fresh attempt under the newest visit, which runs again.
LEMMA Retries ==
    ASSUME NEW V, NEW A, RunOK("failed", V, A), Len(A) - Len(V) < MaxRetries,
           NEW i \in 1 .. Len(A), V[A[i].visit] \in {"running", "failed"}
    PROVE  LET B == Append(A, NewAttempt(A[i].node, A[i].visit))
           IN  RunOK("queued", [V EXCEPT ![A[i].visit] = "running"], B) /\ Kept(A, B)
  <1> DEFINE v == A[i].visit
             e == NewAttempt(A[i].node, v)
             B == Append(A, e)
             W == [V EXCEPT ![v] = "running"]
  <1>1. /\ V \in Seq(VisitStates) /\ A \in Seq(Attempt)
        /\ Len(A) \in Nat /\ Len(V) \in Nat /\ Over(A)
        /\ v \in 1 .. Len(V) /\ v = Len(V) /\ A[i] \in Attempt /\ V[v] \in {"running", "failed"}
    <2>1. /\ V \in Seq(VisitStates) /\ A \in Seq(Attempt) /\ v \in 1 .. Len(V) /\ OnlyLastOpen(V)
      BY DEF RunOK, Shape
    <2>2. Over(A)
      BY DEF RunOK, ClosedWhenDone
    <2>3. v = Len(V)
      BY <2>1 DEF OnlyLastOpen
    <2> QED
      BY <2>1, <2>2, <2>3
  <1>2. e \in Attempt /\ e.status = "created" /\ e.visit = v
    BY <1>1 DEF NewAttempt, Attempt, AttemptStates
  <1>3. /\ W \in Seq(VisitStates) /\ Len(W) = Len(V)
        /\ \A k \in 1 .. Len(V) : W[k] = IF k = v THEN "running" ELSE V[k]
    BY <1>1, VisitChanged DEF VisitStates
  <1> HIDE DEF e, v
  <1>4. /\ B \in Seq(Attempt) /\ Len(B) = Len(A) + 1
        /\ \A k \in 1 .. Len(A) : B[k] = A[k]
        /\ B[Len(A) + 1] = e
    BY <1>1, <1>2, AppendFacts
  <1> HIDE DEF B, W
  <1>14. \A k \in 1 .. Len(B) : \/ k \in 1 .. Len(A) /\ B[k] = A[k]
                                \/ k = Len(A) + 1 /\ B[k] = e
    <2> SUFFICES ASSUME NEW k \in 1 .. Len(B)
                 PROVE  \/ k \in 1 .. Len(A) /\ B[k] = A[k]
                        \/ k = Len(A) + 1 /\ B[k] = e
      OBVIOUS
    <2>1. k \in 1 .. Len(A) \/ k = Len(A) + 1
      BY <1>1, <1>4
    <2> QED
      BY <2>1, <1>4
  <1>15. \A k \in 1 .. Len(A) : A[k].visit \in 1 .. Len(V)
    BY DEF RunOK, Shape
  <1>5. \A k \in 1 .. Len(B) : B[k].visit \in 1 .. Len(W)
    BY <1>14, <1>15, <1>1, <1>2, <1>3
  <1>6. Shape(W, B)
    BY <1>1, <1>3, <1>4, <1>5, RunExecutionAssumption DEF RunOK, Shape
  <1>7. OnlyLastOpen(W)
    BY <1>1, <1>3 DEF RunOK, OnlyLastOpen
  <1>8. LiveIsLast(W, B)
    <2> SUFFICES ASSUME NEW k \in 1 .. Len(B), B[k].status \in LiveStates
                 PROVE  k = Len(B) /\ W[B[k].visit] \in OpenVisit
      BY DEF LiveIsLast
    <2>1. k = Len(A) + 1 /\ B[k] = e
      BY <1>14, <1>1 DEF Over
    <2> QED
      BY <2>1, <1>1, <1>2, <1>3, <1>4 DEF OpenVisit
  <1>9. ASSUME NEW k \in 1 .. Len(A), A[k].status = "succeeded"
        PROVE  A[k].visit \in 1 .. Len(V) /\ A[k].visit # v
    BY <1>9, <1>1 DEF RunOK, Shape, SuccessIsLast
  <1>10. SuccessIsLast(W, B)
    <2> SUFFICES ASSUME NEW k \in 1 .. Len(B), B[k].status = "succeeded"
                 PROVE  /\ W[B[k].visit] \in {"waiting_checkpoint", "succeeded", "rejected", "cancelled"}
                        /\ B[k].visit = Len(W) => k = Len(B)
      BY DEF SuccessIsLast
    <2>1. k \in 1 .. Len(A) /\ B[k] = A[k]
      BY <1>14, <1>2
    <2>2. /\ A[k].visit \in 1 .. Len(V) /\ A[k].visit # v
          /\ V[A[k].visit] \in {"waiting_checkpoint", "succeeded", "rejected", "cancelled"}
      BY <2>1, <1>9 DEF RunOK, SuccessIsLast
    <2> QED
      BY <2>1, <2>2, <1>1, <1>3
  <1>11. ASSUME NEW u \in 1 .. Len(W), u < Len(W)
         PROVE  \E k \in 1 .. Len(B) : B[k].visit = u /\ B[k].status = "succeeded"
    <2>1. PICK k \in 1 .. Len(A) : A[k].visit = u /\ A[k].status = "succeeded"
      BY <1>1, <1>3, <1>11 DEF RunOK, Earned
    <2> QED
      BY <2>1, <1>1, <1>4
  <1>12. Agrees("queued", B)
    <2>1. \A k \in 1 .. Len(A) : A[k].status # "reconcile_required"
      BY DEF RunOK, Agrees
    <2>2. \A k \in 1 .. Len(B) : B[k].status # "reconcile_required"
      BY <2>1, <1>14, <1>2
    <2> QED
      BY <2>2 DEF Agrees
  <1>13. Kept(A, B)
    BY <1>1, <1>4 DEF Kept
  <1> QED
    BY <1>6, <1>7, <1>8, <1>10, <1>11, <1>12, <1>13
    DEF RunOK, RunStates, ClosedWhenDone, Earned, B, W, e, v

\* reconcileUncertainStart: the attempt's start is not known; its visit stays.
LEMMA StartUncertain ==
    ASSUME NEW s \in Executable, NEW V, NEW A, RunOK(s, V, A),
           NEW i \in 1 .. Len(A), A[i].status \in LiveStates,
           NEW B, Changed(A, B, i, "reconcile_required")
    PROVE  RunOK("reconcile_required", V, B) /\ Kept(A, B)
  <1>1. i = Len(A)
    BY DEF RunOK, LiveIsLast
  <1>2. Over(B)
    BY <1>1 DEF RunOK, LiveIsLast, Over, LiveStates, Changed
  <1>3. Shape(V, B)
    BY DEF RunOK, Shape, Changed
  <1>4. LiveIsLast(V, B)
    BY <1>2 DEF LiveIsLast, Over
  <1>5. SuccessIsLast(V, B)
    BY DEF RunOK, Shape, SuccessIsLast, Changed
  <1>6. Earned(V, B) /\ Kept(A, B)
    BY LiveChangeKeeps DEF RunOK, Shape
  <1>7. Agrees("reconcile_required", B)
    BY <1>2 DEF Agrees, Changed
  <1> QED
    BY <1>3, <1>4, <1>5, <1>6, <1>7 DEF RunOK, RunStates, ClosedWhenDone

\* ensureWorkflowEntryAttempt for a run that has nothing yet.
LEMMA Admits ==
    ASSUME NEW s \in {"queued", "waiting", "cancelled"}
    PROVE  RunOK(s, <<"pending">>, <<NewAttempt(Entry, 1)>>)
  <1> DEFINE e == NewAttempt(Entry, 1)
  <1>1. e \in Attempt /\ e.status = "created" /\ e.visit = 1
    BY RunExecutionAssumption DEF NewAttempt, Attempt, AttemptStates, AttemptIdx, MaxAttempts
  <1> HIDE DEF e
  <1>2. <<e>> \in Seq(Attempt) /\ Len(<<e>>) = 1 /\ <<e>>[1] = e
    BY <1>1
  <1>3. <<"pending">> \in Seq(VisitStates) /\ Len(<<"pending">>) = 1 /\ <<"pending">>[1] = "pending"
    BY DEF VisitStates
  <1>4. Shape(<<"pending">>, <<e>>)
    BY <1>1, <1>2, <1>3, RunExecutionAssumption DEF Shape
  <1>5. OnlyLastOpen(<<"pending">>) /\ Earned(<<"pending">>, <<e>>)
    BY <1>3 DEF OnlyLastOpen, Earned
  <1>6. LiveIsLast(<<"pending">>, <<e>>) /\ SuccessIsLast(<<"pending">>, <<e>>)
    BY <1>1, <1>2, <1>3 DEF LiveIsLast, SuccessIsLast, OpenVisit
  <1>7. Agrees(s, <<e>>)
    BY <1>1, <1>2 DEF Agrees
  <1> QED
    BY <1>4, <1>5, <1>6, <1>7 DEF RunOK, RunStates, ClosedWhenDone, e

\* What the batch of Cancel makes of a run (t), its visits (W) and its attempts
\* (B): live attempts and those in reconcile_required are settled by what their
\* providers answered (observed), open visits are cancelled.
CancelsTo(V, A, observed, children, t, W, B) ==
    /\ \A i \in 1 .. Len(A) : A[i].status = "reconcile_required" => observed[i] = "confirmed"
    /\ t = IF \E i \in 1 .. Len(A) : A[i].status \in LiveStates /\ observed[i] = "uncertain"
           THEN "reconcile_required" ELSE "cancelled"
    /\ W = [v \in 1 .. Len(V) |->
              IF V[v] = "waiting_checkpoint" \/ (v \in children /\ V[v] \in VisitStates \ VisitTerminal)
              THEN "cancelled" ELSE V[v]]
    /\ B = [i \in 1 .. Len(A) |-> CancelledAttempt(A[i], observed[i])]

\* Cancel keeps a run whole.
LEMMA Cancels ==
    ASSUME NEW s, NEW V, NEW A, RunOK(s, V, A), s \notin {"completed", "cancelled"},
           NEW observed, NEW children, NEW t, NEW W, NEW B,
           CancelsTo(V, A, observed, children, t, W, B)
    PROVE  RunOK(t, W, B) /\ Kept(A, B)
  <1> USE DEF CancelsTo
  <1>1. /\ A \in Seq(Attempt) /\ V \in Seq(VisitStates) /\ Len(A) \in Nat /\ Len(V) \in Nat
        /\ \A i \in 1 .. Len(A) : A[i] \in Attempt /\ A[i].visit \in 1 .. Len(V)
    BY DEF RunOK, Shape
  <1>2. ASSUME NEW i \in 1 .. Len(A)
        PROVE  /\ B[i] \in Attempt
               /\ B[i].visit = A[i].visit
               /\ B[i].status \notin LiveStates
               /\ A[i].status \in AttemptTerminal \ {"reconcile_required"} => B[i] = A[i]
               /\ A[i].status = "reconcile_required" => B[i].status = "cancelled"
               /\ A[i].status \in LiveStates =>
                     B[i].status = IF observed[i] = "uncertain" THEN "reconcile_required" ELSE "cancelled"
    <2>1. B[i] = CancelledAttempt(A[i], observed[i])
      OBVIOUS
    <2>2. A[i] \in Attempt
      BY <1>1
    <2>3. CASE A[i].status \in AttemptTerminal \ {"reconcile_required"}
      BY <2>1, <2>2, <2>3 DEF CancelledAttempt, AttemptTerminal, LiveStates
    <2>4. CASE A[i].status = "reconcile_required"
      BY <2>1, <2>2, <2>4 DEF CancelledAttempt, Attempt, AttemptTerminal, AttemptStates, LiveStates
    <2>5. CASE A[i].status \in LiveStates
      BY <2>1, <2>2, <2>5 DEF CancelledAttempt, Attempt, AttemptTerminal, AttemptStates, LiveStates
    <2> QED
      BY <2>2, <2>3, <2>4, <2>5 DEF Attempt, AttemptTerminal, AttemptStates, LiveStates
  <1>3. B \in Seq(Attempt) /\ Len(B) = Len(A)
    BY <1>1, <1>2
  <1>4. \A v \in 1 .. Len(V) : W[v] \in {V[v], "cancelled"} /\ (V[v] \in VisitTerminal => W[v] = V[v])
    BY DEF VisitTerminal
  <1>5. W \in Seq(VisitStates) /\ Len(W) = Len(V)
    <2>1. \A v \in 1 .. Len(V) : W[v] \in VisitStates
      BY <1>1, <1>4 DEF VisitStates
    <2> QED
      BY <1>1, <2>1
  <1>6. Shape(W, B)
    BY <1>1, <1>2, <1>3, <1>5 DEF RunOK, Shape
  <1>7. OnlyLastOpen(W)
    BY <1>4, <1>5 DEF RunOK, OnlyLastOpen, VisitTerminal
  <1>8. Over(B) /\ LiveIsLast(W, B)
    BY <1>2, <1>3 DEF Over, LiveIsLast
  <1>9. ASSUME NEW i \in 1 .. Len(A)
        PROVE  B[i].status = "succeeded" <=> A[i].status = "succeeded"
    BY <1>1, <1>2 DEF Attempt, AttemptTerminal, AttemptStates, LiveStates
  <1>10. SuccessIsLast(W, B)
    <2> SUFFICES ASSUME NEW i \in 1 .. Len(B), B[i].status = "succeeded"
                 PROVE  /\ W[B[i].visit] \in {"waiting_checkpoint", "succeeded", "rejected", "cancelled"}
                        /\ B[i].visit = Len(W) => i = Len(B)
      BY DEF SuccessIsLast
    <2>1. i \in 1 .. Len(A) /\ A[i].status = "succeeded"
      BY <1>3, <1>9
    <2>2. /\ V[A[i].visit] \in {"waiting_checkpoint", "succeeded", "rejected", "cancelled"}
          /\ A[i].visit = Len(V) => i = Len(A)
      BY <2>1 DEF RunOK, SuccessIsLast
    <2>3. W[A[i].visit] \in {V[A[i].visit], "cancelled"}
      BY <2>1, <1>1, <1>4
    <2>4. B[i].visit = A[i].visit
      BY <2>1, <1>2
    <2> QED
      BY <2>2, <2>3, <2>4, <1>3, <1>5
  <1>11. Earned(W, B)
    <2> SUFFICES ASSUME NEW v \in 1 .. Len(W), v < Len(W)
                 PROVE  \E i \in 1 .. Len(B) : B[i].visit = v /\ B[i].status = "succeeded"
      BY DEF Earned
    <2>1. PICK i \in 1 .. Len(A) : A[i].visit = v /\ A[i].status = "succeeded"
      BY <1>5 DEF RunOK, Earned
    <2> QED
      BY <2>1, <1>2, <1>3, <1>9
  <1>12. ASSUME NEW i \in 1 .. Len(A)
         PROVE  B[i].status = "reconcile_required" <=> A[i].status \in LiveStates /\ observed[i] = "uncertain"
    BY <1>1, <1>2 DEF Attempt, AttemptTerminal, AttemptStates, LiveStates
  <1>13. Agrees(t, B)
    BY <1>3, <1>8, <1>12 DEF Agrees
  <1>14. Kept(A, B)
    BY <1>1, <1>2, <1>3 DEF Kept
  <1> QED
    BY <1>6, <1>7, <1>8, <1>10, <1>11, <1>13, <1>14 DEF RunOK, RunStates, ClosedWhenDone

-----------------------------------------------------------------------------
\* Steps of the system.

\* A step that leaves the projections alone.
LEMMA StoreUnchanged ==
    ASSUME StoreOK, UNCHANGED storeVars
    PROVE  StoreOK' /\ AllKept
  BY DEF StoreOK, storeVars, AllKept, Kept, RunOK, Shape

\* An admission that is under way still finds a run without attempts.
LEMMA AdmissionKept ==
    ASSUME ProcOK, AdmissionFresh, NEW r \in Runs,
           admission' \in {admission, [admission EXCEPT !.stale = TRUE], NoAdmission},
           \A q \in Runs \ {r} : attempts'[q] = attempts[q] /\ runStatus'[q] = runStatus[q],
           \/ attempts[r] # <<>>
           \/ attempts'[r] = attempts[r] /\ runStatus'[r] \in {runStatus[r], "queued", "waiting", "cancelled"}
    PROVE  AdmissionFresh'
  <1>1. admission \in Admission
    BY DEF ProcOK
  <1>2. \/ admission'.runs = {}
        \/ admission'.runs = admission.runs /\ admission'.created = admission.created
    BY <1>1 DEF Admission, NoAdmission
  <1>3. admission.runs \subseteq Runs
    BY <1>1 DEF Admission
  <1> QED
    BY <1>2, <1>3 DEF AdmissionFresh

\* A step that changes one run.
LEMMA StoreMoves ==
    ASSUME StoreOK, NEW r \in Runs, NEW s, NEW V, NEW A, RunOK(s, V, A), Kept(attempts[r], A),
           runStatus' = [runStatus EXCEPT ![r] = s],
           visits' = [visits EXCEPT ![r] = V],
           attempts' = [attempts EXCEPT ![r] = A]
    PROVE  StoreOK' /\ AllKept
  <1>1. s \in RunStates /\ V \in Seq(VisitStates) /\ A \in Seq(Attempt)
    BY DEF RunOK, Shape
  <1>2. /\ runStatus' \in [Runs -> RunStates]
        /\ visits' \in [Runs -> Seq(VisitStates)]
        /\ attempts' \in [Runs -> Seq(Attempt)]
    BY <1>1 DEF StoreOK
  <1>3. ASSUME NEW q \in Runs
        PROVE  /\ RunOK(runStatus'[q], visits'[q], attempts'[q])
               /\ Kept(attempts[q], attempts'[q])
    <2>1. CASE q = r
      BY <2>1, <1>1 DEF StoreOK
    <2>2. CASE q # r
      <3>1. /\ runStatus'[q] = runStatus[q] /\ visits'[q] = visits[q]
            /\ attempts'[q] = attempts[q] /\ attempts[q] \in Seq(Attempt)
        BY <2>2 DEF StoreOK
      <3>2. Kept(attempts[q], attempts[q])
        BY <3>1 DEF Kept
      <3> QED
        BY <3>1, <3>2 DEF StoreOK
    <2> QED
      BY <2>1, <2>2
  <1> QED
    BY <1>2, <1>3 DEF StoreOK, AllKept

\* The same for a step that an admission under way survives.
LEMMA OneRunMoves ==
    ASSUME IndInv, NEW r \in Runs, NEW s, NEW V, NEW A, RunOK(s, V, A), Kept(attempts[r], A),
           runStatus' = [runStatus EXCEPT ![r] = s],
           visits' = [visits EXCEPT ![r] = V],
           attempts' = [attempts EXCEPT ![r] = A],
           admission' \in {admission, [admission EXCEPT !.stale = TRUE], NoAdmission},
           \/ attempts[r] # <<>>
           \/ A = attempts[r] /\ s \in {runStatus[r], "queued", "waiting", "cancelled"}
    PROVE  StoreOK' /\ AllKept /\ AdmissionFresh'
  <1>1. StoreOK' /\ AllKept
    BY StoreMoves DEF IndInv
  <1>2. /\ \A q \in Runs \ {r} : attempts'[q] = attempts[q] /\ runStatus'[q] = runStatus[q]
        /\ attempts'[r] = A /\ runStatus'[r] = s
    BY DEF IndInv, StoreOK
  <1>3. AdmissionFresh'
    BY <1>2, AdmissionKept DEF IndInv
  <1> QED
    BY <1>1, <1>3

\* A step that registers only launches of attempts that exist after it keeps
\* IndicesKnown.
LEMMA IndicesKept ==
    ASSUME StoreOK, StoreOK', AllKept, IndicesKnown,
           \A r \in Runs, i \in AttemptIdx, o \in Origins :
               <<r, i, o>> \in launching' =>
                   <<r, i, o>> \in launching \/ i \in 1 .. Len(attempts'[r]),
           todo' \subseteq todo
    PROVE  IndicesKnown'
  <1>1. \A r \in Runs : 1 .. Len(attempts[r]) \subseteq 1 .. Len(attempts'[r])
    <2> SUFFICES ASSUME NEW r \in Runs PROVE 1 .. Len(attempts[r]) \subseteq 1 .. Len(attempts'[r])
      OBVIOUS
    <2>1. Len(attempts[r]) \in Nat /\ Len(attempts'[r]) \in Nat
      BY DEF StoreOK
    <2> QED
      BY <2>1 DEF AllKept, Kept
  <1> QED
    BY <1>1 DEF IndicesKnown

\* Stale and RunEvent keep their types.
LEMMA StaleTyped ==
    ASSUME ProcOK, NEW r \in Runs
    PROVE  /\ Stale(r) \in Admission
           /\ Stale(r) \in {admission, [admission EXCEPT !.stale = TRUE], NoAdmission}
           /\ NoAdmission \in Admission
  BY DEF ProcOK, Stale, Admission, NoAdmission

\* A run event marks the versions that control calls hold, and keeps their type.
LEMMA RunEventTyped ==
    ASSUME ProcOK, NEW r \in Runs, NEW s, RunEvent(r, s)
    PROVE  control' \in [Runs -> [ControlOps -> Control]]
  <1>1. control \in [Runs -> [ControlOps -> Control]]
    BY DEF ProcOK
  <1>2. \A op \in ControlOps : [control[r][op] EXCEPT !.stale = control[r][op].active] \in Control
    BY <1>1 DEF Control
  <1>3. [op \in ControlOps |-> [control[r][op] EXCEPT !.stale = control[r][op].active]] \in [ControlOps -> Control]
    BY <1>2
  <1>4. control' = [control EXCEPT ![r] = [op \in ControlOps |-> [control[r][op] EXCEPT !.stale = control[r][op].active]]]
    BY <1>1 DEF RunEvent
  <1> QED
    BY <1>1, <1>3, <1>4

\* A worker takes another state.
LEMMA OneWorkerMoves ==
    ASSUME WorkersOK, NEW r \in Runs, NEW i \in AttemptIdx, NEW w \in Worker,
           w.stage = "completing" => w.result \in Results,
           workers' = [workers EXCEPT ![r][i] = w]
    PROVE  WorkersOK'
  <1>1. workers' \in [Runs -> [AttemptIdx -> Worker]]
    BY DEF WorkersOK
  <1>2. \A q \in Runs, k \in AttemptIdx :
           workers'[q][k] = IF q = r /\ k = i THEN w ELSE workers[q][k]
    BY DEF WorkersOK
  <1> QED
    BY <1>1, <1>2 DEF WorkersOK

\* An ended and a launched goroutine are workers.
LEMMA WorkerValues ==
    /\ NoWorker \in Worker /\ NoWorker.stage = "none"
    /\ \A r \in Runs, i \in AttemptIdx : Launched(r, i) \in Worker /\ Launched(r, i).stage = "launched"
  <1>1. NoWorker \in Worker /\ NoWorker.stage = "none"
    BY RunExecutionAssumption DEF NoWorker, Worker, Stages, MaxAttempts
  <1> QED
    BY <1>1 DEF Launched, Worker, Stages

\* The reducers' entries.
LEMMA RunReducer ==
    /\ ReduceRun["started"] = {"ready"} /\ ReduceRun["visit_ready"] = {"queued"}
    /\ ReduceRun["waiting"] = {"running"} /\ ReduceRun["paused"] = Executable
    /\ ReduceRun["retried"] = {"failed"} /\ ReduceRun["continued"] = {"completed"}
    /\ ReduceRun["guidance_requested"] = {"running"} /\ ReduceRun["completed"] = {"running"}
    /\ ReduceRun["failed"] = {"running"} /\ ReduceRun["admission_failed"] = {"queued"}
    /\ ReduceRun["cancelled"] = (RunStates \ RunTerminal) \cup {"reconcile_required"}
    /\ ReduceRun["reconcile_required"] = RunStates \ RunTerminal
  BY DEF ReduceRun

\* The same for visits and attempts.
LEMMA ChildReducers ==
    /\ ReduceNode["result_received"] = {"running"} /\ ReduceNode["succeeded"] = {"waiting_checkpoint"}
    /\ ReduceNode["retrying"] = {"running", "failed"} /\ ReduceNode["failed"] = {"running"}
    /\ ReduceNode["admission_failed"] = {"pending"}
    /\ ReduceNode["cancelled"] = VisitStates \ VisitTerminal
    /\ ReduceNode.cancelled = VisitStates \ VisitTerminal
    /\ ReduceAttempt["resources_acquired"] = {"created"} /\ ReduceAttempt["resumed"] = {"running"}
    /\ ReduceAttempt["result_received"] = {"running"} /\ ReduceAttempt["failed"] = {"created", "running"}
    /\ ReduceAttempt["cancelled"] = LiveStates
    /\ ReduceAttempt["interrupted"] = LiveStates
    /\ ReduceAttempt["reconcile_required"] = LiveStates
  BY DEF ReduceNode, ReduceAttempt, LiveStates, AttemptStates, AttemptTerminal

\* failAttemptWithCode, called by a worker or by a handler that could not launch,
\* keeps the projections whole whatever state it finds.
LEMMA FailAttemptKeeps ==
    ASSUME IndInv, NEW r \in Runs, NEW i \in 1 .. Len(attempts[r]), FailAttempt(r, i)
    PROVE  /\ StoreOK' /\ AllKept /\ AdmissionFresh'
           /\ control' \in [Runs -> [ControlOps -> Control]]
           /\ admission' \in Admission
  <1>1. CASE /\ AttemptTakes(r, i, "failed")
             /\ RunTakes(r, "failed") \/ RunTakes(r, "admission_failed")
             /\ attempts' = SetAttempt(r, i, "failed")
             /\ visits' = SetVisit(r, i, "failed")
             /\ RunEvent(r, "failed")
             /\ admission' = Stale(r)
    <2> DEFINE A == attempts[r]
               V == visits[r]
               B == [A EXCEPT ![i].status = "failed"]
               W == [V EXCEPT ![A[i].visit] = "failed"]
    <2>1. RunOK(runStatus[r], V, A) /\ A \in Seq(Attempt) /\ i \in 1 .. Len(A)
      BY DEF IndInv, StoreOK
    <2>2. A[i].status \in LiveStates /\ runStatus[r] # "reconcile_required"
      BY <1>1, RunReducer, ChildReducers DEF AttemptTakes, RunTakes, LiveStates
    <2>3. Changed(A, B, i, "failed")
      BY <2>1, StatusChanged DEF AttemptStates
    <2>9. EndsAs("failed", "failed", "failed")
      BY DEF EndsAs
    <2>4. RunOK("failed", W, B) /\ Kept(A, B)
      <3> HIDE DEF A, B, V
      <3> QED
        BY <2>1, <2>2, <2>3, <2>9, AttemptEnds
    <2>5. /\ runStatus' = [runStatus EXCEPT ![r] = "failed"]
          /\ visits' = [visits EXCEPT ![r] = W]
          /\ attempts' = [attempts EXCEPT ![r] = B]
      BY <1>1 DEF SetAttempt, SetVisit, RunEvent, IndInv, StoreOK
    <2>6. A # <<>>
      BY <2>1
    <2>7. /\ admission' \in {admission, [admission EXCEPT !.stale = TRUE], NoAdmission}
          /\ admission' \in Admission
      BY <1>1, StaleTyped DEF IndInv
    <2>8. StoreOK' /\ AllKept /\ AdmissionFresh'
      BY <2>4, <2>5, <2>6, <2>7, OneRunMoves
    <2> QED
      BY <1>1, <2>7, <2>8, RunEventTyped DEF IndInv
  <1>2. CASE UNCHANGED <<visits, attempts>> /\ NoRunEvent
    BY <1>2, StoreUnchanged DEF IndInv, ProcOK, NoRunEvent, storeVars, AdmissionFresh
  <1> QED
    BY <1>1, <1>2 DEF FailAttempt

-----------------------------------------------------------------------------
\* Workers

\* Attempt indices fit the bounds.
LEMMA IndexTyped ==
    ASSUME IndInv, NEW r \in Runs
    PROVE  /\ attempts[r] \in Seq(Attempt) /\ visits[r] \in Seq(VisitStates)
           /\ RunOK(runStatus[r], visits[r], attempts[r])
           /\ Len(attempts[r]) \in Nat /\ Len(visits[r]) \in Nat
           /\ DOMAIN attempts[r] = 1 .. Len(attempts[r])
           /\ DOMAIN visits[r] = 1 .. Len(visits[r])
           /\ 1 .. Len(attempts[r]) \subseteq AttemptIdx
  <1>1. /\ attempts[r] \in Seq(Attempt) /\ visits[r] \in Seq(VisitStates)
        /\ RunOK(runStatus[r], visits[r], attempts[r])
    BY DEF IndInv, StoreOK
  <1>2. Len(attempts[r]) <= MaxAttempts
    BY <1>1, RunExecutionAssumption DEF RunOK, Shape, MaxAttempts
  <1> QED
    BY <1>1, <1>2, RunExecutionAssumption DEF AttemptIdx, MaxAttempts

\* The parts of a step's proof together; the step may register launches of
\* attempts that exist after it.
LEMMA TogetherLaunching ==
    ASSUME IndInv, StoreOK', AllKept, AdmissionFresh', WorkersOK',
           control' \in [Runs -> [ControlOps -> Control]], admission' \in Admission,
           UNCHANGED <<phase, scheduling, todo>>,
           launching' \subseteq Runs \X AttemptIdx \X Origins,
           \A r \in Runs, i \in AttemptIdx, o \in Origins :
               <<r, i, o>> \in launching' =>
                   <<r, i, o>> \in launching \/ i \in 1 .. Len(attempts'[r])
    PROVE  IndInv'
  <1>1. IndicesKnown'
    BY IndicesKept DEF IndInv
  <1> QED
    BY <1>1 DEF IndInv, ProcOK

\* The same for a step that registers no launch.
LEMMA Together ==
    ASSUME IndInv, StoreOK', AllKept, AdmissionFresh', WorkersOK',
           control' \in [Runs -> [ControlOps -> Control]], admission' \in Admission,
           UNCHANGED <<phase, scheduling, todo, launching>>
    PROVE  IndInv'
  <1>1. launching' \subseteq Runs \X AttemptIdx \X Origins
    BY DEF IndInv, ProcOK
  <1> QED
    BY <1>1, TogetherLaunching

\* A step of a goroutine that records nothing.
LEMMA OneWorkerKeeps ==
    ASSUME IndInv, NEW r \in Runs, NEW i \in AttemptIdx, NEW w \in Worker,
           w.stage = "completing" => w.result \in Results,
           workers' = [workers EXCEPT ![r][i] = w],
           UNCHANGED <<procVars, storeVars, launching, admission, control>>
    PROVE  IndInv' /\ AllKept
  <1>1. WorkersOK'
    BY OneWorkerMoves DEF IndInv
  <1>2. StoreOK' /\ AllKept
    BY StoreUnchanged DEF IndInv
  <1>3. AdmissionFresh' /\ control' \in [Runs -> [ControlOps -> Control]] /\ admission' \in Admission
    BY DEF IndInv, AdmissionFresh, ProcOK, storeVars
  <1> QED
    BY <1>1, <1>2, <1>3, Together DEF procVars

\* A worker that ends without recording anything keeps the invariant.
LEMMA QuietExitKeeps ==
    ASSUME IndInv, NEW r \in Runs, NEW i \in AttemptIdx, QuietExit(r, i)
    PROVE  IndInv' /\ AllKept
  <1>1. /\ workers' = [workers EXCEPT ![r][i] = NoWorker]
        /\ UNCHANGED <<procVars, storeVars, launching, admission, control>>
    BY DEF QuietExit, Exit, SetWorker
  <1> QED
    BY <1>1, WorkerValues, OneWorkerKeeps

\* A worker that fails its attempt (failAttemptWithCode) and ends keeps it.
LEMMA FailAndExitKeeps ==
    ASSUME IndInv, NEW r \in Runs, NEW i \in 1 .. Len(attempts[r]), FailAndExit(r, i)
    PROVE  IndInv' /\ AllKept
  <1>1. FailAttempt(r, i) /\ workers' = [workers EXCEPT ![r][i] = NoWorker]
        /\ UNCHANGED <<phase, scheduling, todo, launching>>
    BY DEF FailAndExit, Exit, SetWorker, procVars
  <1>2. i \in AttemptIdx
    BY IndexTyped
  <1>3. WorkersOK'
    BY <1>1, <1>2, WorkerValues, OneWorkerMoves DEF IndInv
  <1> QED
    BY <1>1, <1>3, FailAttemptKeeps, Together

\* A step of a goroutine that changes what it does next.
LEMMA StageKeeps ==
    ASSUME WorkersOK, NEW r \in Runs, NEW i \in AttemptIdx
    PROVE  /\ \A st \in Stages :
                [workers[r][i] EXCEPT !.stage = st] \in Worker /\ [workers[r][i] EXCEPT !.stage = st].stage = st
           /\ \A x \in Results :
                LET w == [workers[r][i] EXCEPT !.stage = "completing", !.result = x]
                IN  w \in Worker /\ w.result \in Results
  <1>1. workers[r][i] \in Worker
    BY DEF WorkersOK
  <1> QED
    BY <1>1 DEF Worker, Stages

\* A batch of a worker: one run moves, one goroutine goes on or ends.
LEMMA BatchKeeps ==
    ASSUME IndInv, NEW r \in Runs, NEW i \in 1 .. Len(attempts[r]),
           NEW s, NEW V, NEW A, RunOK(s, V, A), Kept(attempts[r], A),
           runStatus' = [runStatus EXCEPT ![r] = s],
           visits' = [visits EXCEPT ![r] = V],
           attempts' = [attempts EXCEPT ![r] = A],
           \/ RunEvent(r, s) /\ admission' = Stale(r)
           \/ UNCHANGED <<control, admission>>,
           NEW w \in Worker, w.stage # "completing",
           workers' = [workers EXCEPT ![r][i] = w],
           UNCHANGED <<procVars, launching>>
    PROVE  IndInv' /\ AllKept
  <1>1. i \in AttemptIdx /\ attempts[r] # <<>>
    BY IndexTyped
  <1>2. WorkersOK'
    BY <1>1, OneWorkerMoves DEF IndInv
  <1>3. /\ admission' \in {admission, [admission EXCEPT !.stale = TRUE], NoAdmission}
        /\ admission' \in Admission
    BY StaleTyped DEF IndInv, ProcOK
  <1>4. control' \in [Runs -> [ControlOps -> Control]]
    BY RunEventTyped DEF IndInv, ProcOK
  <1>5. StoreOK' /\ AllKept /\ AdmissionFresh'
    BY <1>1, <1>3, OneRunMoves
  <1> QED
    BY <1>2, <1>3, <1>4, <1>5, Together DEF procVars

\* startWorkflowVisit, run by a worker whose run may have been paused, cancelled or
\* failed since it was launched, keeps the invariant.
LEMMA StartVisitKeeps ==
    ASSUME IndInv, NEW r \in Runs, NEW i \in 1 .. Len(attempts[r]), StartVisit(r, i)
    PROVE  IndInv' /\ AllKept
  <1> DEFINE A == attempts[r]
             V == visits[r]
             W == [V EXCEPT ![A[i].visit] = "running"]
             w == [workers[r][i] EXCEPT !.stage = "visited"]
  <1>1. /\ RunOK(runStatus[r], V, A) /\ A \in Seq(Attempt)
        /\ i \in AttemptIdx /\ i \in 1 .. Len(A)
    BY IndexTyped
  <1>2. w \in Worker /\ w.stage = "visited"
    BY <1>1, StageKeeps DEF IndInv, Stages
  <1>3. CASE VisitStarts(r, i) /\ workers' = [workers EXCEPT ![r][i].stage = "visited"]
             /\ UNCHANGED <<procVars, launching>>
    <2>1. workers' = [workers EXCEPT ![r][i] = w]
      BY <1>1, <1>3 DEF IndInv, WorkersOK
    <2>2. CASE UNCHANGED <<storeVars, control, admission>>
      <3>1. UNCHANGED <<procVars, storeVars, launching, admission, control>>
        BY <1>3, <2>2
      <3> HIDE DEF w
      <3> QED
        BY <1>1, <1>2, <2>1, <3>1, OneWorkerKeeps
    <2>3. CASE /\ VisitOf(r, i) \in {"pending", "running"}
               /\ runStatus[r] \in Executable
               /\ visits' = SetVisit(r, i, "running")
               /\ IF RunTakes(r, "visit_ready")
                  THEN RunEvent(r, "running") /\ admission' = Stale(r)
                  ELSE NoRunEvent
               /\ UNCHANGED attempts
      <3>1. V[A[i].visit] \in OpenVisit
        BY <2>3 DEF VisitOf, OpenVisit
      <3>2. RunOK("running", W, A)
        <4> HIDE DEF A, V
        <4> QED
          BY <1>1, <2>3, <3>1, VisitRuns DEF W
      <3>3. Kept(A, A)
        BY <1>1 DEF Kept
      <3>4. /\ visits' = [visits EXCEPT ![r] = W]
            /\ attempts' = [attempts EXCEPT ![r] = A]
        BY <2>3 DEF SetVisit, IndInv, StoreOK
      <3>5. CASE RunEvent(r, "running") /\ admission' = Stale(r)
        <4>1. runStatus' = [runStatus EXCEPT ![r] = "running"]
          BY <3>5 DEF RunEvent
        <4> HIDE DEF w, W
        <4> QED
          BY <1>2, <1>3, <2>1, <3>2, <3>3, <3>4, <3>5, <4>1, BatchKeeps
      <3>6. CASE ~RunTakes(r, "visit_ready") /\ NoRunEvent
        <4>1. runStatus[r] = "running"
          BY <2>3, <3>6, RunReducer DEF RunTakes, Executable
        <4>2. runStatus' = [runStatus EXCEPT ![r] = "running"]
          BY <3>6, <4>1 DEF NoRunEvent, IndInv, StoreOK
        <4>3. UNCHANGED <<control, admission>>
          BY <3>6 DEF NoRunEvent
        <4> HIDE DEF w, W
        <4> QED
          BY <1>2, <1>3, <2>1, <3>2, <3>3, <3>4, <4>2, <4>3, BatchKeeps
      <3> QED
        BY <2>3, <3>5, <3>6
    <2> QED
      BY <1>3, <2>2, <2>3 DEF VisitStarts
  <1>4. CASE FailAndExit(r, i) \/ QuietExit(r, i)
    BY <1>1, <1>4, FailAndExitKeeps, QuietExitKeeps
  <1> QED
    BY <1>3, <1>4 DEF StartVisit

\* Provider calls and their answers change nothing but the goroutine, unless they
\* fail the attempt.
LEMMA CallProviderKeeps ==
    ASSUME IndInv, NEW r \in Runs, NEW i \in 1 .. Len(attempts[r]),
           CallProvider(r, i) \/ ReceiveResult(r, i) \/ BuiltinReturns(r, i) \/ PrepareFails(r, i)
    PROVE  IndInv' /\ AllKept
  <1>1. i \in AttemptIdx /\ workers \in [Runs -> [AttemptIdx -> Worker]]
    BY IndexTyped DEF IndInv, WorkersOK
  <1>2. CASE FailAndExit(r, i) \/ QuietExit(r, i)
    BY <1>1, <1>2, FailAndExitKeeps, QuietExitKeeps
  <1>3. CASE /\ workers' = [workers EXCEPT ![r][i].stage = "handled"]
             /\ UNCHANGED <<procVars, storeVars, launching, admission, control>>
    <2> DEFINE w == [workers[r][i] EXCEPT !.stage = "handled"]
    <2>1. w \in Worker /\ w.stage = "handled" /\ workers' = [workers EXCEPT ![r][i] = w]
      BY <1>1, <1>3, StageKeeps DEF IndInv, Stages
    <2> HIDE DEF w
    <2> QED
      BY <1>1, <1>3, <2>1, OneWorkerKeeps
  <1>4. ASSUME NEW x \in Results,
               workers' = [workers EXCEPT ![r][i].stage = "completing", ![r][i].result = x],
               UNCHANGED <<procVars, storeVars, launching, admission, control>>
        PROVE  IndInv' /\ AllKept
    <2> DEFINE w == [workers[r][i] EXCEPT !.stage = "completing", !.result = x]
    <2>1. w \in Worker /\ w.result \in Results
      BY <1>1, StageKeeps DEF IndInv
    <2>2. workers' = [workers EXCEPT ![r][i] = w]
      BY <1>1, <1>4
    <2>3. UNCHANGED <<procVars, storeVars, launching, admission, control>>
      BY <1>4
    <2> HIDE DEF w
    <2> QED
      BY <1>1, <2>1, <2>2, <2>3, OneWorkerKeeps
  <1> QED
    BY <1>2, <1>3, <1>4 DEF CallProvider, ReceiveResult, BuiltinReturns, PrepareFails, Results

\* attempt.started and attempt.resumed are recorded for a live attempt only.
LEMMA RecordStartKeeps ==
    ASSUME IndInv, NEW r \in Runs, NEW i \in 1 .. Len(attempts[r]), RecordStart(r, i)
    PROVE  IndInv' /\ AllKept
  <1> DEFINE A == attempts[r]
             V == visits[r]
             e == [A[i] EXCEPT !.status = "running", !.resumed = workers[r][i].resume]
             B == [A EXCEPT ![i] = e]
             w == [workers[r][i] EXCEPT !.stage = "streaming"]
  <1>1. /\ RunOK(runStatus[r], V, A) /\ A \in Seq(Attempt)
        /\ i \in AttemptIdx /\ i \in 1 .. Len(A)
    BY IndexTyped
  <1>2. w \in Worker /\ w.stage = "streaming"
    BY <1>1, StageKeeps DEF IndInv, Stages
  <1>3. CASE /\ Recordable(r, i)
             /\ attempts' = [attempts EXCEPT ![r][i].status = "running",
                                             ![r][i].resumed = workers[r][i].resume]
             /\ workers' = [workers EXCEPT ![r][i].stage = "streaming"]
             /\ UNCHANGED <<procVars, runStatus, visits, launching, admission, control>>
    <2>1. A[i].status \in LiveStates
      BY <1>3, ChildReducers DEF Recordable, AttemptTakes, LiveStates
    <2>2. A[i] \in Attempt /\ e \in Attempt /\ e.status = "running" /\ e.visit = A[i].visit /\ e.node = A[i].node
      <3>1. A[i] \in Attempt /\ workers[r][i].resume \in BOOLEAN
        BY <1>1 DEF Worker, IndInv, WorkersOK
      <3> HIDE DEF A
      <3> QED
        BY <3>1 DEF Attempt, AttemptStates
    <2>3. Changed(A, B, i, "running")
      <3> HIDE DEF A, e
      <3> QED
        BY <1>1, <2>2, ExceptSeq DEF Changed
    <2>4. RunOK(runStatus[r], V, B) /\ Kept(A, B)
      <3> HIDE DEF A, B, V
      <3> QED
        BY <1>1, <2>1, <2>3, AttemptRuns
    <2>5. /\ attempts' = [attempts EXCEPT ![r] = B]
          /\ visits' = [visits EXCEPT ![r] = V]
          /\ runStatus' = [runStatus EXCEPT ![r] = runStatus[r]]
          /\ workers' = [workers EXCEPT ![r][i] = w]
      BY <1>1, <1>3 DEF IndInv, StoreOK, WorkersOK
    <2>6. UNCHANGED <<control, admission>> /\ UNCHANGED <<procVars, launching>>
      BY <1>3
    <2> HIDE DEF w, B
    <2> QED
      BY <1>2, <2>4, <2>5, <2>6, BatchKeeps
  <1>4. CASE QuietExit(r, i)
    BY <1>1, <1>4, QuietExitKeeps
  <1> QED
    BY <1>3, <1>4 DEF RecordStart

\* completeWorkflowSucceeded: the attempt and its visit succeed, and the run
\* waits, completes, or gets its next visit and attempt.
LEMMA SucceedKeeps ==
    ASSUME IndInv, NEW r \in Runs, NEW i \in 1 .. Len(attempts[r]), NEW n \in Nodes,
           AttemptTakes(r, i, "result_received"), VisitTakes(r, i, "result_received"),
           Succeed(r, i, n), UNCHANGED <<procVars, launching>>
    PROVE  IndInv' /\ AllKept
  <1> DEFINE A == attempts[r]
             V == visits[r]
             B == [A EXCEPT ![i].status = "succeeded"]
  <1>1. /\ RunOK(runStatus[r], V, A) /\ A \in Seq(Attempt) /\ V \in Seq(VisitStates)
        /\ i \in AttemptIdx /\ i \in 1 .. Len(A) /\ Len(A) \in Nat /\ Len(V) \in Nat
        /\ A[i].visit \in 1 .. Len(V)
    BY IndexTyped DEF RunOK, Shape
  <1>2. A[i].status = "running" /\ A[i].status \in LiveStates /\ V[A[i].visit] = "running"
    BY ChildReducers DEF AttemptTakes, VisitTakes, VisitOf, LiveStates
  <1>3. Changed(A, B, i, "succeeded")
    BY <1>1, StatusChanged DEF AttemptStates
  <1>4. SetAttempt(r, i, "succeeded") = [attempts EXCEPT ![r] = B]
    BY DEF SetAttempt, IndInv, StoreOK
  <1>5. \A w : SetVisit(r, i, w) = [visits EXCEPT ![r] = [V EXCEPT ![A[i].visit] = w]]
    BY DEF SetVisit, IndInv, StoreOK
  <1>6. ASSUME NEW w, NEW t \in {"waiting", "completed"}, runStatus[r] = "running",
               SucceedsAs(w, t, A[i].node),
               attempts' = SetAttempt(r, i, "succeeded"),
               visits' = SetVisit(r, i, w),
               RunEvent(r, t), admission' = Stale(r), workers' = Exit(r, i)
        PROVE  IndInv' /\ AllKept
    <2> DEFINE W == [V EXCEPT ![A[i].visit] = w]
    <2>1. RunOK(t, W, B) /\ Kept(A, B)
      <3>1. RunOK("running", V, A)
        BY <1>1, <1>6
      <3> HIDE DEF A, B, V
      <3> QED
        BY <3>1, <1>1, <1>2, <1>3, <1>6, AttemptSucceeds
    <2>2. /\ runStatus' = [runStatus EXCEPT ![r] = t]
          /\ visits' = [visits EXCEPT ![r] = W]
          /\ attempts' = [attempts EXCEPT ![r] = B]
          /\ workers' = [workers EXCEPT ![r][i] = NoWorker]
      BY <1>4, <1>5, <1>6 DEF RunEvent, Exit, SetWorker
    <2>3. NoWorker \in Worker /\ NoWorker.stage # "completing"
      BY WorkerValues
    <2>4. RunEvent(r, t) /\ admission' = Stale(r)
      BY <1>6
    <2> HIDE DEF W, B
    <2> QED
      BY <2>1, <2>2, <2>3, <2>4, BatchKeeps
  <1>7. ASSUME Len(V) < MaxVisits,
               attempts' = [SetAttempt(r, i, "succeeded") EXCEPT ![r] = Append(@, NewAttempt(n, Len(V) + 1))],
               visits' = [SetVisit(r, i, "succeeded") EXCEPT ![r] = Append(@, "pending")],
               NoRunEvent,
               workers' = [workers EXCEPT ![r][i].stage = "advancing", ![r][i].next = Len(A) + 1]
        PROVE  IndInv' /\ AllKept
    <2> DEFINE W == [V EXCEPT ![A[i].visit] = "succeeded"]
               C == Append(B, NewAttempt(n, Len(V) + 1))
               X == Append(W, "pending")
               w == [workers[r][i] EXCEPT !.stage = "advancing", !.next = Len(A) + 1]
    <2>10. runStatus[r] \notin {"completed", "failed", "reconcile_required"}
      <3>1. ~Over(A)
        BY <1>1, <1>2 DEF Over
      <3> HIDE DEF A, V
      <3> QED
        BY <1>1, <3>1 DEF RunOK, ClosedWhenDone, Agrees
    <2>1. RunOK("running", V, A)
      <3> HIDE DEF A, V
      <3> QED
        BY <1>1, <2>10, StatusMoves
    <2>2. RunOK("running", W, B) /\ Kept(A, B) /\ Over(B) /\ i = Len(A) /\ A[i].visit = Len(V)
      <3>1. SucceedsAs("succeeded", "running", A[i].node)
        BY DEF SucceedsAs
      <3> HIDE DEF A, B, V
      <3> QED
        BY <2>1, <3>1, <1>1, <1>2, <1>3, AttemptSucceeds
    <2>3. Len(W) = Len(V) /\ W[Len(W)] = "succeeded"
      BY <1>1, <2>2, VisitChanged DEF VisitStates
    <2>4. i \in 1 .. Len(B) /\ B[i].status = "succeeded" /\ B[i].visit = Len(W) /\ Len(B) = Len(A)
      <3> HIDE DEF A, B, V, W
      <3> QED
        BY <1>1, <1>3, <2>2, <2>3 DEF Changed
    <2>5. RunOK("running", X, C) /\ Kept(B, C)
      <3>1. Len(W) < MaxVisits /\ Len(W) > 0
        BY <1>1, <1>7, <2>2, <2>3
      <3> HIDE DEF A, B, V, W
      <3>2. RunOK("running", Append(W, "pending"), Append(B, NewAttempt(n, Len(W) + 1)))
            /\ Kept(B, Append(B, NewAttempt(n, Len(W) + 1)))
        BY <2>2, <2>3, <2>4, <3>1, Advances
      <3> QED
        BY <2>3, <3>2
    <2>6. Kept(A, C)
      <3> HIDE DEF A, B, C
      <3>1. A \in Seq(Attempt) /\ B \in Seq(Attempt) /\ C \in Seq(Attempt)
        BY <1>1, <1>3, <2>5 DEF Changed, RunOK, Shape
      <3>2. Len(A) <= Len(B) /\ Len(B) <= Len(C) /\ Len(A) \in Nat /\ Len(B) \in Nat /\ Len(C) \in Nat
        BY <2>2, <2>5, <3>1 DEF Kept
      <3>3. ASSUME NEW k \in 1 .. Len(A), A[k].status \in AttemptTerminal
            PROVE  C[k] = A[k] \/ (A[k].status = "reconcile_required" /\ C[k].status = "cancelled")
        <4>1. B[k] = A[k] \/ (A[k].status = "reconcile_required" /\ B[k].status = "cancelled")
          BY <2>2, <3>3 DEF Kept
        <4>2. k \in 1 .. Len(B) /\ B[k].status \in AttemptTerminal
          BY <3>2, <3>3, <4>1 DEF AttemptTerminal, AttemptStates
        <4>3. C[k] = B[k] \/ (B[k].status = "reconcile_required" /\ C[k].status = "cancelled")
          BY <2>5, <4>2 DEF Kept
        <4> QED
          BY <4>1, <4>3
      <3> QED
        BY <3>2, <3>3 DEF Kept
    <2>7. RunOK(runStatus[r], X, C)
      <3>1. runStatus[r] \in {"ready", "queued", "running", "waiting", "cancelled"}
        BY <1>1, <2>10 DEF RunOK, RunStates
      <3> HIDE DEF X, C
      <3> QED
        BY <2>5, <3>1, StatusMoves
    <2>8. /\ runStatus' = [runStatus EXCEPT ![r] = runStatus[r]]
          /\ visits' = [visits EXCEPT ![r] = X]
          /\ attempts' = [attempts EXCEPT ![r] = C]
      <3>1. visits' = [[visits EXCEPT ![r] = W] EXCEPT ![r] = Append(@, "pending")]
        BY <1>5, <1>7
      <3>2. attempts' = [[attempts EXCEPT ![r] = B] EXCEPT ![r] = Append(@, NewAttempt(n, Len(V) + 1))]
        BY <1>4, <1>7
      <3>3. runStatus' = [runStatus EXCEPT ![r] = runStatus[r]]
        BY <1>7 DEF NoRunEvent, IndInv, StoreOK
      <3> HIDE DEF W, B
      <3> QED
        BY <3>1, <3>2, <3>3 DEF IndInv, StoreOK
    <2>9. w \in Worker /\ w.stage # "completing" /\ workers' = [workers EXCEPT ![r][i] = w]
      <3>1. Len(C) = Len(A) + 1
        <4> HIDE DEF A, B
        <4> QED
          BY <2>4, <1>1, <1>3 DEF Changed
      <3>2. Len(C) <= MaxAttempts
        <4> HIDE DEF X, C
        <4> QED
          BY <2>5, RunExecutionAssumption DEF RunOK, Shape, MaxAttempts
      <3>3. Len(A) + 1 \in 0 .. MaxAttempts
        BY <1>1, <3>1, <3>2, RunExecutionAssumption DEF MaxAttempts
      <3>4. w \in Worker /\ w.stage = "advancing"
        <4>1. workers[r][i] \in Worker
          BY <1>1 DEF IndInv, WorkersOK
        <4> QED
          BY <3>3, <4>1 DEF Worker, Stages
      <3>5. workers' = [workers EXCEPT ![r][i] = w]
        BY <1>1, <1>7 DEF IndInv, WorkersOK
      <3> QED
        BY <3>4, <3>5
    <2>11. UNCHANGED <<control, admission>>
      BY <1>7 DEF NoRunEvent
    <2> HIDE DEF w, X, C
    <2> QED
      BY <2>6, <2>7, <2>8, <2>9, <2>11, BatchKeeps
  <1>8. \/ /\ RunTakes(r, "waiting") \/ RunTakes(r, "completed")
           /\ attempts' = SetAttempt(r, i, "succeeded") /\ admission' = Stale(r) /\ workers' = Exit(r, i)
           /\ \/ visits' = SetVisit(r, i, "waiting_checkpoint") /\ RunEvent(r, "waiting")
              \/ visits' = SetVisit(r, i, "succeeded") /\ RunEvent(r, "completed") /\ A[i].node \in Terminals
        \/ /\ Len(V) < MaxVisits
           /\ attempts' = [SetAttempt(r, i, "succeeded") EXCEPT ![r] = Append(@, NewAttempt(n, Len(V) + 1))]
           /\ visits' = [SetVisit(r, i, "succeeded") EXCEPT ![r] = Append(@, "pending")]
           /\ NoRunEvent
           /\ workers' = [workers EXCEPT ![r][i].stage = "advancing", ![r][i].next = Len(A) + 1]
    BY Zenon DEF Succeed, Accepted
  <1>9. RunTakes(r, "waiting") \/ RunTakes(r, "completed") => runStatus[r] = "running"
    BY RunReducer DEF RunTakes
  <1>10. /\ SucceedsAs("waiting_checkpoint", "waiting", A[i].node)
         /\ A[i].node \in Terminals => SucceedsAs("succeeded", "completed", A[i].node)
    BY DEF SucceedsAs
  <1> HIDE DEF A, V, B
  <1> QED
    BY <1>6, <1>7, <1>8, <1>9, <1>10

\* completeAttempt for the other results keeps the invariant.
LEMMA CompleteOtherKeeps ==
    ASSUME IndInv, NEW r \in Runs, NEW i \in 1 .. Len(attempts[r]), CompleteOther(r, i)
    PROVE  IndInv' /\ AllKept
  <1> DEFINE A == attempts[r]
             V == visits[r]
             result == workers[r][i].result
             a == AttemptOutcome(result)
             x == VisitOutcome(result)
             t == RunOutcome(result)
             B == [A EXCEPT ![i].status = a]
             W == [V EXCEPT ![A[i].visit] = x]
  <1>1. /\ RunOK(runStatus[r], V, A) /\ A \in Seq(Attempt)
        /\ i \in AttemptIdx /\ i \in 1 .. Len(A)
    BY IndexTyped
  <1>2. CASE QuietExit(r, i)
    BY <1>1, <1>2, QuietExitKeeps
  <1>3. ASSUME workers[r][i].stage = "completing", result # "succeeded",
               AttemptTakes(r, i, a), RunTakes(r, t),
               attempts' = SetAttempt(r, i, a), visits' = SetVisit(r, i, x),
               RunEvent(r, t), admission' = Stale(r), workers' = Exit(r, i),
               UNCHANGED <<procVars, launching>>
        PROVE  IndInv' /\ AllKept
    <2>1. result \in {"failed", "cancelled", "interrupted", "unknown"}
      BY <1>1, <1>3 DEF IndInv, WorkersOK, Results
    <2>2. EndsAs(a, x, t) /\ a \in {"failed", "cancelled", "interrupted", "reconcile_required"}
          /\ t \in {"failed", "cancelled", "reconcile_required"}
      <3> HIDE DEF result
      <3> QED
        BY <2>1 DEF AttemptOutcome, VisitOutcome, RunOutcome, EndsAs
    <2>3. A[i].status \in LiveStates
      <3> HIDE DEF a
      <3> QED
        BY <1>3, <2>2, ChildReducers DEF AttemptTakes, LiveStates
    <2>4. runStatus[r] # "reconcile_required"
      <3>1. ~Over(A)
        BY <1>1, <2>3 DEF Over
      <3> HIDE DEF A, V
      <3> QED
        BY <1>1, <3>1 DEF RunOK, Agrees
    <2> HIDE DEF a, x, t
    <2>5. Changed(A, B, i, a)
      BY <1>1, <2>2, StatusChanged DEF AttemptStates
    <2>6. RunOK(t, W, B) /\ Kept(A, B)
      <3> HIDE DEF A, B, V
      <3> QED
        BY <1>1, <2>2, <2>3, <2>4, <2>5, AttemptEnds
    <2>7. /\ runStatus' = [runStatus EXCEPT ![r] = t]
          /\ visits' = [visits EXCEPT ![r] = W]
          /\ attempts' = [attempts EXCEPT ![r] = B]
          /\ workers' = [workers EXCEPT ![r][i] = NoWorker]
      BY <1>3 DEF RunEvent, SetAttempt, SetVisit, Exit, SetWorker, IndInv, StoreOK
    <2>8. NoWorker \in Worker /\ NoWorker.stage # "completing"
      BY WorkerValues
    <2>9. RunEvent(r, t) /\ admission' = Stale(r) /\ UNCHANGED <<procVars, launching>>
      BY <1>3
    <2> HIDE DEF W, B
    <2> QED
      BY <2>6, <2>7, <2>8, <2>9, BatchKeeps
  <1> QED
    BY <1>2, <1>3 DEF CompleteOther

\* launch of the successor, by a worker that has committed it.
LEMMA LaunchSuccessorKeeps ==
    ASSUME IndInv, NEW r \in Runs, NEW i \in 1 .. Len(attempts[r]), LaunchSuccessor(r, i)
    PROVE  IndInv' /\ AllKept
  <1> DEFINE next == workers[r][i].next
  <1>1. i \in AttemptIdx /\ workers \in [Runs -> [AttemptIdx -> Worker]]
    BY IndexTyped DEF IndInv, WorkersOK
  <1>2. UNCHANGED <<procVars, storeVars, launching, admission, control>>
    BY DEF LaunchSuccessor
  <1>3. CASE workers' = Exit(r, i)
    BY <1>1, <1>2, <1>3, QuietExitKeeps DEF QuietExit
  <1>4. CASE workers' = [workers EXCEPT ![r][i] = NoWorker, ![r][next] = Launched(r, next)]
    <2>1. ASSUME NEW q \in Runs, NEW k \in AttemptIdx
          PROVE  workers'[q][k] \in {workers[q][k], NoWorker, Launched(r, next)}
      <3> HIDE DEF next
      <3> QED
        BY <1>1, <1>4
    <2>2. CASE next \in AttemptIdx
      <3>1. NoWorker \in Worker /\ NoWorker.stage = "none"
            /\ Launched(r, next) \in Worker /\ Launched(r, next).stage = "launched"
        BY <2>2, WorkerValues
      <3>2. workers' \in [Runs -> [AttemptIdx -> Worker]]
        <4> HIDE DEF next
        <4> QED
          BY <1>1, <1>4, <3>1, <2>2
      <3>3. WorkersOK'
        <4> HIDE DEF next
        <4> QED
          BY <2>1, <3>1, <3>2 DEF WorkersOK, IndInv
      <3>4. StoreOK' /\ AllKept
        BY <1>2, StoreUnchanged DEF IndInv
      <3>5. AdmissionFresh' /\ control' \in [Runs -> [ControlOps -> Control]] /\ admission' \in Admission
        BY <1>2 DEF IndInv, AdmissionFresh, ProcOK, storeVars
      <3> QED
        BY <1>2, <3>3, <3>4, <3>5, Together DEF procVars
    <2>3. CASE next \notin AttemptIdx
      <3>1. workers' = Exit(r, i)
        <4> HIDE DEF next
        <4> QED
          BY <1>1, <1>4, <2>3 DEF Exit, SetWorker
      <3> QED
        BY <1>1, <1>2, <3>1, QuietExitKeeps DEF QuietExit
    <2> QED
      BY <2>2, <2>3
  <1> QED
    BY <1>3, <1>4 DEF LaunchSuccessor

\* Every step of a worker.
LEMMA WorkerKeeps ==
    ASSUME IndInv, NEW r \in Runs, NEW i \in Attempts(r), WorkerStep(r, i)
    PROVE  IndInv' /\ AllKept
  <1>1. i \in 1 .. Len(attempts[r])
    BY IndexTyped DEF Attempts
  <1>2. CASE CompleteSucceeded(r, i)
    <2>1. CASE FailAndExit(r, i) \/ QuietExit(r, i)
      BY <1>1, <2>1, IndexTyped, FailAndExitKeeps, QuietExitKeeps
    <2>2. ASSUME NEW n \in Nodes, AttemptTakes(r, i, "result_received"),
                 VisitTakes(r, i, "result_received"), Succeed(r, i, n),
                 UNCHANGED <<procVars, launching>>
          PROVE  IndInv' /\ AllKept
      BY <1>1, <2>2, SucceedKeeps
    <2> QED
      BY <1>2, <2>1, <2>2 DEF CompleteSucceeded
  <1> QED
    BY <1>1, <1>2, StartVisitKeeps, CallProviderKeeps, RecordStartKeeps, CompleteOtherKeeps,
       LaunchSuccessorKeeps DEF WorkerStep

-----------------------------------------------------------------------------
\* Queue

\* launch: the attempt gets a goroutine, or already has one or may not have one.
LEMMA LaunchWorkers ==
    ASSUME IndInv, NEW r \in Runs, NEW i \in AttemptIdx,
           \/ workers' = SetWorker(r, i, Launched(r, i))
           \/ UNCHANGED workers
    PROVE  WorkersOK'
  <1>1. CASE workers' = SetWorker(r, i, Launched(r, i))
    <2>1. Launched(r, i) \in Worker /\ Launched(r, i).stage # "completing"
      BY WorkerValues
    <2> QED
      BY <1>1, <2>1, OneWorkerMoves DEF SetWorker, IndInv
  <1>2. CASE UNCHANGED workers
    BY <1>2 DEF WorkersOK, IndInv
  <1> QED
    BY <1>1, <1>2

\* A step that changes no projection.
LEMMA QuietKeeps ==
    ASSUME IndInv, UNCHANGED storeVars, WorkersOK',
           \/ UNCHANGED admission
           \/ admission' = NoAdmission,
           control' \in [Runs -> [ControlOps -> Control]],
           UNCHANGED <<procVars, launching>>
    PROVE  IndInv' /\ AllKept
  <1>1. StoreOK' /\ AllKept
    BY StoreUnchanged DEF IndInv
  <1>2. AdmissionFresh' /\ admission' \in Admission
    <2>1. CASE UNCHANGED admission
      BY <2>1 DEF IndInv, AdmissionFresh, ProcOK, storeVars
    <2>2. CASE admission' = NoAdmission
      BY <2>2 DEF AdmissionFresh, NoAdmission, Admission
    <2> QED
      BY <2>1, <2>2
  <1> QED
    BY <1>1, <1>2, Together DEF procVars

\* A step that changes the status of a run and nothing else of the projections,
\* keeps the workers, and registers launches of attempts of the run.
LEMMA StatusKeeps ==
    ASSUME IndInv, NEW r \in Runs, runStatus[r] # "reconcile_required",
           NEW s \in {"queued", "waiting"},
           runStatus' = [runStatus EXCEPT ![r] = s],
           control' \in [Runs -> [ControlOps -> Control]],
           admission' = Stale(r),
           UNCHANGED <<procVars, visits, attempts, workers>>,
           NEW I, I \subseteq 1 .. Len(attempts[r]),
           launching' = launching \cup {<<r, i, "control">> : i \in I}
    PROVE  IndInv' /\ AllKept
  <1>1. /\ RunOK(runStatus[r], visits[r], attempts[r]) /\ attempts[r] \in Seq(Attempt)
        /\ 1 .. Len(attempts[r]) \subseteq AttemptIdx
    BY IndexTyped
  <1>2. RunOK(s, visits[r], attempts[r])
    BY <1>1, StatusMoves
  <1>3. Kept(attempts[r], attempts[r])
    BY <1>1 DEF Kept
  <1>4. visits' = [visits EXCEPT ![r] = visits[r]] /\ attempts' = [attempts EXCEPT ![r] = attempts[r]]
    BY DEF IndInv, StoreOK
  <1>5. /\ admission' \in {admission, [admission EXCEPT !.stale = TRUE], NoAdmission}
        /\ admission' \in Admission
    BY StaleTyped DEF IndInv
  <1>6. StoreOK' /\ AllKept /\ AdmissionFresh'
    BY <1>2, <1>3, <1>4, <1>5, OneRunMoves
  <1>7. WorkersOK'
    BY DEF IndInv, WorkersOK
  <1>8. launching' \subseteq Runs \X AttemptIdx \X Origins
    BY <1>1 DEF IndInv, ProcOK, Origins
  <1>9. \A q \in Runs, i \in AttemptIdx, o \in Origins :
            <<q, i, o>> \in launching' => <<q, i, o>> \in launching \/ i \in 1 .. Len(attempts'[q])
    OBVIOUS
  <1> QED
    BY <1>5, <1>6, <1>7, <1>8, <1>9, TogetherLaunching DEF procVars

\* Every step of the queue loop and every launch by a handler.
LEMMA QueueKeeps ==
    ASSUME IndInv, NEW r \in Runs, QueueStep(r)
    PROVE  IndInv' /\ AllKept
  <1> DEFINE A == attempts[r]
             V == visits[r]
  <1>1. /\ RunOK(runStatus[r], V, A) /\ A \in Seq(Attempt) /\ V \in Seq(VisitStates)
        /\ Len(A) \in Nat /\ Len(V) \in Nat /\ DOMAIN A = 1 .. Len(A) /\ 1 .. Len(A) \subseteq AttemptIdx
    BY IndexTyped
  <1>2. CASE Launch(r)
    <2>1. runStatus[r] = "ready" /\ runStatus' = [runStatus EXCEPT ![r] = "queued"]
      BY <1>2, RunReducer DEF Launch, RunTakes, RunEvent
    <2>2. control' \in [Runs -> [ControlOps -> Control]]
      BY <1>2, RunEventTyped DEF Launch, IndInv
    <2>3. launching' = launching \cup {<<r, i, "control">> : i \in {}}
      BY <1>2 DEF Launch
    <2>4. admission' = Stale(r) /\ UNCHANGED <<procVars, visits, attempts, workers>>
      BY <1>2 DEF Launch
    <2> QED
      BY <2>1, <2>2, <2>3, <2>4, StatusKeeps
  <1>3. CASE DispatchPick(r)
    <2>1. StoreOK' /\ AllKept
      BY <1>3, StoreUnchanged DEF DispatchPick, IndInv
    <2>2. admission' \in Admission /\ admission'.runs = {r} /\ ~admission'.created
      BY <1>3 DEF DispatchPick, NoAdmission, Admission
    <2>3. AdmissionFresh'
      BY <1>3, <2>2 DEF AdmissionFresh, DispatchPick, storeVars
    <2>4. WorkersOK' /\ control' \in [Runs -> [ControlOps -> Control]]
      BY <1>3 DEF DispatchPick, IndInv, WorkersOK, ProcOK
    <2> QED
      BY <1>3, <2>1, <2>2, <2>3, <2>4, Together DEF DispatchPick, procVars
  <1>4. CASE DispatchAdmit(r)
    <2>1. A = <<>> /\ runStatus[r] \in {"queued", "waiting", "cancelled"}
      BY <1>4 DEF DispatchAdmit, IndInv, AdmissionFresh
    <2>2. RunOK(runStatus[r], <<"pending">>, <<NewAttempt(Entry, 1)>>)
      BY <2>1, Admits
    <2>3. Kept(A, <<NewAttempt(Entry, 1)>>)
      BY <2>1 DEF Kept
    <2>4. runStatus' = [runStatus EXCEPT ![r] = runStatus[r]]
      BY <1>4 DEF DispatchAdmit, IndInv, StoreOK
    <2>5. StoreOK' /\ AllKept
      BY <1>4, <2>2, <2>3, <2>4, StoreMoves DEF DispatchAdmit, IndInv
    <2>6. admission' \in Admission /\ admission'.created
      BY <1>4 DEF DispatchAdmit, Admission, IndInv, ProcOK
    <2>7. AdmissionFresh'
      BY <2>6 DEF AdmissionFresh
    <2>8. WorkersOK' /\ control' \in [Runs -> [ControlOps -> Control]]
      BY <1>4 DEF DispatchAdmit, IndInv, WorkersOK, ProcOK
    <2> QED
      BY <1>4, <2>5, <2>6, <2>7, <2>8, Together DEF DispatchAdmit, procVars
  <1>5. CASE DispatchLaunch(r)
    <2>1. 1 \in AttemptIdx
      BY RunExecutionAssumption DEF AttemptIdx, MaxAttempts
    <2>2. WorkersOK'
      BY <1>5, <2>1, LaunchWorkers DEF DispatchLaunch
    <2>3. control' \in [Runs -> [ControlOps -> Control]]
      BY <1>5 DEF DispatchLaunch, IndInv, ProcOK
    <2> QED
      BY <1>5, <2>2, <2>3, QuietKeeps DEF DispatchLaunch
  <1>6. CASE DispatchFail(r)
    <2>1. A = <<>> /\ runStatus[r] \in {"queued", "waiting", "cancelled"}
      BY <1>6 DEF DispatchFail, IndInv, AdmissionFresh
    <2>2. WorkersOK'
      BY <1>6 DEF DispatchFail, IndInv, WorkersOK
    <2>3. CASE UNCHANGED <<runStatus, control>>
      <3>1. UNCHANGED storeVars /\ control' \in [Runs -> [ControlOps -> Control]]
        BY <1>6, <2>3 DEF DispatchFail, storeVars, IndInv, ProcOK
      <3> QED
        BY <1>6, <2>2, <3>1, QuietKeeps DEF DispatchFail
    <2>4. CASE RunEvent(r, "failed")
      <3>1. RunOK("failed", V, A)
        <4>1. Over(A) /\ Len(V) = 0 /\ \A i \in 1 .. Len(A) : A[i].status # "reconcile_required"
          BY <1>1, <2>1 DEF RunOK, Shape, Over
        <4> HIDE DEF A, V
        <4> QED
          BY <1>1, <4>1 DEF RunOK, RunStates, ClosedWhenDone, Agrees
      <3>2. Kept(A, A)
        BY <1>1 DEF Kept
      <3>3. /\ runStatus' = [runStatus EXCEPT ![r] = "failed"]
            /\ visits' = [visits EXCEPT ![r] = V]
            /\ attempts' = [attempts EXCEPT ![r] = A]
        BY <1>6, <2>4 DEF DispatchFail, RunEvent, IndInv, StoreOK
      <3>4. StoreOK' /\ AllKept
        BY <3>1, <3>2, <3>3, StoreMoves DEF IndInv
      <3>5. AdmissionFresh' /\ admission' \in Admission
        BY <1>6 DEF DispatchFail, AdmissionFresh, NoAdmission, Admission
      <3>6. control' \in [Runs -> [ControlOps -> Control]]
        BY <2>4, RunEventTyped DEF IndInv
      <3> QED
        BY <1>6, <2>2, <3>4, <3>5, <3>6, Together DEF DispatchFail, procVars
    <2> QED
      BY <1>6, <2>3, <2>4 DEF DispatchFail
  <1>7. ASSUME NEW i \in AttemptIdx, DispatchActive(r, i)
        PROVE  IndInv' /\ AllKept
    <2>1. WorkersOK'
      BY <1>7, LaunchWorkers DEF DispatchActive
    <2>2. control' \in [Runs -> [ControlOps -> Control]]
      BY <1>7 DEF DispatchActive, IndInv, ProcOK
    <2> QED
      BY <1>7, <2>1, <2>2, QuietKeeps DEF DispatchActive
  <1>8. ASSUME NEW i \in AttemptIdx, NEW o \in Origins, HandlerLaunch(r, i, o)
        PROVE  IndInv' /\ AllKept
    <2>1. i \in 1 .. Len(attempts[r])
      BY <1>8 DEF HandlerLaunch, IndInv, IndicesKnown
    <2>2. /\ launching' \subseteq Runs \X AttemptIdx \X Origins
          /\ \A q \in Runs, k \in AttemptIdx, p \in Origins :
                <<q, k, p>> \in launching' => <<q, k, p>> \in launching
          /\ UNCHANGED <<phase, scheduling, todo>>
      BY <1>8 DEF HandlerLaunch, IndInv, ProcOK, procVars
    <2>3. CASE FailAttempt(r, i) /\ UNCHANGED workers
      <3>1. WorkersOK'
        BY <2>3 DEF IndInv, WorkersOK
      <3> QED
        BY <2>1, <2>2, <2>3, <3>1, FailAttemptKeeps, TogetherLaunching
    <2>4. CASE /\ UNCHANGED <<storeVars, admission, control>>
               /\ \/ workers' = SetWorker(r, i, Launched(r, i))
                  \/ UNCHANGED workers
      <3>1. WorkersOK'
        BY <2>4, LaunchWorkers
      <3>2. StoreOK' /\ AllKept
        BY <2>4, StoreUnchanged DEF IndInv
      <3>3. /\ AdmissionFresh' /\ admission' \in Admission
            /\ control' \in [Runs -> [ControlOps -> Control]]
        BY <2>4 DEF IndInv, AdmissionFresh, ProcOK, storeVars
      <3> QED
        BY <2>2, <3>1, <3>2, <3>3, TogetherLaunching
    <2> QED
      BY <1>8, <2>3, <2>4 DEF HandlerLaunch
  <1> QED
    BY <1>2, <1>3, <1>4, <1>5, <1>6, <1>7, <1>8 DEF QueueStep

-----------------------------------------------------------------------------
\* Controls and checkpoint decisions

\* quiesceRun and Close mark workers and change nothing else of them.
LEMMA QuiesceKeeps ==
    ASSUME IndInv, NEW rs, NEW op \in ControlOps \cup {"stop"}, Quiesce(rs, op)
    PROVE  WorkersOK'
  <1>1. ASSUME NEW q \in Runs, NEW k \in AttemptIdx
        PROVE  /\ workers'[q][k] \in Worker
               /\ workers'[q][k].stage = workers[q][k].stage
               /\ workers'[q][k].result = workers[q][k].result
    <2> DEFINE m == [workers[q][k] EXCEPT !.by = @ \cup {op}]
    <2>1. workers[q][k] \in Worker
      BY DEF IndInv, WorkersOK
    <2>2. m \in Worker /\ m.stage = workers[q][k].stage /\ m.result = workers[q][k].result
      BY <2>1 DEF Worker
    <2>3. workers'[q][k] = m \/ workers'[q][k] = workers[q][k]
      BY DEF Quiesce
    <2> HIDE DEF m
    <2> QED
      BY <2>1, <2>2, <2>3
  <1>2. workers' \in [Runs -> [AttemptIdx -> Worker]]
    <2>1. workers' = [q \in Runs |-> [k \in AttemptIdx |-> workers'[q][k]]]
      BY DEF Quiesce
    <2> QED
      BY <1>1, <2>1
  <1> QED
    BY <1>1, <1>2 DEF WorkersOK, IndInv

\* The calls' records keep their type.
LEMMA ControlTyped ==
    ASSUME ProcOK, NEW r \in Runs, NEW op \in ControlOps
    PROVE  /\ Ended(r, op) \in [Runs -> [ControlOps -> Control]]
           /\ \A e \in [AttemptIdx -> Observations] :
                 Begin(r, op, e) => control' \in [Runs -> [ControlOps -> Control]]
           /\ \A s : CommitControl(r, op, s) => control' \in [Runs -> [ControlOps -> Control]]
           /\ NoControl \in Control
  <1>1. control \in [Runs -> [ControlOps -> Control]]
    BY DEF ProcOK
  <1>2. NoControl \in Control
    BY DEF NoControl, Control, Observations
  <1>3. Ended(r, op) \in [Runs -> [ControlOps -> Control]]
    BY <1>1, <1>2 DEF Ended
  <1>4. ASSUME NEW e \in [AttemptIdx -> Observations], Begin(r, op, e)
        PROVE  control' \in [Runs -> [ControlOps -> Control]]
    <2>1. [active |-> TRUE, stale |-> FALSE, evidence |-> e] \in Control
      BY DEF Control
    <2> QED
      BY <1>1, <1>4, <2>1 DEF Begin
  <1>5. ASSUME NEW s, CommitControl(r, op, s)
        PROVE  control' \in [Runs -> [ControlOps -> Control]]
    <2> DEFINE c == [o \in ControlOps |-> IF o = op THEN NoControl
                                           ELSE [control[r][o] EXCEPT !.stale = control[r][o].active]]
    <2>1. ASSUME NEW o \in ControlOps
          PROVE  [control[r][o] EXCEPT !.stale = control[r][o].active] \in Control
      <3>1. control[r][o] \in Control
        BY <1>1
      <3> QED
        BY <3>1 DEF Control
    <2>2. c \in [ControlOps -> Control]
      BY <1>2, <2>1
    <2>3. control' = [control EXCEPT ![r] = c]
      BY <1>5 DEF CommitControl
    <2> HIDE DEF c
    <2> QED
      BY <1>1, <2>2, <2>3
  <1> QED
    BY <1>2, <1>3, <1>4, <1>5

\* Cancel's batch, on the answers of providers that were asked before it, keeps
\* the invariant.
LEMMA CancelCommitKeeps ==
    ASSUME IndInv, NEW r \in Runs, CancelCommit(r)
    PROVE  IndInv' /\ AllKept
  <1> DEFINE A == attempts[r]
             V == visits[r]
             observed == control[r]["cancel"].evidence
             B == [i \in 1 .. Len(A) |-> CancelledAttempt(A[i], observed[i])]
             children == {A[i].visit : i \in {j \in 1 .. Len(A) : /\ B[j].status = "cancelled"
                                                                  /\ A[j].status # "cancelled"}}
             W == [v \in 1 .. Len(V) |->
                     IF V[v] = "waiting_checkpoint" \/ (v \in children /\ V[v] \in VisitStates \ VisitTerminal)
                     THEN "cancelled" ELSE V[v]]
             t == IF UnconfirmedLive(r) THEN "reconcile_required" ELSE "cancelled"
  <1>1. /\ RunOK(runStatus[r], V, A) /\ A \in Seq(Attempt) /\ V \in Seq(VisitStates)
        /\ Len(A) \in Nat /\ Len(V) \in Nat /\ DOMAIN A = 1 .. Len(A) /\ DOMAIN V = 1 .. Len(V)
    BY IndexTyped
  <1>2. /\ attempts' = [attempts EXCEPT ![r] = B]
        /\ visits' = [visits EXCEPT ![r] = W]
        /\ CommitControl(r, "cancel", t) /\ Acceptable(r, "cancel")
        /\ UNCHANGED <<procVars, workers, launching>>
    BY <1>1, ChildReducers DEF CancelCommit, Attempts, IndInv, StoreOK
  <1>3. t = IF \E i \in 1 .. Len(A) : A[i].status \in LiveStates /\ observed[i] = "uncertain"
            THEN "reconcile_required" ELSE "cancelled"
    BY <1>1 DEF UnconfirmedLive, Attempts, Live, LiveStates
  <1>4. /\ \A i \in 1 .. Len(A) : A[i].status = "reconcile_required" => observed[i] = "confirmed"
        /\ RunTakes(r, t)
    BY <1>1, <1>2 DEF Acceptable, Attempts
  <1>5. t \in {"reconcile_required", "cancelled"} /\ runStatus[r] \notin {"completed", "cancelled"}
    BY <1>4, RunReducer DEF RunTakes, RunTerminal
  <1>6. RunOK(t, W, B) /\ Kept(A, B)
    <2>1. CancelsTo(V, A, observed, children, t, W, B)
      BY <1>3, <1>4 DEF CancelsTo
    <2> HIDE DEF A, V, t, observed, children, B, W
    <2> QED
      BY <1>1, <1>5, <2>1, Cancels
  <1>7. A # <<>> \/ (B = A /\ t = "cancelled")
    <2> SUFFICES ASSUME A = <<>> PROVE B = A /\ t = "cancelled"
      OBVIOUS
    <2>1. Len(A) = 0 /\ 1 .. Len(A) = {}
      OBVIOUS
    <2>2. t = "cancelled"
      BY <1>3, <2>1
    <2>3. B = <<>>
      BY <2>1
    <2> QED
      BY <2>2, <2>3
  <1>8. /\ runStatus' = [runStatus EXCEPT ![r] = t]
        /\ admission' = Stale(r)
        /\ control' \in [Runs -> [ControlOps -> Control]]
    BY <1>2, ControlTyped DEF CommitControl, IndInv, ControlOps
  <1>9. /\ admission' \in {admission, [admission EXCEPT !.stale = TRUE], NoAdmission}
        /\ admission' \in Admission
    BY <1>8, StaleTyped DEF IndInv
  <1> HIDE DEF B, W, t
  <1>10. StoreOK' /\ AllKept /\ AdmissionFresh'
    BY <1>2, <1>6, <1>7, <1>8, <1>9, OneRunMoves
  <1>11. WorkersOK'
    BY <1>2 DEF IndInv, WorkersOK
  <1> QED
    BY <1>2, <1>8, <1>9, <1>10, <1>11, Together DEF procVars

\* Retry, which creates an attempt and registers its launch, keeps the invariant.
LEMMA RetryKeeps ==
    ASSUME IndInv, NEW r \in Runs, Retry(r)
    PROVE  IndInv' /\ AllKept
  <1> DEFINE A == attempts[r]
             V == visits[r]
  <1>1. /\ RunOK(runStatus[r], V, A) /\ A \in Seq(Attempt) /\ V \in Seq(VisitStates)
        /\ Len(A) \in Nat /\ Len(V) \in Nat /\ DOMAIN A = 1 .. Len(A)
    BY IndexTyped
  <1>2. PICK i \in 1 .. Len(A) :
           /\ Retryable(r, i)
           /\ attempts' = [attempts EXCEPT ![r] = Append(@, NewAttempt(A[i].node, A[i].visit))]
           /\ visits' = RetriedVisit(r, i)
    BY <1>1 DEF Retry, Attempts
  <1> DEFINE B == Append(A, NewAttempt(A[i].node, A[i].visit))
             W == [V EXCEPT ![A[i].visit] = "running"]
  <1>3. runStatus[r] = "failed" /\ V[A[i].visit] \in {"running", "failed"}
    BY <1>2, RunReducer, ChildReducers DEF Retryable, RunTakes, VisitTakes, VisitOf
  <1>4. RunOK("queued", W, B) /\ Kept(A, B)
    <2>1. Len(A) - Len(V) < MaxRetries /\ RunOK("failed", V, A)
      BY <1>1, <1>3 DEF Retry
    <2> HIDE DEF A, V
    <2> QED
      BY <1>1, <1>3, <2>1, Retries
  <1>5. /\ runStatus' = [runStatus EXCEPT ![r] = "queued"]
        /\ visits' = [visits EXCEPT ![r] = W]
        /\ attempts' = [attempts EXCEPT ![r] = B]
        /\ admission' = Stale(r)
        /\ launching' = launching \cup {<<r, Len(A) + 1, "control">>}
        /\ UNCHANGED <<procVars, workers>>
    BY <1>2 DEF Retry, RunEvent, RetriedVisit, SetVisit, IndInv, StoreOK
  <1>6. control' \in [Runs -> [ControlOps -> Control]]
    BY RunEventTyped DEF Retry, IndInv
  <1>7. /\ admission' \in {admission, [admission EXCEPT !.stale = TRUE], NoAdmission}
        /\ admission' \in Admission
    BY <1>5, StaleTyped DEF IndInv
  <1>8. A # <<>>
    BY <1>1
  <1>9. Len(B) = Len(A) + 1 /\ Len(B) <= MaxAttempts
    <2>1. Len(B) = Len(A) + 1
      BY <1>1
    <2> HIDE DEF B, W
    <2> QED
      BY <1>4, <2>1, RunExecutionAssumption DEF RunOK, Shape, MaxAttempts
  <1>10. attempts'[r] = B
    BY <1>5 DEF IndInv, StoreOK
  <1> HIDE DEF B, W
  <1>11. StoreOK' /\ AllKept /\ AdmissionFresh'
    BY <1>4, <1>5, <1>7, <1>8, OneRunMoves
  <1>12. WorkersOK'
    BY <1>5 DEF IndInv, WorkersOK
  <1>13. Len(A) + 1 \in AttemptIdx /\ Len(A) + 1 \in 1 .. Len(attempts'[r])
    BY <1>1, <1>9, <1>10, RunExecutionAssumption DEF AttemptIdx, MaxAttempts
  <1>14. launching' \subseteq Runs \X AttemptIdx \X Origins
    BY <1>5, <1>13 DEF IndInv, ProcOK, Origins
  <1>15. \A q \in Runs, k \in AttemptIdx, o \in Origins :
            <<q, k, o>> \in launching' => <<q, k, o>> \in launching \/ k \in 1 .. Len(attempts'[q])
    BY <1>5, <1>13
  <1> QED
    BY <1>5, <1>6, <1>7, <1>11, <1>12, <1>14, <1>15, TogetherLaunching DEF procVars

\* Every step of an operator's call.
LEMMA ControlKeeps ==
    ASSUME IndInv, NEW r \in Runs, ControlStep(r)
    PROVE  IndInv' /\ AllKept
  <1>1. CASE PauseBegin(r)
    <2>1. WorkersOK'
      BY <1>1, QuiesceKeeps DEF PauseBegin, ControlOps
    <2>2. NoControl.evidence \in [AttemptIdx -> Observations]
      BY DEF NoControl, Observations
    <2>3. control' \in [Runs -> [ControlOps -> Control]]
      BY <1>1, <2>2, ControlTyped DEF PauseBegin, IndInv, ControlOps
    <2> QED
      BY <1>1, <2>1, <2>3, QuietKeeps DEF PauseBegin
  <1>2. CASE PauseCommit(r)
    <2>1. runStatus[r] # "reconcile_required"
      BY <1>2, RunReducer DEF PauseCommit, Acceptable, RunTakes, Executable
    <2>2. control' \in [Runs -> [ControlOps -> Control]]
      BY <1>2, ControlTyped DEF PauseCommit, IndInv, ControlOps
    <2>3. /\ runStatus' = [runStatus EXCEPT ![r] = "waiting"]
          /\ admission' = Stale(r)
          /\ UNCHANGED <<procVars, visits, attempts, workers>>
          /\ launching' = launching \cup {<<r, i, "control">> : i \in {}}
      BY <1>2 DEF PauseCommit, CommitControl
    <2> QED
      BY <2>1, <2>2, <2>3, StatusKeeps
  <1>3. CASE CancelBegin(r)
    <2>1. WorkersOK'
      BY <1>3, QuiesceKeeps DEF CancelBegin, ControlOps
    <2>2. control' \in [Runs -> [ControlOps -> Control]]
      BY <1>3, ControlTyped DEF CancelBegin, IndInv, ControlOps
    <2> QED
      BY <1>3, <2>1, <2>2, QuietKeeps DEF CancelBegin
  <1>4. ASSUME NEW op \in ControlOps, ControlRefused(r, op) \/ ControlAbandoned(r, op)
        PROVE  IndInv' /\ AllKept
    <2>1. /\ control' \in [Runs -> [ControlOps -> Control]]
          /\ UNCHANGED <<procVars, storeVars, workers, launching, admission>>
      BY <1>4, ControlTyped DEF ControlRefused, ControlAbandoned, IndInv
    <2>2. WorkersOK'
      BY <2>1 DEF IndInv, WorkersOK
    <2> QED
      BY <2>1, <2>2, QuietKeeps
  <1>5. CASE Resume(r)
    <2> DEFINE live == {i \in Attempts(r) : Live(r, i)}
               I == {j \in live : \A k \in live : k <= j}
    <2>1. I \subseteq 1 .. Len(attempts[r])
      BY IndexTyped DEF Attempts
    <2>2. control' \in [Runs -> [ControlOps -> Control]]
      BY <1>5, RunEventTyped DEF Resume, IndInv
    <2>3. /\ runStatus[r] = "waiting" /\ runStatus' = [runStatus EXCEPT ![r] = "queued"]
          /\ admission' = Stale(r)
          /\ UNCHANGED <<procVars, visits, attempts, workers>>
          /\ launching' = launching \cup {<<r, i, "control">> : i \in I}
      BY <1>5 DEF Resume, RunEvent
    <2> HIDE DEF I
    <2> QED
      BY <2>1, <2>2, <2>3, StatusKeeps
  <1>6. CASE Continue(r)
    <2>1. runStatus[r] = "completed" /\ runStatus' = [runStatus EXCEPT ![r] = "queued"]
      BY <1>6, RunReducer DEF Continue, RunTakes, RunEvent
    <2>2. control' \in [Runs -> [ControlOps -> Control]]
      BY <1>6, RunEventTyped DEF Continue, IndInv
    <2>3. /\ admission' = Stale(r)
          /\ UNCHANGED <<procVars, visits, attempts, workers>>
          /\ launching' = launching \cup {<<r, i, "control">> : i \in {}}
      BY <1>6 DEF Continue
    <2> QED
      BY <2>1, <2>2, <2>3, StatusKeeps
  <1>7. CASE Guide(r)
    <2>1. runStatus[r] = "running"
      BY <1>7, RunReducer DEF Guide, GuideInterferes, RunTakes
    <2>2. control' \in [Runs -> [ControlOps -> Control]]
      BY <1>7, RunEventTyped DEF Guide, IndInv
    <2>3. UNCHANGED storeVars
      BY <1>7, <2>1 DEF Guide, RunEvent, storeVars, IndInv, StoreOK
    <2>4. WorkersOK'
      BY <1>7 DEF Guide, IndInv, WorkersOK
    <2> QED
      BY <1>7, <2>2, <2>3, <2>4, QuietKeeps DEF Guide
  <1> QED
    BY <1>1, <1>2, <1>3, <1>4, <1>5, <1>6, <1>7, CancelCommitKeeps, RetryKeeps DEF ControlStep

\* ApplyWorkflowCheckpointDecision, rejection and approval, keeps the invariant.
LEMMA DecisionKeeps ==
    ASSUME IndInv, NEW r \in Runs, NEW i \in AttemptIdx, Reject(r, i) \/ Approve(r, i)
    PROVE  IndInv' /\ AllKept
  <1> DEFINE A == attempts[r]
             V == visits[r]
  <1>1. /\ RunOK(runStatus[r], V, A) /\ A \in Seq(Attempt) /\ V \in Seq(VisitStates)
        /\ Len(A) \in Nat /\ Len(V) \in Nat /\ DOMAIN A = 1 .. Len(A) /\ 1 .. Len(A) \subseteq AttemptIdx
    BY IndexTyped
  <1>2. /\ runStatus[r] = "waiting" /\ i \in 1 .. Len(A) /\ A[i].status = "succeeded"
        /\ V[A[i].visit] = "waiting_checkpoint"
    BY <1>1, ChildReducers DEF Reject, Approve, Waiting, Attempts, VisitTakes, VisitOf
  <1>3. A # <<>> /\ A[i].visit \in 1 .. Len(V)
    BY <1>1, <1>2 DEF RunOK, Shape
  <1>4. \A w : SetVisit(r, i, w) = [visits EXCEPT ![r] = [V EXCEPT ![A[i].visit] = w]]
    BY DEF SetVisit, IndInv, StoreOK
  <1>5. admission' = Stale(r) /\ UNCHANGED <<procVars, workers>>
    BY DEF Reject, Approve
  <1>6. /\ admission' \in {admission, [admission EXCEPT !.stale = TRUE], NoAdmission}
        /\ admission' \in Admission
    BY <1>5, StaleTyped DEF IndInv
  <1>7. WorkersOK'
    BY <1>5 DEF IndInv, WorkersOK
  <1>8. control' \in [Runs -> [ControlOps -> Control]]
    BY RunEventTyped DEF Reject, Approve, IndInv
  <1>9. ASSUME NEW w, NEW t, DecidesAs(w, t, A[i].node),
               RunEvent(r, t), visits' = SetVisit(r, i, w), UNCHANGED <<attempts, launching>>
        PROVE  IndInv' /\ AllKept
    <2> DEFINE W == [V EXCEPT ![A[i].visit] = w]
    <2>1. RunOK(t, W, A)
      <3>1. RunOK("waiting", V, A)
        BY <1>1, <1>2
      <3> HIDE DEF A, V
      <3> QED
        BY <3>1, <1>2, <1>9, VisitDecided
    <2>2. Kept(A, A)
      BY <1>1 DEF Kept
    <2>3. /\ runStatus' = [runStatus EXCEPT ![r] = t]
          /\ visits' = [visits EXCEPT ![r] = W]
          /\ attempts' = [attempts EXCEPT ![r] = A]
      BY <1>4, <1>9 DEF RunEvent, IndInv, StoreOK
    <2> HIDE DEF W
    <2>4. StoreOK' /\ AllKept /\ AdmissionFresh'
      BY <1>3, <1>6, <2>1, <2>2, <2>3, OneRunMoves
    <2> QED
      BY <1>5, <1>6, <1>7, <1>8, <1>9, <2>4, Together DEF procVars
  <1>10. ASSUME NEW n \in Nodes, Len(V) < MaxVisits,
                visits' = [SetVisit(r, i, "succeeded") EXCEPT ![r] = Append(@, "pending")],
                attempts' = [attempts EXCEPT ![r] = Append(@, NewAttempt(n, Len(V) + 1))],
                launching' = launching \cup {<<r, Len(A) + 1, "decision">>},
                RunEvent(r, "running")
         PROVE  IndInv' /\ AllKept
    <2> DEFINE W == [V EXCEPT ![A[i].visit] = "succeeded"]
               B == Append(A, NewAttempt(n, Len(V) + 1))
               X == Append(W, "pending")
    <2>1. RunOK("running", W, A) /\ Over(A) /\ i = Len(A) /\ A[i].visit = Len(V)
      <3>1. RunOK("waiting", V, A) /\ DecidesAs("succeeded", "running", A[i].node)
        BY <1>1, <1>2 DEF DecidesAs
      <3> HIDE DEF A, V
      <3> QED
        BY <3>1, <1>2, VisitDecided
    <2>2. Len(W) = Len(V) /\ W[Len(W)] = "succeeded"
      BY <1>1, <1>3, <2>1, VisitChanged DEF VisitStates
    <2>3. RunOK("running", X, B) /\ Kept(A, B)
      <3>1. Len(W) < MaxVisits /\ Len(W) > 0 /\ A[i].visit = Len(W)
        BY <1>1, <1>3, <1>10, <2>1, <2>2
      <3> HIDE DEF A, V, W
      <3>2. RunOK("running", Append(W, "pending"), Append(A, NewAttempt(n, Len(W) + 1)))
            /\ Kept(A, Append(A, NewAttempt(n, Len(W) + 1)))
        BY <1>2, <2>1, <2>2, <3>1, Advances
      <3> QED
        BY <2>2, <3>2
    <2>4. /\ runStatus' = [runStatus EXCEPT ![r] = "running"]
          /\ visits' = [visits EXCEPT ![r] = X]
          /\ attempts' = [attempts EXCEPT ![r] = B]
          /\ attempts'[r] = B
      <3>1. visits' = [[visits EXCEPT ![r] = W] EXCEPT ![r] = Append(@, "pending")]
        BY <1>4, <1>10
      <3>2. attempts' = [attempts EXCEPT ![r] = B]
        BY <1>10
      <3>3. runStatus' = [runStatus EXCEPT ![r] = "running"]
        BY <1>10 DEF RunEvent
      <3> HIDE DEF W, B
      <3> QED
        BY <3>1, <3>2, <3>3 DEF IndInv, StoreOK
    <2>5. Len(B) = Len(A) + 1 /\ Len(B) <= MaxAttempts
      <3>1. Len(B) = Len(A) + 1
        BY <1>1
      <3> HIDE DEF B, X
      <3> QED
        BY <2>3, <3>1, RunExecutionAssumption DEF RunOK, Shape, MaxAttempts
    <2> HIDE DEF B, X
    <2>6. StoreOK' /\ AllKept /\ AdmissionFresh'
      BY <1>3, <1>6, <2>3, <2>4, OneRunMoves
    <2>7. Len(A) + 1 \in AttemptIdx /\ Len(A) + 1 \in 1 .. Len(attempts'[r])
      BY <1>1, <2>4, <2>5, RunExecutionAssumption DEF AttemptIdx, MaxAttempts
    <2>8. launching' \subseteq Runs \X AttemptIdx \X Origins
      BY <1>10, <2>7 DEF IndInv, ProcOK, Origins
    <2>9. \A q \in Runs, k \in AttemptIdx, o \in Origins :
             <<q, k, o>> \in launching' => <<q, k, o>> \in launching \/ k \in 1 .. Len(attempts'[q])
      BY <1>10, <2>7
    <2> QED
      BY <1>5, <1>6, <1>7, <1>8, <2>6, <2>8, <2>9, TogetherLaunching DEF procVars
  <1>11. /\ DecidesAs("rejected", "cancelled", A[i].node)
         /\ A[i].node \in Terminals => DecidesAs("succeeded", "completed", A[i].node)
    BY DEF DecidesAs
  <1>12. Successors[A[i].node] \subseteq Nodes
    <2>1. A[i] \in Attempt
      BY <1>1, <1>2
    <2> QED
      BY <2>1, RunExecutionAssumption DEF Attempt
  <1>13. CASE Reject(r, i)
    BY <1>9, <1>11, <1>13 DEF Reject
  <1>14. CASE Approve(r, i)
    BY <1>9, <1>10, <1>11, <1>12, <1>14 DEF Approve
  <1> QED
    BY <1>13, <1>14

-----------------------------------------------------------------------------
\* The process

\* NoProcess leaves the projections and forgets the rest.
LEMMA NoProcessKeeps ==
    ASSUME IndInv, NoProcess, UNCHANGED storeVars, todo' \subseteq todo,
           phase' = "down", scheduling' \in BOOLEAN
    PROVE  IndInv' /\ AllKept
  <1>1. StoreOK' /\ AllKept
    BY StoreUnchanged DEF IndInv
  <1>2. WorkersOK'
    <2>1. NoWorker \in Worker /\ NoWorker.stage # "completing"
      BY WorkerValues
    <2> QED
      BY <2>1 DEF NoProcess, WorkersOK
  <1>3. AdmissionFresh' /\ admission' \in Admission
    BY DEF NoProcess, AdmissionFresh, NoAdmission, Admission
  <1>4. NoControl \in Control
    BY DEF NoControl, Control, Observations
  <1>5. control' \in [Runs -> [ControlOps -> Control]] /\ launching' = {}
    BY <1>4 DEF NoProcess
  <1>6. IndicesKnown'
    BY <1>1, <1>5, IndicesKept DEF IndInv
  <1> QED
    BY <1>1, <1>2, <1>3, <1>5, <1>6 DEF IndInv, ProcOK

\* ResumeActive: what a restart makes of an attempt it finds live.
LEMMA ResumeActiveKeeps ==
    ASSUME IndInv, NEW r \in Runs, NEW i \in AttemptIdx, ResumeActive(r, i)
    PROVE  IndInv' /\ AllKept
  <1> DEFINE A == attempts[r]
             V == visits[r]
             B == [A EXCEPT ![i].status = "reconcile_required"]
  <1>1. i \in 1 .. Len(A) /\ RunOK(runStatus[r], V, A) /\ A \in Seq(Attempt)
    BY IndexTyped DEF ResumeActive, IndInv, IndicesKnown
  <1>2. /\ todo' \subseteq todo /\ launching' = launching
        /\ UNCHANGED <<phase, scheduling, visits, admission>>
    BY DEF ResumeActive
  <1>3. /\ StoreOK' /\ AllKept /\ AdmissionFresh' /\ WorkersOK'
        /\ control' \in [Runs -> [ControlOps -> Control]]
    <2>1. CASE /\ runStatus[r] \in Executable
               /\ attempts[r][i].status = "created"
               /\ attempts' = SetAttempt(r, i, "reconcile_required")
               /\ RunEvent(r, "reconcile_required")
               /\ UNCHANGED workers
      <3>1. A[i].status \in LiveStates
        BY <2>1 DEF LiveStates
      <3>2. Changed(A, B, i, "reconcile_required")
        BY <1>1, StatusChanged DEF AttemptStates
      <3>3. RunOK("reconcile_required", V, B) /\ Kept(A, B)
        <4> HIDE DEF A, B, V
        <4> QED
          BY <1>1, <2>1, <3>1, <3>2, StartUncertain
      <3>4. /\ runStatus' = [runStatus EXCEPT ![r] = "reconcile_required"]
            /\ visits' = [visits EXCEPT ![r] = V]
            /\ attempts' = [attempts EXCEPT ![r] = B]
        BY <1>2, <2>1 DEF RunEvent, SetAttempt, IndInv, StoreOK
      <3>5. A # <<>>
        BY <1>1
      <3>6. WorkersOK' /\ control' \in [Runs -> [ControlOps -> Control]]
        BY <2>1, RunEventTyped DEF IndInv, WorkersOK
      <3> HIDE DEF B
      <3> QED
        BY <1>2, <3>3, <3>4, <3>5, <3>6, OneRunMoves
    <2>2. CASE /\ UNCHANGED <<attempts, runStatus, control>>
               /\ \/ workers' = SetWorker(r, i, Launched(r, i))
                  \/ UNCHANGED workers
      <3>1. UNCHANGED storeVars
        BY <1>2, <2>2 DEF storeVars
      <3>2. StoreOK' /\ AllKept
        BY <3>1, StoreUnchanged DEF IndInv
      <3>3. WorkersOK'
        BY <2>2, LaunchWorkers
      <3> QED
        BY <1>2, <2>2, <3>2, <3>3 DEF IndInv, ProcOK, AdmissionFresh
    <2> QED
      BY <2>1, <2>2 DEF ResumeActive
  <1>4. IndicesKnown'
    BY <1>2, <1>3, IndicesKept DEF IndInv
  <1> QED
    BY <1>2, <1>3, <1>4 DEF IndInv, ProcOK

\* Start, ResumeActive, crash and Close.
LEMMA ProcessKeeps ==
    ASSUME IndInv, ProcessStep
    PROVE  IndInv' /\ AllKept
  <1>1. CASE Start
    <2>1. StoreOK' /\ AllKept
      BY <1>1, StoreUnchanged DEF Start, IndInv
    <2>2. phase' \in {"down", "resuming", "serving", "stopping"} /\ scheduling' \in BOOLEAN
      BY <1>1 DEF Start
    <2>3. /\ todo' \subseteq Runs \X AttemptIdx
          /\ \A q \in Runs, k \in AttemptIdx : <<q, k>> \in todo' => k \in Attempts(q)
      BY <1>1 DEF Start
    <2>4. \A q \in Runs, k \in AttemptIdx : <<q, k>> \in todo' => k \in 1 .. Len(attempts[q])
      BY <2>3, IndexTyped DEF Attempts
    <2>5. WorkersOK' /\ AdmissionFresh' /\ UNCHANGED <<launching, admission, control, attempts>>
      BY <1>1 DEF Start, IndInv, WorkersOK, AdmissionFresh, storeVars
    <2>6. IndicesKnown'
      BY <2>4, <2>5 DEF IndInv, IndicesKnown
    <2> QED
      BY <2>1, <2>2, <2>3, <2>5, <2>6 DEF IndInv, ProcOK
  <1>2. CASE Serve
    <2>1. StoreOK' /\ AllKept
      BY <1>2, StoreUnchanged DEF Serve, IndInv
    <2> QED
      BY <1>2, <2>1 DEF Serve, IndInv, ProcOK, WorkersOK, IndicesKnown, AdmissionFresh, storeVars
  <1>3. CASE Crash
    BY <1>3, NoProcessKeeps DEF Crash
  <1>4. CASE Stop
    <2>1. StoreOK' /\ AllKept
      BY <1>4, StoreUnchanged DEF Stop, IndInv
    <2>2. WorkersOK'
      BY <1>4, QuiesceKeeps DEF Stop
    <2>3. AdmissionFresh' /\ admission' \in Admission
      BY <1>4 DEF Stop, AdmissionFresh, NoAdmission, Admission
    <2> QED
      BY <1>4, <2>1, <2>2, <2>3 DEF Stop, IndInv, ProcOK, IndicesKnown, storeVars
  <1>5. CASE Stopped
    BY <1>5, NoProcessKeeps DEF Stopped
  <1> QED
    BY <1>1, <1>2, <1>3, <1>4, <1>5, ResumeActiveKeeps DEF ProcessStep

-----------------------------------------------------------------------------
\* The theorems

\* A service that has never run satisfies the invariant.
LEMMA InitKeeps == Init => IndInv
  <1> SUFFICES ASSUME Init PROVE IndInv
    OBVIOUS
  <1>1. RunOK("ready", <<>>, <<>>)
    BY RunExecutionAssumption
    DEF RunOK, RunStates, Shape, OnlyLastOpen, LiveIsLast, SuccessIsLast, Earned, ClosedWhenDone, Agrees, Over
  <1>2. StoreOK
    BY <1>1 DEF Init, StoreOK, RunStates
  <1>3. NoControl \in Control /\ NoAdmission \in Admission
    BY DEF NoControl, Control, Observations, NoAdmission, Admission
  <1>4. ProcOK
    BY <1>3 DEF Init, ProcOK
  <1>5. NoWorker \in Worker /\ NoWorker.stage # "completing"
    BY WorkerValues
  <1>6. WorkersOK
    BY <1>5 DEF Init, WorkersOK
  <1>7. IndicesKnown /\ AdmissionFresh
    BY DEF Init, IndicesKnown, AdmissionFresh, NoAdmission
  <1> QED
    BY <1>2, <1>4, <1>6, <1>7 DEF IndInv

\* Every step of the service.
LEMMA NextKeeps == IndInv /\ [Next]_vars => IndInv' /\ AllKept
  <1> SUFFICES ASSUME IndInv, [Next]_vars PROVE IndInv' /\ AllKept
    OBVIOUS
  <1>1. CASE UNCHANGED vars
    <2>1. UNCHANGED <<procVars, launching>> /\ UNCHANGED storeVars /\ UNCHANGED <<admission, workers, control>>
      BY <1>1 DEF vars, procVars, storeVars
    <2>2. WorkersOK' /\ control' \in [Runs -> [ControlOps -> Control]]
      BY <2>1 DEF IndInv, WorkersOK, ProcOK
    <2> QED
      BY <2>1, <2>2, QuietKeeps
  <1>2. CASE Next
    BY <1>2, ProcessKeeps, QueueKeeps, ControlKeeps, DecisionKeeps, WorkerKeeps DEF Next, DecisionStep
  <1> QED
    BY <1>1, <1>2

\* The inductive invariant holds of every behaviour of the service.
THEOREM Inductive == Spec => []IndInv
  <1>1. Init => IndInv
    BY InitKeeps
  <1>2. IndInv /\ [Next]_vars => IndInv'
    BY NextKeeps
  <1> QED
    BY <1>1, <1>2, PTL DEF Spec

\* Every variable of the run service keeps its type: in particular no handler
\* indexes visits, attempts or workers outside the bounds of the route.
THEOREM TypeCorrect == Spec => []TypeOK
  <1>1. IndInv => TypeOK
    BY DEF IndInv, ProcOK, StoreOK, WorkersOK, TypeOK
  <1> QED
    BY <1>1, Inductive, PTL

\* Queue loop, ResumeActive, Retry, checkpoint approval and a finishing worker never
\* give a run two attempts that execute, whatever the number of runs, the route
\* and the limit.
THEOREM OneLive == Spec => []OneLiveAttempt
  <1>1. IndInv => OneLiveAttempt
    <2> SUFFICES ASSUME IndInv, NEW r \in Runs, NEW i \in Attempts(r), NEW j \in Attempts(r),
                        Live(r, i), Live(r, j)
                 PROVE  i = j
      BY DEF OneLiveAttempt
    <2>1. i \in 1 .. Len(attempts[r]) /\ j \in 1 .. Len(attempts[r])
          /\ RunOK(runStatus[r], visits[r], attempts[r])
      BY IndexTyped DEF Attempts
    <2> QED
      BY <2>1 DEF RunOK, LiveIsLast, Live, LiveStates
  <1> QED
    BY <1>1, Inductive, PTL

\* No handler closes a visit and leaves behind the attempt that works for it:
\* failures, completions, decisions and cancellations close both in one batch.
THEOREM LiveHasOpenVisit == Spec => []LiveAttemptHasOpenVisit
  <1>1. IndInv => LiveAttemptHasOpenVisit
    <2> SUFFICES ASSUME IndInv, NEW r \in Runs, NEW i \in Attempts(r), Live(r, i)
                 PROVE  VisitOf(r, i) \in {"pending", "running"}
      BY DEF LiveAttemptHasOpenVisit
    <2>1. i \in 1 .. Len(attempts[r]) /\ RunOK(runStatus[r], visits[r], attempts[r])
      BY IndexTyped DEF Attempts
    <2> QED
      BY <2>1 DEF RunOK, LiveIsLast, Live, LiveStates, VisitOf, OpenVisit
  <1> QED
    BY <1>1, Inductive, PTL

\* Every visit but the newest is owed to a success of its own.
LEMMA Successes ==
    ASSUME NEW V, NEW A, Shape(V, A), Earned(V, A)
    PROVE  Len(V) <= 1 + Cardinality({i \in 1 .. Len(A) : A[i].status = "succeeded"})
  <1> DEFINE S == {i \in 1 .. Len(A) : A[i].status = "succeeded" /\ A[i].visit < Len(V)}
             T == {i \in 1 .. Len(A) : A[i].status = "succeeded"}
             U == 1 .. Len(V) - 1
             f == [i \in S |-> A[i].visit]
  <1>1. Len(V) \in Nat /\ Len(A) \in Nat /\ \A i \in 1 .. Len(A) : A[i].visit \in 1 .. Len(V)
    BY DEF Shape
  <1>2. IsFiniteSet(1 .. Len(A))
    BY <1>1, FS_Interval
  <1>3. IsFiniteSet(T) /\ IsFiniteSet(S) /\ Cardinality(S) <= Cardinality(T)
    <2>1. T \subseteq 1 .. Len(A) /\ S \subseteq T
      OBVIOUS
    <2>2. IsFiniteSet(T)
      BY <1>2, <2>1, FS_Subset
    <2> QED
      BY <2>1, <2>2, FS_Subset
  <1>4. f \in Surjection(S, U)
    <2>1. f \in [S -> U]
      BY <1>1
    <2>2. ASSUME NEW v \in U
          PROVE  \E i \in S : f[i] = v
      <3>1. PICK i \in 1 .. Len(A) : A[i].visit = v /\ A[i].status = "succeeded"
        BY <1>1 DEF Earned
      <3> QED
        BY <1>1, <3>1
    <2> QED
      BY <2>1, <2>2 DEF Surjection
  <1>5. Cardinality(U) <= Cardinality(S)
    <2> HIDE DEF S, U, f
    <2> QED
      BY <1>3, <1>4, FS_Surjection
  <1>6. Cardinality(U) = IF 1 > Len(V) - 1 THEN 0 ELSE Len(V) - 1
    <2> DEFINE m == Len(V) - 1
    <2>1. m \in Int /\ 1 \in Int
      BY <1>1
    <2>2. Cardinality(1 .. m) = IF 1 > m THEN 0 ELSE m - 1 + 1
      <3> HIDE DEF m
      <3> QED
        BY <2>1, FS_Interval
    <2> QED
      BY <2>1, <2>2
  <1>7. Cardinality(S) \in Nat /\ Cardinality(T) \in Nat
    BY <1>3, FS_CardinalityType
  <1> HIDE DEF S, T, U
  <1> QED
    BY <1>1, <1>3, <1>5, <1>6, <1>7 DEF T

\* A run that failed or completed has closed every attempt and visit, a completed
\* one ended at a terminal boundary, and no success was advanced from twice, by a
\* completion, an approval or a retry.
THEOREM RunsCloseWhole == Spec => []ClosedRun
  <1>1. IndInv => ClosedRun
    <2> SUFFICES ASSUME IndInv, NEW r \in Runs
                 PROVE  /\ OneSuccessor(r)
                        /\ runStatus[r] \in {"completed", "failed"} =>
                              /\ \A i \in Attempts(r) : ~Live(r, i)
                              /\ \A v \in DOMAIN visits[r] : visits[r][v] \in VisitTerminal
                        /\ runStatus[r] = "completed" =>
                              /\ \A v \in DOMAIN visits[r] : visits[r][v] = "succeeded"
                              /\ attempts[r][Len(attempts[r])].node \in Terminals
      BY DEF ClosedRun
    <2>1. /\ RunOK(runStatus[r], visits[r], attempts[r])
          /\ DOMAIN attempts[r] = 1 .. Len(attempts[r]) /\ DOMAIN visits[r] = 1 .. Len(visits[r])
      BY IndexTyped
    <2>2. OneSuccessor(r)
      BY <2>1, Successes DEF OneSuccessor, Attempts, RunOK
    <2> QED
      BY <2>1, <2>2 DEF RunOK, ClosedWhenDone, Over, Live, LiveStates, Attempts
  <1> QED
    BY <1>1, Inductive, PTL

\* A run needs reconciliation exactly while one of its attempts does: unknown
\* results, uncertain starts and unconfirmed cancellations record both at once.
THEOREM ReconcileAgree == Spec => []ReconcileAgrees
  <1>1. IndInv => ReconcileAgrees
    <2> SUFFICES ASSUME IndInv, NEW r \in Runs
                 PROVE  runStatus[r] = "reconcile_required"
                        <=> \E i \in Attempts(r) : attempts[r][i].status = "reconcile_required"
      BY DEF ReconcileAgrees
    <2>1. /\ RunOK(runStatus[r], visits[r], attempts[r])
          /\ DOMAIN attempts[r] = 1 .. Len(attempts[r])
      BY IndexTyped
    <2> QED
      BY <2>1 DEF RunOK, Agrees, Attempts
  <1> QED
    BY <1>1, Inductive, PTL

\* A late result, a retry or a cancellation never rewrites what an attempt came
\* to; only a confirmed cancellation settles one in reconcile_required.
THEOREM OutcomesFinal == Spec => OutcomeFinal
  <1>1. ASSUME IndInv, [Next]_vars, NEW r \in Runs, NEW i \in Attempts(r),
               attempts[r][i].status \in AttemptTerminal
        PROVE  \/ attempts'[r][i] = attempts[r][i]
               \/ /\ attempts[r][i].status = "reconcile_required"
                  /\ attempts'[r][i].status = "cancelled"
    <2>1. i \in 1 .. Len(attempts[r])
      BY <1>1, IndexTyped DEF Attempts
    <2>2. Kept(attempts[r], attempts'[r])
      BY <1>1, NextKeeps DEF AllKept
    <2> QED
      BY <1>1, <2>1, <2>2 DEF Kept
  <1>2. IndInv /\ [Next]_vars =>
           [\A r \in Runs : \A i \in Attempts(r) :
              attempts[r][i].status \in AttemptTerminal =>
                 \/ attempts'[r][i] = attempts[r][i]
                 \/ /\ attempts[r][i].status = "reconcile_required"
                    /\ attempts'[r][i].status = "cancelled"]_vars
    BY <1>1
  <1> QED
    BY <1>2, Inductive, PTL DEF Spec, OutcomeFinal

-----------------------------------------------------------------------------
\* The run limit

\* Of all runs only r may become active.
OnlyGrowsBy(r) == ActiveRuns' \subseteq ActiveRuns \cup {r}

\* A step keeps to the limit: no run becomes active, or one that has capacity.
Bounded ==
    \/ ActiveRuns' \subseteq ActiveRuns
    \/ \E r \in Runs : HasRunCapacity(r) /\ OnlyGrowsBy(r)

\* A step that leaves the status and the workers of every other run alone.
Local(r) == \A q \in Runs \ {r} : runStatus'[q] = runStatus[q] /\ workers'[q] = workers[q]

\* What happens to one run does not make another one active.
LEMMA LocalGrows ==
    ASSUME NEW r \in Runs, Local(r)
    PROVE  OnlyGrowsBy(r)
  BY DEF Local, OnlyGrowsBy, ActiveRuns, Alive

\* A worker's own run is counted already: whatever the worker does, the launch of
\* a successor included, takes no further slot.
LEMMA WorkerGrows ==
    ASSUME NEW r \in Runs, NEW i \in AttemptIdx, Alive(r, i), Local(r)
    PROVE  ActiveRuns' \subseteq ActiveRuns
  <1>1. r \in ActiveRuns
    BY DEF ActiveRuns
  <1> QED
    BY <1>1, LocalGrows DEF OnlyGrowsBy

\* Neither a run becomes running nor an attempt gets a worker.
LEMMA NothingGrows ==
    ASSUME \A q \in Runs : runStatus'[q] = "running" => runStatus[q] = "running",
           \A q \in Runs, k \in AttemptIdx :
              workers'[q][k].stage # "none" => workers[q][k].stage # "none"
    PROVE  ActiveRuns' \subseteq ActiveRuns
  BY DEF ActiveRuns, Alive

\* launch asks for capacity under the service mutex.
LEMMA LaunchBounded ==
    ASSUME IndInv, NEW r \in Runs, NEW i \in AttemptIdx, UNCHANGED runStatus,
           workers' = IF MayLaunch(r, i) THEN SetWorker(r, i, Launched(r, i)) ELSE workers
    PROVE  Bounded
  <1>1. CASE MayLaunch(r, i)
    <2>1. Local(r)
      BY <1>1 DEF Local, SetWorker, IndInv, WorkersOK
    <2> QED
      BY <1>1, <2>1, LocalGrows DEF Bounded, MayLaunch
  <1>2. CASE ~MayLaunch(r, i)
    BY <1>2, NothingGrows DEF Bounded
  <1> QED
    BY <1>1, <1>2

\* The batch of a failure, of a run that had a worker or not.
LEMMA FailLocal ==
    ASSUME IndInv, NEW r \in Runs, NEW i \in AttemptIdx, FailAttempt(r, i)
    PROVE  /\ \A q \in Runs \ {r} : runStatus'[q] = runStatus[q]
           /\ runStatus'[r] = "running" => runStatus[r] = "running"
  <1>1. runStatus \in [Runs -> RunStates]
    BY DEF IndInv, StoreOK
  <1> QED
    BY <1>1 DEF FailAttempt, RunEvent, NoRunEvent

\* Every step of a worker.
LEMMA WorkerBounded ==
    ASSUME IndInv, NEW r \in Runs, NEW i \in Attempts(r), WorkerStep(r, i)
    PROVE  ActiveRuns' \subseteq ActiveRuns
  <1>1. /\ i \in AttemptIdx
        /\ runStatus \in [Runs -> RunStates]
        /\ workers \in [Runs -> [AttemptIdx -> Worker]]
    BY IndexTyped DEF Attempts, IndInv, StoreOK, WorkersOK
  <1>2. Alive(r, i)
    BY DEF WorkerStep, PrepareFails, StartVisit, CallProvider, RecordStart, ReceiveResult, BuiltinReturns,
           CompleteSucceeded, CompleteOther, LaunchSuccessor, Alive
  <1> SUFFICES Local(r)
    BY <1>1, <1>2, WorkerGrows
  <1>3. CASE QuietExit(r, i)
    BY <1>1, <1>3 DEF QuietExit, Exit, SetWorker, Local, storeVars
  <1>4. CASE FailAndExit(r, i)
    BY <1>1, <1>4, FailLocal DEF FailAndExit, Exit, SetWorker, Local
  <1>5. CASE PrepareFails(r, i)
    BY <1>3, <1>4, <1>5 DEF PrepareFails
  <1>6. CASE StartVisit(r, i)
    <2>1. CASE VisitStarts(r, i) /\ workers' = [workers EXCEPT ![r][i].stage = "visited"]
      BY <1>1, <2>1 DEF VisitStarts, RunEvent, NoRunEvent, Local, storeVars
    <2> QED
      BY <1>3, <1>4, <1>6, <2>1 DEF StartVisit
  <1>7. CASE CallProvider(r, i)
    <2>1. CASE /\ \/ workers' = [workers EXCEPT ![r][i].stage = "handled"]
                  \/ workers' = [workers EXCEPT ![r][i].stage = "completing", ![r][i].result = "unknown"]
               /\ UNCHANGED storeVars
      BY <1>1, <2>1 DEF Local, storeVars
    <2> QED
      BY <1>3, <1>4, <1>7, <2>1 DEF CallProvider
  <1>8. CASE RecordStart(r, i)
    <2>1. CASE workers' = [workers EXCEPT ![r][i].stage = "streaming"] /\ UNCHANGED runStatus
      BY <1>1, <2>1 DEF Local
    <2> QED
      BY <1>3, <1>8, <2>1 DEF RecordStart
  <1>9. CASE ReceiveResult(r, i) \/ BuiltinReturns(r, i)
    <2>1. ASSUME NEW result \in Results, UNCHANGED storeVars,
                 workers' = [workers EXCEPT ![r][i].stage = "completing", ![r][i].result = result]
          PROVE  Local(r)
      BY <1>1, <2>1 DEF Local, storeVars
    <2> QED
      BY <1>3, <1>4, <1>9, <2>1 DEF ReceiveResult, BuiltinReturns, Results
  <1>10. CASE CompleteSucceeded(r, i)
    <2>1. ASSUME NEW n \in Nodes, Succeed(r, i, n)
          PROVE  Local(r)
      BY <1>1, <2>1 DEF Succeed, RunEvent, NoRunEvent, Exit, SetWorker, Local
    <2> QED
      BY <1>3, <1>4, <1>10, <2>1 DEF CompleteSucceeded
  <1>11. CASE CompleteOther(r, i)
    <2>1. ASSUME NEW s, RunEvent(r, s), workers' = Exit(r, i)
          PROVE  Local(r)
      BY <1>1, <2>1 DEF RunEvent, Exit, SetWorker, Local
    <2> QED
      BY <1>3, <1>11, <2>1 DEF CompleteOther
  <1>12. CASE LaunchSuccessor(r, i)
    <2> DEFINE next == workers[r][i].next
    <2>1. CASE workers' = [workers EXCEPT ![r][i] = NoWorker, ![r][next] = Launched(r, next)]
      <3> HIDE DEF next
      <3> QED
        BY <1>1, <1>12, <2>1 DEF Local, LaunchSuccessor, storeVars
    <2> QED
      BY <1>1, <1>12, <2>1 DEF LaunchSuccessor, Exit, SetWorker, Local, storeVars
  <1> QED
    BY <1>5, <1>6, <1>7, <1>8, <1>9, <1>10, <1>11, <1>12 DEF WorkerStep

\* Every step of the queue loop and every launch by a handler.
LEMMA QueueBounded ==
    ASSUME IndInv, NEW r \in Runs, QueueStep(r)
    PROVE  Bounded
  <1>1. runStatus \in [Runs -> RunStates] /\ 1 \in AttemptIdx
    BY RunExecutionAssumption DEF IndInv, StoreOK, AttemptIdx, MaxAttempts
  <1>2. ASSUME NEW s \in {"queued", "failed"}, RunEvent(r, s), UNCHANGED workers
        PROVE  Bounded
    BY <1>1, <1>2, NothingGrows DEF RunEvent, Bounded
  <1>3. CASE UNCHANGED <<runStatus, workers>>
    BY <1>3, NothingGrows DEF Bounded
  <1>4. CASE Launch(r) \/ DispatchPick(r) \/ DispatchAdmit(r) \/ DispatchFail(r)
    BY <1>2, <1>3, <1>4 DEF Launch, DispatchPick, DispatchAdmit, DispatchFail, storeVars
  <1>5. CASE DispatchLaunch(r)
    BY <1>1, <1>5, LaunchBounded DEF DispatchLaunch, storeVars
  <1>6. ASSUME NEW i \in AttemptIdx, DispatchActive(r, i)
        PROVE  Bounded
    BY <1>6, LaunchBounded DEF DispatchActive, storeVars
  <1>7. ASSUME NEW i \in AttemptIdx, NEW o \in Origins, HandlerLaunch(r, i, o)
        PROVE  Bounded
    <2>1. CASE FailAttempt(r, i) /\ UNCHANGED workers
      BY <2>1, FailLocal, NothingGrows DEF Bounded
    <2> QED
      BY <1>3, <1>7, <2>1, LaunchBounded DEF HandlerLaunch, storeVars
  <1> QED
    BY <1>4, <1>5, <1>6, <1>7 DEF QueueStep

\* Quiesce marks workers and gives none.
LEMMA QuiesceGrows ==
    ASSUME IndInv, NEW rs, NEW op, Quiesce(rs, op), UNCHANGED runStatus
    PROVE  Bounded
  <1>1. workers \in [Runs -> [AttemptIdx -> Worker]]
    BY DEF IndInv, WorkersOK
  <1>2. ASSUME NEW q \in Runs, NEW k \in AttemptIdx, workers'[q][k].stage # "none"
        PROVE  workers[q][k].stage # "none"
    BY <1>1, <1>2 DEF Quiesce, Alive, Worker
  <1> QED
    BY <1>2, NothingGrows DEF Bounded

\* Every control: a run that an operator brings back waits in the queue.
LEMMA ControlBounded ==
    ASSUME IndInv, NEW r \in Runs, ControlStep(r)
    PROVE  Bounded
  <1>1. runStatus \in [Runs -> RunStates]
    BY DEF IndInv, StoreOK
  <1>2. ASSUME NEW s, s # "running", runStatus' = [runStatus EXCEPT ![r] = s], UNCHANGED workers
        PROVE  Bounded
    BY <1>1, <1>2, NothingGrows DEF Bounded
  <1>3. CASE UNCHANGED <<runStatus, workers>>
    BY <1>3, NothingGrows DEF Bounded
  <1>4. CASE PauseBegin(r) \/ CancelBegin(r)
    BY <1>4, QuiesceGrows DEF PauseBegin, CancelBegin, storeVars
  <1>5. CASE PauseCommit(r) \/ CancelCommit(r)
    BY <1>2, <1>5 DEF PauseCommit, CancelCommit, CommitControl
  <1>6. CASE Resume(r) \/ Retry(r) \/ Continue(r)
    BY <1>2, <1>6 DEF Resume, Retry, Continue, RunEvent
  <1>7. ASSUME NEW op \in ControlOps, ControlRefused(r, op) \/ ControlAbandoned(r, op)
        PROVE  Bounded
    BY <1>3, <1>7 DEF ControlRefused, ControlAbandoned, storeVars
  <1>8. CASE Guide(r)
    <2>1. runStatus[r] = "running"
      BY <1>8, RunReducer DEF Guide, GuideInterferes, RunTakes
    <2> QED
      BY <1>1, <1>8, <2>1, NothingGrows DEF Guide, RunEvent, Bounded
  <1> QED
    BY <1>4, <1>5, <1>6, <1>7, <1>8 DEF ControlStep

\* Start, ResumeActive, crash and Close.
LEMMA ProcessBounded ==
    ASSUME IndInv, ProcessStep
    PROVE  Bounded
  <1>1. runStatus \in [Runs -> RunStates]
    BY DEF IndInv, StoreOK
  <1>2. CASE UNCHANGED <<runStatus, workers>>
    BY <1>2, NothingGrows DEF Bounded
  <1>3. CASE Start \/ Serve
    BY <1>2, <1>3 DEF Start, Serve, storeVars
  <1>4. ASSUME NEW r \in Runs, NEW i \in AttemptIdx, ResumeActive(r, i)
        PROVE  Bounded
    <2>1. CASE RunEvent(r, "reconcile_required") /\ UNCHANGED workers
      BY <1>1, <2>1, NothingGrows DEF RunEvent, Bounded
    <2> QED
      BY <1>2, <1>4, <2>1, LaunchBounded DEF ResumeActive
  <1>5. CASE NoProcess /\ UNCHANGED storeVars
    <2>1. \A q \in Runs, k \in AttemptIdx : workers'[q][k].stage = "none"
      BY <1>5 DEF NoProcess, NoWorker
    <2> QED
      BY <1>5, <2>1, NothingGrows DEF storeVars, Bounded
  <1>6. CASE Stop
    BY <1>6, QuiesceGrows DEF Stop, storeVars
  <1> QED
    BY <1>3, <1>4, <1>5, <1>6 DEF ProcessStep, Crash, Stopped

\* Counting: one run with capacity does not exceed the limit.
LEMMA BoundedCounts ==
    ASSUME IsFiniteSet(Runs), Bounded, Cardinality(ActiveRuns) <= Limit
    PROVE  Cardinality(ActiveRuns') <= Limit
  <1> DEFINE S == ActiveRuns
             T == ActiveRuns'
  <1>1. S \subseteq Runs /\ T \subseteq Runs
    BY DEF ActiveRuns
  <1>2. IsFiniteSet(S) /\ IsFiniteSet(T)
    BY <1>1, FS_Subset
  <1>3. Cardinality(S) \in Nat /\ Cardinality(T) \in Nat /\ Limit \in Nat
    BY <1>2, FS_CardinalityType, RunExecutionAssumption
  <1>4. CASE T \subseteq S
    <2>1. Cardinality(T) <= Cardinality(S)
      BY <1>2, <1>4, FS_Subset
    <2> QED
      BY <1>3, <2>1
  <1>5. ASSUME NEW r \in Runs, HasRunCapacity(r), OnlyGrowsBy(r), ~(T \subseteq S)
        PROVE  Cardinality(T) <= Limit
    <2>1. r \notin S /\ T \subseteq S \cup {r}
      BY <1>5 DEF OnlyGrowsBy
    <2>2. Cardinality(S) < Limit
      BY <1>5, <2>1 DEF HasRunCapacity
    <2>3. IsFiniteSet(S \cup {r}) /\ Cardinality(S \cup {r}) = Cardinality(S) + 1
      <3> HIDE DEF S, T
      <3> QED
        BY <1>2, <2>1, FS_AddElement
    <2>4. Cardinality(T) <= Cardinality(S \cup {r})
      <3> HIDE DEF S, T
      <3> QED
        BY <2>1, <2>3, FS_Subset
    <2> QED
      BY <1>3, <2>2, <2>3, <2>4
  <1> QED
    BY <1>4, <1>5 DEF Bounded

\* No step but an approval takes a slot that is not free.
LEMMA NextBounded ==
    ASSUME IndInv, [Next]_vars
    PROVE  Bounded \/ \E r \in Runs, i \in AttemptIdx : Approve(r, i)
  <1>1. CASE UNCHANGED vars
    BY <1>1, NothingGrows DEF vars, Bounded
  <1>2. ASSUME NEW r \in Runs, NEW i \in AttemptIdx, Reject(r, i)
        PROVE  Bounded
    <2>1. runStatus \in [Runs -> RunStates]
      BY DEF IndInv, StoreOK
    <2> QED
      BY <1>2, <2>1, NothingGrows DEF Reject, RunEvent, Bounded
  <1>3. CASE Next
    BY <1>2, <1>3, ProcessBounded, QueueBounded, ControlBounded, WorkerBounded DEF Next, DecisionStep, Bounded
  <1> QED
    BY <1>1, <1>3

\* No visit waits for a decision.
NoneWaits == \A r \in Runs : \A v \in 1 .. Len(visits[r]) : visits[r][v] # "waiting_checkpoint"

\* A step that changes the visits of one run, none of them to waiting.
LEMMA WaitsUnchanged ==
    ASSUME IndInv, NoneWaits, NEW r \in Runs, NEW W, visits' = [visits EXCEPT ![r] = W],
           \A v \in 1 .. Len(W) : W[v] # "waiting_checkpoint"
    PROVE  NoneWaits'
  BY DEF NoneWaits, IndInv, StoreOK

\* A batch sets the status of the visit of an attempt, and may open a further one.
LEMMA SetVisitWaits ==
    ASSUME IndInv, NoneWaits, NEW r \in Runs, NEW i \in 1 .. Len(attempts[r]),
           NEW s \in VisitStates \ {"waiting_checkpoint"},
           \/ visits' = SetVisit(r, i, s)
           \/ visits' = [SetVisit(r, i, s) EXCEPT ![r] = Append(@, "pending")]
    PROVE  NoneWaits'
  <1> DEFINE V == visits[r]
             v == attempts[r][i].visit
             W == [V EXCEPT ![v] = s]
  <1>1. /\ V \in Seq(VisitStates) /\ v \in 1 .. Len(V) /\ Len(V) \in Nat
        /\ visits \in [Runs -> Seq(VisitStates)]
        /\ \A k \in 1 .. Len(V) : V[k] # "waiting_checkpoint"
    BY IndexTyped DEF RunOK, Shape, IndInv, StoreOK, NoneWaits
  <1>2. SetVisit(r, i, s) = [visits EXCEPT ![r] = W]
    BY <1>1 DEF SetVisit
  <1>3. /\ W \in Seq(VisitStates) /\ Len(W) = Len(V)
        /\ \A k \in 1 .. Len(W) : W[k] # "waiting_checkpoint"
    <2> HIDE DEF V, v
    <2> QED
      BY <1>1
  <1>4. CASE visits' = SetVisit(r, i, s)
    <2> HIDE DEF W
    <2> QED
      BY <1>2, <1>3, <1>4, WaitsUnchanged
  <1>5. CASE visits' = [SetVisit(r, i, s) EXCEPT ![r] = Append(@, "pending")]
    <2> HIDE DEF W, V
    <2>1. visits' = [visits EXCEPT ![r] = Append(W, "pending")]
      BY <1>1, <1>2, <1>5
    <2>2. \A k \in 1 .. Len(Append(W, "pending")) : Append(W, "pending")[k] # "waiting_checkpoint"
      BY <1>3
    <2> QED
      BY <2>1, <2>2, WaitsUnchanged
  <1> QED
    BY <1>4, <1>5

\* On a route without checkpoints no visit comes to wait, so there is nothing to
\* approve.
LEMMA NoneWaitsKept ==
    ASSUME CheckpointNodes = {}, IndInv, NoneWaits, [Next]_vars
    PROVE  NoneWaits'
  <1>1. CASE UNCHANGED visits
    BY <1>1 DEF NoneWaits
  <1>2. ASSUME NEW r \in Runs, NEW i \in 1 .. Len(attempts[r]), FailAttempt(r, i)
        PROVE  NoneWaits'
    BY <1>1, <1>2, SetVisitWaits DEF FailAttempt, VisitStates
  <1>3. ASSUME NEW r \in Runs, NEW i \in Attempts(r), WorkerStep(r, i)
        PROVE  NoneWaits'
    <2>1. i \in 1 .. Len(attempts[r])
      BY <1>3, IndexTyped DEF Attempts
    <2>2. CASE FailAndExit(r, i)
      BY <1>2, <2>1, <2>2 DEF FailAndExit
    <2>3. CASE QuietExit(r, i)
      BY <1>1, <2>3 DEF QuietExit, storeVars
    <2>4. CASE PrepareFails(r, i)
      BY <2>2, <2>3, <2>4 DEF PrepareFails
    <2>5. CASE StartVisit(r, i)
      <3>1. CASE VisitStarts(r, i)
        BY <1>1, <2>1, <3>1, SetVisitWaits DEF VisitStarts, VisitStates, storeVars
      <3> QED
        BY <2>2, <2>3, <2>5, <3>1 DEF StartVisit
    <2>6. CASE CallProvider(r, i) \/ RecordStart(r, i)
      BY <1>1, <2>2, <2>3, <2>6 DEF CallProvider, RecordStart, storeVars
    <2>7. CASE ReceiveResult(r, i) \/ BuiltinReturns(r, i)
      BY <1>1, <2>2, <2>3, <2>7 DEF ReceiveResult, BuiltinReturns, storeVars
    <2>8. CASE CompleteSucceeded(r, i)
      <3>1. ASSUME NEW n \in Nodes, Succeed(r, i, n)
            PROVE  NoneWaits'
        BY <2>1, <3>1, SetVisitWaits DEF Succeed, VisitStates
      <3> QED
        BY <2>2, <2>3, <2>8, <3>1 DEF CompleteSucceeded
    <2>9. CASE CompleteOther(r, i)
      <3>1. VisitOutcome(workers[r][i].result) \in VisitStates \ {"waiting_checkpoint"}
        BY DEF VisitOutcome, VisitStates
      <3> QED
        BY <2>1, <2>3, <2>9, <3>1, SetVisitWaits DEF CompleteOther
    <2>10. CASE LaunchSuccessor(r, i)
      BY <1>1, <2>10 DEF LaunchSuccessor, storeVars
    <2> QED
      BY <1>3, <2>4, <2>5, <2>6, <2>7, <2>8, <2>9, <2>10 DEF WorkerStep
  <1>4. ASSUME NEW r \in Runs, QueueStep(r)
        PROVE  NoneWaits'
    <2>1. CASE DispatchAdmit(r)
      <3>1. \A v \in 1 .. Len(<<"pending">>) : <<"pending">>[v] # "waiting_checkpoint"
        OBVIOUS
      <3> QED
        BY <2>1, <3>1, WaitsUnchanged DEF DispatchAdmit
    <2>2. CASE Launch(r) \/ DispatchPick(r) \/ DispatchLaunch(r) \/ DispatchFail(r)
      BY <1>1, <2>2 DEF Launch, DispatchPick, DispatchLaunch, DispatchFail, storeVars
    <2>3. ASSUME NEW i \in AttemptIdx, DispatchActive(r, i)
          PROVE  NoneWaits'
      BY <1>1, <2>3 DEF DispatchActive, storeVars
    <2>4. ASSUME NEW i \in AttemptIdx, NEW o \in Origins, HandlerLaunch(r, i, o)
          PROVE  NoneWaits'
      <3>1. i \in 1 .. Len(attempts[r])
        BY <2>4 DEF HandlerLaunch, IndInv, IndicesKnown
      <3> QED
        BY <1>1, <1>2, <2>4, <3>1 DEF HandlerLaunch, storeVars
    <2> QED
      BY <1>4, <2>1, <2>2, <2>3, <2>4 DEF QueueStep
  <1>5. ASSUME NEW r \in Runs, ControlStep(r)
        PROVE  NoneWaits'
    <2>1. CASE PauseBegin(r) \/ PauseCommit(r) \/ CancelBegin(r) \/ Resume(r) \/ Continue(r) \/ Guide(r)
      BY <1>1, <2>1 DEF PauseBegin, PauseCommit, CancelBegin, Resume, Continue, Guide, storeVars
    <2>2. ASSUME NEW op \in ControlOps, ControlRefused(r, op) \/ ControlAbandoned(r, op)
          PROVE  NoneWaits'
      BY <1>1, <2>2 DEF ControlRefused, ControlAbandoned, storeVars
    <2>3. CASE Retry(r)
      <3>1. PICK i \in Attempts(r) : visits' = RetriedVisit(r, i)
        BY <2>3 DEF Retry
      <3>2. i \in 1 .. Len(attempts[r])
        BY <3>1, IndexTyped DEF Attempts
      <3> QED
        BY <3>1, <3>2, SetVisitWaits DEF RetriedVisit, VisitStates
    <2>4. CASE CancelCommit(r)
      <3>1. PICK C : visits' = [visits EXCEPT ![r] =
              [v \in DOMAIN @ |->
                 IF @[v] = "waiting_checkpoint" \/ (v \in C /\ @[v] \in ReduceNode.cancelled)
                 THEN "cancelled" ELSE @[v]]]
        BY <2>4 DEF CancelCommit
      <3> DEFINE V == visits[r]
                 W == [v \in DOMAIN V |->
                          IF V[v] = "waiting_checkpoint" \/ (v \in C /\ V[v] \in ReduceNode.cancelled)
                          THEN "cancelled" ELSE V[v]]
      <3>2. visits' = [visits EXCEPT ![r] = W]
        BY <3>1 DEF IndInv, StoreOK
      <3>3. V \in Seq(VisitStates)
        BY DEF IndInv, StoreOK
      <3>4. Len(W) = Len(V) /\ \A v \in 1 .. Len(V) : W[v] # "waiting_checkpoint"
        <4> HIDE DEF V
        <4> QED
          BY <3>3
      <3> HIDE DEF W
      <3> QED
        BY <3>2, <3>4, WaitsUnchanged
    <2> QED
      BY <1>5, <2>1, <2>2, <2>3, <2>4 DEF ControlStep
  <1>6. ASSUME NEW r \in Runs, NEW i \in AttemptIdx, Reject(r, i) \/ Approve(r, i)
        PROVE  NoneWaits'
    <2>1. i \in 1 .. Len(attempts[r])
      BY <1>6, IndexTyped DEF Reject, Approve, Waiting, Attempts
    <2>2. \E s \in {"rejected", "succeeded"} :
             \/ visits' = SetVisit(r, i, s)
             \/ visits' = [SetVisit(r, i, s) EXCEPT ![r] = Append(@, "pending")]
      BY <1>6 DEF Reject, Approve
    <2> QED
      BY <2>1, <2>2, SetVisitWaits DEF VisitStates
  <1>7. CASE ProcessStep
    BY <1>1, <1>7 DEF ProcessStep, Start, ResumeActive, Serve, Crash, Stop, Stopped, storeVars
  <1>8. CASE UNCHANGED vars
    BY <1>1, <1>8 DEF vars
  <1> QED
    BY <1>3, <1>4, <1>5, <1>6, <1>7, <1>8 DEF Next, DecisionStep

\* Where nothing waits, nothing is approved.
LEMMA NothingApproved ==
    ASSUME IndInv, NoneWaits, NEW r \in Runs, NEW i \in AttemptIdx
    PROVE  ~Approve(r, i)
  <1> SUFFICES ASSUME Approve(r, i) PROVE FALSE
    OBVIOUS
  <1>1. i \in 1 .. Len(attempts[r]) /\ RunOK(runStatus[r], visits[r], attempts[r])
    BY IndexTyped DEF Approve, Waiting, Attempts
  <1>2. VisitOf(r, i) = "waiting_checkpoint"
    BY DEF Approve, Waiting, VisitTakes, ReduceNode
  <1> QED
    BY <1>1, <1>2 DEF VisitOf, NoneWaits, RunOK, Shape

\* While at most Limit runs are active, no step but the approval of a checkpoint
\* makes them more: the queue loop, a worker that launches a successor, ResumeActive,
\* and a handler that launches ask under the service mutex, and a run that starts
\* its visit is counted already by its worker.
THEOREM OnlyApprovalsExceed ==
    ASSUME IsFiniteSet(Runs)
    PROVE  Spec => [][\/ Capacity => Capacity'
                      \/ \E r \in Runs, i \in AttemptIdx : Approve(r, i)]_vars
  <1>1. IndInv /\ [Next]_vars =>
            [\/ Capacity => Capacity'
             \/ \E r \in Runs, i \in AttemptIdx : Approve(r, i)]_vars
    <2> SUFFICES ASSUME IndInv, [Next]_vars, Capacity,
                        ~\E r \in Runs, i \in AttemptIdx : Approve(r, i)
                 PROVE  Capacity'
      OBVIOUS
    <2>1. Bounded
      BY NextBounded
    <2> QED
      BY <2>1, BoundedCounts DEF Capacity
  <1> QED
    BY <1>1, Inductive, PTL DEF Spec

\* On a route without checkpoints at most scheduler.maxConcurrentRuns runs are
\* running or have a worker, whatever the number of runs, through crashes, restarts,
\* controls and retries (hasRunCapacityLocked).
THEOREM LimitHolds ==
    ASSUME IsFiniteSet(Runs), CheckpointNodes = {}
    PROVE  Spec => []Capacity
  <1>1. Init => NoneWaits /\ Capacity
    <2> SUFFICES ASSUME Init PROVE NoneWaits /\ Capacity
      OBVIOUS
    <2>1. ActiveRuns = {}
      BY DEF Init, ActiveRuns, Alive, NoWorker
    <2>2. Cardinality(ActiveRuns) = 0
      BY <2>1, FS_EmptySet
    <2> QED
      BY <2>2, RunExecutionAssumption DEF Init, NoneWaits, Capacity
  <1>2. IndInv /\ NoneWaits /\ Capacity /\ [Next]_vars => NoneWaits' /\ Capacity'
    <2> SUFFICES ASSUME IndInv, NoneWaits, Capacity, [Next]_vars
                 PROVE  NoneWaits' /\ Capacity'
      OBVIOUS
    <2>1. NoneWaits'
      BY NoneWaitsKept
    <2>2. Bounded
      BY NextBounded, NothingApproved
    <2> QED
      BY <2>1, <2>2, BoundedCounts DEF Capacity
  <1> QED
    BY <1>1, <1>2, Inductive, PTL DEF Spec
=============================================================================
