--------------------------- MODULE PointExecution ---------------------------
(***************************************************************************)
(* The implementation points of a story (core/pointexecution) and their    *)
(* commits (core/pointfinalization over repository/git): a plan and the    *)
(* statuses of its points give the next point to execute; a candidate is   *)
(* captured from the worktree and validated, and finalizing it commits the *)
(* captured tree on the owned branch.  No part of the daemon calls these   *)
(* packages yet, so the callers are any that overlap, in any order, with   *)
(* any of the candidates validated so far.                                 *)
(***************************************************************************)
EXTENDS Naturals, Sequences, FiniteSets, SequencesExt

CONSTANTS Plans,        \* plans that may be asked for: [points, mode, tags]
          Trees,        \* what the worktree may hold
          Callers, Operations,
          MaxCommits

VARIABLES files,        \* the worktree's files
          history,      \* the branch: its commits, first the base
          sealed,       \* the candidates a validator has accepted
          call          \* caller -> its step, candidate, operation and commit

vars == <<files, history, sealed, call>>

Ids(p) == {p.points[i].id : i \in DOMAIN p.points}
PointOf(p, id) == p.points[CHOOSE i \in DOMAIN p.points : p.points[i].id = id]
NoCandidate == [parent |-> 0, tree |-> "t0"]
NoCall == [at |-> "idle", candidate |-> NoCandidate, op |-> "none", commit |-> 0]

Init ==
    /\ files = "t0" /\ history = <<[parent |-> 0, tree |-> "t0", op |-> "none"]>>
    /\ sealed = {} /\ call = [c \in Callers |-> NoCall]

-----------------------------------------------------------------------------
(* Plan.Validate.                                                            *)
Distinct(p) == \A i, j \in DOMAIN p.points : p.points[i].id = p.points[j].id => i = j
DependenciesKnown(p) ==
    \A i \in DOMAIN p.points : \A d \in p.points[i].deps :
        d # p.points[i].id /\ d \in Ids(p) /\ PointOf(p, d).story = p.points[i].story
\* validateApprovalPolicy: only the risk mode selects by tags, and it does.
PolicyValid(p) == (p.mode = "risk") <=> (p.tags # {})
\* The points a walk of n steps along the dependencies leads to.
Walk(p, id) ==
    LET walk[n \in Nat] == IF n = 0 THEN PointOf(p, id).deps
                           ELSE walk[n - 1] \cup UNION {PointOf(p, d).deps : d \in walk[n - 1]}
    IN walk[Len(p.points)]
\* No walk comes back to where it began.
Acyclic(p) == \A id \in Ids(p) : id \notin Walk(p, id)
Valid(p) == p.points # <<>> /\ PolicyValid(p) /\ Distinct(p) /\ DependenciesKnown(p) /\ Acyclic(p)

\* isReady: the point is ready, and what it depends on is accepted at least.
Finished == {"accepted", "committed", "published"}
IsReady(p, s, id) == s[id] = "ready" /\ \A d \in PointOf(p, id).deps : s[d] \in Finished
ReadyPoints(p, s) == {id \in Ids(p) : IsReady(p, s, id)}

\* Execute: of the points that are ready by the statuses handed over, the first
\* is attempted, and the attempt leaves something in the worktree.
Execute(p, s) ==
    /\ Valid(p) /\ ReadyPoints(p, s) # {}
    /\ \E t \in Trees : files' = t
    /\ UNCHANGED <<history, sealed, call>>

\* Somebody edits the worktree.
Edit ==
    /\ \E t \in Trees : files' = t
    /\ UNCHANGED <<history, sealed, call>>

-----------------------------------------------------------------------------
(* pointfinalization.Validate and Finalize.                                  *)

Tip == Len(history)
Free(c) == call[c].at \in {"idle", "committed"}

\* CaptureCandidate: what differs from the branch's tip, as a tree of its own.
HasChanges == files # history[Tip].tree
Capture(c) ==
    /\ Free(c) /\ HasChanges
    /\ call' = [call EXCEPT ![c] = [NoCall EXCEPT !.at = "captured",
                                      !.candidate = [parent |-> Tip, tree |-> files]]]
    /\ UNCHANGED <<files, history, sealed>>

\* The validator accepts the candidate, or not.
Validated(c) ==
    /\ call[c].at = "captured"
    /\ \/ sealed' = sealed \cup {call[c].candidate}
       \/ UNCHANGED sealed
    /\ call' = [call EXCEPT ![c] = NoCall]
    /\ UNCHANGED <<files, history>>

\* reconcilePointCommit: only a commit of the same parent, tree and operation is
\* adopted, and at the tip only with a clean worktree.
Matches(k, op) ==
    {i \in 2..Tip : history[i] = [parent |-> k.parent, tree |-> k.tree, op |-> op]}
Adopted(k, op) ==
    {i \in Matches(k, op) : Cardinality(Matches(k, op)) = 1 /\ (i = Tip => files = k.tree)}
Answer(c, k, op, found) ==
    IF found = {} THEN call' = [call EXCEPT ![c] = NoCall]
    ELSE \E i \in found : call' = [call EXCEPT ![c] = [at |-> "committed", candidate |-> k, op |-> op, commit |-> i]]

\* Finalize(Accept), CommitCandidate up to its last look at the worktree.  A branch
\* that has moved is reconciled; a worktree that has changed is refused.
Finalize(c, k, op) ==
    /\ Free(c) /\ k \in sealed
    /\ IF Tip # k.parent THEN Answer(c, k, op, Adopted(k, op))
       ELSE IF files # k.tree THEN call' = [call EXCEPT ![c] = NoCall]
       ELSE call' = [call EXCEPT ![c] = [at |-> "commit", candidate |-> k, op |-> op, commit |-> 0]]
    /\ UNCHANGED <<files, history, sealed>>

\* (A mutant of Commit.)
CommitWhatIsThere(c) ==
    LET k == call[c].candidate IN
    /\ call[c].at = "commit" /\ Tip < MaxCommits
    /\ history' = Append(history, [parent |-> Tip, tree |-> files, op |-> call[c].op])
    /\ call' = [call EXCEPT ![c].at = "committed", ![c].commit = Tip + 1]
    /\ UNCHANGED <<files, sealed>>
\* commit-tree and update-ref: the captured tree on the captured parent, if the
\* branch is still there.  The answer needs a clean worktree, and may be lost.
Commit(c) ==
    LET k == call[c].candidate IN
    /\ call[c].at = "commit" /\ Tip < MaxCommits
    /\ IF Tip = k.parent
       THEN /\ history' = Append(history, [parent |-> k.parent, tree |-> k.tree, op |-> call[c].op])
            /\ \/ files = k.tree /\ call' = [call EXCEPT ![c].at = "committed", ![c].commit = Tip + 1]
               \/ call' = [call EXCEPT ![c] = NoCall]
       ELSE Answer(c, k, call[c].op, Adopted(k, call[c].op)) /\ UNCHANGED history
    /\ UNCHANGED <<files, sealed>>

\* The caller stops between two steps, with or without the daemon.
Stop(c) ==
    /\ call[c].at # "idle" /\ call' = [call EXCEPT ![c] = NoCall]
    /\ UNCHANGED <<files, history, sealed>>

Next ==
    \/ \E p \in Plans : \E s \in [Ids(p) -> {"planned", "ready", "accepted"}] : Execute(p, s)
    \/ Edit
    \/ \E c \in Callers :
          \/ Capture(c) \/ Validated(c) \/ Commit(c) \/ Stop(c)
          \/ \E k \in sealed, op \in Operations : Finalize(c, k, op)
Spec == Init /\ [][Next]_vars

-----------------------------------------------------------------------------
TypeOK ==
    /\ files \in Trees \cup {"t0"}
    /\ \A c \in Callers : call[c].at \in {"idle", "captured", "commit", "committed"}

\* The branch holds only trees that were captured from their parent and validated,
\* whatever was edited meanwhile and whoever else committed; and whoever was told
\* of a commit, at once or on a retry, finds its own candidate and operation there.
CommitsWereValidated ==
    /\ \A i \in 2..Tip :
           /\ history[i].parent = i - 1
           /\ [parent |-> i - 1, tree |-> history[i].tree] \in sealed
    /\ \A c \in Callers :
           call[c].at = "committed" =>
               /\ call[c].commit \in 2..Tip
               /\ history[call[c].commit] = [parent |-> call[c].candidate.parent,
                                             tree |-> call[c].candidate.tree, op |-> call[c].op]

\* A valid plan whose points are all ready or finished never waits for itself, and
\* a plan that only its cycles make invalid would.
PlanGoesOn ==
    \A p \in Plans :
        PolicyValid(p) /\ Distinct(p) /\ DependenciesKnown(p) =>
            (Acyclic(p) <=> \A s \in [Ids(p) -> {"ready", "accepted"}] :
                                 (\E id \in Ids(p) : s[id] = "ready") => ReadyPoints(p, s) # {})

-----------------------------------------------------------------------------
(* Why: what is about to be committed is a sealed candidate.               *)

Candidates == [parent : Nat, tree : Trees \cup {"t0"}]
Rows == [at : {"idle", "captured", "commit", "committed"}, candidate : Candidates,
         op : Operations \cup {"none"}, commit : Nat]
PointsInv ==
    /\ files \in Trees \cup {"t0"}
    /\ history \in Seq([parent : Nat, tree : Trees \cup {"t0"}, op : Operations \cup {"none"}]) /\ Tip >= 1
    /\ sealed \subseteq Candidates /\ call \in [Callers -> Rows]
    /\ \A c \in Callers : call[c].at = "commit" => call[c].candidate \in sealed
    /\ CommitsWereValidated
=============================================================================
