-------------------------- MODULE WorkflowAdvance --------------------------
(***************************************************************************)
(* How a run goes from node to node (core/runexecution/                    *)
(* workflow_scheduler.go): a successful attempt first saves the execution  *)
(* context -- accepted outputs and the frame's transition tokens           *)
(* (core/workflow/frame.go) -- in one transaction and then appends the     *)
(* events of the advance in another.  The daemon may stop in between; a    *)
(* retry runs another attempt of the same visit, which may answer          *)
(* differently.  At a node with a checkpoint the run waits with its output *)
(* saved until a person decides (checkpoints.go); nodes whose documents    *)
(* are reviewed one by one are in module ArtifactReview.  A transition's   *)
(* condition is the set of outputs it is true for (when); outputs are      *)
(* compared as a whole.                                                    *)
(***************************************************************************)
EXTENDS WorkflowGraph, Sequences, SequencesExt

CONSTANTS Documents,   \* valid or not: only valid ones are run
          When,        \* by transition id, the outputs its condition accepts
          Outputs,
          Checkpoints, \* the nodes whose output a person approves
          MaxVisits, MaxStops   \* bounds

VARIABLES doc, route,
          revision, accepted, tokens,   \* run_execution_contexts
          visits,                       \* the event log: visits, the last one open
          status,                       \* of the run
          attempt,                      \* "running", "saved" (events not appended) or "lost"
          advance, stops

vars == <<doc, route, revision, accepted, tokens, visits, status, attempt, advance, stops>>

NoAdvance == [output |-> "none", successor |-> 0, terminal |-> FALSE]
NoOutput == "none"
Init ==
    /\ doc \in {d \in Documents : Valid(d)}
    /\ route = CreateRoute(doc, doc.entry, doc.terminals, [i \in {} |-> FALSE], {})
    /\ revision = 1 /\ accepted = [n \in doc.nodes |-> NoOutput] /\ tokens = {}
    /\ visits = <<[node |-> doc.entry, activation |-> 1, output |-> NoOutput]>>
    /\ status = "running" /\ attempt = "running" /\ advance = NoAdvance /\ stops = 0

Visit == Last(visits)
VisitID(v) == <<v.node, v.activation>>

\* chooseTransition: exactly one transition of the route matches.
Matching(output) == {t \in Outgoing(doc, Visit.node) : t.id \in route.trans /\ output \in When[t.id]}

\* FireTransition: a token of the same visit, transition and epoch is the
\* replay of one; a bounded transition has a budget.
Traversals(t) == Cardinality({k \in tokens : k.id = t.id})
MayFire(t) == Bounded(t) => Traversals(t) < t.max
Token(t) == [visit |-> VisitID(Visit), id |-> t.id, epoch |-> revision + 1, target |-> t.to,
             traversal |-> IF Bounded(t) THEN Traversals(t) + 1 ELSE 0]

\* The tokens of this visit that a replay finds, in the snapshot's order.
Replayable == {k \in tokens : k.visit = VisitID(Visit)}
FirstToken == CHOOSE k \in Replayable :
    \A j \in Replayable : k.id < j.id \/ (k.id = j.id /\ k.epoch <= j.epoch)

\* (A mutant of Fails.)
FailsWithCode == status' = "RUN_LOOP_LIMIT_EXHAUSTED" /\ attempt' = "lost" /\ UNCHANGED <<revision, accepted, tokens, advance>>
Fails == status' = "failed" /\ attempt' = "lost" /\ UNCHANGED <<revision, accepted, tokens, advance>>

\* SaveRunExecutionContext, at the revision read: nobody else writes this run's
\* context while the worker holds runEventMu.
Saves(output, t) ==
    /\ revision' = revision + 1
    /\ accepted' = [accepted EXCEPT ![Visit.node] = output]
    /\ tokens' = IF t = {} THEN tokens ELSE tokens \cup {Token(x) : x \in t}
    /\ attempt' = "saved" /\ UNCHANGED status

\* prepareWorkflowAdvance: an output that is stored already, with what it led to,
\* repeats that; any other one decides anew.
Leads(output, successor, terminal) == advance' = [output |-> output, successor |-> successor, terminal |-> terminal]
Decides(output, known) ==
    LET terminal == Visit.node \in route.terminals
    IN  \/ /\ known /\ (terminal \/ Replayable # {})
           /\ attempt' = "saved" /\ UNCHANGED <<revision, accepted, tokens, status>>
           /\ Leads(output, IF terminal THEN 0 ELSE FirstToken.target, terminal)
        \/ terminal /\ ~known /\ Saves(output, {}) /\ Leads(output, 0, TRUE)
        \/ /\ ~terminal /\ ~(known /\ Replayable # {}) /\ Cardinality(Matching(output)) = 1
           /\ \E t \in Matching(output) : MayFire(t) /\ Saves(output, {t}) /\ Leads(output, t.to, FALSE)
Undecided(output, known) ==
    /\ Visit.node \notin route.terminals /\ ~(known /\ Replayable # {})
    /\ Cardinality(Matching(output)) # 1 \/ \E t \in Matching(output) : ~MayFire(t)

\* completeWorkflowSucceeded of a node without a checkpoint.
\* (A mutant of Complete.)
CompleteKeepsStored(output) ==
    /\ status = "running" /\ attempt = "running" /\ Visit.node \notin Checkpoints
    /\ LET known == accepted[Visit.node] # NoOutput
       IN  Decides(output, known) \/ (Undecided(output, known) /\ Fails)
    /\ UNCHANGED <<doc, route, visits, stops>>
Complete(output) ==
    /\ status = "running" /\ attempt = "running" /\ Visit.node \notin Checkpoints
    /\ LET known == accepted[Visit.node] = output
       IN  Decides(output, known) \/ (Undecided(output, known) /\ Fails)
    /\ UNCHANGED <<doc, route, visits, stops>>

\* completeWorkflowSucceeded of a node with one: the output is saved, and then the
\* run waits.
SaveForCheckpoint(output) ==
    /\ status = "running" /\ attempt = "running" /\ Visit.node \in Checkpoints
    /\ IF accepted[Visit.node] = output THEN attempt' = "saved" /\ UNCHANGED <<revision, accepted, tokens, status>>
       ELSE Saves(output, {})
    /\ Leads(output, 0, FALSE)
    /\ UNCHANGED <<doc, route, visits, stops>>
AwaitCheckpoint ==
    /\ attempt = "saved" /\ status = "running" /\ Visit.node \in Checkpoints
    /\ status' = "waiting" /\ attempt' = "lost" /\ advance' = NoAdvance
    /\ UNCHANGED <<doc, route, revision, accepted, tokens, visits, stops>>
\* ApplyWorkflowCheckpointDecision: the saved output goes on; an output with no
\* way on is refused and the run waits.  The decision is appended with the advance.
Approve ==
    /\ status = "waiting" /\ attempt = "lost"
    /\ Decides(accepted[Visit.node], TRUE)
    /\ UNCHANGED <<doc, route, visits, stops>>
Reject ==
    /\ status = "waiting" /\ attempt = "lost" /\ status' = "cancelled"
    /\ UNCHANGED <<doc, route, revision, accepted, tokens, visits, attempt, advance, stops>>

\* (A mutant of NextVisit.)
NextVisitOfNode == [node |-> advance.successor, activation |-> 1, output |-> NoOutput]
NextVisit == [node |-> advance.successor, activation |-> revision, output |-> NoOutput]
\* finishWorkflowAdvance: one append closes the visit and opens the next, whose
\* identity is the saved revision, and launches its attempt.
FinishWorkflowAdvance ==
    /\ attempt = "saved" /\ Len(visits) < MaxVisits
    /\ Visit.node \in Checkpoints => status = "waiting"
    /\ LET closed == [visits EXCEPT ![Len(visits)].output = advance.output]
       IN  IF advance.terminal THEN visits' = closed /\ status' = "completed" /\ attempt' = "lost"
           ELSE /\ visits' = Append(closed, NextVisit)
                /\ attempt' = "running" /\ status' = "running"
    /\ advance' = NoAdvance
    /\ UNCHANGED <<doc, route, revision, accepted, tokens, stops>>

\* The daemon stops; recovery leaves the attempt for the user to decide on.
Stop ==
    /\ attempt \in {"running", "saved"} /\ stops < MaxStops
    /\ attempt' = "lost" /\ advance' = NoAdvance /\ stops' = stops + 1
    /\ UNCHANGED <<doc, route, revision, accepted, tokens, visits, status>>
\* Retry of the run: another attempt of the open visit.
Retry ==
    /\ status \in {"running", "failed"} /\ attempt = "lost"
    /\ status' = "running" /\ attempt' = "running"
    /\ UNCHANGED <<doc, route, revision, accepted, tokens, visits, advance, stops>>

Next ==
    \/ \E output \in Outputs : Complete(output) \/ SaveForCheckpoint(output)
    \/ AwaitCheckpoint \/ Approve \/ Reject
    \/ FinishWorkflowAdvance
    \/ Stop
    \/ Retry

-----------------------------------------------------------------------------
TypeOK ==
    /\ Len(visits) <= MaxVisits /\ stops <= MaxStops
    /\ status \in {"running", "waiting", "failed", "completed", "cancelled"} /\ attempt \in {"running", "saved", "lost"}
    /\ accepted \in [doc.nodes -> Outputs \cup {NoOutput}]

\* Loops are paid for: between two visits of one node the run fired a bounded
\* transition, and no transition is followed more often than its budget,
\* across retries and restarts.
LoopsAreBudgeted ==
    /\ \A i, j \in DOMAIN visits : i < j /\ visits[i].node = visits[j].node =>
          \E k \in tokens : k.traversal > 0 /\ \E m \in i..(j - 1) : k.visit = VisitID(visits[m])
    /\ \A t \in doc.trans : Bounded(t) => Traversals(t) <= t.max

\* The outputs that later nodes read are the recorded ones: the context, saved
\* apart from the events and ahead of them, agrees with the last closed visit
\* of every node, unless an attempt of the open visit saved after it.
AcceptedIsRecorded ==
    \A i \in DOMAIN visits :
       /\ visits[i].output # NoOutput
       /\ \A j \in (i + 1)..Len(visits) : visits[j].node # visits[i].node
       => accepted[visits[i].node] = visits[i].output

\* Visits have different identities.
VisitsDiffer == \A i, j \in DOMAIN visits : VisitID(visits[i]) = VisitID(visits[j]) => i = j
=============================================================================
