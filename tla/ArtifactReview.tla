--------------------------- MODULE ArtifactReview ---------------------------
(***************************************************************************)
(* Reviews of the documents a node produced (core/artifactcheckpoint and   *)
(* core/runexecution/artifact_reviews.go): each output has rounds, each    *)
(* with one exact artifact version; people approve, reject or give         *)
(* feedback, the daemon's reconciliation pass starts a revision attempt,   *)
(* whose worker registers the next version and publishes the next round.   *)
(* The pass, the worker and clients interleave, and the daemon may stop    *)
(* between any two of their commits.                                       *)
(***************************************************************************)
EXTENDS Naturals, Sequences, SequencesExt

CONSTANTS Outputs,           \* the reviewed outputs, sorted
          MaxVersion,        \* bound on artifact versions
          MaxResource,       \* bound on the events of one round
          MaxUserRevisions,  \* versions people register on their own
          MaxRestarts        \* bound

VARIABLES rounds,    \* per output: approvals of its checkpoint, oldest first
          latest,    \* per output: greatest registered artifact version
          control,   \* the coarse approval of the visit
          visit,     \* original attempt running, waiting, revising, advanced, failed
          accepted,  \* per output: the version handed on, or 0
          pass,      \* the reconciliation pass
          attempt,   \* the last revision attempt
          worker,    \* its worker: step and the session it read
          userRevisions, restarts

vars == <<rounds, latest, control, visit, accepted, pass, attempt, worker, userRevisions, restarts>>

Names == Range(Outputs)
None == <<>>
NoPass == [at |-> "idle", next |-> 1, approved |-> TRUE, output |-> Outputs[1], id |-> None]
NoAttempt == [id |-> None, status |-> "none", registered |-> 0]
NoWorker == [at |-> "none", output |-> Outputs[1], resource |-> 0]

Init ==
    /\ rounds = [o \in Names |-> <<>>] /\ latest = [o \in Names |-> 0]
    /\ control = "none" /\ visit = "original" /\ accepted = [o \in Names |-> 0]
    /\ pass = NoPass /\ attempt = NoAttempt /\ worker = NoWorker
    /\ userRevisions = 0 /\ restarts = 0

-----------------------------------------------------------------------------
(* Rounds.                                                                  *)

\* The payload of approval.requested; the conversation starts with the human.
OpenRound(v) == [status |-> "pending", state |-> "human", active |-> None, version |-> v, resource |-> 1]
Current(o) == Last(rounds[o])
Attempted(o, r) == <<o, Len(rounds[o]), r>>

\* reviewForMutation: the latest version of a pending round in the given state
\* (a superseded or decided round is in none).
Reviewing(o, state) == rounds[o] # <<>> /\ Current(o).status = "pending" /\ Current(o).state = state
Amend(o, round) == rounds' = [rounds EXCEPT ![o] = Front(@) \o <<round>>]
Turn(o, state, active) ==
    /\ Current(o).resource < MaxResource
    /\ Amend(o, [Current(o) EXCEPT !.state = state, !.active = active, !.resource = @ + 1])

\* (A mutant of AgentResponse.)
AgentResponseUnbound(o, id, resource, outcome) ==
    /\ rounds[o] # <<>> /\ Current(o).state = "agent" /\ Current(o).resource >= resource
    /\ IF outcome = "revised"
       THEN rounds' = [rounds EXCEPT ![o] = Append(Front(@) \o
               <<[Current(o) EXCEPT !.status = "changes_requested", !.state = "superseded"]>>, OpenRound(latest[o]))]
       ELSE Amend(o, [Current(o) EXCEPT !.state = "human", !.active = None, !.resource = @ + 1])
\* RecordAgentResponse: the attempt last resumed, at the version read.  A revised
\* document closes the round and opens the next one, with the next version, in
\* one transaction; otherwise the candidate returns to the human.
AgentResponse(o, id, resource, outcome) ==
    /\ Reviewing(o, "agent") /\ Current(o).resource = resource /\ Current(o).active = id
    /\ IF outcome = "revised"
       THEN /\ Current(o).version < latest[o]
            /\ rounds' = [rounds EXCEPT ![o] = Append(Front(@) \o
                  <<[Current(o) EXCEPT !.status = "changes_requested", !.state = "superseded", !.active = None]>>,
                  OpenRound(Current(o).version + 1))]
       ELSE Amend(o, [Current(o) EXCEPT !.state = "human", !.active = None, !.resource = @ + 1])

Outcome == IF attempt.status = "succeeded" THEN "revised" ELSE "failed"

-----------------------------------------------------------------------------
(* People and API clients.                                                  *)

\* (A mutant of SubmitFeedback.)
SubmitFeedbackLate(o) ==
    /\ rounds[o] # <<>> /\ Current(o).state = "human"
    /\ Turn(o, "agent", None)
    /\ UNCHANGED <<latest, control, visit, accepted, pass, attempt, worker, userRevisions, restarts>>
SubmitFeedback(o) ==
    /\ Reviewing(o, "human")
    /\ Turn(o, "agent", None)
    /\ UNCHANGED <<latest, control, visit, accepted, pass, attempt, worker, userRevisions, restarts>>

\* One terminal decision, only while the human is to act.
Decide(o, status) ==
    /\ Reviewing(o, "human")
    /\ Amend(o, [Current(o) EXCEPT !.status = status, !.resource = @ + 1])
    /\ UNCHANGED <<latest, control, visit, accepted, pass, attempt, worker, userRevisions, restarts>>

\* ResumeRevision and RecordAgentResponse are also endpoints: a client may name
\* another attempt, or answer for the active one.
ResumeByClient(o) ==
    /\ Reviewing(o, "agent")
    /\ Turn(o, "agent", Attempted(o, Current(o).resource))
    /\ UNCHANGED <<latest, control, visit, accepted, pass, attempt, worker, userRevisions, restarts>>
RespondByClient(o, outcome) ==
    /\ Reviewing(o, "agent") /\ Current(o).active # None
    /\ AgentResponse(o, Current(o).active, Current(o).resource, outcome)
    /\ UNCHANGED <<latest, control, visit, accepted, pass, attempt, worker, userRevisions, restarts>>

\* artifactops.Revise from the API, on the latest version.
ReviseByUser(o) ==
    /\ userRevisions < MaxUserRevisions /\ latest[o] \in 1..(MaxVersion - 1)
    /\ latest' = [latest EXCEPT ![o] = @ + 1]
    /\ userRevisions' = userRevisions + 1
    /\ UNCHANGED <<rounds, control, visit, accepted, pass, attempt, worker, restarts>>

-----------------------------------------------------------------------------
(* ReconcileArtifactReviews, one output at a time.                          *)

\* The original attempt succeeded: the visit waits at its checkpoint.
OriginalCompletes ==
    /\ visit = "original" /\ visit' = "waiting" /\ control' = "pending"
    /\ UNCHANGED <<rounds, latest, accepted, pass, attempt, worker, userRevisions, restarts>>

PassBegins ==
    /\ pass.at = "idle" /\ visit = "waiting"
    /\ pass' = [NoPass EXCEPT !.at = "scan"]
    /\ UNCHANGED <<rounds, latest, control, visit, accepted, attempt, worker, userRevisions, restarts>>

\* No rounds yet: ingest under the stable key, then open; either may fail and
\* end the pass.
PassOpens ==
    LET o == Outputs[pass.next] IN
    /\ pass.at = "scan" /\ pass.next <= Len(Outputs) /\ rounds[o] = <<>>
    /\ latest' = [latest EXCEPT ![o] = IF @ = 0 THEN 1 ELSE @]
    /\ \/ /\ rounds' = [rounds EXCEPT ![o] = <<OpenRound(1)>>]
          /\ pass' = [pass EXCEPT !.next = @ + 1, !.approved = FALSE]
       \/ pass' = NoPass /\ UNCHANGED rounds
    /\ UNCHANGED <<control, visit, accepted, attempt, worker, userRevisions, restarts>>

\* An approved output, or one whose human is to act.
PassSkips ==
    LET o == Outputs[pass.next] IN
    /\ pass.at = "scan" /\ pass.next <= Len(Outputs) /\ rounds[o] # <<>> /\ ~Reviewing(o, "agent")
    /\ pass' = [pass EXCEPT !.next = @ + 1, !.approved = @ /\ Current(o).status = "approved"]
    /\ UNCHANGED <<rounds, latest, control, visit, accepted, attempt, worker, userRevisions, restarts>>

\* ResumeRevision under a key made of the session version, unless an attempt is
\* already active.
PassResumes ==
    LET o == Outputs[pass.next]
        id == IF Current(o).active # None THEN Current(o).active ELSE Attempted(o, Current(o).resource) IN
    /\ pass.at = "scan" /\ pass.next <= Len(Outputs) /\ Reviewing(o, "agent")
    /\ IF Current(o).active # None THEN UNCHANGED rounds
       ELSE Amend(o, [Current(o) EXCEPT !.active = id, !.resource = @ + 1])
    /\ pass' = [pass EXCEPT !.at = "start", !.approved = FALSE, !.output = o, !.id = id]
    /\ UNCHANGED <<latest, control, visit, accepted, attempt, worker, userRevisions, restarts>>

\* (A mutant of PassStarts.)
PassStartsNoRecovery ==
    /\ pass.at = "start"
    /\ IF attempt.id = pass.id
       THEN UNCHANGED <<rounds, attempt, worker, visit>>
       ELSE /\ attempt' = [id |-> pass.id, status |-> "active", registered |-> 0]
            /\ worker' = [NoWorker EXCEPT !.at = "run"]
            /\ visit' = "revising" /\ UNCHANGED rounds
    /\ pass' = [pass EXCEPT !.at = "control"]
    /\ UNCHANGED <<latest, control, accepted, userRevisions, restarts>>
\* startReviewRevision: an attempt that ended is answered for (its response was
\* lost), a live one is launched again, a new one is created with the run back
\* in running.
PassStarts ==
    /\ pass.at = "start"
    /\ IF attempt.id = pass.id
       THEN /\ IF attempt.status \in {"succeeded", "failed"} /\ Reviewing(pass.output, "agent")
                  /\ Current(pass.output).active = pass.id
               THEN AgentResponse(pass.output, pass.id, Current(pass.output).resource, Outcome)
               ELSE UNCHANGED rounds
            /\ UNCHANGED <<attempt, worker, visit>>
       ELSE /\ attempt' = [id |-> pass.id, status |-> "active", registered |-> 0]
            /\ worker' = [NoWorker EXCEPT !.at = "run"]
            /\ visit' = "revising" /\ UNCHANGED rounds
    /\ pass' = [pass EXCEPT !.at = "control"]
    /\ UNCHANGED <<latest, control, accepted, userRevisions, restarts>>

\* After the outputs, or the first revision started: approval.cancelled for the
\* coarse control.
RetireControl ==
    /\ pass.at = "control" \/ (pass.at = "scan" /\ pass.next > Len(Outputs))
    /\ control' = "cancelled"
    /\ pass' = IF pass.approved THEN [pass EXCEPT !.at = "advance"] ELSE NoPass
    /\ UNCHANGED <<rounds, latest, visit, accepted, attempt, worker, userRevisions, restarts>>

\* (A mutant of AdvanceReviewed.)
AdvanceReviewedLatest ==
    /\ pass.at = "advance"
    /\ \A o \in Names : Current(o).status = "approved"
    /\ accepted' = latest
    /\ visit' = "advanced" /\ pass' = NoPass
    /\ UNCHANGED <<rounds, latest, control, attempt, worker, userRevisions, restarts>>
\* advanceReviewedArtifacts: the text of each approved version is handed on.
AdvanceReviewed ==
    /\ pass.at = "advance"
    /\ \A o \in Names : Current(o).status = "approved"
    /\ accepted' = [o \in Names |-> Current(o).version]
    /\ visit' = "advanced" /\ pass' = NoPass
    /\ UNCHANGED <<rounds, latest, control, attempt, worker, userRevisions, restarts>>

-----------------------------------------------------------------------------
(* The worker of a revision attempt.                                        *)

\* activeReview: the pending session that waits for this attempt.
Active(o) == Reviewing(o, "agent") /\ Current(o).active = attempt.id
Running == attempt.status = "active" /\ visit = "revising"

\* completeReviewAttempt up to the registration: artifactops.Revise expects the
\* candidate to be the latest version; its key makes a repeat a no-op.
WorkerRegisters(o) ==
    /\ Running /\ worker.at = "run" /\ Active(o)
    /\ \/ /\ attempt.registered = 0 /\ latest[o] = Current(o).version /\ latest[o] < MaxVersion
          /\ latest' = [latest EXCEPT ![o] = @ + 1]
          /\ attempt' = [attempt EXCEPT !.registered = latest[o] + 1]
       \/ attempt.registered # 0 /\ UNCHANGED <<latest, attempt>>
    /\ worker' = [at |-> "commit", output |-> o, resource |-> Current(o).resource]
    /\ UNCHANGED <<rounds, control, visit, accepted, pass, userRevisions, restarts>>

\* The completion events: the visit waits again.
WorkerCommits ==
    /\ Running /\ worker.at = "commit"
    /\ attempt' = [attempt EXCEPT !.status = "succeeded"]
    /\ visit' = "waiting" /\ worker' = [worker EXCEPT !.at = "respond"]
    /\ UNCHANGED <<rounds, latest, control, accepted, pass, userRevisions, restarts>>

\* failReviewAttempt: the provider failed, or the result could not be used
\* (a version conflict, an extraction or an append that failed).
WorkerFails(o) ==
    /\ Running /\ worker.at \in {"run", "commit"} /\ Active(o)
    /\ attempt' = [attempt EXCEPT !.status = "failed"]
    /\ visit' = "waiting"
    /\ worker' = [at |-> "respond", output |-> o, resource |-> Current(o).resource]
    /\ UNCHANGED <<rounds, latest, control, accepted, pass, userRevisions, restarts>>

\* RecordAgentResponse at the version of the session the worker read.
WorkerResponds ==
    /\ worker.at = "respond"
    /\ \/ AgentResponse(worker.output, attempt.id, worker.resource, Outcome)
       \/ UNCHANGED rounds
    /\ worker' = NoWorker
    /\ UNCHANGED <<latest, control, visit, accepted, pass, attempt, userRevisions, restarts>>

\* No session waits for the attempt any more: it completes or fails as any
\* attempt of the node.
WorkerEndsOrdinarily ==
    /\ Running /\ worker.at = "run" /\ \A o \in Names : ~Active(o)
    /\ \/ attempt' = [attempt EXCEPT !.status = "succeeded"] /\ visit' = "waiting"
       \/ attempt' = [attempt EXCEPT !.status = "failed"] /\ visit' = "failed"
    /\ worker' = NoWorker
    /\ UNCHANGED <<rounds, latest, control, accepted, pass, userRevisions, restarts>>

\* The daemon stops and starts: an attempt still active is resumed.
Restart ==
    /\ restarts < MaxRestarts /\ restarts' = restarts + 1
    /\ pass' = NoPass
    /\ worker' = IF attempt.status = "active" THEN [NoWorker EXCEPT !.at = "run"] ELSE NoWorker
    /\ UNCHANGED <<rounds, latest, control, visit, accepted, attempt, userRevisions>>

DaemonStep ==
    \/ PassBegins \/ PassOpens \/ PassSkips \/ PassResumes \/ PassStarts \/ RetireControl \/ AdvanceReviewed
WorkerStep ==
    \/ \E o \in Names : WorkerRegisters(o) \/ WorkerFails(o)
    \/ WorkerCommits \/ WorkerResponds \/ WorkerEndsOrdinarily

Next ==
    \/ OriginalCompletes \/ DaemonStep \/ WorkerStep \/ Restart
    \/ \E o \in Names :
          \/ SubmitFeedback(o) \/ ResumeByClient(o) \/ ReviseByUser(o)
          \/ \E s \in {"approved", "rejected", "changes_requested"} : Decide(o, s)
          \/ \E outcome \in {"revised", "failed"} : RespondByClient(o, outcome)

\* The queue's ticker runs the pass every second; a worker's result arrives.
Fairness == WF_vars(DaemonStep) /\ WF_vars(WorkerStep)
Spec == Init /\ [][Next]_vars /\ Fairness

-----------------------------------------------------------------------------
TypeOK ==
    /\ \A o \in Names :
          /\ latest[o] \in 0..MaxVersion /\ accepted[o] \in 0..MaxVersion
          /\ \A i \in DOMAIN rounds[o] :
                rounds[o][i].status \in {"pending", "approved", "rejected", "changes_requested"}
    /\ visit \in {"original", "waiting", "revising", "advanced", "failed"}
    /\ attempt.status \in {"none", "active", "succeeded", "failed"}

\* What a node hands on is, output by output, the exact version a person
\* approved last, although newer versions may be registered.
AcceptedIsApproved ==
    visit = "advanced" =>
       \A o \in Names : Current(o).status = "approved" /\ accepted[o] = Current(o).version

\* The rounds of an output are one chain: only the last is open, every earlier
\* one was superseded by the next version, none is opened or closed twice.
OneChain ==
    \A o \in Names : \A i \in 1..(Len(rounds[o]) - 1) :
       /\ rounds[o][i].status = "changes_requested"
       /\ rounds[o][i + 1].version = rounds[o][i].version + 1

\* An approved document is never handed back to an agent.
ApprovedIsFinal ==
    [][\A o \in Names : \A i \in DOMAIN rounds[o] :
          rounds[o][i].status = "approved" => Len(rounds'[o]) = Len(rounds[o]) /\ rounds'[o][i] = rounds[o][i]]_vars

\* Feedback is answered: every agent turn ends, also when the daemon stops
\* between the attempt's completion and the response.
AgentTurnEnds ==
    \A o \in Names : Reviewing(o, "agent") ~> (~Reviewing(o, "agent") \/ visit = "failed")

\* A failed revision can be followed by another one: the candidate is still the
\* latest version, so the next attempt's document can be registered.
\* (artifact_reviews.go:406: "you can request another revision".)
RevisionPossible ==
    \A o \in Names : Reviewing(o, "human") => Current(o).version = latest[o]
=============================================================================
