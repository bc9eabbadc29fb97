-------------------------- MODULE ReadinessControl --------------------------
(***************************************************************************)
(* The readiness assessments of one run (core/routeassessment) and the     *)
(* operator's choice about them (core/readinesscontrol, api/readiness.go). *)
(* A provider submits findings; their disposition says which choices the   *)
(* operator has.  A choice is recorded by compare-and-set on the           *)
(* assessment's version; the client may send it again, and other clients   *)
(* decide and providers submit meanwhile.  The digest of an assessment is  *)
(* its identifier here, since what is recorded under one never changes.    *)
(***************************************************************************)
EXTENDS Naturals, Sequences, FiniteSets, SequencesExt

CONSTANTS Contract,      \* the node's: [remedies, gates, invariants]
          Submissions,   \* what providers may submit, by assessment
          Clients, Requests, \* the operators and the requests they may make
          MaxSends       \* bound: how often a client sends its request

VARIABLES run,           \* "active" or "ended"
          assessment,    \* by identifier: [status, subm, choice, key]; status "none" before it is recorded
          order,         \* the identifiers by their last event
          client         \* by client: [pc, request, seen, target, version, answer, sends]

vars == <<run, assessment, order, client>>

Ids == DOMAIN Submissions
Dispositions == {"ready", "choice_required", "policy_blocked", "invariant_blocked"}
NoFinding == [findings |-> <<>>, patch |-> "none"]
NoChoice == [choice |-> "none", remedy |-> "", key |-> ""]
Init ==
    /\ run = "active" /\ order = <<>>
    /\ assessment = [i \in Ids |-> [status |-> "none", subm |-> NoFinding, disposition |-> "ready", decision |-> NoChoice, version |-> 0]]
    /\ client = [c \in Clients |-> [pc |-> "idle", request |-> NoChoice, seen |-> "", target |-> "",
                                    version |-> 0, answer |-> "", sends |-> 0]]

-----------------------------------------------------------------------------
\* The JSON of a finding: a function from field names; every level has its own.
Common == {"level", "code", "summary", "evidence"}
InformationFinding == Common
RecommendationFinding == Common \cup {"remedyCode"}
PolicyGateFinding == Common \cup {"policy", "status", "remedyCode"}
InvariantFinding == Common \cup {"invariant", "status", "remedyCode"}
WireFields(level) ==
    CASE level = "information" -> InformationFinding [] level = "recommendation" -> RecommendationFinding
      [] level = "policy_gate" -> PolicyGateFinding  [] level = "invariant" -> InvariantFinding [] OTHER -> {}
Fields == PolicyGateFinding \cup InvariantFinding
\* strictDecode refuses a field the level does not have; an absent one is empty.
decodes(w) == DOMAIN w \subseteq WireFields(w["level"])
decodeFinding(w) == [x \in Fields |-> IF x \in DOMAIN w THEN w[x] ELSE ""]
\* mutant of MarshalJSON: no finding's remedy is kept
MarshalNoRemedy(f) == [x \in WireFields(f.level) \ {"remedyCode"} |-> f[x]]
\* Only the remedy of a gate or an invariant is left out when it is empty.
MarshalJSON(f) ==
    [x \in WireFields(f.level) \ (IF f.level \in {"policy_gate", "invariant"} /\ f.remedyCode = "" THEN {"remedyCode"} ELSE {})
        |-> f[x]]
decodeFindings(ws) == [i \in DOMAIN ws |-> decodeFinding(ws[i])]

\* The submission, [findings, patch], against the node's contract.
hasRemedy(code) == code \in DOMAIN Contract.remedies
validateSummary(f) == f.summary # ""
validateEvidence(f) == f.evidence # ""
validateRecommendation(f) == hasRemedy(f.remedyCode)
validatePolicyGate(f) ==
    /\ f.status \in {"satisfied", "unsatisfied"}
    /\ f.policy \in DOMAIN Contract.gates
    /\ IF f.status = "unsatisfied" THEN hasRemedy(f.remedyCode) ELSE f.remedyCode = ""
validateInvariant(f) ==
    /\ f.invariant \in Contract.invariants
    /\ f.status \in {"upheld", "violated"}
    /\ IF f.status = "violated" THEN hasRemedy(f.remedyCode) ELSE f.remedyCode = ""
findingIdentity(f) == f.code
validFinding(f) ==
    /\ validateSummary(f) /\ validateEvidence(f)
    /\ CASE f.level = "information"    -> TRUE
         [] f.level = "recommendation" -> validateRecommendation(f)
         [] f.level = "policy_gate"    -> validatePolicyGate(f)
         [] OTHER                     -> validateInvariant(f)
validateSubmission(s) ==
    /\ s.findings # <<>>
    /\ \A i, j \in DOMAIN s.findings :
          i # j => findingIdentity(s.findings[i]) # findingIdentity(s.findings[j])
    /\ \A i \in DOMAIN s.findings : validFinding(s.findings[i])

\* mutant of gateDisposition: an advisory gate always asks
gateDispositionOverwrites(current, policy) ==
    IF Contract.gates[policy] # "advisory" THEN "policy_blocked" ELSE "choice_required"
\* An advisory gate asks, any other one blocks; neither undoes a block.
gateDisposition(current, policy) ==
    IF Contract.gates[policy] # "advisory" THEN "policy_blocked"
    ELSE IF current = "ready" THEN "choice_required" ELSE current

\* One finding after the other; a violated invariant ends the loop.
deriveStep(current, f) ==
    IF current = "invariant_blocked" THEN current
    ELSE IF f.level = "invariant" /\ f.status = "violated" THEN "invariant_blocked"
    ELSE IF f.level = "policy_gate" /\ f.status = "unsatisfied" THEN gateDisposition(current, f.policy)
    ELSE IF f.level = "recommendation" /\ current = "ready" THEN "choice_required"
    ELSE current
deriveDisposition(findings) == FoldLeft(deriveStep, "ready", findings)

\* The remedies of the contract that a finding names.
referencedRemedies(findings) ==
    {r \in DOMAIN Contract.remedies : \E i \in DOMAIN findings : findings[i].remedyCode = r}

\* Assess: what can be recorded.  A valid change of the route is proposed only
\* when something is amiss, and never with an approval of its own.
Assessable(s) ==
    /\ validateSubmission(s)
    /\ s.patch # "none" => deriveDisposition(s.findings) # "ready" /\ s.patch = "valid"

\* allowedActions: the choices a view offers.
allowedActions(s) ==
    (IF deriveDisposition(s.findings) \in {"ready", "choice_required"} THEN {<<"continue", "">>} ELSE {})
    \cup (IF s.patch = "valid" THEN {<<"accept_route_change", "">>} ELSE {})
    \cup {<<"supply_input", r>> : r \in {q \in referencedRemedies(s.findings) : Contract.remedies[q] = "supply_input"}}
    \cup {<<"cancel", "">>}

\* mutant of validateDecisionRequest: any declared remedy will do
validateDecisionRequestDeclared(s, choice, remedy) ==
    IF choice = "supply_input" THEN hasRemedy(remedy)
    ELSE CASE choice = "cancel" -> remedy = ""
           [] choice = "continue" -> remedy = "" /\ deriveDisposition(s.findings) \notin {"policy_blocked", "invariant_blocked"}
           [] OTHER -> remedy = "" /\ s.patch = "valid"
\* validateDecisionRequest: the choices the service takes.
validateDecisionRequest(s, choice, remedy) ==
    CASE choice = "cancel"   -> remedy = ""
      [] choice = "continue" -> remedy = "" /\ deriveDisposition(s.findings) \notin {"policy_blocked", "invariant_blocked"}
      [] choice = "accept_route_change" -> remedy = "" /\ s.patch = "valid"
      [] choice = "supply_input" -> remedy \in referencedRemedies(s.findings) /\ Contract.remedies[remedy] = "supply_input"
      [] OTHER -> FALSE

-----------------------------------------------------------------------------
\* The run's boundary is needed whenever an assessment is shown or decided.
runBoundary == run = "active"
LatestForRun == order[Len(order)]
Touch(i) == SelectSeq(order, LAMBDA j : j # i) \o <<i>>

\* restore: the assessment is derived again from the submission as it was stored.
restore(i) == [assessment[i].subm EXCEPT !.findings = decodeFindings(@)]

\* Submit, by a provider or the system: the first record under an
\* identifier.  (The daemon wires the service with the local user, whom Submit
\* refuses; submissions come from code that embeds the service.)
Submit(i, s) ==
    LET read == [s EXCEPT !.findings = decodeFindings(@)]
    IN
    /\ runBoundary /\ assessment[i].status = "none"
    /\ \A k \in DOMAIN s.findings : decodes(s.findings[k])
    /\ Assessable(read)
    /\ assessment' = [assessment EXCEPT ![i] =
          [@ EXCEPT !.status = "pending", !.version = 1, !.disposition = deriveDisposition(read.findings),
                    !.subm = [read EXCEPT !.findings = [k \in DOMAIN @ |-> MarshalJSON(@[k])]]]]
    /\ order' = Touch(i)
    /\ UNCHANGED <<run, client>>

Set(c, r) == client' = [client EXCEPT ![c] = r]
Answer(c, a) == Set(c, [client[c] EXCEPT !.pc = "answered", !.answer = a])
\* serveRunReadiness: the client reads the latest assessment and makes a choice.
View(c) ==
    /\ client[c].pc = "idle" /\ order # <<>> /\ runBoundary
    /\ \E r \in Requests[c] :
          Set(c, [client[c] EXCEPT !.pc = "posted", !.request = r, !.seen = LatestForRun,
                                   !.version = assessment[LatestForRun].version, !.sends = 1])
    /\ UNCHANGED <<run, assessment, order>>

\* serveRunReadinessDecision: the latest assessment again, its digest and version.
Receive(c) ==
    /\ client[c].pc = "posted"
    /\ IF ~runBoundary \/ LatestForRun # client[c].seen THEN Answer(c, "changed")
       ELSE LET a == assessment[LatestForRun]
            IN  IF a.status = "pending" /\ a.version # client[c].version THEN Answer(c, "conflict")
                ELSE Set(c, [client[c] EXCEPT !.pc = "decide", !.target = LatestForRun])
    /\ UNCHANGED <<run, assessment, order>>

\* Decide, up to the recorder: replay of a decision, or the checks of a new one.
Decide(c) ==
    LET k == client[c]
        a == assessment[k.target]
    IN  /\ k.pc = "decide"
        /\ IF a.status = "decided"
             THEN Answer(c, IF a.decision.key # k.request.key THEN "already_decided"
                            ELSE IF a.decision # k.request THEN "idempotency_conflict"
                            ELSE IF runBoundary THEN "recorded" ELSE "changed")
           ELSE IF a.version # k.version \/ ~runBoundary THEN Answer(c, "changed")
           ELSE IF ~validateDecisionRequest(restore(k.target), k.request.choice, k.request.remedy) THEN Answer(c, "invalid")
           ELSE Set(c, [k EXCEPT !.pc = "append"])
        /\ UNCHANGED <<run, assessment, order>>

\* mutant of Unmoved: the append expects nothing
UnmovedNever(c) == client[c].version = 1
\* RecordRouteAssessmentDecision: the append expects the version that was read,
\* and a refused append is answered as an invalid decision.
Unmoved(c) == assessment[client[c].target].version = client[c].version
Record(c) ==
    LET i == client[c].target
    IN  /\ client[c].pc = "append"
        /\ IF Unmoved(c)
             THEN /\ assessment' = [assessment EXCEPT ![i] = [@ EXCEPT !.status = "decided",
                                                                !.decision = client[c].request, !.version = @ + 1]]
                  /\ order' = Touch(i)
                  /\ Set(c, [client[c] EXCEPT !.pc = "get"])
             ELSE Answer(c, "invalid") /\ UNCHANGED <<assessment, order>>
        /\ UNCHANGED run
\* Get, after the decision is recorded.
Reply(c) ==
    /\ client[c].pc = "get"
    /\ Answer(c, IF runBoundary THEN "recorded" ELSE "changed")
    /\ UNCHANGED <<run, assessment, order>>

\* An answer is lost and the client sends its request again, as it was or, as
\* the command line does, for the assessment it then reads.
Resend(c) ==
    /\ client[c].pc = "answered" /\ client[c].sends < MaxSends
    /\ LET again == [client[c] EXCEPT !.pc = "posted", !.answer = "", !.sends = @ + 1]
       IN  \/ Set(c, again)
           \/ runBoundary /\ Set(c, [again EXCEPT !.seen = LatestForRun, !.version = assessment[LatestForRun].version])
    /\ UNCHANGED <<run, assessment, order>>
RunEnds == run = "active" /\ run' = "ended" /\ UNCHANGED <<assessment, order, client>>

Next ==
    \/ \E i \in Ids : \E s \in Submissions[i] : Submit(i, s)
    \/ \E c \in Clients : View(c) \/ Receive(c) \/ Decide(c) \/ Record(c) \/ Reply(c) \/ Resend(c)
    \/ RunEnds
Spec == Init /\ [][Next]_vars

-----------------------------------------------------------------------------
\* Every variable has its type.
TypeOK ==
    /\ run \in {"active", "ended"} /\ order \in Seq(Ids)
    /\ \A i \in Ids : assessment[i].status \in {"none", "pending", "decided"}
    /\ \A c \in Clients : client[c].pc \in {"idle", "posted", "decide", "append", "get", "answered"}

Blocks(f) ==
    \/ f.level = "invariant" /\ f.status = "violated"
    \/ f.level = "policy_gate" /\ f.status = "unsatisfied" /\ Contract.gates[f.policy] # "advisory"
Asks(f) == f.level = "recommendation" \/ f.status \in {"unsatisfied", "violated"}
\* However a provider orders its findings, a run one of them blocks is not
\* continued by a choice: nothing is decided "continue" while an invariant is
\* reported violated or a gate that is not advisory unsatisfied, and nothing is
\* ready while a finding asks for anything (deriveDisposition, gateDisposition).
BlockedIsNotContinued ==
    \A i \in Ids : LET found == Range(decodeFindings(assessment[i].subm.findings)) IN
        /\ assessment[i].decision.choice = "continue" => ~\E f \in found : Blocks(f)
        /\ assessment[i].status # "none" => (assessment[i].disposition = "ready" <=> ~\E f \in found : Asks(f))

\* What was recorded can be restored: derived again from its stored form, an
\* assessment is still valid and has the disposition it was recorded with, or
\* it could neither be shown nor decided (restore answers ErrAssessmentConflict).
RecordedIsRestored ==
    \A i \in Ids : assessment[i].status # "none" =>
        /\ \A k \in DOMAIN assessment[i].subm.findings : decodes(assessment[i].subm.findings[k])
        /\ Assessable(restore(i)) /\ deriveDisposition(restore(i).findings) = assessment[i].disposition

\* What a view offers is what a decision may be: allowedActions and
\* validateDecisionRequest, written apart, agree on every recorded assessment.
OfferedIsAccepted ==
    \A i \in Ids : assessment[i].status # "none" =>
        LET choices == {"continue", "accept_route_change", "supply_input", "cancel"} \X (DOMAIN Contract.remedies \cup {""})
        IN  allowedActions(restore(i)) = {ch \in choices : validateDecisionRequest(restore(i), ch[1], ch[2])}

\* An operator who is told "recorded" sees the choice that was made recorded,
\* whoever else decided, and a recorded decision is never replaced.
RecordedIsMine ==
    \A c \in Clients : client[c].answer = "recorded" =>
        /\ assessment[client[c].target].status = "decided"
        /\ assessment[client[c].target].decision = client[c].request
=============================================================================
