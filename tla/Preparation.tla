---------------------------- MODULE Preparation ----------------------------
(***************************************************************************)
(* How the route of a new run is chosen (core/preparation/assessment.go,   *)
(* core/runexecution/preparation.go).  The candidate routes are those the  *)
(* workflow can be cut to; an advisor, a language model, says which of     *)
(* them would do, in any order and with any confidence, and the smallest   *)
(* suitable one is taken.  What is missing becomes questions, what is not  *)
(* certain a reason to ask for confirmation.  The assessment is stored in  *)
(* the run's route, and a preparation of the same input uses it again.     *)
(* Boundaries are numbered in the order of their keys; CreateRoute is in   *)
(* WorkflowGraph and stands here for a function of the boundary.           *)
(***************************************************************************)
EXTENDS Naturals, Sequences, FiniteSets, SequencesExt

CONSTANTS Boundaries,   \* 1..n, by their keys
          NodesOf,      \* by boundary: the nodes of its route
          Issues,       \* the boundaries no route can be created for
          Missing,      \* by boundary: the inputs its route lacks
          Default,      \* the boundary of the workflow's defaults
          Inputs,       \* [override, version, consequential, allowed, answers]
          Advices,      \* what may be said of them, [confidence, items]; of a boundary, [b, disposition, questions, assumptions]
          MaxRuns       \* bound

VARIABLES runs,         \* the assessments of the runs prepared so far
          call          \* the preparation under way: [pc, input, advice]

vars == <<runs, call>>

NoInput == [override |-> 0, version |-> "", consequential |-> {}, allowed |-> {}, answers |-> ""]
NoAdvice == [confidence |-> "high", items |-> <<>>]
Idle == [pc |-> "idle", input |-> NoInput, advice |-> NoAdvice, error |-> FALSE]
Init == runs = <<>> /\ call = Idle

-----------------------------------------------------------------------------
\* Candidates: the boundaries with a route that lacks nothing.
Candidates == {b \in Boundaries : b \notin Issues /\ Missing[b] = {}}
size(b) == Cardinality(NodesOf[b])

\* Every candidate is considered once, and with the questions its disposition needs.
adviceValid(advice) ==
    /\ advice.confidence \in {"high", "medium", "low"}
    /\ \A i, j \in DOMAIN advice.items : advice.items[i].b = advice.items[j].b => i = j
    /\ {advice.items[i].b : i \in DOMAIN advice.items} = Candidates
    /\ \A i \in DOMAIN advice.items :
          CASE advice.items[i].disposition = "suitable"       -> advice.items[i].questions = <<>>
            [] advice.items[i].disposition = "unsuitable"     -> TRUE
            [] advice.items[i].disposition = "input_required" -> advice.items[i].questions # <<>>
            [] OTHER -> FALSE
Said(advice, disposition) ==
    {i \in DOMAIN advice.items : advice.items[i].disposition = disposition}

\* The first of a list sorted by the given order on its items.
First(advice, I, before(_, _)) ==
    advice.items[CHOOSE i \in I : \A j \in I : i = j \/ before(advice.items[i], advice.items[j])]
\* mutant of smaller: routes of one size keep the advisor's order
smallerOrSame(x, y) == size(x.b) <= size(y.b)
\* The smallest route, by its key among those of one size.
smaller(x, y) == size(x.b) < size(y.b) \/ (size(x.b) = size(y.b) /\ x.b < y.b)
\* The default route first, then the fewest questions.
asksLess(x, y) ==
    IF (x.b = Default) # (y.b = Default) THEN x.b = Default
    ELSE Len(x.questions) < Len(y.questions) \/ (Len(x.questions) = Len(y.questions) /\ x.b < y.b)

NoScope == {}
\* Reasons to ask about a suitable route: it goes beyond the default one, the
\* advisor is not sure, or it assumes something the policy does not allow.
scopeReasons(b) == IF Default \in Issues \/ ~(NodesOf[b] \subseteq NodesOf[Default]) THEN {<<"scope">>} ELSE NoScope
\* mutant of confirmations: any assumption will do
confirmationsOfScope(input, advice, item) ==
    scopeReasons(item.b) \cup (IF advice.confidence # "high" THEN {<<"confidence", advice.confidence>>} ELSE {})
confirmations(input, advice, item) ==
    scopeReasons(item.b)
    \cup (IF advice.confidence # "high" THEN {<<"confidence", advice.confidence>>} ELSE {})
    \cup {<<"assumption", a>> : a \in item.assumptions \ input.allowed}

Outcome == [id |-> "outcome", prompt |-> "outcome"]
\* The old policy asks everything of every alternative.
allQuestions(advice) == FoldLeft(LAMBDA qs, item : qs \o item.questions, <<>>, advice.items)
\* mutant of unsettled: every policy asks everything
unsettledAll(input, advice) == [b |-> Default, questions |-> <<Outcome>> \o allQuestions(advice)]
\* The route and what is asked when no candidate is suitable.
unsettled(input, advice) ==
    LET pending == Said(advice, "input_required")
        old == input.version = "smallest-safe-v1"
        item == First(advice, pending, asksLess)
        asked == IF old THEN allQuestions(advice) ELSE IF pending = {} THEN <<>> ELSE item.questions
    IN  [b |-> IF old \/ pending = {} THEN Default ELSE item.b,
         questions |-> IF asked = <<>> THEN <<Outcome>> ELSE asked]

requirementQuestions(b) == SetToSeq({[id |-> m, prompt |-> m] : m \in Missing[b]})
consequential(input, b) == {<<"consequential", n>> : n \in NodesOf[b] \cap input.consequential}
\* One question per identifier; two prompts for one of them are an error.
unique(qs) == FoldLeft(LAMBDA out, q : IF \E k \in DOMAIN out : out[k].id = q.id THEN out ELSE Append(out, q), <<>>, qs)
conflicting(qs) == \E i, j \in DOMAIN qs : qs[i].id = qs[j].id /\ qs[i].prompt # qs[j].prompt

Assess(input, advice) ==
    LET suitable == Said(advice, "suitable")
        item == First(advice, suitable, smaller)
        rest == unsettled(input, advice)
        chosen == IF input.override # 0 THEN input.override ELSE IF suitable # {} THEN item.b ELSE rest.b
        asked == (IF input.override # 0 \/ suitable # {} THEN <<>> ELSE rest.questions) \o requirementQuestions(chosen)
        failed == \/ input.override \in Issues
                  \/ input.override = 0 /\ (~adviceValid(advice) \/ (suitable = {} /\ Default \in Issues))
    IN  IF failed \/ conflicting(asked) THEN [ok |-> FALSE, input |-> input, advice |-> advice]
        ELSE [ok |-> TRUE, input |-> input, advice |-> advice, route |-> chosen, questions |-> unique(asked),
              reasons |-> consequential(input, chosen)
                          \cup IF input.override = 0 /\ suitable # {} THEN confirmations(input, advice, item) ELSE {}]
Readiness(a) ==
    IF a.questions # <<>> \/ Missing[a.route] # {} THEN "input_required"
    ELSE IF a.reasons # {} THEN "confirmation_required" ELSE "ready"
\* What is read back is derived again.
Verify(a) == Assess(a.input, a.advice) = a

-----------------------------------------------------------------------------
\* resolvePreparationPolicy and assessPreparationInput: the input is put together.
Prepare(input) ==
    /\ call.pc = "idle" /\ Len(runs) < MaxRuns
    /\ call' = [Idle EXCEPT !.pc = "look", !.input = input]
    /\ UNCHANGED runs
\* mutant of Known: the advisor is asked again
KnownNever(input) == {r \in DOMAIN runs : runs[r].input = input /\ runs[r].advice = NoAdvice}
\* A run of the same work prepared from the same input has the answer already.
Known(input) == {r \in DOMAIN runs : runs[r].input = input}
Look ==
    /\ call.pc = "look" /\ \A r \in DOMAIN runs : Verify(runs[r])
    /\ IF Known(call.input) # {}
         THEN runs' = Append(runs, runs[CHOOSE r \in Known(call.input) : TRUE]) /\ call' = Idle
         ELSE call' = [call EXCEPT !.pc = "advise"] /\ UNCHANGED runs
\* An override needs no advice, and without an advisor every candidate asks.
Unadvised == [confidence |-> "high", items |-> [k \in 1..Cardinality(Candidates) |->
    [b |-> SetToSeq(Candidates)[k], disposition |-> "input_required", questions |-> <<[id |-> "routing", prompt |-> "routing"]>>, assumptions |-> {}]]]
Advise ==
    /\ call.pc = "advise"
    /\ \/ call.input.override # 0 /\ call' = [call EXCEPT !.pc = "assess"]
       \/ call.input.override = 0 /\ call' = [call EXCEPT !.pc = "assess", !.advice = Unadvised]
       \/ /\ call.input.override = 0
          /\ \E advice \in Advices : call' = [call EXCEPT !.pc = "assess", !.advice = advice]
    /\ UNCHANGED runs
\* The advisor may fail, and the caller gives up.
AdviceFails == call.pc = "advise" /\ call.input.override = 0 /\ call' = Idle /\ UNCHANGED runs
Record ==
    /\ call.pc = "assess"
    /\ LET a == Assess(call.input, call.advice)
       IN  runs' = IF a.ok THEN Append(runs, a) ELSE runs
    /\ call' = Idle

Next == (\E input \in Inputs : Prepare(input)) \/ Look \/ Advise \/ AdviceFails \/ Record
Spec == Init /\ [][Next]_vars

-----------------------------------------------------------------------------
\* Every variable has its type.
TypeOK ==
    /\ call.pc \in {"idle", "look", "advise", "assess"}
    /\ \A r \in DOMAIN runs : runs[r].ok /\ runs[r].route \in Boundaries

ItemOf(a, b) == CHOOSE i \in DOMAIN a.advice.items : a.advice.items[i].b = b
\* A run that may start unasked was asked for by name, or is the smallest route
\* the advisor found suitable, with certainty, within the default scope, on
\* assumptions the policy allows; and it crosses no consequential node and
\* lacks nothing.  The wording of an answer never launches more.
ReadyIsSafe ==
    \A r \in DOMAIN runs : LET a == runs[r] IN Readiness(a) = "ready" =>
        /\ NodesOf[a.route] \cap a.input.consequential = {} /\ Missing[a.route] = {}
        /\ \/ a.input.override = a.route
           \/ /\ a.route \in Candidates /\ a.advice.confidence = "high" /\ NodesOf[a.route] \subseteq NodesOf[Default]
              /\ LET item == a.advice.items[ItemOf(a, a.route)]
                 IN  item.disposition = "suitable" /\ item.assumptions \subseteq a.input.allowed
              /\ \A i \in DOMAIN a.advice.items : a.advice.items[i].disposition = "suitable" => size(a.route) <= size(a.advice.items[i].b)

\* What is asked is about one route, never about alternatives that exclude one
\* another, unless the old policy is in force; and a run that waits for an
\* answer has something to answer.
AsksAboutOneRoute ==
    \A r \in DOMAIN runs : LET a == runs[r] IN
        /\ Readiness(a) = "input_required" => a.questions # <<>>
        /\ a.questions # <<>> /\ a.input.override = 0 /\ a.input.version # "smallest-safe-v1" /\ Missing[a.route] = {} =>
              a.questions = <<Outcome>> \/ a.questions = unique(a.advice.items[ItemOf(a, a.route)].questions)

\* The order in which the advisor lists the candidates decides nothing, under
\* the policies in use: the assessment of a run is that of any permutation.
OrderDecidesNothing ==
    \A r \in DOMAIN runs : LET a == runs[r] IN a.input.version # "smallest-safe-v1" =>
        \A f \in Permutations(DOMAIN a.advice.items) :
            LET b == Assess(a.input, [a.advice EXCEPT !.items = [i \in DOMAIN @ |-> @[f[i]]]])
            IN  b.ok /\ b.route = a.route /\ b.questions = a.questions /\ b.reasons = a.reasons

\* The advisor is asked once for one input: two runs of a work item prepared one
\* after the other from the same input have the same assessment, whatever it
\* would have said the second time.
SameInputSameRoute ==
    \A r, q \in DOMAIN runs : runs[r].input = runs[q].input => runs[r] = runs[q]
=============================================================================
