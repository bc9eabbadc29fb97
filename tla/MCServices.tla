---------------------------- MODULE MCServices ----------------------------
(***************************************************************************)
(* The services around a run, for TLC.  They share no state here: a behaviour*)
(* belongs to one of them, its subject, and the others stay in their initial*)
(* states.                                                                 *)
(***************************************************************************)
EXTENDS Integers, Sequences, FiniteSets, TLC

VARIABLES subject,
    \* RoutePatch
    routeDoc, routePhase, routeRoute, routeRevision, routeOverrides, routeProposals,
    routeApprovals, routeAuthorized, routeAt, routeRunning, routeActivated,
    routeSucceeded, routeEmitted,
    \* WorkflowAdvance
    advanceDoc, advanceRoute, advanceRevision, advanceAccepted, advanceTokens,
    advanceVisits, advanceStatus, advanceAttempt, advanceAdvance, advanceStops,
    \* WorkflowCatalog
    catalogInstalled, catalogNodeDefs, catalogDrafts, catalogUsed, catalogClient,
    catalogPublishMu, catalogStarting, catalogUp, catalogStarts, catalogPublished,
    \* ReadinessControl
    assessRun, assessAssessment, assessOrder, assessClient,
    \* ReadinessControl
    readinessRun, readinessAssessment, readinessOrder, readinessClient,
    \* Preparation
    prepareRuns, prepareCall,
    \* Preparation
    againRuns, againCall,
    \* WorkflowCodec
    codecText, codecDocument, codecFirst, codecStage,
    \* WorkIntake
    intakeCommands, intakeProjects, intakeWorks, intakeWorkspaces, intakeCalls,
    intakeAnswers, intakeUp, intakeLife, intakeStarted,
    \* ArtifactDiff
    diffLeft, diffRight, diffSelected, diffLimit, diffCursor, diffShown, diffStatus,
    diffAudit, diffChanges,
    \* ArtifactLineage
    lineageLog, lineageEdges, lineageInvalidations, lineageBinding,
    \* ContextEvidence
    selectionCall, selectionManifest, selectionRequests,
    \* PluginWorkspace
    quotaFiles, quotaTemps, quotaWhole, quotaMu, quotaCalls, quotaArtifacts,
    quotaAttached, quotaAnswers, quotaStarted,
    \* PointExecution
    plannedFiles, plannedHistory, plannedSealed, plannedCall,
    \* WorkspaceDelivery
    sealedStage, sealedJob, sealedMain, sealedRecord, sealedWork, sealedSealed,
    sealedIntent, sealedPublished, sealedAccepted, sealedRemote, sealedPulls,
    sealedCrashes, sealedLost, sealedStray, sealedForeign

\* Documents over three nodes: every candidate transition is absent, normal
\* (enabled or not by default) or a bounded loop.
Candidates == <<<<1, 2>>, <<2, 3>>, <<1, 3>>, <<2, 1>>>>
Document(kind, terminals, mode, join) ==
    LET T == {[id |-> i, from |-> Candidates[i][1], to |-> Candidates[i][2], on |-> kind[i] # "off",
               max |-> IF kind[i] = "loop" THEN 1 ELSE 0, always |-> TRUE] :
                  i \in {j \in 1..4 : kind[j] # "absent"}}
        into(n) == {t.id : t \in {x \in T : x.to = n}}
    IN  [nodes |-> 1..3, entries |-> {1}, ends |-> {2, 3}, entry |-> 1, terminals |-> terminals,
         mode |-> [n \in 1..3 |-> mode], needs |-> [n \in 1..3 |-> IF n = 3 THEN {2} ELSE {}],
         join |-> [n \in 1..3 |-> IF Cardinality(into(n)) > 1 THEN [mode |-> join, from |-> into(n)]
                                  ELSE [mode |-> "none", from |-> {}]],
         trans |-> T]
AuthoredDocuments ==
    {Document(k, t, m, j) : k \in [1..4 -> {"absent", "on", "off", "loop"}], t \in {{3}, {2, 3}},
                            m \in {"exclusive", "fanout"}, j \in {"all", "one"}}
PatchedDocuments ==
    {Document(<<"on", "on", "off", "absent">>, {3}, "fanout", "all"),
     Document(<<"on", "on", "on", "absent">>, {2, 3}, "fanout", "all")}

\* Library documents: p calls q or nothing, q calls p or nothing, with a node
\* definition or none.  Versions 9, 10-rc and 10.
V9 == [core |-> <<<<9>>, <<0>>, <<0>>>>, pre |-> <<>>]
V10rc == [core |-> <<<<1, 0>>, <<0>>, <<0>>>>, pre |-> <<<<12, 13>>>>]
V10 == [core |-> <<<<1, 0>>, <<0>>, <<0>>>>, pre |-> <<>>]
Library(name, version, calls, uses) == [name |-> name, version |-> version, calls |-> calls, uses |-> uses]
CallTo(name, version) == [name |-> name, version |-> version, pin |-> <<>>]
LibraryDrafted == {Library("p", V9, {}, {}), Library("p", V9, {CallTo("q", V10)}, {"x"})}
LibraryFiles ==
    {{}, {[scope |-> "default", file |-> 1, doc |-> Library("p", V9, {CallTo("q", V10)}, {})],
          [scope |-> "user", file |-> 2, doc |-> Library("q", V10, {CallTo("p", V9)}, {})],
          [scope |-> "default", file |-> 3, doc |-> Library("q", V10, {}, {})]},
     {[scope |-> "user", file |-> 4, doc |-> Library("p", V9, {}, {})],
      [scope |-> "user", file |-> 5, doc |-> Library("p", V9, {CallTo("q", V9)}, {})]}}

\* A choice at the first node and a way back to it from the second.
ChoiceAndLoop(max) ==
    LET arrow(i, f, t, k) == [id |-> i, from |-> f, to |-> t, on |-> TRUE, max |-> k, always |-> FALSE]
    IN  [nodes |-> 1..3, entries |-> {1}, ends |-> {3}, entry |-> 1, terminals |-> {3},
         mode |-> [n \in 1..3 |-> "exclusive"], needs |-> [n \in 1..3 |-> {}],
         join |-> [n \in 1..3 |-> [mode |-> "none", from |-> {}]],
         trans |-> {arrow(1, 1, 2, 0), arrow(2, 1, 3, 0), arrow(3, 2, 1, max)}]

\* A contract with one remedy of either kind and one gate of either kind.
ReadinessContract ==
    [remedies |-> [r \in {"ask", "edit"} |-> IF r = "ask" THEN "supply_input" ELSE "change"],
     gates |-> [g \in {"must", "may"} |-> IF g = "must" THEN "required" ELSE "advisory"],
        invariants |-> {"inv"}]
Wire(level, more) == [level |-> level, code |-> <<level, more>>, summary |-> "s", evidence |-> "e"] @@ more
Judged(status, remedy) == IF remedy = "" THEN [status |-> status]
   ELSE [status |-> status, remedyCode |-> remedy]
ReadinessFindings ==
    {Wire("information", <<>>), Wire("information", [status |-> "violated"]),
       [Wire("information", <<>>) EXCEPT !.evidence = ""],
     Wire("recommendation", [remedyCode |-> "ask"]), Wire("recommendation", [remedyCode |-> "none"])}
    \cup {Wire("policy_gate", [policy |-> g] @@ Judged(st, r)) : g \in {"must", "may"},
       st \in {"satisfied", "unsatisfied"}, r \in {"ask", ""}}
    \cup {Wire("invariant", [invariant |-> "inv"] @@ Judged(st, r)) : st \in {"upheld", "violated"},
       r \in {"edit", ""}}
BadFindings ==
    {Wire("recommendation", [remedyCode |-> "ask"]),
       Wire("policy_gate", [policy |-> "must", status |-> "unsatisfied", remedyCode |-> "edit"]),
     Wire("policy_gate", [policy |-> "may", status |-> "unsatisfied", remedyCode |-> "ask"]),
     Wire("invariant", [invariant |-> "inv", status |-> "violated", remedyCode |-> "edit"])}

\* What is known when a run is prepared, and what an advisor may say of a route.
PreparationInput(o, v, cs, as, ans) == [override |-> o, version |-> v, consequential |-> cs,
   allowed |-> as, answers |-> ans]
PreparationInputs ==
    {PreparationInput(0, "smallest-safe-v3", {}, {"x"}, ""),
       PreparationInput(0, "smallest-safe-v3", {}, {}, "a"),
     PreparationInput(0, "smallest-safe-v1", {"c"}, {}, ""),
        PreparationInput(1, "smallest-safe-v3", {}, {}, ""),
           PreparationInput(2, "smallest-safe-v3", {}, {}, "")}
AskedFor(id, prompt) == [id |-> id, prompt |-> prompt]
AdviceItems ==
    {[b |-> b, disposition |-> "suitable", questions |-> <<>>, assumptions |-> as] : b \in 2..4,
       as \in {{}, {"x"}}}
    \cup {[b |-> b, disposition |-> "input_required", questions |-> qs, assumptions |-> {}] :
             b \in 2..4, qs \in {<<AskedFor("q", "p")>>, <<AskedFor("q", "r"), AskedFor("s", "p")>>}}
    \cup {[b |-> 2, disposition |-> "unsuitable", questions |-> <<>>, assumptions |-> {}]}

\* JSON values and documents for the codec.
S(x) == <<"string", x>>
N(n) == <<"number", n>>
B(b) == <<"bool", b>>
A(s) == <<"array", s>>
O(f) == <<"object", f>>
Null == <<"null">>
NoFields == [f \in {} |-> Null]
Strings(seq) == A([i \in DOMAIN seq |-> S(seq[i])])
PlainNode(type, field, settings) ==
    [type |-> S(type), entry |-> B(TRUE), terminal |-> B(FALSE), inputs |-> O(NoFields),
       outputs |-> O(NoFields)] @@ (field :> settings)
Reasoner == PlainNode("reasoning", "reasoning", O([agent |-> S("a")]))
\* Every subset of the optional fields given.
Some(must, may) == {O(must @@ [f \in F |-> may[f]]) : F \in SUBSET DOMAIN may}
Literals == {N(1), N(2), <<"decimal", 2>>, S("a"), S("b"), Null, B(TRUE), A(<<N(1)>>), A(<<S("a")>>),
     O([k |-> N(1)]), O([l |-> N(1)])}
Literal(v) == O([literal |-> v])
Ref(r) == O([ref |-> S(r)])
Compare(op, l, r) == O([op |-> S(op), args |-> A(<<l, r>>)])
Atoms ==
    {O([const |-> B(TRUE)]), O([const |-> B(FALSE)]), O([op |-> S("present"), arg |-> Ref("output.x")]),
     Compare("eq", Ref("output.x"), Literal(N(1))), Compare("lt", Ref("output.x.k"), Literal(N(2))),
        Compare("gte", Literal(S("a")), Literal(N(1)))}
CodecPredicates ==
    Atoms \cup {Compare("eq", Literal(l), Literal(r)) : l \in Literals, r \in Literals}
    \cup {O([op |-> S(op), args |-> A(<<p, q>>)]) : op \in {"all", "any"}, p \in Atoms, q \in Atoms}
    \cup {O([op |-> S("not"), arg |-> p]) : p \in Atoms}
    \cup {O([const |-> B(TRUE), op |-> S("not")]), O([const |-> Null]),
       O([op |-> S("present"), arg |-> Literal(N(1))]), O([op |-> S("all"), args |-> A(<<>>)]), Null,
           Compare("eq", Ref("node.x"), Literal(N(1))),
              Compare("eq", O([ref |-> S("input.y"), literal |-> Null]), Literal(Null))}
CodecReference == O([id |-> S("a"), version |-> S("1.0.0"), digest |-> S("d")])
CodecExtension == O([ref |-> CodecReference, configuration |-> O(NoFields)])
NodeTexts ==
    {PlainNode("gate", "gate", O([policy |-> S("p"), condition |-> p])) : p \in CodecPredicates}
    \cup {PlainNode("reasoning", "reasoning", e) :
       e \in Some([agent |-> S("a")], [instructions |-> S("i"), skills |-> Strings(<<"a">>),
          tools |-> Strings(<<"a", "a">>)])}
    \cup {PlainNode("command", "command", e) : e \in Some(NoFields,
       [argv |-> Strings(<<"a">>), cwd |-> S("w"), timeoutSeconds |-> N(0)])}
    \cup {PlainNode("approval", "approval", e) : e \in Some(NoFields,
       [externalCondition |-> S("c"), evidenceOutput |-> S("a")])
                                                      \cup Some([actor |-> S("external")],
                                                         [externalCondition |-> S("c"),
                                                            evidenceOutput |-> S("a")]) \cup Some([actor |-> S("owner")], [externalCondition |-> S("c")])}
    \cup {PlainNode("subworkflow", "call", e) : e \in Some([workflow |-> O([name |-> S("w"),
       version |-> S("1.0.0"), digest |-> S("d")]), entry |-> S("a"),
          terminals |-> Strings(<<"a", "b">>)],
                                                           [inputs |-> O([a |-> S("b")]),
                                                              outputs |-> O([a |-> S("node.a.output.b")])])}
    \cup {PlainNode("point_execution", "points", e) :
       e \in {O([planInput |-> S("a"), approval |-> S(m), riskTags |-> r, validation |-> S("each"),
          publishing |-> S("after_each_point")]) :
                                                                m \in {"none", "risk", "x"},
                                                                   r \in {Null, A(<<>>),
                                                                      Strings(<<"t">>), Strings(<<"t",
                                                                         "t">>)}}}
    \cup {PlainNode("routing", "routing", O([agent |-> S("a"),
       branches |-> A(b)] @@ [o \in {"routeOutput", "rationaleOutput", "adviceOutput",
          "missingInformationOutput", "assumptionsOutput", "confirmationOutput"} |-> S("a")])) :
              b \in {<<>>, <<O([name |-> S("a"), transition |-> S("b")])>>,
                 <<O([name |-> S("a"), transition |-> S("b")]),
                    O([name |-> S("b"), transition |-> S("b")])>>}}
    \cup {PlainNode("implementation", "implementation", O([taskInput |-> S("a")])),
       PlainNode("git_commit", "gitCommit", O(NoFields)),
          PlainNode("workspace_prepare", "workspacePrepare", Null),
            PlainNode("extension", "extension", CodecExtension),
               PlainNode("reasoning", "command", O([argv |-> Strings(<<"a">>)])),
                  Reasoner @@ [gate |-> Null]}
Optional ==
    [displayName |-> {S("n"), S(""), Null}, prompt |-> {CodecReference, Null, O([id |-> S("a")])},
     definition |-> {O([scope |-> S(sc), name |-> S("a"), version |-> S("1.0.0"),
        digest |-> S("d")] @@ o) : sc \in {"built_in", "project"},
           o \in {NoFields, [owner |-> S("o")]}},
     validators |-> {A(<<>>), A(<<O([output |-> S("a"), schema |-> S("s")]),
        O([command |-> Strings(<<"c">>)])>>), A(<<O([extension |-> CodecExtension])>>),
           A(<<O([schema |-> S("s"), command |-> A(<<>>)])>>)},
     readiness |-> {Null} \cup Some(NoFields, [recommendedEvidence |-> A(<<>>),
        policyGates |-> A(<<O([policy |-> S("a"), enforcement |-> S("advisory"),
           description |-> S("d")])>>), invariants |-> A(<<>>),
                                               remedies |-> A(<<O([code |-> S("a"), target |-> S("b"),
                                                  action |-> S("supply_input"),
                                                     description |-> S("d")])>>)]),
     retry |-> {Null, O([maxAttempts |-> N(2), on |-> A(<<>>)]),
        O([maxAttempts |-> N(101), on |-> A(<<>>)]), O([maxAttempts |-> N(1)]),
           O([maxAttempts |-> N(1), on |-> Strings(<<"timeout">>)])},
     checkpoint |-> {Null, S("none"), S("approve"), S("external"), O([mode |-> S("acknowledge")]),
        O([mode |-> S("none"), maxRevisions |-> N(1)]),
           O([mode |-> S("external"), externalCondition |-> S("c")])}
                    \cup Some([mode |-> S("approve")],
                       [maxRevisions |-> N(0)]) \cup Some([mode |-> S("approve_on_change")],
                          [maxRevisions |-> N(3), when |-> O([const |-> B(TRUE)])]),
     transitionMode |-> {S("exclusive"), S("fanout"), S("x")},
        join |-> {Null} \cup {O([mode |-> S("all"), from |-> Strings(f)]) :
           f \in {<<"a">>, <<"a", "b">>, <<"a", "a">>}},
     permissions |-> {A(<<>>), Strings(<<"p">>)},
     transitions |-> {A(<<t>>) : t \in Some([id |-> S("a"), to |-> S("b")],
        [when |-> O([const |-> B(FALSE)]), kind |-> S("bounded"), maxTraversals |-> N(1),
           enabledByDefault |-> B(FALSE)])} \cup {A(<<O([id |-> S("a"), to |-> S("b"),
              kind |-> S("normal")])>>)},
     inputs |-> {O([a |-> b]) : b \in Some([from |-> S("run.input.a"), type |-> S("markdown")],
        [required |-> B(FALSE), default |-> Null,
           pointer |-> S("/p")]) \cup {O([from |-> S("run.input.a"), type |-> S("string"),
              required |-> B(r), default |-> S("")]) : r \in BOOLEAN}},
     outputs |-> {O([a |-> o]) : o \in Some([type |-> S("markdown")],
        [required |-> B(FALSE), artifact |-> O([filename |-> S("f")]), schemaDefinition |-> Null,
           schema |-> S("s")])} \cup {O([X |-> O([type |-> S("string")])]), Null}]
ReasonerTexts == UNION {{Reasoner @@ NoFields} \cup {[f \in DOMAIN Reasoner \cup {o} |-> IF f = o THEN v
     ELSE Reasoner[f]] : v \in Optional[o]} : o \in DOMAIN Optional}
SpecText(node, more) == O([routeDefaults |-> O([entry |-> S("a"), terminals |-> Strings(<<"a">>)]),
   nodes |-> O([a |-> O(node)])] @@ more)
Resources ==
    {O([kind |-> S("artifact"), filename |-> S("f"), content |-> S("")]), O([kind |-> S("task")]),
       O([kind |-> S("task"), key |-> S("k")]), O([kind |-> S("constant"), value |-> Null]),
          O([kind |-> S("constant")]),
     O([kind |-> S("template"), content |-> S("c"), version |-> S("1.0.0"),
        requiredHeadings |-> Strings(<<"h">>)]), O([kind |-> S("template_reference"),
           reference |-> CodecReference]), O([kind |-> S("config"), key |-> S(" ")])}
SpecTexts ==
    {SpecText(n, NoFields) : n \in NodeTexts \cup ReasonerTexts}
    \cup {SpecText(Reasoner, [inputs |-> O([a |-> O([type |-> S("object"), resource |-> r])])]) :
       r \in Resources}
    \cup {SpecText(Reasoner, [profiles |-> p]) : p \in {Null, O(NoFields)} \cup {O([a |-> o]) :
       o \in Some([description |-> S("d"), entry |-> S("a"), terminals |-> Strings(<<"a">>)],
          [inputDefaults |-> O([a |-> N(1)])])}}
CodecDocuments ==
    {O([apiVersion |-> S(v), kind |-> S("Workflow"),
       metadata |-> O([name |-> S("a"), version |-> S("1.0.0")]), spec |-> sp]) :
          v \in {"v1alpha1", "v1alpha2", "v1alpha3"}, sp \in SpecTexts}
DiffContents == UNION {[1..n -> {"a", "b"}] : n \in 0..3}
TextOf(disclosure, size) == [name |-> disclosure, text |-> TRUE, disclosure |-> disclosure,
   size |-> size, utf8 |-> TRUE]
RawText == TextOf("raw", "small")
PlainVersion(lines) == [stored |-> TRUE, sensitivity |-> "internal", reps |-> {RawText}, lines |-> lines]
Retracted == [PlainVersion(<<"a", "a">>) EXCEPT !.stored = FALSE]
GuardedVersions ==
    {[stored |-> TRUE, sensitivity |-> v, reps |-> reps, lines |-> <<"a", "a">>] :
       v \in {"internal", "sensitive", "unknown"},
        reps \in {{}, {RawText}, {[RawText EXCEPT !.utf8 = FALSE]}, {TextOf("redacted", "small")},
           {TextOf("redacted", "large")}, {TextOf("withheld", "small")},
              {RawText, TextOf("redacted", "small")}}}
SeveralTexts == {v \in GuardedVersions : Cardinality(v.reps) > 1}
DiffPairs ==
    [left : {PlainVersion(c) : c \in DiffContents \cup [1..4 -> {"a", "b"}]}, right :
       {PlainVersion(c) : c \in DiffContents}, selected : {<<"unnamed", "unnamed">>}]
    \cup [left : GuardedVersions, right : GuardedVersions \cup {Retracted}, selected :
       {<<"unnamed", "unnamed">>}]
    \cup [left : SeveralTexts, right : SeveralTexts, selected : {<<n, n>> : n \in {"raw", "redacted"}}]
CodecSnapshots == {[output |-> o, input |-> NoFields, run |-> NoFields] :
     o \in {NoFields, [x |-> N(1)], [x |-> O([k |-> N(1)])]}}

\* Plans of three points: chains, forks, cycles and unknown dependencies.
PlanPoint(id, position, deps, risks) ==
    [id |-> id, story |-> "s", position |-> position, deps |-> deps, risks |-> risks]
PointPlans ==
    {[points |-> <<PlanPoint("a", 2, da, {}), PlanPoint("b", 1, db, {"data"}), PlanPoint("c", 1, dc, {})>>,
      mode |-> m, tags |-> IF m = "risk" THEN {"data"} ELSE {}] :
         da \in SUBSET {"a", "b", "c"}, db \in SUBSET {"a", "b", "c"}, dc \in {{}, {"a"}, {"a", "b"}, {"x"}},
         m \in {"none", "risk"}}
\* Candidates for a context of five tokens: two required ones that do not fit
\* together, one that may not be used, and one that fits with the smaller.
BoundEvidence ==
    {[id |-> "ticket", required |-> TRUE, rank |-> 3, tokens |-> 2, eligible |-> TRUE],
     [id |-> "plan", required |-> TRUE, rank |-> 4, tokens |-> 4, eligible |-> TRUE],
     [id |-> "log", required |-> FALSE, rank |-> 1, tokens |-> 3, eligible |-> TRUE],
     [id |-> "note", required |-> FALSE, rank |-> 2, tokens |-> 1, eligible |-> FALSE]}

Route == INSTANCE RoutePatch WITH
        Documents <- AuthoredDocuments, PatchedDocuments <- PatchedDocuments,
        Required <- {}, Mode <- "automatic", MaxPatches <- 2, doc <- routeDoc,
        phase <- routePhase, route <- routeRoute, revision <- routeRevision,
        overrides <- routeOverrides, proposals <- routeProposals,
        approvals <- routeApprovals, authorized <- routeAuthorized, at <- routeAt,
        running <- routeRunning, activated <- routeActivated,
        succeeded <- routeSucceeded, emitted <- routeEmitted
Advance == INSTANCE WorkflowAdvance WITH
        Documents <- {ChoiceAndLoop(0), ChoiceAndLoop(1), ChoiceAndLoop(2)},
        When <- <<{"x"}, {"y"}, {"x", "y"}>>, Outputs <- {"x", "y", "z"},
        Checkpoints <- {2}, MaxVisits <- 6, MaxStops <- 2, doc <- advanceDoc,
        route <- advanceRoute, revision <- advanceRevision,
        accepted <- advanceAccepted, tokens <- advanceTokens, visits <- advanceVisits,
        status <- advanceStatus, attempt <- advanceAttempt, advance <- advanceAdvance,
        stops <- advanceStops
Catalog == INSTANCE WorkflowCatalog WITH
        Clients <- {1, 2}, Keys <- {"k"}, Drafted <- LibraryDrafted,
        Versions <- {V9, V10rc, V10}, FileSets <- LibraryFiles,
        FileOrder <- <<<<"p", V9>>, <<"q", V10>>, <<"q", V9>>>>, Contracts <- {"x"},
        MaxRevision <- 2, MaxPublished <- 2, MaxStarts <- 2,
        installed <- catalogInstalled, nodeDefs <- catalogNodeDefs,
        drafts <- catalogDrafts, used <- catalogUsed, client <- catalogClient,
        publishMu <- catalogPublishMu, starting <- catalogStarting, up <- catalogUp,
        starts <- catalogStarts, published <- catalogPublished
Assess == INSTANCE ReadinessControl WITH
        Contract <- ReadinessContract,
        Submissions <- [i \in {"a"} |-> {[findings |-> f, patch |-> p] :
           f \in [1..1 -> ReadinessFindings] \cup [1..2 -> ReadinessFindings] \cup [1..3 -> BadFindings], p \in {"none", "valid"}} \cup {[findings |-> <<f>>, patch |-> "invalid"] : f \in ReadinessFindings}],
        Clients <- {"c"},
        Requests <- [c \in {"c"} |-> {[choice |-> ch, remedy |-> "", key |-> "k"] :
           ch \in {"continue", "accept_route_change"}} \cup {[choice |-> "supply_input",
              remedy |-> "ask", key |-> "k"]}],
        MaxSends <- 1, run <- assessRun, assessment <- assessAssessment,
        order <- assessOrder, client <- assessClient
Readiness == INSTANCE ReadinessControl WITH
        Contract <- ReadinessContract,
        Submissions <- [i \in {"a", "b"} |-> {[findings |-> <<Wire("recommendation",
           [remedyCode |-> "ask"])>>, patch |-> "valid"]}],
        Clients <- {"c", "d"},
        Requests <- [c \in {"c", "d"} |-> IF c = "c"
           THEN {[choice |-> "continue", remedy |-> "", key |-> "k"]}
              ELSE {[choice |-> "continue", remedy |-> "", key |-> k] :
                 k \in {"k", "d"}} \cup {[choice |-> "cancel", remedy |-> "", key |-> "k"]}],
        MaxSends <- 2, run <- readinessRun, assessment <- readinessAssessment,
        order <- readinessOrder, client <- readinessClient
Prepare == INSTANCE Preparation WITH
        Boundaries <- 1..4,
        NodesOf <- <<{"a"}, {"a", "b"}, {"a", "c"}, {"a", "b", "c"}>>, Issues <- {},
        Missing <- <<{"spec"}, {}, {}, {}>>, Default <- 3, Inputs <- PreparationInputs,
        Advices <- [confidence : {"high", "low"}, items : [1..3 -> AdviceItems]],
        MaxRuns <- 1, runs <- prepareRuns, call <- prepareCall
Again == INSTANCE Preparation WITH
        Boundaries <- 1..2, NodesOf <- <<{"a"}, {"a", "b"}>>, Issues <- {},
        Missing <- <<{}, {}>>, Default <- 2, Inputs <- PreparationInputs,
        Advices <- [confidence : {"high"}, items :
           [1..2 -> {i \in AdviceItems : i.b = 2} \cup {[i EXCEPT !.b = 1] :
              i \in {j \in AdviceItems : j.b = 2}}]],
        MaxRuns <- 2, runs <- againRuns, call <- againCall
Codec == INSTANCE WorkflowCodec WITH

        References <- [r \in {"output.x", "output.x.k",
           "input.y"} |-> CASE r = "output.x" -> <<"output", "x">> [] r = "output.x.k" -> <<"output",
              "x", "k">> [] OTHER -> <<"input", "y">>],
        Identifiers <- {"a", "b"}, Sources <- {"run.input.a", "node.a.output.b"},
        Pointers <- {"/p"}, Digests <- {"d"}, Versions <- {"1.0.0"},
        Documents <- CodecDocuments, Snapshots <- CodecSnapshots, text <- codecText,
        document <- codecDocument, first <- codecFirst, stage <- codecStage
Intake == INSTANCE WorkIntake WITH
        Callers <- {"c1", "c2"}, Keys <- {"k1", "k2"}, Sources <- {"src"},
        Blank <- " ",
        WorkRequests <- {[evidence |-> <<"a", " ", "b", "a">>, mode |-> "", workflow |-> "none"],
           [evidence |-> <<"b">>, mode |-> "override", workflow |-> "w"],
              [evidence |-> <<>>, mode |-> "override", workflow |-> " "],
                 [evidence |-> <<>>, mode |-> "", workflow |-> "w"],
                    [evidence |-> <<>>, mode |-> "automatic", workflow |-> "w"]},
        MaxCalls <- 4, commands <- intakeCommands, projects <- intakeProjects,
        works <- intakeWorks, workspaces <- intakeWorkspaces, calls <- intakeCalls,
        answers <- intakeAnswers, up <- intakeUp, life <- intakeLife,
        started <- intakeStarted
Diff == INSTANCE ArtifactDiff WITH
        Pairs <- DiffPairs,
        Others <- {PlainVersion(<<"a">>), PlainVersion(<<"b", "a", "b", "a">>)},
        Extracted <- RawText, Bytes <- [l \in {"a", "b"} |-> IF l = "a" THEN 1 ELSE 2],
        ContextLines <- 1, MaxWorkUnits <- 9, HunkSize <- 2, Limits <- {2, 3},
        MaxPageBytes <- 3, MaxChanges <- 1, left <- diffLeft, right <- diffRight,
        selected <- diffSelected, limit <- diffLimit, cursor <- diffCursor,
        shown <- diffShown, status <- diffStatus, audit <- diffAudit,
        changes <- diffChanges
Lineage == INSTANCE ArtifactLineage WITH
        Artifacts <- {"a", "b"}, MaxVersions <- 4, MaxRows <- 3, log <- lineageLog,
        edges <- lineageEdges, invalidations <- lineageInvalidations,
        binding <- lineageBinding
Selection == INSTANCE ContextEvidence WITH
        Evidence <- BoundEvidence, Attempts <- {1, 2}, Calls <- {"p", "q"},
        Keys <- {"k", "l"}, Budget <- 6, Reserved <- 1, MaxRequests <- 2,
        call <- selectionCall, manifest <- selectionManifest,
        requests <- selectionRequests
Quota == INSTANCE PluginWorkspace WITH
        Callers <- {"c1", "c2"}, AttemptOf <- [c \in {"c1", "c2"} |-> "a1"],
        Names <- {"f", "g"}, Contents <- {"x", "yy"},
        Size <- [d \in {"x", "yy"} |-> IF d = "x" THEN 1 ELSE 2], Keys <- {"k"},
        AreaBytes <- 3, AreaFiles <- 2, MaxCalls <- 3, files <- quotaFiles,
        temps <- quotaTemps, whole <- quotaWhole, mu <- quotaMu, calls <- quotaCalls,
        artifacts <- quotaArtifacts, attached <- quotaAttached,
        answers <- quotaAnswers, started <- quotaStarted
Planned == INSTANCE PointExecution WITH
        Plans <- PointPlans, Trees <- {"t1", "t2"}, Callers <- {},
        Operations <- {"o", "p"}, MaxCommits <- 3, files <- plannedFiles,
        history <- plannedHistory, sealed <- plannedSealed, call <- plannedCall
Sealed == INSTANCE WorkspaceDelivery WITH
        Trees <- {"t0", "a", "b"},
        Plan <- <<"prepare", "edit", "commit", "push", "edit", "commit">>,
        MaxCrashes <- 1, MaxLost <- 0, MaxStray <- 1, MaxRemote <- 0,
        stage <- sealedStage, job <- sealedJob, main <- sealedMain,
        record <- sealedRecord, work <- sealedWork, sealed <- sealedSealed,
        intent <- sealedIntent, published <- sealedPublished,
        accepted <- sealedAccepted, remote <- sealedRemote, pulls <- sealedPulls,
        crashes <- sealedCrashes, lost <- sealedLost, stray <- sealedStray,
        foreign <- sealedForeign

routeVars ==
    <<routeDoc, routePhase, routeRoute, routeRevision, routeOverrides, routeProposals,
      routeApprovals, routeAuthorized, routeAt, routeRunning, routeActivated,
      routeSucceeded, routeEmitted>>
advanceVars ==
    <<advanceDoc, advanceRoute, advanceRevision, advanceAccepted, advanceTokens,
      advanceVisits, advanceStatus, advanceAttempt, advanceAdvance, advanceStops>>
catalogVars ==
    <<catalogInstalled, catalogNodeDefs, catalogDrafts, catalogUsed, catalogClient,
      catalogPublishMu, catalogStarting, catalogUp, catalogStarts, catalogPublished>>
assessVars ==
    <<assessRun, assessAssessment, assessOrder, assessClient>>
readinessVars ==
    <<readinessRun, readinessAssessment, readinessOrder, readinessClient>>
prepareVars ==
    <<prepareRuns, prepareCall>>
againVars ==
    <<againRuns, againCall>>
codecVars ==
    <<codecText, codecDocument, codecFirst, codecStage>>
intakeVars ==
    <<intakeCommands, intakeProjects, intakeWorks, intakeWorkspaces, intakeCalls,
      intakeAnswers, intakeUp, intakeLife, intakeStarted>>
diffVars ==
    <<diffLeft, diffRight, diffSelected, diffLimit, diffCursor, diffShown, diffStatus,
      diffAudit, diffChanges>>
lineageVars ==
    <<lineageLog, lineageEdges, lineageInvalidations, lineageBinding>>
selectionVars ==
    <<selectionCall, selectionManifest, selectionRequests>>
quotaVars ==
    <<quotaFiles, quotaTemps, quotaWhole, quotaMu, quotaCalls, quotaArtifacts,
      quotaAttached, quotaAnswers, quotaStarted>>
plannedVars ==
    <<plannedFiles, plannedHistory, plannedSealed, plannedCall>>
sealedVars ==
    <<sealedStage, sealedJob, sealedMain, sealedRecord, sealedWork, sealedSealed,
      sealedIntent, sealedPublished, sealedAccepted, sealedRemote, sealedPulls,
      sealedCrashes, sealedLost, sealedStray, sealedForeign>>
vars == <<subject, routeVars, advanceVars, catalogVars, assessVars, readinessVars, prepareVars,
     againVars, codecVars, intakeVars, diffVars, lineageVars, selectionVars, quotaVars, plannedVars,
        sealedVars>>

Init ==
    /\ subject \in {"route", "advance", "catalog", "assess", "readiness", "prepare", "again", "codec",
          "intake", "diff", "lineage", "selection", "quota", "planned", "sealed"}
    /\ subject = "route" \/ routeDoc = Document(<<"on", "on", "off", "absent">>, {3}, "fanout", "all")
    /\ Route!Init
    /\ subject = "advance" \/ advanceDoc = ChoiceAndLoop(1)
    /\ Advance!Init
    /\ Catalog!Init
    /\ Assess!Init
    /\ Readiness!Init
    /\ Prepare!Init
    /\ Again!Init
    /\ subject = "codec" \/ codecText = CHOOSE d \in CodecDocuments : TRUE
    /\ Codec!Init
    /\ Intake!Init
    /\ Diff!Init
    /\ Lineage!Init
    /\ Selection!Init
    /\ Quota!Init
    /\ Planned!Init
    /\ Sealed!Init


Next ==
    /\ UNCHANGED subject
    /\ \/ /\ subject = "route" /\ Route!Next
          /\ UNCHANGED <<advanceVars, catalogVars, assessVars, readinessVars, prepareVars, againVars,
                codecVars, intakeVars, diffVars, lineageVars, selectionVars, quotaVars, plannedVars,
                   sealedVars>>
       \/ /\ subject = "advance" /\ Advance!Next
          /\ UNCHANGED <<routeVars, catalogVars, assessVars, readinessVars, prepareVars, againVars,
                codecVars, intakeVars, diffVars, lineageVars, selectionVars, quotaVars, plannedVars,
                   sealedVars>>
       \/ /\ subject = "catalog" /\ Catalog!Next
          /\ UNCHANGED <<routeVars, advanceVars, assessVars, readinessVars, prepareVars, againVars,
                codecVars, intakeVars, diffVars, lineageVars, selectionVars, quotaVars, plannedVars,
                   sealedVars>>
       \/ /\ subject = "assess" /\ Assess!Next
          /\ UNCHANGED <<routeVars, advanceVars, catalogVars, readinessVars, prepareVars, againVars,
                codecVars, intakeVars, diffVars, lineageVars, selectionVars, quotaVars, plannedVars,
                   sealedVars>>
       \/ /\ subject = "readiness" /\ Readiness!Next
          /\ UNCHANGED <<routeVars, advanceVars, catalogVars, assessVars, prepareVars, againVars,
                codecVars, intakeVars, diffVars, lineageVars, selectionVars, quotaVars, plannedVars,
                   sealedVars>>
       \/ /\ subject = "prepare" /\ Prepare!Next
          /\ UNCHANGED <<routeVars, advanceVars, catalogVars, assessVars, readinessVars, againVars,
                codecVars, intakeVars, diffVars, lineageVars, selectionVars, quotaVars, plannedVars,
                   sealedVars>>
       \/ /\ subject = "again" /\ Again!Next
          /\ UNCHANGED <<routeVars, advanceVars, catalogVars, assessVars, readinessVars, prepareVars,
                codecVars, intakeVars, diffVars, lineageVars, selectionVars, quotaVars, plannedVars,
                   sealedVars>>
       \/ /\ subject = "codec" /\ Codec!Next
          /\ UNCHANGED <<routeVars, advanceVars, catalogVars, assessVars, readinessVars, prepareVars,
                againVars, intakeVars, diffVars, lineageVars, selectionVars, quotaVars, plannedVars,
                   sealedVars>>
       \/ /\ subject = "intake" /\ Intake!Next
          /\ UNCHANGED <<routeVars, advanceVars, catalogVars, assessVars, readinessVars, prepareVars,
                againVars, codecVars, diffVars, lineageVars, selectionVars, quotaVars, plannedVars,
                   sealedVars>>
       \/ /\ subject = "diff" /\ Diff!Next
          /\ UNCHANGED <<routeVars, advanceVars, catalogVars, assessVars, readinessVars, prepareVars,
                againVars, codecVars, intakeVars, lineageVars, selectionVars, quotaVars, plannedVars,
                   sealedVars>>
       \/ /\ subject = "lineage" /\ Lineage!Next
          /\ UNCHANGED <<routeVars, advanceVars, catalogVars, assessVars, readinessVars, prepareVars,
                againVars, codecVars, intakeVars, diffVars, selectionVars, quotaVars, plannedVars,
                   sealedVars>>
       \/ /\ subject = "selection" /\ Selection!Next
          /\ UNCHANGED <<routeVars, advanceVars, catalogVars, assessVars, readinessVars, prepareVars,
                againVars, codecVars, intakeVars, diffVars, lineageVars, quotaVars, plannedVars,
                   sealedVars>>
       \/ /\ subject = "quota" /\ Quota!Next
          /\ UNCHANGED <<routeVars, advanceVars, catalogVars, assessVars, readinessVars, prepareVars,
                againVars, codecVars, intakeVars, diffVars, lineageVars, selectionVars, plannedVars,
                   sealedVars>>
       \/ /\ subject = "planned" /\ Planned!Next
          /\ UNCHANGED <<routeVars, advanceVars, catalogVars, assessVars, readinessVars, prepareVars,
                againVars, codecVars, intakeVars, diffVars, lineageVars, selectionVars, quotaVars,
                   sealedVars>>
       \/ /\ subject = "sealed" /\ Sealed!Next
          /\ UNCHANGED <<routeVars, advanceVars, catalogVars, assessVars, readinessVars, prepareVars,
                againVars, codecVars, intakeVars, diffVars, lineageVars, selectionVars, quotaVars,
                   plannedVars>>

Spec == Init /\ [][Next]_vars

-----------------------------------------------------------------------------

\* Routes (route.go, patch.go, frame.go, workflow_scheduler.go), and the plans
\* of points (pointexecution/service.go), which no part of the daemon executes
\* yet.
\* ValidFreezes: A valid document can be run as it stands: its default route
\* freezes, the validator and the route builder agreeing on what a terminal
\* cuts off.
\* RunCanFinish: However the route is patched under way, the visit the run
\* stands at is in it and a terminal can be reached from there.
\* ChangeIsConsented: A route changes only into one that was derived from
\* exactly the route it replaces, and a run is carried past its old terminals
\* to a new one only with a person's approval of that very change.
\* LoopsAreBudgeted: Loops are paid for: between two visits of one node the run
\* fired a bounded transition, and no transition is followed more often than
\* its budget, across retries and restarts.
\* AcceptedIsRecorded: The outputs that later nodes read are the recorded ones:
\* the context, saved apart from the events and ahead of them, agrees with the
\* last closed visit of every node, unless an attempt of the open visit saved
\* after it.
\* VisitsDiffer: Visits have different identities.
\* PlanGoesOn: A valid plan whose points are all ready or finished never waits
\* for itself, and a plan that only its cycles make invalid would.
RoutesCanFinish ==
    /\ [](subject = "route" => Route!TypeOK /\ Route!ValidFreezes /\ Route!RunCanFinish)
    /\ Route!ChangeIsConsented
    /\ [](subject = "advance" =>
          Advance!TypeOK /\ Advance!LoopsAreBudgeted /\ Advance!AcceptedIsRecorded /\
          Advance!VisitsDiffer)
    /\ [](subject = "planned" => Planned!TypeOK /\ Planned!PlanGoesOn)

\* The route a run is prepared for and its readiness
\* (preparation/assessment.go, runexecution/preparation.go,
\* routeassessment/assessment.go, readinesscontrol/service.go), and the
\* selection of evidence for a context (contextmanifest/service.go), which no
\* part of the daemon calls yet.
\* ReadyIsSafe: A run that may start unasked was asked for by name, or is the
\* smallest route the advisor found suitable, with certainty, within the
\* default scope, on assumptions the policy allows; and it crosses no
\* consequential node and lacks nothing.  The wording of an answer never
\* launches more.
\* AsksAboutOneRoute: What is asked is about one route, never about
\* alternatives that exclude one another, unless the old policy is in force;
\* and a run that waits for an answer has something to answer.
\* OrderDecidesNothing: The order in which the advisor lists the candidates
\* decides nothing, under the policies in use: the assessment of a run is that
\* of any permutation.
\* SameInputSameRoute: The advisor is asked once for one input: two runs of a
\* work item prepared one after the other from the same input have the same
\* assessment, whatever it would have said the second time.
\* BlockedIsNotContinued: However a provider orders its findings, a run one of
\* them blocks is not continued by a choice: nothing is decided "continue"
\* while an invariant is reported violated or a gate that is not advisory
\* unsatisfied, and nothing is ready while a finding asks for anything
\* (deriveDisposition, gateDisposition).
\* RecordedIsRestored: What was recorded can be restored: derived again from
\* its stored form, an assessment is still valid and has the disposition it was
\* recorded with, or it could neither be shown nor decided (restore answers
\* ErrAssessmentConflict).
\* OfferedIsAccepted: What a view offers is what a decision may be:
\* allowedActions and validateDecisionRequest, written apart, agree on every
\* recorded assessment.
\* RecordedIsMine: An operator who is told "recorded" sees the choice that was
\* made recorded, whoever else decided, and a recorded decision is never
\* replaced.
\* SelectionIsSound: A frozen manifest is within its budget and leaves out no
\* required candidate, and optional evidence only where what comes before it
\* had used the budget up; and whoever was answered for an attempt, overlapping
\* or repeating another, selected what that attempt's one manifest holds.
PlannedIsSafe ==
    /\ subject = "prepare" =>
          Prepare!TypeOK /\ Prepare!ReadyIsSafe /\ Prepare!AsksAboutOneRoute /\
          Prepare!OrderDecidesNothing
    /\ subject = "again" => Again!TypeOK /\ Again!SameInputSameRoute
    /\ subject = "assess" =>
          Assess!TypeOK /\ Assess!BlockedIsNotContinued /\ Assess!RecordedIsRestored /\
          Assess!OfferedIsAccepted
    /\ subject = "readiness" => Readiness!TypeOK /\ Readiness!RecordedIsMine
    /\ subject = "selection" => Selection!SelectionIsSound

\* Versions: the workflow catalog and its documents on the wire (catalog.go,
\* json.go, predicate.go), and the dependencies, bindings and diffs of artifact
\* versions (sqlite/artifact_lineage.go, sqlite/artifact_bindings.go,
\* artifactdiff/diff.go, artifactops/service.go).
\* PublishedInOrder: The drafts of one workflow are published in the order of
\* their versions, compared as numbers and with a pre-release before its
\* release, whoever publishes at the same time and whatever was installed
\* beside (PublishDraft, semanticVersionLess).
\* PublishedWasSeen: What is published is what the client saw when it asked:
\* the draft's calls and definitions, although others edit the draft meanwhile
\* (ExpectedRevision).
\* CheckedCallsHold: A version that Install checked keeps calling what it was
\* checked against: every workflow it reaches is installed, with the digest
\* pinned on the way, none reaches itself, and its node definitions still
\* resolve.  Files installed at a start are not checked, so they may miss a
\* child or form a cycle, but no checked version reaches them then.
\* NoLostEdit: An edit replaces the document its author was looking at, never
\* one written since (the revision in UpdateDraft's WHERE).
\* RoundTrip: Encode never fails on a document Decode accepted, and what it
\* wrote decodes to the same document: publishing, exporting and re-importing a
\* workflow changes nothing of it (json.go:128, catalog digests).
\* Alpha2StaysValid: A document of version v1alpha2 is also one of v1alpha3 and
\* decodes to the same nodes: raising the version of a workflow refuses nothing
\* (json.go:442-458, 901).
\* ArgumentsCommute: The order in which the arguments of `all` and `any` are
\* written decides nothing, not even whether evaluation fails: arguments are
\* not skipped (predicate.go:105; execution-semantics.md).
\* ComparisonsAgree: Comparison is consistent: equal means the same value,
\* equal values are neither less nor greater, and less is greater the other way
\* round (predicate.go:211-300).
\* NoDependencyCycle: No version depends on itself, directly or through others.
\* BindingMovesForward: Rebinding never moves a target back to an older version
\* or another artifact.
\* InvalidationFollowsPaths: Freshness follows every path: a new version marks
\* exactly the versions that depend, however indirectly, on the one it
\* replaces, as invalidated when some dependency on some path says so and as
\* potentially stale otherwise, and no mark is ever taken back.
\* DiffIsExact: What the reader was shown is a diff of the two versions: in
\* order, every line of the left one is shown as removed, unchanged or omitted,
\* every line of the right one as added, unchanged or omitted, with its number
\* and its text, and what is omitted is the same on both sides.
\* DiffIsMinimal: No diff of the two versions keeps more lines: setting the
\* common ends apart loses nothing of the longest alignment.
\* PagesAreOfOneDiff: The pages a reader collected are exactly the diff of one
\* pair of versions under one page size, though the selection changed between
\* two of them.
\* GuardedIsRedacted: Lines of a sensitive version are only ever shown
\* redacted, and then beside redacted lines only: a raw line next to them would
\* tell what was redacted.  This holds of a representation the reader names as
\* well.
VersionsStayTrue ==
    /\ [](subject = "catalog" =>
          Catalog!TypeOK /\ Catalog!PublishedInOrder /\ Catalog!PublishedWasSeen /\
          Catalog!CheckedCallsHold)
    /\ Catalog!NoLostEdit
    /\ [](subject = "codec" =>
          Codec!TypeOK /\ Codec!RoundTrip /\ Codec!Alpha2StaysValid /\
          Codec!ArgumentsCommute /\ Codec!ComparisonsAgree)
    /\ [](subject = "lineage" =>
          Lineage!TypeOK /\ Lineage!NoDependencyCycle /\ Lineage!BindingMovesForward)
    /\ Lineage!InvalidationFollowsPaths
    /\ [](subject = "diff" =>
          Diff!TypeOK /\ Diff!DiffIsExact /\ Diff!DiffIsMinimal /\
          Diff!PagesAreOfOneDiff /\ Diff!GuardedIsRedacted)

\* Workspaces: what a commit node delivers (workflow_delivery.go,
\* repository/git), the quota of the files of plugins
\* (adapters/workspace/folder), and the workspaces of admitted work
\* (workmanagement/service.go).
\* SealedIsCommitted: What a commit node answers with holds the changeset that
\* was sealed for it, if fewer than three edits come from outside: the pin, the
\* check against the sealed digest and the capture read the files at three
\* different times.
\* QuotaHolds: The files a plugin sees stay within the quota of their area,
\* also when temporary files of interrupted replacements are left behind and
\* when a replacement is larger than what it replaces (WriteFile, ReplaceFile).
\* OneResultPerKey: A key takes in one work item, as it was asked for: however
\* calls of the key race, stop and repeat, every success names the same value,
\* that value is recorded, and its request is the one answered (createWork,
\* begin, complete).
\* ServedWorkHasWorkspace: A command answers only after its work item has a
\* workspace, and the daemon serves only once the work of its earlier lives has
\* one, also work whose call never came to its end (ReconcileWorkspaces,
\* ensureWorkspace).
\* EvidenceIsKept: What is recorded of authored work lost nothing but blanks
\* and repetitions, and comes in the order in which it was first written; work
\* that is routed by hand names its workflow, and no other does
\* (normalizedEvidence, normalizedRoutingIntent).
\* RegisteredIsFound: A registration that begins when its source has a project
\* never records a second one; only registrations that overlap can
\* (RegisterProject).
WorkspacesAreSafe ==
    /\ [](subject = "sealed" => Sealed!TypeOK /\ Sealed!SealedIsCommitted)
    /\ [](subject = "quota" => Quota!TypeOK /\ Quota!QuotaHolds)
    /\ [](subject = "intake" =>
          Intake!TypeOK /\ Intake!OneResultPerKey /\ Intake!ServedWorkHasWorkspace /\
          Intake!EvidenceIsKept)
    /\ Intake!RegisteredIsFound
=============================================================================
