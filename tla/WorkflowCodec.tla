---------------------------- MODULE WorkflowCodec ----------------------------
(***************************************************************************)
(* Workflow documents on the wire (core/workflow/json.go, schema.go,       *)
(* resources.go).  Decode is strict: unknown fields, contradictory         *)
(* variants and fields of a later version are refused.  Encode leaves      *)
(* defaults out and decodes what it wrote before it answers.  Catalogs     *)
(* keep encoded documents and their digests, so what is decoded, encoded   *)
(* and decoded again has to be the same document.  Strings that a pattern  *)
(* checks are members of the sets below; a plain struct is the function    *)
(* of its fields, a pointer, map or list that is nil is Absent.            *)
(*                                                                         *)
(* First the closed predicate language: how a predicate is read, written   *)
(* and evaluated (predicate.go).  A JSON value is a tuple that begins with *)
(* its kind; "decimal" is a number written with a point or an exponent,    *)
(* here in halves, so <<"decimal", 2>> is 1.0.  A reference is a name that *)
(* References resolves to its root and members.                            *)
(***************************************************************************)
EXTENDS Naturals, Sequences, FiniteSets, SequencesExt, TLC

CONSTANTS References,   \* reference name -> <<root, identifier, member...>>
          Identifiers,  \* the valid identifiers
          Sources,      \* the valid sources of bindings and called outputs
          Pointers,     \* the valid JSON pointers
          Digests,      \* the valid digests
          Versions,     \* the valid semantic versions
          Documents,    \* the JSON documents to decode
          Snapshots     \* value snapshots, for the conditions of gates

S(x) == <<"string", x>>
N(n) == <<"number", n>>
B(b) == <<"bool", b>>
A(s) == <<"array", s>>
O(f) == <<"object", f>>
Null == <<"null">>
Absent == <<"absent">>
Bad == <<"bad">>
NoFields == [f \in {} |-> Null]

\* The members of an object; null leaves a struct as it is.
Obj(j) == IF j[1] = "object" THEN j[2] ELSE NoFields
Raw(j, f) == IF f \in DOMAIN Obj(j) THEN Obj(j)[f] ELSE Absent
\* strictDecode: an object, or null, of no unknown fields, each of its kind or
\* null.  A wire type gives the kinds; a pointer's begins with "?".
Kind(k) == IF k = "?bool" THEN "bool" ELSE IF k = "?number" THEN "number" ELSE IF k = "?object" THEN "object" ELSE k
\* mutant of strictDecode: fields nobody knows are ignored
lenientDecode(j, wire) ==
    /\ j[1] \in {"object", "null"}
    /\ \A f \in DOMAIN Obj(j) \cap DOMAIN wire : wire[f] = "raw" \/ Obj(j)[f][1] \in {Kind(wire[f]), "null"}
strictDecode(j, wire) ==
    /\ j[1] \in {"object", "null"}
    /\ \A f \in DOMAIN Obj(j) :
          /\ f \in DOMAIN wire
          /\ wire[f] = "raw" \/ Obj(j)[f][1] \in {Kind(wire[f]), "null"}
Given(j, f) == Raw(j, f)[1] \notin {"absent", "null"}
Str(j, f) == IF Given(j, f) THEN Raw(j, f)[2] ELSE ""
List(j, f) == IF Given(j, f) THEN Raw(j, f)[2] ELSE <<>>

-----------------------------------------------------------------------------
Comparisons == {"eq", "ne", "lt", "lte", "gt", "gte"}
\* Exactly one reference or literal; null is a literal.
decodeOperand(j) ==
    IF ~strictDecode(j, [ref |-> "string", literal |-> "raw"]) \/ Given(j, "ref") = (Raw(j, "literal") # Absent) THEN Bad
    ELSE IF Given(j, "ref")
         THEN IF Str(j, "ref") \in DOMAIN References THEN <<"ref", Str(j, "ref")>> ELSE Bad
         ELSE <<"literal", Raw(j, "literal")>>
decodeComparison(j) ==
    LET args == [i \in DOMAIN List(j, "args") |-> decodeOperand(List(j, "args")[i])]
    IN  IF ~strictDecode(j, [op |-> "string", args |-> "array"]) \/ Len(args) # 2 THEN Bad
        ELSE IF Bad \in Range(args) THEN Bad ELSE <<"compare", Str(j, "op"), args>>
decodePresent(j) ==
    LET operand == decodeOperand(Raw(j, "arg"))
    IN  IF ~strictDecode(j, [op |-> "string", arg |-> "raw"]) \/ operand[1] # "ref" THEN Bad
        ELSE <<"present", operand[2]>>
RECURSIVE decodePredicate(_)
decodeLogical(j) ==
    LET args == [i \in DOMAIN List(j, "args") |-> decodePredicate(List(j, "args")[i])]
    IN  IF ~strictDecode(j, [op |-> "string", args |-> "array"]) \/ Len(args) = 0 THEN Bad
        ELSE IF Bad \in Range(args) THEN Bad ELSE <<"logical", Str(j, "op"), args>>
decodeNot(j) ==
    LET arg == decodePredicate(Raw(j, "arg"))
    IN  IF ~strictDecode(j, [op |-> "string", arg |-> "raw"]) \/ arg = Bad THEN Bad ELSE <<"not", arg>>
decodePredicate(j) ==
    CASE \/ j[1] \notin {"object", "null"}
         \/ Given(j, "op") /\ Raw(j, "op")[1] # "string"
         \/ Given(j, "const") /\ Raw(j, "const")[1] # "bool" -> Bad
      [] OTHER ->
         IF Given(j, "const")
         THEN IF strictDecode(j, [const |-> "bool"]) THEN <<"const", Raw(j, "const")[2]>> ELSE Bad
         ELSE CASE Str(j, "op") \in Comparisons    -> decodeComparison(j)
                [] Str(j, "op") = "present"        -> decodePresent(j)
                [] Str(j, "op") \in {"all", "any"} -> decodeLogical(j)
                [] Str(j, "op") = "not"            -> decodeNot(j)
                [] OTHER                           -> Bad

encodeOperand(o) == IF o[1] = "ref" THEN O([ref |-> S(o[2])]) ELSE O([literal |-> o[2]])
RECURSIVE encodePredicate(_)
encodePredicate(p) ==
    CASE p[1] = "const"   -> O([const |-> B(p[2])])
      [] p[1] = "compare" -> O([op |-> S(p[2]), args |-> A(<<encodeOperand(p[3][1]), encodeOperand(p[3][2])>>)])
      [] p[1] = "present" -> O([op |-> S("present"), arg |-> encodeOperand(<<"ref", p[2]>>)])
      [] p[1] = "logical" -> O([op |-> S(p[2]), args |-> A([i \in DOMAIN p[3] |-> encodePredicate(p[3][i])])])
      [] p[1] = "not"     -> O([op |-> S("not"), arg |-> encodePredicate(p[2])])

-----------------------------------------------------------------------------
\* The value a reference names, or Absent; values gives each root's identifiers.
RECURSIVE Member(_, _)
Member(value, tail) ==
    IF tail = <<>> THEN value
    ELSE IF value[1] # "object" THEN Absent
    ELSE IF Head(tail) \notin DOMAIN value[2] THEN Absent ELSE Member(value[2][Head(tail)], Tail(tail))
resolve(ref, values) ==
    LET path == References[ref]
    IN  IF path[2] \notin DOMAIN values[path[1]] THEN Absent
        ELSE Member(values[path[1]][path[2]], SubSeq(path, 3, Len(path)))
\* A reference to nothing is an error, and so is what depends on it.
operand(o, values) == IF o[1] = "literal" THEN o[2] ELSE resolve(o[2], values)

Quantity(v) == IF v[1] = "number" THEN 2 * v[2] ELSE v[2]
IsNumber(v) == v[1] \in {"number", "decimal"}
\* Numbers of one spelling are equal by value; an integer never equals a decimal.
RECURSIVE equalPredicateValues(_, _)
\* mutant of equalPredicateValues: as many members are the same members
equalSizes(l, r) ==
    /\ l[1] = r[1]
    /\ CASE l[1] = "null"   -> TRUE
         [] l[1] = "array"  -> Len(l[2]) = Len(r[2])
         [] l[1] = "object" -> Cardinality(DOMAIN l[2]) = Cardinality(DOMAIN r[2])
         [] OTHER           -> l[2] = r[2]
equalPredicateValues(l, r) ==
    /\ l[1] = r[1]
    /\ CASE l[1] = "null"   -> TRUE
         [] l[1] = "array"  -> Len(l[2]) = Len(r[2]) /\ \A i \in DOMAIN l[2] : equalPredicateValues(l[2][i], r[2][i])
         [] l[1] = "object" -> DOMAIN l[2] = DOMAIN r[2] /\ \A f \in DOMAIN l[2] : equalPredicateValues(l[2][f], r[2][f])
         [] OTHER           -> l[2] = r[2]
\* Two numbers, or two strings (here ordered by Alphabet), have an order.
Alphabet == <<"", "a", "b">>
comparable(l, r) == (l[1] = "string" /\ r[1] = "string") \/ (IsNumber(l) /\ IsNumber(r))
order(l, r) ==
    LET rank(v) == IF v[1] = "string" THEN CHOOSE i \in DOMAIN Alphabet : Alphabet[i] = v[2] ELSE Quantity(v)
    IN  CASE rank(l) < rank(r) -> "less" [] rank(l) > rank(r) -> "greater" [] OTHER -> "same"

Truth(b) == IF b THEN "true" ELSE "false"
evaluateComparison(op, args, values) ==
    LET l == operand(args[1], values)
        r == operand(args[2], values)
    IN  IF Absent \in {l, r} \/ (op \notin {"eq", "ne"} /\ ~comparable(l, r)) THEN "error"
        ELSE CASE op = "eq"  -> Truth(equalPredicateValues(l, r))
               [] op = "ne"  -> Truth(~equalPredicateValues(l, r))
               [] op = "lt"  -> Truth(order(l, r) = "less")
               [] op = "lte" -> Truth(order(l, r) # "greater")
               [] op = "gt"  -> Truth(order(l, r) = "greater")
               [] OTHER      -> Truth(order(l, r) # "less")
\* mutant of logical: the arguments after the one that decides are not looked at
logicalLazy(op, results) ==
    LET stops == {i \in DOMAIN results : results[i] # Truth(op = "all")}
    IN  IF stops = {} THEN Truth(op = "all") ELSE results[CHOOSE i \in stops : \A k \in stops : i <= k]
\* No short circuit: an error in any argument is the result.
logical(op, results) ==
    IF "error" \in Range(results) THEN "error"
    ELSE Truth(IF op = "all" THEN "false" \notin Range(results) ELSE "true" \in Range(results))
RECURSIVE evaluate(_, _)
evaluate(p, values) ==
    CASE p[1] = "const"   -> Truth(p[2])
      [] p[1] = "compare" -> evaluateComparison(p[2], p[3], values)
      [] p[1] = "present" -> Truth(resolve(p[2], values) # Absent)
      [] p[1] = "logical" -> logical(p[2], [i \in DOMAIN p[3] |-> evaluate(p[3][i], values)])
      [] p[1] = "not"     -> LET r == evaluate(p[2], values)
                             IN IF r = "error" THEN r ELSE Truth(r = "false")

-----------------------------------------------------------------------------

VARIABLES text,         \* the document as JSON
          document,     \* what it decoded to, Absent before
          first,        \* what it decoded to at first
          stage         \* "text", "decoded", "refused", "failed"

vars == <<text, document, first, stage>>
Alpha1 == "v1alpha1"
Alpha2 == "v1alpha2"
Alpha3 == "v1alpha3"
Blank == {"", " "}

-----------------------------------------------------------------------------
\* A struct of wire type: its fields, nil or zero where the text gives none.
Zero(k) ==
    CASE k = "string" -> S("") [] k = "number" -> N(0) [] k = "bool" -> B(FALSE)
      [] OTHER -> Absent
Struct(j, wire) ==
    [f \in DOMAIN wire |->
        IF wire[f] = "raw" THEN Raw(j, f) ELSE IF Given(j, f) THEN Raw(j, f) ELSE Zero(wire[f])]
Empty(v) ==
    CASE v[1] = "absent" -> TRUE [] v[1] = "string" -> v[2] = "" [] v[1] = "array" -> v[2] = <<>>
      [] v[1] = "object" -> DOMAIN v[2] = {} [] OTHER -> FALSE
\* Marshal: the fields of a struct without the empty ones it omits; nil is null.
\* A raw value is omitted only when there is none.
RawFields == {"schemaDefinition", "default"}
Marshal(s, omitempty) ==
    LET kept == {f \in DOMAIN s : IF f \in RawFields THEN s[f] # Absent ELSE f \in omitempty => ~Empty(s[f])}
    IN  O([f \in kept |-> IF s[f] = Absent THEN Null ELSE s[f]])
With(cond, f, j) == IF cond THEN f :> j ELSE NoFields
Texts(v) == IF v[1] = "array" THEN [i \in DOMAIN v[2] |-> v[2][i][2]] ELSE <<>>
AllOf(v, kind) == v[1] = "array" => \A i \in DOMAIN v[2] : v[2][i][1] = kind
\* validateUniqueStrings, validateIdentifierList
uniqueStrings(v) == AllOf(v, "string") /\ IsInjective(Texts(v))
identifierList(v) == uniqueStrings(v) /\ Range(Texts(v)) \subseteq Identifiers
ident(s) == s[2] \in Identifiers
nonBlank(s) == s[2] \notin Blank

ValueTypes ==
    {"workspace", "null", "boolean", "integer", "number", "string", "array", "object", "task", "repository",
     "template", "markdown", "open_items", "decision_log"}
validateValueType(s) == s[2] \in ValueTypes \cup {"schema:x"}
StorageType(t) ==
    CASE t \in {"schema:x", "task", "repository", "workspace", "template", "open_items", "decision_log"} -> "object"
      [] t = "markdown" -> "string" [] OTHER -> t
\* displayName and schema: absent, or a text that is not empty; null is neither.
optionalText(v) == v = Absent \/ (v[1] = "string" /\ v[2] # "")
TextOf(v) == IF v = Absent THEN S("") ELSE v
\* An object whose members all decode, by decode(_); nothing else, not null.
decodeMap(j, decode(_)) ==
    IF j[1] # "object" THEN Bad
    ELSE LET m == [f \in DOMAIN j[2] |-> decode(j[2][f])]
         IN  IF DOMAIN m \subseteq Identifiers /\ Bad \notin {m[f] : f \in DOMAIN m} THEN <<"map", m>> ELSE Bad
encodeMap(m, encode(_)) == O([f \in DOMAIN m[2] |-> encode(m[2][f])])
decodeList(j, decode(_)) ==
    LET l == [i \in DOMAIN (IF j[1] = "array" THEN j[2] ELSE <<>>) |-> decode(j[2][i])]
    IN  IF Bad \in Range(l) THEN Bad ELSE <<"list", l>>
encodeList(l, encode(_)) == A([i \in DOMAIN l[2] |-> encode(l[2][i])])

-----------------------------------------------------------------------------
(* Resources and declarations *)
ReferenceWire == [id |-> "string", version |-> "string", digest |-> "string"]
referenceValid(j) ==
    /\ strictDecode(j, ReferenceWire)
    /\ Str(j, "id") \in Identifiers /\ Str(j, "version") \in Versions /\ Str(j, "digest") \in Digests
ResourceWires ==
    [artifact |-> [filename |-> "string", content |-> "string"], task |-> NoFields, repository |-> NoFields,
     template |-> [content |-> "string", version |-> "string", requiredHeadings |-> "array"],
     template_reference |-> [reference |-> "raw"], constant |-> [value |-> "raw"], config |-> [key |-> "string"],
     open_items |-> NoFields, decision_log |-> NoFields]
resourceValid(kind, body) ==
    CASE kind = "artifact"           -> body.filename[2] \notin {"", "a/b"}
      [] kind = "template"           -> nonBlank(body.content) /\ body.version[2] \in Versions /\ AllOf(body.requiredHeadings, "string")
      [] kind = "template_reference" -> referenceValid(body.reference)
      [] kind = "constant"           -> body.value # Absent
      [] kind = "config"             -> nonBlank(body.key)
      [] OTHER                       -> TRUE
decodeResource(j) ==
    LET kind == Str(j, "kind")
        body == O([f \in DOMAIN Obj(j) \ {"kind"} |-> Obj(j)[f]])
    IN  IF j[1] # "object" \/ Raw(j, "kind")[1] # "string" THEN Bad
        ELSE IF kind \notin DOMAIN ResourceWires THEN Bad
        ELSE IF ~strictDecode(body, ResourceWires[kind]) THEN Bad
        ELSE IF resourceValid(kind, Struct(body, ResourceWires[kind])) THEN <<"resource", kind, Struct(body, ResourceWires[kind])>> ELSE Bad
encodeResource(r) == O(Obj(Marshal(r[3], {"requiredHeadings"})) @@ ("kind" :> S(r[2])))

DeclarationWire ==
    [type |-> "string", schemaDefinition |-> "raw", schema |-> "raw", description |-> "string", resource |-> "?object"]
decodeValueDeclaration(j) ==
    LET d == Struct(j, DeclarationWire)
        resource == IF Given(j, "resource") THEN decodeResource(d.resource) ELSE Absent
    IN  IF strictDecode(j, DeclarationWire) /\ validateValueType(d.type) /\ optionalText(d.schema) /\ resource # Bad
        THEN <<"declaration", [d EXCEPT !.schema = TextOf(@), !.resource = resource]>> ELSE Bad
encodeValueDeclaration(d) ==
    Marshal([d[2] EXCEPT !.resource = IF @ = Absent THEN @ ELSE encodeResource(@)],
            {"resource", "schemaDefinition", "schema", "description"})
OutputWire ==
    [type |-> "string", schemaDefinition |-> "raw", schema |-> "raw", description |-> "string", required |-> "?bool",
     artifact |-> "?object"]
decodeOutputDeclaration(j) ==
    LET d == Struct(j, OutputWire)
        artifactWire == [filename |-> "string", templateInput |-> "string"]
    IN  IF /\ strictDecode(j, OutputWire) /\ validateValueType(d.type) /\ optionalText(d.schema)
           /\ d.artifact = Absent \/ strictDecode(d.artifact, artifactWire)
        THEN <<"output", [d EXCEPT !.schema = TextOf(@), !.artifact = IF @ = Absent THEN @ ELSE O(Struct(@, artifactWire))]>>
        ELSE Bad
\* mutant of encodeOutputDeclaration: false is left out like an empty text
encodeOutputOmittingFalse(d) ==
    Marshal([d[2] EXCEPT !.required = IF @ = B(FALSE) THEN Absent ELSE @,
                         !.artifact = IF @ = Absent THEN @ ELSE Marshal(@[2], {"templateInput"})],
            {"artifact", "schemaDefinition", "schema", "description", "required"})
encodeOutputDeclaration(d) ==
    Marshal([d[2] EXCEPT !.artifact = IF @ = Absent THEN @ ELSE Marshal(@[2], {"templateInput"})],
            {"artifact", "schemaDefinition", "schema", "description", "required"})

BindingWire ==
    [from |-> "string", pointer |-> "string", type |-> "string", required |-> "?bool", default |-> "raw", description |-> "string"]
\* A binding is required unless it says otherwise, and only then has a default.
decodeBinding(j) ==
    LET b == Struct(j, BindingWire)
        required == b.required \in {Absent, B(TRUE)}
    IN  IF /\ strictDecode(j, BindingWire) /\ b.from[2] \in Sources /\ validateValueType(b.type)
           /\ b.pointer[2] \in Pointers \cup {""} /\ (required => b.default = Absent)
        THEN <<"binding", [b EXCEPT !.required = B(required)]>> ELSE Bad
\* mutant of encodeBinding: a binding without a default is written as a required one
encodeBindingByDefault(b) ==
    Marshal([b[2] EXCEPT !.required = IF b[2].default = Absent THEN Absent ELSE B(FALSE)],
            {"pointer", "required", "default", "description"})
encodeBinding(b) ==
    Marshal([b[2] EXCEPT !.required = IF @ = B(TRUE) THEN Absent ELSE @],
            {"pointer", "required", "default", "description"})

-----------------------------------------------------------------------------
(* The parts of a node *)
ReadinessWire == [recommendedEvidence |-> "array", policyGates |-> "array", invariants |-> "array", remedies |-> "array"]
\* A list of structs with distinct keys, each of which the test accepts.
Listed(v, wire, key, test(_)) ==
    /\ \A i \in DOMAIN v[2] : strictDecode(v[2][i], wire)
    /\ LET s == [i \in DOMAIN v[2] |-> Struct(v[2][i], wire)]
       IN  IsInjective([i \in DOMAIN s |-> s[i][key]]) /\ \A i \in DOMAIN s : ident(s[i][key]) /\ nonBlank(s[i].description) /\ test(s[i])
evidenceTest(e) == TRUE
gateTest(g) == g.enforcement[2] \in {"advisory", "blocking", "external"}
remedyTest(r) ==
    /\ ident(r.target)
    /\ r.action[2] \in {"supply_input", "revise_artifact", "clarify_decision", "install_capability", "rerun_validation"}
decodeReadiness(j) ==
    LET c == Struct(j, ReadinessWire)
        described == [description |-> "string"]
    IN  IF j = Absent THEN Absent
        ELSE IF ~strictDecode(j, ReadinessWire) \/ \E f \in DOMAIN c : c[f] = Absent THEN Bad
        ELSE IF /\ Listed(c.recommendedEvidence, described @@ [role |-> "string"], "role", evidenceTest)
                /\ Listed(c.policyGates, described @@ [policy |-> "string", enforcement |-> "string"], "policy", gateTest)
                /\ uniqueStrings(c.invariants)
                /\ Listed(c.remedies, described @@ [code |-> "string", target |-> "string", action |-> "string"], "code", remedyTest)
             THEN <<"readiness", c>> ELSE Bad
\* mutant of encodeReadiness: empty lists are left out
encodeReadinessOmitting(c) == Marshal(c[2], DOMAIN c[2])
encodeReadiness(c) == Marshal(c[2], {})

ExtensionWire == [ref |-> "raw", configuration |-> "raw"]
extensionValid(j) == strictDecode(j, ExtensionWire) /\ referenceValid(Raw(j, "ref")) /\ Raw(j, "configuration")[1] = "object"
ValidatorWire == [extension |-> "?object", output |-> "string", schema |-> "string", command |-> "array"]
\* An extension, a schema or a command: exactly one of them.
decodeValidator(j) ==
    LET v == Struct(j, ValidatorWire)
        hasSchema == v.output # S("") \/ v.schema # S("")
        hasCommand == v.command # Absent
    IN  CASE ~strictDecode(j, ValidatorWire) -> Bad
          [] strictDecode(j, ValidatorWire) /\ v.extension # Absent ->
               IF hasSchema \/ hasCommand \/ ~extensionValid(v.extension) THEN Bad ELSE <<"extension", Struct(v.extension, ExtensionWire)>>
          [] OTHER ->
               IF hasSchema = hasCommand THEN Bad
               ELSE IF hasSchema THEN IF ident(v.output) /\ nonBlank(v.schema) THEN <<"schema", v.output, v.schema>> ELSE Bad
               ELSE IF v.command[2] # <<>> /\ AllOf(v.command, "string") THEN <<"command", v.command>> ELSE Bad
encodeValidator(v) ==
    CASE v[1] = "extension" -> O([extension |-> Marshal(v[2], {})])
      [] v[1] = "schema"    -> O([output |-> v[2], schema |-> v[3]])
      [] v[1] = "command"   -> O([command |-> v[2]])

Failures == {"provider_unavailable", "provider_rate_limit", "process_failure", "validator_failure", "timeout", "interrupted"}
RetryWire == [maxAttempts |-> "number", on |-> "array"]
decodeRetry(j) ==
    LET r == Struct(j, RetryWire)
    IN  IF j = Absent THEN Absent
        ELSE IF /\ strictDecode(j, RetryWire) /\ r.maxAttempts[2] \in 1..100 /\ r.on # Absent
                /\ uniqueStrings(r.on) /\ Range(Texts(r.on)) \subseteq Failures
             THEN <<"retry", r>> ELSE Bad

\* A name, or an object whose mode says which other fields it has.
CheckpointWires ==
    [none |-> [mode |-> "string"], acknowledge |-> [mode |-> "string"],
     approve |-> [mode |-> "string", maxRevisions |-> "?number"],
     approve_on_change |-> [mode |-> "string", when |-> "raw", maxRevisions |-> "?number"],
     external |-> [mode |-> "string", externalCondition |-> "string"]]
checkpointOf(mode, c) ==
    CASE mode \in {"none", "acknowledge"} -> <<mode>>
      [] mode = "approve" -> IF c.maxRevisions # Absent /\ c.maxRevisions[2] > 100 THEN Bad ELSE <<mode, c.maxRevisions>>
      [] mode = "approve_on_change" ->
           LET when == IF c.when = Absent THEN Bad ELSE decodePredicate(c.when)
           IN  IF when = Bad \/ (c.maxRevisions # Absent /\ c.maxRevisions[2] > 100) THEN Bad ELSE <<mode, c.maxRevisions, when>>
      [] mode = "external" -> IF nonBlank(c.externalCondition) THEN <<mode, c.externalCondition>> ELSE Bad
decodeCheckpoint(j) ==
    CASE j = Absent -> Absent
      [] j[1] = "string" -> IF j[2] \in {"none", "acknowledge"} THEN <<j[2]>> ELSE IF j[2] = "approve" THEN <<"approve", Absent>> ELSE Bad
      [] j[1] = "object" ->
           LET mode == IF Raw(j, "mode")[1] = "string" THEN Str(j, "mode") ELSE ""
           IN  IF mode \notin DOMAIN CheckpointWires THEN Bad
               ELSE IF strictDecode(j, CheckpointWires[mode]) THEN checkpointOf(mode, Struct(j, CheckpointWires[mode])) ELSE Bad
      [] OTHER -> Bad
encodeCheckpoint(c) ==
    O([mode |-> S(c[1])]
      @@ (IF c[1] \in {"approve", "approve_on_change"} THEN With(c[2] # Absent, "maxRevisions", c[2]) ELSE NoFields)
      @@ (IF c[1] = "approve_on_change" THEN [when |-> encodePredicate(c[3])] ELSE NoFields)
      @@ (IF c[1] = "external" THEN [externalCondition |-> c[2]] ELSE NoFields))

JoinWire == [mode |-> "string", from |-> "array"]
decodeJoin(j) ==
    LET s == Struct(j, JoinWire)
    IN  IF j = Absent THEN Absent
        ELSE IF strictDecode(j, JoinWire) /\ s.mode[2] \in {"one", "all"} /\ Len(Texts(s.from)) >= 2 /\ identifierList(s.from)
             THEN <<"join", s>> ELSE Bad

TransitionWire ==
    [id |-> "string", to |-> "string", when |-> "raw", kind |-> "string", maxTraversals |-> "?number", enabledByDefault |-> "?bool"]
\* A normal transition has no bound, a bounded one has one.
decodeTransition(j) ==
    LET t == Struct(j, TransitionWire)
        when == IF t.when = Absent THEN Absent ELSE decodePredicate(t.when)
        bounded == t.kind[2] = "bounded"
        bound == IF t.maxTraversals = Absent THEN 0 ELSE t.maxTraversals[2]
    IN  IF /\ strictDecode(j, TransitionWire) /\ ident(t.id) /\ ident(t.to) /\ when # Bad
           /\ t.kind[2] \in {"", "normal", "bounded"}
           /\ IF bounded THEN bound \in 1..10000 ELSE t.maxTraversals = Absent
        THEN <<"transition", [t EXCEPT !.when = when, !.kind = S(IF bounded THEN "bounded" ELSE "")]>> ELSE Bad
\* mutant of encodeTransition: a transition is enabled unless it says so
encodeTransitionEnabled(t) ==
    Marshal([t[2] EXCEPT !.when = IF @ = Absent THEN @ ELSE encodePredicate(@), !.enabledByDefault = IF @ = B(FALSE) THEN Absent ELSE @],
            {"when", "kind", "maxTraversals", "enabledByDefault"})
encodeTransition(t) ==
    Marshal([t[2] EXCEPT !.when = IF @ = Absent THEN @ ELSE encodePredicate(@)],
            {"when", "kind", "maxTraversals", "enabledByDefault"})

DefinitionWire == [scope |-> "string", owner |-> "string", name |-> "string", version |-> "string", digest |-> "string"]
\* A built-in definition has no owner, a project's or a user's has one.
decodeDefinition(j) ==
    LET d == Struct(j, DefinitionWire)
    IN  IF j = Absent THEN Absent
        ELSE IF /\ strictDecode(j, DefinitionWire)
                /\ ident(d.name) /\ d.version[2] \in Versions /\ d.digest[2] \in Digests
                /\ \/ d.scope[2] = "built_in" /\ d.owner[2] = ""
                   \/ d.scope[2] \in {"project", "user"} /\ d.owner[2] \notin Blank
             THEN <<"definition", d>> ELSE Bad

-----------------------------------------------------------------------------
(* The executors *)
Outputs == {"routeOutput", "rationaleOutput", "adviceOutput", "missingInformationOutput", "assumptionsOutput", "confirmationOutput"}
\* By node type: the field of its settings and their wire type.
Executors ==
    [reasoning |-> <<"reasoning", [agent |-> "string", instructions |-> "string", skills |-> "array", tools |-> "array"]>>,
     gate |-> <<"gate", [policy |-> "string", condition |-> "raw"]>>,
     command |-> <<"command", [argv |-> "array", cwd |-> "string", timeoutSeconds |-> "?number"]>>,
     approval |-> <<"approval", [actor |-> "string", externalCondition |-> "string", evidenceOutput |-> "string"]>>,
     subworkflow |-> <<"call", [workflow |-> "object", entry |-> "string", terminals |-> "array", inputs |-> "object", outputs |-> "object"]>>,
     point_execution |-> <<"points", [planInput |-> "string", approval |-> "string", riskTags |-> "array", validation |-> "string", publishing |-> "string"]>>,
     routing |-> <<"routing", [agent |-> "string", branches |-> "array"] @@ [o \in Outputs |-> "string"]>>,
     implementation |-> <<"implementation", [taskInput |-> "string", workspaceInput |-> "string", instructions |-> "string"]>>,
     workspace_prepare |-> <<"workspacePrepare", NoFields>>, workspace_validate |-> <<"workspaceValidate", NoFields>>,
     git_commit |-> <<"gitCommit", NoFields>>, git_push |-> <<"gitPush", NoFields>>, create_pr |-> <<"createPR", NoFields>>,
     extension |-> <<"extension", ExtensionWire>>]
Omitted == {"instructions", "skills", "tools", "cwd", "timeoutSeconds", "workspaceInput"}
Settings == {Executors[t][1] : t \in DOMAIN Executors}

routingValid(e) ==
    LET wire == [name |-> "string", transition |-> "string"]
        names(f) == [i \in DOMAIN e.branches[2] |-> Struct(e.branches[2][i], wire)[f][2]]
    IN  /\ nonBlank(e.agent) /\ ~Empty(e.branches)
        /\ \A i \in DOMAIN e.branches[2] : strictDecode(e.branches[2][i], wire)
        /\ \A f \in DOMAIN wire : IsInjective(names(f)) /\ Range(names(f)) \subseteq Identifiers
        /\ \A o \in Outputs : ident(e[o])
pointsValid(e) ==
    /\ ident(e.planInput)
    /\ \/ e.approval[2] \in {"none", "every", "combined"} /\ Empty(e.riskTags)
       \/ e.approval[2] = "risk" /\ ~Empty(e.riskTags)
    /\ uniqueStrings(e.riskTags) /\ Range(Texts(e.riskTags)) \cap Blank = {}
    /\ e.validation[2] \in {"each", "combined", "each_and_combined"}
    /\ e.publishing[2] \in {"after_story_validation", "after_each_point"}
\* mutant of approvalValid: the last version is forgotten
approvalOfTwo(e, version) ==
    /\ nonBlank(e.actor)
    /\ IF e.actor[2] = "external"
       THEN nonBlank(e.externalCondition) /\ IF version = Alpha2 THEN ident(e.evidenceOutput) ELSE e.evidenceOutput = S("")
       ELSE e.externalCondition = S("") /\ e.evidenceOutput = S("")
\* Only an external actor has a condition, and from the second version on an output.
approvalValid(e, version) ==
    /\ nonBlank(e.actor)
    /\ IF e.actor[2] = "external"
       THEN nonBlank(e.externalCondition) /\ IF version # Alpha1 THEN ident(e.evidenceOutput) ELSE e.evidenceOutput = S("")
       ELSE e.externalCondition = S("") /\ e.evidenceOutput = S("")
callValid(e) ==
    LET wire == [name |-> "string", version |-> "string", digest |-> "string", path |-> "string"]
        w == Struct(e.workflow, wire)
    IN  /\ strictDecode(e.workflow, wire) /\ nonBlank(w.name) /\ nonBlank(w.version) /\ w.digest[2] \in Digests \cup {""}
        /\ ident(e.entry) /\ ~Empty(e.terminals) /\ identifierList(e.terminals)
        /\ e.inputs # Absent /\ \A f \in DOMAIN Obj(e.inputs) : f \in Identifiers /\ ident(Obj(e.inputs)[f])
        /\ e.outputs # Absent /\ \A f \in DOMAIN Obj(e.outputs) : f \in Identifiers /\ Obj(e.outputs)[f][2] \in Sources
executorValid(type, e, version) ==
    CASE type = "reasoning"       -> nonBlank(e.agent) /\ uniqueStrings(e.skills) /\ uniqueStrings(e.tools)
      [] type = "gate"            -> nonBlank(e.policy) /\ e.condition # Absent /\ decodePredicate(e.condition) # Bad
      [] type = "command"         -> ~Empty(e.argv) /\ AllOf(e.argv, "string") /\ e.timeoutSeconds # N(0)
      [] type = "approval"        -> approvalValid(e, version)
      [] type = "subworkflow"     -> callValid(e)
      [] type = "point_execution" -> pointsValid(e)
      [] type = "routing"         -> routingValid(e)
      [] type = "implementation"  -> ident(e.taskInput)
      [] type = "extension"       -> referenceValid(e.ref) /\ e.configuration[1] = "object"
      [] OTHER                    -> TRUE
encodeExecutor(type, e) ==
    CASE type = "gate"     -> O([policy |-> e.policy, condition |-> encodePredicate(decodePredicate(e.condition))])
      [] type = "approval" -> Marshal(e, {"externalCondition", "evidenceOutput"})
      [] type = "subworkflow" ->
           Marshal([e EXCEPT !.workflow = Marshal(Struct(@, [name |-> "string", version |-> "string", digest |-> "string", path |-> "string"]), {"digest", "path"})], {})
      [] OTHER             -> Marshal(e, Omitted)

-----------------------------------------------------------------------------
(* Nodes and documents *)
NodeWire ==
    [type |-> "string", displayName |-> "raw", entry |-> "?bool", terminal |-> "?bool", inputs |-> "raw", outputs |-> "raw",
     readiness |-> "raw", validators |-> "array", retry |-> "raw", checkpoint |-> "raw", transitionMode |-> "string",
     join |-> "raw", permissions |-> "array", transitions |-> "array", definition |-> "raw", prompt |-> "?object"]
    @@ [f \in Settings |-> "raw"]
LaterTypes == {"git_commit", "git_push", "create_pr", "implementation", "workspace_prepare", "workspace_validate", "routing", "extension"}
\* mutant of versionAllows: readiness is allowed in every version
versionAllowsReadiness(version, j) ==
    /\ version = Alpha1 => Str(j, "type") # "point_execution"
    /\ version # Alpha3 => Str(j, "type") \notin LaterTypes /\ Raw(j, "definition") = Absent
\* What a version does not know yet.
versionAllows(version, j) ==
    /\ version = Alpha1 => Raw(j, "readiness") = Absent /\ Raw(j, "points") = Absent /\ Str(j, "type") # "point_execution"
    /\ version # Alpha3 =>
          /\ Str(j, "type") \notin LaterTypes
          /\ \A t \in LaterTypes \ {"extension"} : Raw(j, Executors[t][1]) = Absent
          /\ Raw(j, "definition") = Absent /\ ~Given(j, "prompt")
\* The settings of the node's own type and of no other.
settingsValid(type, n, version) ==
    /\ \A t \in DOMAIN Executors : (n[Executors[t][1]] # Absent) <=> (t = type)
    /\ strictDecode(n[Executors[type][1]], Executors[type][2])
    /\ executorValid(type, Struct(n[Executors[type][1]], Executors[type][2]), version)
promptValid(type, prompt) == prompt # Absent => referenceValid(prompt) /\ type \in {"reasoning", "implementation"}
nodeOf(n, type, parts, version) ==
    IF /\ Bad \notin {parts[f] : f \in DOMAIN parts} /\ optionalText(n.displayName)
       /\ version # Alpha3 => \A i \in DOMAIN parts.validators[2] : parts.validators[2][i][1] # "extension"
       /\ n.transitionMode[2] \in {"", "exclusive", "fanout"} /\ uniqueStrings(n.permissions)
       /\ promptValid(type, n.prompt) /\ settingsValid(type, n, version)
    THEN <<"node", parts @@ [type |-> n.type, entry |-> n.entry, terminal |-> n.terminal, displayName |-> TextOf(n.displayName),
           prompt |-> n.prompt, permissions |-> IF Empty(n.permissions) THEN Absent ELSE n.permissions,
           transitionMode |-> IF n.transitionMode = S("") THEN S("exclusive") ELSE n.transitionMode,
           executor |-> Struct(n[Executors[type][1]], Executors[type][2])]>>
    ELSE Bad
decodeNode(j, version) ==
    LET n == Struct(j, NodeWire)
        parts == [inputs |-> decodeMap(n.inputs, decodeBinding), outputs |-> decodeMap(n.outputs, decodeOutputDeclaration),
                  readiness |-> decodeReadiness(n.readiness), validators |-> decodeList(n.validators, decodeValidator),
                  retry |-> decodeRetry(n.retry), checkpoint |-> decodeCheckpoint(n.checkpoint), join |-> decodeJoin(n.join),
                  transitions |-> decodeList(n.transitions, decodeTransition), definition |-> decodeDefinition(n.definition)]
    IN  IF ~strictDecode(j, NodeWire) \/ Absent \in {n.entry, n.terminal, n.inputs, n.outputs} \/ ~versionAllows(version, j)
           \/ n.type[2] \notin DOMAIN Executors
        THEN Bad ELSE nodeOf(n, n.type[2], parts, version)
\* nodeObject: defaults and empty lists are left out.
encodeNode(node) ==
    LET n == node[2]
    IN  O([type |-> n.type, entry |-> n.entry, terminal |-> n.terminal,
           inputs |-> encodeMap(n.inputs, encodeBinding), outputs |-> encodeMap(n.outputs, encodeOutputDeclaration)]
          @@ (Executors[n.type[2]][1] :> encodeExecutor(n.type[2], n.executor))
          @@ With(n.displayName # S(""), "displayName", n.displayName)
          @@ With(n.definition # Absent, "definition", IF n.definition = Absent THEN Null ELSE Marshal(n.definition[2], {"owner"}))
          @@ With(n.prompt # Absent, "prompt", n.prompt)
          @@ With(n.validators[2] # <<>>, "validators", encodeList(n.validators, encodeValidator))
          @@ With(n.readiness # Absent, "readiness", IF n.readiness = Absent THEN Null ELSE encodeReadiness(n.readiness))
          @@ With(n.retry # Absent, "retry", IF n.retry = Absent THEN Null ELSE Marshal(n.retry[2], {}))
          @@ With(n.checkpoint # Absent, "checkpoint", IF n.checkpoint = Absent THEN Null ELSE encodeCheckpoint(n.checkpoint))
          @@ With(n.transitionMode # S("exclusive"), "transitionMode", n.transitionMode)
          @@ With(n.join # Absent, "join", IF n.join = Absent THEN Null ELSE Marshal(n.join[2], {}))
          @@ With(~Empty(n.permissions), "permissions", n.permissions)
          @@ With(n.transitions[2] # <<>>, "transitions", encodeList(n.transitions, encodeTransition)))

MetadataWire == [name |-> "string", version |-> "string", displayName |-> "raw", description |-> "string"]
decodeMetadata(j) ==
    LET d == Struct(j, MetadataWire)
    IN  IF strictDecode(j, MetadataWire) /\ ident(d.name) /\ d.version[2] \in Versions /\ optionalText(d.displayName)
        THEN <<"metadata", [d EXCEPT !.displayName = TextOf(@)]>> ELSE Bad
RouteWire == [entry |-> "string", terminals |-> "array"]
decodeRoute(j) ==
    LET r == Struct(j, RouteWire)
    IN  IF strictDecode(j, RouteWire) /\ ident(r.entry) /\ ~Empty(r.terminals) /\ identifierList(r.terminals)
        THEN <<"route", r>> ELSE Bad
ProfileWire == RouteWire @@ [description |-> "string", inputDefaults |-> "object"]
decodeProfile(j) ==
    LET p == Struct(j, ProfileWire)
    IN  IF /\ strictDecode(j, ProfileWire) /\ nonBlank(p.description) /\ ident(p.entry) /\ ~Empty(p.terminals)
           /\ identifierList(p.terminals) /\ p.inputDefaults # Absent /\ DOMAIN Obj(p.inputDefaults) \subseteq Identifiers
        THEN <<"profile", p>> ELSE Bad
NoMap == <<"map", NoFields>>
SpecWire == [inputs |-> "raw", routeDefaults |-> "raw", profiles |-> "raw", nodes |-> "raw"]
decodeNodes(j, version) ==
    LET decode(n) == decodeNode(n, version)
    IN  IF j = O(NoFields) THEN Bad ELSE decodeMap(j, decode)
specOf(spec) == IF Bad \in {spec[f] : f \in DOMAIN spec} THEN Bad ELSE <<"spec", spec>>
decodeSpec(j, version) ==
    LET s == Struct(j, SpecWire)
        spec == [inputs |-> IF s.inputs = Absent THEN NoMap ELSE decodeMap(s.inputs, decodeValueDeclaration),
                 routeDefaults |-> decodeRoute(s.routeDefaults), nodes |-> decodeNodes(s.nodes, version),
                 profiles |-> IF s.profiles \in {Absent, Null} THEN NoMap ELSE decodeMap(s.profiles, decodeProfile)]
    IN  IF ~strictDecode(j, SpecWire) \/ Absent \in {s.routeDefaults, s.nodes} \/ (version = Alpha1 /\ s.profiles # Absent) THEN Bad
        ELSE specOf(spec)
encodeSpec(spec) ==
    LET s == spec[2]
        profile(p) == Marshal(p[2], {})
    IN  O([routeDefaults |-> Marshal(s.routeDefaults[2], {}), nodes |-> encodeMap(s.nodes, encodeNode)]
          @@ With(s.inputs # NoMap, "inputs", encodeMap(s.inputs, encodeValueDeclaration))
          @@ With(s.profiles # NoMap, "profiles", encodeMap(s.profiles, profile)))

DocumentWire == [apiVersion |-> "string", kind |-> "string", metadata |-> "raw", spec |-> "raw"]
documentOf(version, metadata, spec) ==
    IF Bad \in {metadata, spec} THEN Bad ELSE <<"document", version, metadata, spec>>
decodeDocument(j) ==
    LET d == Struct(j, DocumentWire)
        version == d.apiVersion[2]
    IN  IF /\ strictDecode(j, DocumentWire) /\ version \in {Alpha1, Alpha2, Alpha3} /\ d.kind = S("Workflow")
           /\ Absent \notin {d.metadata, d.spec}
        THEN documentOf(version, decodeMetadata(d.metadata), decodeSpec(d.spec, version)) ELSE Bad
marshal(d) ==
    O([apiVersion |-> S(d[2]), kind |-> S("Workflow"), metadata |-> Marshal(d[3][2], {"displayName", "description"}), spec |-> encodeSpec(d[4])])

-----------------------------------------------------------------------------
Init ==
    /\ text \in Documents
    /\ document = Absent /\ first = Absent /\ stage = "text"
\* mutant of Decode: the value a failed decoding left is used
DecodeUnchecked ==
    /\ stage = "text"
    /\ document' = decodeDocument(text)
    /\ stage' = "decoded"
    /\ UNCHANGED <<text, first>>
Decode ==
    /\ stage = "text"
    /\ \E d \in {decodeDocument(text)} :
           IF d = Bad THEN stage' = "refused" /\ UNCHANGED <<document, first>>
           ELSE stage' = "decoded" /\ document' = d /\ first' = IF first = Absent THEN d ELSE first
    /\ UNCHANGED text
\* What was written is decoded before it is answered.
Encode ==
    /\ stage = "decoded"
    /\ IF decodeDocument(marshal(document)) = Bad THEN stage' = "failed" /\ UNCHANGED text
       ELSE stage' = "text" /\ text' = marshal(document)
    /\ UNCHANGED <<document, first>>
Next == Decode \/ Encode

TypeOK ==
    /\ stage \in {"text", "decoded", "refused", "failed"}
    /\ text[1] = "object" /\ document[1] \in {"absent", "document"} /\ first[1] \in {"absent", "document"}

\* Encode never fails on a document Decode accepted, and what it wrote decodes
\* to the same document: publishing, exporting and re-importing a workflow
\* changes nothing of it (json.go:128, catalog digests).
RoundTrip == stage # "failed" /\ (first # Absent => stage # "refused" /\ document = first)

\* A document of version v1alpha2 is also one of v1alpha3 and decodes to the
\* same nodes: raising the version of a workflow refuses nothing (json.go:442-458, 901).
Alpha2StaysValid ==
    (stage = "decoded" /\ document[2] = Alpha2) =>
        \E raised \in {decodeDocument(O([Obj(text) EXCEPT !.apiVersion = S(Alpha3)]))} :
            raised # Bad /\ raised[4] = document[4]
Conditions(d) ==
    {decodePredicate(d[4][2].nodes[2][n][2].executor.condition) :
        n \in {m \in DOMAIN d[4][2].nodes[2] : d[4][2].nodes[2][m][2].type = S("gate")}}
\* The order in which the arguments of `all` and `any` are written decides
\* nothing, not even whether evaluation fails: arguments are not skipped
\* (predicate.go:105; execution-semantics.md).
ArgumentsCommute ==
    (stage = "decoded") =>
        \A p \in Conditions(document), v \in Snapshots :
            p[1] = "logical" => evaluate(p, v) = evaluate(<<p[1], p[2], Reverse(p[3])>>, v)

\* Comparison is consistent: equal means the same value, equal values are
\* neither less nor greater, and less is greater the other way round
\* (predicate.go:211-300).
ComparisonsAgree ==
    (stage = "decoded") =>
        \A p \in {q \in Conditions(document) : q[1] = "compare"}, v \in Snapshots :
            LET says(op, args) == evaluateComparison(op, args, v)
                l == operand(p[3][1], v)
                r == operand(p[3][2], v)
            IN  Absent \notin {l, r} =>
                    /\ (says("eq", p[3]) = "true") <=> (l = r)
                    /\ says("eq", p[3]) = "true" => says("lt", p[3]) # "true" /\ says("gt", p[3]) # "true"
                    /\ says("lt", p[3]) = says("gt", Reverse(p[3]))
=============================================================================
