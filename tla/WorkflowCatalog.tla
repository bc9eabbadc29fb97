-------------------------- MODULE WorkflowCatalog --------------------------
(***************************************************************************)
(* The workflow library (core/workflow/catalog.go over sqlite/workflows.go *)
(* and node_definition.go): immutable installed versions, editable drafts  *)
(* with a revision, reusable node definitions, and the files installed at  *)
(* every start.  A document is its name, its version, the workflows it     *)
(* calls and the node definitions it uses; a digest stands for the whole   *)
(* document, so it is the document.  A call may pin its child's digest     *)
(* (a sequence of at most one).  A character is a number, a digit below    *)
(* ten.                                                                    *)
(***************************************************************************)
EXTENDS Naturals, Sequences, FiniteSets, SequencesExt, TLC

CONSTANTS Clients, Keys,
          Drafted,       \* documents a client may write into a draft or install directly
          Versions,      \* the versions a client may publish
          FileSets,      \* what the workflow directories may hold at a start: [scope, file, doc]
          FileOrder,     \* <<name, version>> in the order Load sorts them
          Contracts,     \* contents of the one reusable node definition
          MaxRevision, MaxPublished, MaxStarts   \* bounds

VARIABLES installed,     \* workflow_versions: [doc, resolved], resolved when Install checked it
          nodeDefs,      \* node_definitions: [digest, archived]
          drafts,        \* workflow_drafts: by idempotency key, none or one
          used,          \* keys sent once; none is sent again after its draft is discarded
          client,        \* what every client is doing
          publishMu,     \* the client in PublishDraft, or 0
          starting,      \* configured definitions still to install; the daemon is up when done
          up, starts,
          published      \* the versions that came from drafts, in order, with the document seen

library == <<installed, nodeDefs>>
process == <<starting, up, starts>>
vars == <<library, drafts, used, client, publishMu, process, published>>

Idle == [pc |-> "idle"]
Init ==
    /\ installed = {} /\ nodeDefs = {} /\ published = <<>>
    /\ drafts = [k \in Keys |-> <<>>] /\ used = {} /\ client = [c \in Clients |-> Idle] /\ publishMu = 0
    /\ starting = {} /\ up = FALSE /\ starts = 0

-----------------------------------------------------------------------------
\* semanticVersionLess.  A version is [core, pre]: three identifiers and none
\* or more of a pre-release.
Trim(d) == IF \A i \in DOMAIN d : d[i] = 0 THEN <<0>>
           ELSE LET first == CHOOSE i \in DOMAIN d : d[i] # 0 /\ \A j \in 1..(i - 1) : d[j] = 0
                IN  SubSeq(d, first, Len(d))
TextLess(a, b) ==
    \E i \in 1..Len(b) : /\ i - 1 <= Len(a) /\ SubSeq(a, 1, i - 1) = SubSeq(b, 1, i - 1)
                         /\ i > Len(a) \/ a[i] < b[i]
\* (A mutant of NumericLess.)
TrimmedTextLess(a, b) == TextLess(Trim(a), Trim(b))
NumericLess(a, b) ==
    LET x == Trim(a)  y == Trim(b)
    IN  Len(x) < Len(y) \/ (Len(x) = Len(y) /\ TextLess(x, y))
Numeric(id) == id # <<>> /\ \A i \in DOMAIN id : id[i] < 10
SameIdentifier(a, b) == IF Numeric(a) /\ Numeric(b) THEN ~NumericLess(a, b) /\ ~NumericLess(b, a) ELSE a = b
IdentifierLess(a, b) ==
    CASE Numeric(a) /\ Numeric(b) -> NumericLess(a, b)
      [] Numeric(a) # Numeric(b)  -> Numeric(a)
      [] OTHER                    -> TextLess(a, b)
FirstDifference(a, b) ==
    {i \in 1..Len(a) : i <= Len(b) /\ ~SameIdentifier(a[i], b[i])
                       /\ \A j \in 1..(i - 1) : SameIdentifier(a[j], b[j])}
SemanticVersionLess(l, r) ==
    LET core == FirstDifference(l.core, r.core)
        pre == FirstDifference(l.pre, r.pre)
    IN  IF core # {} THEN \E i \in core : NumericLess(l.core[i], r.core[i])
        ELSE IF (l.pre = <<>>) # (r.pre = <<>>) THEN l.pre # <<>>
        ELSE IF pre # {} THEN \E i \in pre : IdentifierLess(l.pre[i], r.pre[i])
        ELSE Len(l.pre) < Len(r.pre)

-----------------------------------------------------------------------------
Identity(doc) == <<doc.name, doc.version>>
Docs == {v.doc : v \in installed}
InstalledVersion(id) == {d \in Docs : Identity(d) = id}
Callee(call) == <<call.name, call.version>>

\* NodeDefinitionLibrary.Resolve: archived ones too, by exact digest.
ResolvesNode(use) == \E n \in nodeDefs : n.digest = use

\* A call that resolves: its child is installed, with the pinned digest if any.
Resolves(call) == \E d \in InstalledVersion(Callee(call)) : call.pin \in {<<>>, <<d>>}

\* validateInstalledCallGraph: below the child, every call resolves and none
\* comes back to a workflow on the way.
CallGraphOK(child, top) ==
    LET below[d \in Docs, stack \in SUBSET ({top} \union {Identity(x) : x \in Docs})] ==
            \A call \in d.calls :
                /\ Callee(call) \notin stack /\ Resolves(call)
                /\ \A e \in InstalledVersion(Callee(call)) : below[e, stack \union {Callee(call)}]
    IN  below[child, {top, Identity(child)}]
\* (A mutant of ResolveSubworkflows.)
ResolveDirectCalls(doc) ==
    /\ \A use \in doc.uses : ResolvesNode(use)
    /\ \A call \in doc.calls : Resolves(call) /\ Callee(call) # Identity(doc)
\* resolveCandidateSubworkflows: no issue.
ResolveSubworkflows(doc) ==
    /\ \A use \in doc.uses : ResolvesNode(use)
    /\ \A call \in doc.calls :
          /\ Resolves(call) /\ Callee(call) # Identity(doc)
          /\ \A d \in InstalledVersion(Callee(call)) : CallGraphOK(d, Identity(doc))
Resolved(doc) == [doc EXCEPT !.calls = {[c EXCEPT !.pin = <<CHOOSE d \in InstalledVersion(Callee(c)) : TRUE>>] : c \in @}]

\* sqlite Install: an identity is written once; the same digest again is no change.
Conflicts(doc) == \E d \in InstalledVersion(Identity(doc)) : d # doc
StoreInstall(doc, checked) ==
    installed' = IF InstalledVersion(Identity(doc)) # {} THEN installed
                 ELSE installed \union {[doc |-> doc, resolved |-> checked]}

-----------------------------------------------------------------------------
\* InstallConfigured at a start.  Load takes the file of the highest scope for
\* every identity and fails on two in one scope; what it selects is installed
\* in order, its calls unchecked, up to the first conflict, which fails the
\* start.
Precedence == [default |-> 1, user |-> 2, project |-> 3]
LoadFails(files) ==
    \E f, g \in files : f # g /\ f.scope = g.scope /\ Identity(f.doc) = Identity(g.doc)
Selected(files) ==
    {f.doc : f \in {x \in files : \A g \in files : Identity(g.doc) = Identity(x.doc)
                                                   => Precedence[g.scope] <= Precedence[x.scope]}}
Start ==
    /\ ~up /\ starting = {} /\ starts < MaxStarts
    /\ starts' = starts + 1
    /\ \E files \in FileSets :
          IF LoadFails(files) THEN UNCHANGED <<starting, up>>
          ELSE starting' = Selected(files) /\ up' = (Selected(files) = {})
    /\ UNCHANGED <<used, library, drafts, client, publishMu, published>>
NextFile ==
    CHOOSE d \in starting : \E i \in DOMAIN FileOrder :
        FileOrder[i] = Identity(d) /\ \A j \in 1..(i - 1) : \A e \in starting : Identity(e) # FileOrder[j]
InstallConfigured ==
    /\ starting # {}
    /\ IF Conflicts(NextFile) THEN starting' = {} /\ UNCHANGED <<installed, up>>
       ELSE /\ StoreInstall(NextFile, FALSE)
            /\ starting' = starting \ {NextFile} /\ up' = (starting' = {})
    /\ UNCHANGED <<used, nodeDefs, drafts, client, publishMu, starts, published>>
Stop ==
    /\ up \/ starting # {}
    /\ starts < MaxStarts /\ up' = FALSE
    /\ starting' = {} /\ publishMu' = 0 /\ client' = [c \in Clients |-> Idle]
    /\ UNCHANGED <<used, library, drafts, starts, published>>

-----------------------------------------------------------------------------
Becomes(c, s) == client' = [client EXCEPT ![c] = s]
Answered(c) == Becomes(c, Idle)

\* Install of a candidate a user names: checked, then written.
InstallResolves(c, doc) ==
    /\ up /\ client[c].pc = "idle" /\ ResolveSubworkflows(doc)
    /\ Becomes(c, [pc |-> "install", doc |-> Resolved(doc)])
    /\ UNCHANGED <<used, library, drafts, publishMu, process, published>>
InstallStores(c) ==
    /\ client[c].pc = "install"
    /\ Conflicts(client[c].doc) \/ StoreInstall(client[c].doc, TRUE)
    /\ Conflicts(client[c].doc) => UNCHANGED installed
    /\ Answered(c)
    /\ UNCHANGED <<used, nodeDefs, drafts, publishMu, process, published>>

\* One node definition identity: published once, archived without comparing the
\* digest first.
PublishNodeDefinition(d) ==
    /\ up /\ nodeDefs = {}
    /\ nodeDefs' = {[digest |-> d, archived |-> FALSE]}
    /\ UNCHANGED <<used, installed, drafts, client, publishMu, process, published>>
ArchiveNodeDefinition ==
    /\ up /\ nodeDefs' = {[n EXCEPT !.archived = TRUE] : n \in nodeDefs}
    /\ UNCHANGED <<used, installed, drafts, client, publishMu, process, published>>

-----------------------------------------------------------------------------
\* CreateDraft and DuplicateDraft: a key that was used answers its draft or a
\* conflict, and either way changes nothing.
CreateDraft(k, doc) ==
    /\ up /\ k \notin used
    /\ used' = used \union {k}
    /\ drafts' = [drafts EXCEPT ![k] = <<[name |-> doc.name, doc |-> doc, revision |-> 1]>>]
    /\ UNCHANGED <<library, client, publishMu, process, published>>
DuplicateDraft(k, source, name) == \E d \in InstalledVersion(source) : CreateDraft(k, [d EXCEPT !.name = name])

\* A client looks at a draft; what it asks for later carries this revision.
OpenDraft(c, k) ==
    /\ up /\ client[c].pc = "idle" /\ drafts[k] # <<>>
    /\ Becomes(c, [pc |-> "open", key |-> k, seen |-> Head(drafts[k])])
    /\ UNCHANGED <<used, library, drafts, publishMu, process, published>>
\* (A mutant of AtRevision.)
DraftExists(c) == drafts[client[c].key] # <<>>
AtRevision(c) == drafts[client[c].key] # <<>> /\ Head(drafts[client[c].key]).revision = client[c].seen.revision
\* UpdateDraft and RenameDraft read the draft first, for what the request
\* leaves out, and write at the revision the request names.
UpdateReads(c) ==
    /\ up /\ client[c].pc = "open"
    /\ IF drafts[client[c].key] = <<>> THEN Answered(c)
       ELSE \E doc \in Drafted \union {Head(drafts[client[c].key]).doc} :
              \E name \in {doc.name, Head(drafts[client[c].key]).name} :
                 Becomes(c, [client[c] EXCEPT !.pc = "update"] @@ [write |-> [doc EXCEPT !.name = name]])
    /\ UNCHANGED <<used, library, drafts, publishMu, process, published>>
Revised(c) == [name |-> client[c].write.name, doc |-> client[c].write,
               revision |-> Head(drafts[client[c].key]).revision + 1]
\* (A mutant of UpdateStores.)
UpdateStoresAnyRevision(c) ==
    /\ client[c].pc = "update" /\ client[c].seen.revision < MaxRevision
    /\ drafts' = IF drafts[client[c].key] = <<>> THEN drafts
                 ELSE [drafts EXCEPT ![client[c].key] = <<Revised(c)>>]
    /\ Answered(c)
    /\ UNCHANGED <<used, library, publishMu, process, published>>
UpdateStores(c) ==
    /\ client[c].pc = "update" /\ client[c].seen.revision < MaxRevision
    /\ drafts' = IF AtRevision(c) THEN [drafts EXCEPT ![client[c].key] = <<Revised(c)>>] ELSE drafts
    /\ Answered(c)
    /\ UNCHANGED <<used, library, publishMu, process, published>>
DiscardDraft(c) ==
    /\ up /\ client[c].pc = "open"
    /\ drafts' = IF AtRevision(c) THEN [drafts EXCEPT ![client[c].key] = <<>>] ELSE drafts
    /\ Answered(c)
    /\ UNCHANGED <<used, library, publishMu, process, published>>

\* PublishDraft, alone under publishMu: the draft at the revision named,
\* resolved as written and again under its published identity; no installed
\* version of the name is newer.
NotOlder(name, version) == \A d \in Docs : d.name = name => ~SemanticVersionLess(version, d.version)
PublishReads(c, version) ==
    /\ up /\ client[c].pc = "open" /\ publishMu = 0 /\ Len(published) < MaxPublished
    /\ LET draft == Head(drafts[client[c].key])
       IN  IF AtRevision(c) /\ ResolveSubworkflows(draft.doc) /\ NotOlder(draft.name, version)
           THEN /\ publishMu' = c
                /\ Becomes(c, [client[c] EXCEPT !.pc = "publish"] @@
                               [write |-> [Resolved(draft.doc) EXCEPT !.name = draft.name, !.version = version]])
           ELSE Answered(c) /\ UNCHANGED publishMu
    /\ UNCHANGED <<used, library, drafts, process, published>>
PublishStores(c) ==
    /\ client[c].pc = "publish"
    /\ publishMu' = 0 /\ Answered(c)
    /\ LET doc == client[c].write
       IN  IF ~ResolveSubworkflows(doc) \/ Conflicts(doc) THEN UNCHANGED <<installed, published>>
           ELSE /\ StoreInstall(doc, TRUE)
                /\ published' = IF InstalledVersion(Identity(doc)) # {} THEN published
                                ELSE Append(published, [doc |-> doc, seen |-> client[c].seen.doc])
    /\ UNCHANGED <<used, nodeDefs, drafts, process>>

Names == {d.name : d \in Drafted}
Next ==
    \/ Start \/ InstallConfigured \/ Stop \/ ArchiveNodeDefinition
    \/ \E d \in Contracts : PublishNodeDefinition(d)
    \/ \E k \in Keys, d \in Drafted : CreateDraft(k, d)
    \/ \E k \in Keys, d \in Docs, n \in Names : DuplicateDraft(k, Identity(d), n)
    \/ \E c \in Clients :
          \/ \E d \in Drafted : InstallResolves(c, d)
          \/ InstallStores(c) \/ UpdateReads(c) \/ UpdateStores(c) \/ DiscardDraft(c) \/ PublishStores(c)
          \/ \E k \in Keys : OpenDraft(c, k)
          \/ \E v \in Versions : PublishReads(c, v)

-----------------------------------------------------------------------------
\* Every variable has its type; an identity is installed once.
TypeOK ==
    /\ \A v \in installed : v.resolved \in BOOLEAN /\ \A c \in v.doc.calls : c.pin \in {<<>>} \union {<<d>> : d \in Docs}
    /\ Cardinality({Identity(d) : d \in Docs}) = Cardinality(installed)
    /\ nodeDefs \subseteq [digest : Contracts, archived : BOOLEAN] /\ Cardinality(nodeDefs) <= 1
    /\ \A k \in Keys : Len(drafts[k]) <= 1
    /\ publishMu \in {0} \union Clients /\ up \in BOOLEAN /\ starts \in 0..MaxStarts

\* The digits of a numeric identifier, read as a number.
ValueOf(d) == FoldLeft(LAMBDA n, x : 10 * n + x, 0, d)

\* The drafts of one workflow are published in the order of their versions,
\* compared as numbers and with a pre-release before its release, whoever
\* publishes at the same time and whatever was installed beside
\* (PublishDraft, semanticVersionLess).
PublishedInOrder ==
    \A i, j \in DOMAIN published :
        i < j /\ published[i].doc.name = published[j].doc.name =>
            LET a == published[i].doc.version
                b == published[j].doc.version
                first == {n \in 1..Len(a.core) : ValueOf(a.core[n]) # ValueOf(b.core[n])}
            IN  IF first # {} THEN LET n == CHOOSE n \in first : \A m \in first : n <= m
                                   IN  ValueOf(a.core[n]) < ValueOf(b.core[n])
                ELSE b.pre = <<>> \/ a.pre # <<>>

\* What is published is what the client saw when it asked: the draft's calls
\* and definitions, although others edit the draft meanwhile (ExpectedRevision).
PublishedWasSeen ==
    \A i \in DOMAIN published :
        /\ {Callee(c) : c \in published[i].doc.calls} = {Callee(c) : c \in published[i].seen.calls}
        /\ published[i].doc.uses = published[i].seen.uses

\* A version that Install checked keeps calling what it was checked against:
\* every workflow it reaches is installed, with the digest pinned on the way,
\* none reaches itself, and its node definitions still resolve.  Files
\* installed at a start are not checked, so they may miss a child or form a
\* cycle, but no checked version reaches them then.
CheckedCallsHold ==
    \A v \in {x \in installed : x.resolved} :
        LET step(S) == S \union UNION {InstalledVersion(Callee(c)) : c \in UNION {d.calls : d \in S}}
            reach[n \in 0..Cardinality(installed), d \in Docs] ==
                IF n = 0 THEN UNION {InstalledVersion(Callee(c)) : c \in d.calls} ELSE step(reach[n - 1, d])
            below(d) == reach[Cardinality(installed), d]
        IN  /\ \A d \in {v.doc} \union below(v.doc) : d \notin below(d) /\ \A c \in d.calls : Resolves(c)
            /\ \A c \in v.doc.calls : c.pin # <<>>
            /\ \A use \in v.doc.uses : ResolvesNode(use)

\* An edit replaces the document its author was looking at, never one written
\* since (the revision in UpdateDraft's WHERE).
NoLostEdit ==
    [][\A c \in Clients : client[c].pc = "update" /\ drafts' # drafts /\ client'[c] = Idle /\ up'
           => Head(drafts[client[c].key]).doc = client[c].seen.doc]_vars
=============================================================================
