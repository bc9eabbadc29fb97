----------------------------- MODULE WorkIntake -----------------------------
(***************************************************************************)
(* Registering projects and taking in work (core/workmanagement,           *)
(* sqlite/{work,commands}.go, workspace/folder Ensure).  Each request is a *)
(* command with an idempotency key: the command row is begun, the event is *)
(* appended, the private workspace of a work item is made, and the command *)
(* is closed, each in its own step.  A request repeated with its key picks *)
(* up what an earlier call left, when there is something to pick up.       *)
(*                                                                         *)
(* The identity of a project or a work item is derived from the key, so it *)
(* is the operation <<kind, key>> here.  Nothing archives a project.       *)
(***************************************************************************)
EXTENDS Integers, Sequences, FiniteSets, SequencesExt

CONSTANTS
    Callers, Keys,
    Sources,        \* repository directories
    WorkRequests,   \* [evidence, mode, workflow] of authored work, as the user typed them
    Blank,          \* what is nothing once trimmed
    MaxCalls        \* bound on calls, stops and failures

VARIABLES
    commands,    \* for each operation, its command
    projects,    \* the registered projects, in the order of their events
    works,       \* the recorded work items
    workspaces,  \* work items with a workspace directory
    calls,       \* for each caller, how far its request came
    answers,     \* what was answered with success
    up, life,    \* whether the daemon serves, and how often it started
    started      \* how many of MaxCalls happened

vars == <<commands, projects, works, workspaces, calls, answers, up, life, started>>

Absent == [status |-> "absent"]
Idle == [pc |-> "idle"]
Kinds == {"project", "create", "import"}
Operations == Kinds \X Keys

Init ==
    /\ commands = [o \in Operations |-> Absent]
    /\ projects = <<>> /\ works = {} /\ workspaces = {}
    /\ calls = [c \in Callers |-> Idle]
    /\ answers = {}
    /\ up = TRUE /\ life = 1
    /\ started = 0

At(c, pc) == calls[c].pc = pc
Goto(c, pc) == calls' = [calls EXCEPT ![c].pc = pc]
Refuse(c) == calls' = [calls EXCEPT ![c] = Idle] /\ UNCHANGED answers
Answer(c, value) ==
    /\ calls' = [calls EXCEPT ![c] = Idle]
    /\ answers' = answers \cup {[op |-> calls[c].op, request |-> calls[c].request, value |-> value]}
Count == started < MaxCalls /\ started' = started + 1

-----------------------------------------------------------------------------
(* Requests *)

normalizedKeepsRepeated(values) == SelectSeq(values, LAMBDA v : v # Blank)
\* normalizedEvidence: blank entries and repetitions are dropped, the order is kept.
normalizedEvidence(values) == FoldLeft(LAMBDA kept, v : IF v = Blank \/ v \in Range(kept) THEN kept ELSE Append(kept, v), <<>>, values)

\* normalizedRoutingIntent: without a mode the rest is not looked at; automatic carries no override, an override names its workflow.
validIntent(r) == (r.mode = "automatic" => r.workflow \in {Blank, "none"}) /\ (r.mode = "override" => r.workflow \notin {Blank, "none"})
normalizedRoutingIntent(r) ==
    IF r.mode = "override" THEN [mode |-> "override", workflow |-> r.workflow] ELSE [mode |-> "automatic", workflow |-> "none"]

\* CreateWork and ImportWork: the request that is digested and recorded.
CreateWork(p, r) == [kind |-> "create", project |-> p, evidence |-> normalizedEvidence(r.evidence), intent |-> normalizedRoutingIntent(r)]
ImportWork(p) == [kind |-> "import", project |-> p, evidence |-> <<>>, intent |-> normalizedRoutingIntent([mode |-> "", workflow |-> "none"])]

registered(source) == \E i \in 1..Len(projects) : projects[i].source = source
isProject(p) == \E i \in 1..Len(projects) : projects[i].op = p
recorded(o) == \E w \in works : w.op = o
workOf(o) == CHOOSE w \in works : w.op = o
projectOf(o) == CHOOSE p \in Range(projects) : p.op = o

-----------------------------------------------------------------------------
(* Commands *)

differsNever(o, request) == FALSE
differs(o, request) == commands[o] # Absent /\ commands[o].request # request

\* begin: another request under the key is a conflict; a completed command is replayed; a pending one belongs to an earlier call.
begin(c, o, request) ==
    /\ up /\ At(c, "idle") /\ Count
    /\ commands' = IF commands[o] = Absent THEN [commands EXCEPT ![o] = [status |-> "pending", request |-> request]] ELSE commands
    /\ calls' = [calls EXCEPT ![c] =
          IF differs(o, request) THEN Idle
          ELSE [pc |-> CASE commands[o] = Absent -> "new" [] commands[o].status = "pending" -> "reused" [] OTHER -> "replay",
                op |-> o, request |-> request, known |-> {s \in Sources : registered(s)}, value |-> Absent]]
    /\ UNCHANGED <<projects, works, workspaces, answers, up, life>>

\* complete: the command is closed once.
closable(o) == commands[o].status = "pending"
complete(c) ==
    LET o == calls[c].op IN
    /\ At(c, "closing")
    /\ IF closable(o)
       THEN /\ commands' = [commands EXCEPT ![o] = [status |-> "completed", request |-> calls[c].request, value |-> calls[c].value]]
            /\ Answer(c, calls[c].value)
       ELSE Refuse(c) /\ UNCHANGED commands
    /\ UNCHANGED <<projects, works, workspaces, up, life, started>>

-----------------------------------------------------------------------------
(* Projects *)

RegisterProject(c, k, source) == begin(c, <<"project", k>>, [kind |-> "project", source |-> source])

ReplayProject(c) ==
    /\ At(c, "replay") /\ calls[c].request.kind = "project"
    /\ Answer(c, commands[calls[c].op].value)
    /\ UNCHANGED <<commands, projects, works, workspaces, up, life, started>>

\* A repeated registration finds the project of its own key, or gives up: ErrCommandInProgress.
RecoverProject(c) ==
    /\ At(c, "reused") /\ calls[c].request.kind = "project"
    /\ IF isProject(calls[c].op)
       THEN calls' = [calls EXCEPT ![c].pc = "closing", ![c].value = projectOf(calls[c].op)] /\ UNCHANGED answers
       ELSE Refuse(c)
    /\ UNCHANGED <<commands, projects, works, workspaces, up, life, started>>

sameSourceNever(p, source) == FALSE
\* A source that has a project keeps it: the first in the order of creation.
sameSource(p, source) == p.source = source
FindProject(c) ==
    LET found == SelectSeq(projects, LAMBDA p : sameSource(p, calls[c].request.source)) IN
    /\ At(c, "new") /\ calls[c].request.kind = "project"
    /\ calls' = IF found = <<>> THEN [calls EXCEPT ![c].pc = "appending"]
                ELSE [calls EXCEPT ![c].pc = "closing", ![c].value = found[1]]
    /\ UNCHANGED <<commands, projects, works, workspaces, answers, up, life, started>>

AppendProject(c) ==
    LET project == [op |-> calls[c].op, source |-> calls[c].request.source] IN
    /\ At(c, "appending") /\ calls[c].request.kind = "project"
    /\ projects' = Append(projects, project)
    /\ calls' = [calls EXCEPT ![c].pc = "closing", ![c].value = project]
    /\ UNCHANGED <<commands, works, workspaces, answers, up, life, started>>

-----------------------------------------------------------------------------
(* Work *)

\* createWork checks the project before it begins the command.
TakeIn(c, k, p) ==
    /\ isProject(p)
    /\ \/ \E r \in WorkRequests : validIntent(r) /\ begin(c, <<"create", k>>, CreateWork(p, r))
       \/ begin(c, <<"import", k>>, ImportWork(p))

\* createWork: a replay makes the workspace again before it answers.
ReplayWork(c) ==
    /\ At(c, "replay") /\ calls[c].request.kind # "project"
    /\ calls' = [calls EXCEPT ![c].pc = "replaying", ![c].value = commands[calls[c].op].value]
    /\ UNCHANGED <<commands, projects, works, workspaces, answers, up, life, started>>

RecoverWork(c) ==
    /\ At(c, "reused") /\ calls[c].request.kind # "project"
    /\ IF recorded(calls[c].op)
       THEN calls' = [calls EXCEPT ![c].pc = "ensuring", ![c].value = workOf(calls[c].op)] /\ UNCHANGED answers
       ELSE Refuse(c)
    /\ UNCHANGED <<commands, projects, works, workspaces, up, life, started>>

AppendWork(c) ==
    LET work == [op |-> calls[c].op, request |-> calls[c].request, life |-> life] IN
    /\ At(c, "new") /\ calls[c].request.kind # "project"
    /\ works' = works \cup {work}
    /\ calls' = [calls EXCEPT ![c].pc = "ensuring", ![c].value = work]
    /\ UNCHANGED <<commands, projects, workspaces, answers, up, life, started>>

\* Ensure: the directory is made, or is there; anything else in its place is an error.
Ensure(c) ==
    /\ At(c, "ensuring")
    /\ workspaces' = workspaces \cup {calls[c].value.op}
    /\ Goto(c, "closing")
    /\ UNCHANGED <<commands, projects, works, answers, up, life, started>>

EnsureFails(c) ==
    /\ At(c, "ensuring") /\ Count
    /\ Refuse(c)
    /\ UNCHANGED <<commands, projects, works, workspaces, up, life>>

EnsureReplay(c) ==
    /\ At(c, "replaying")
    /\ workspaces' = workspaces \cup {calls[c].value.op}
    /\ Answer(c, calls[c].value)
    /\ UNCHANGED <<commands, projects, works, up, life, started>>

-----------------------------------------------------------------------------
(* The daemon *)

Stop ==
    /\ up /\ Count
    /\ up' = FALSE
    /\ calls' = [c \in Callers |-> Idle]
    /\ UNCHANGED <<commands, projects, works, workspaces, answers, life>>

\* While the daemon is down a directory may disappear.
WorkspaceLost(w) ==
    /\ ~up /\ Count
    /\ w \in workspaces /\ workspaces' = workspaces \ {w}
    /\ UNCHANGED <<commands, projects, works, calls, answers, up, life>>

reconciledAnswered == workspaces \cup {o \in Operations : commands[o].status = "completed" /\ o[1] # "project"}
\* ReconcileWorkspaces: before the API serves, every recorded work item gets its directory.
reconciled == workspaces \cup {w.op : w \in works}
Start ==
    /\ ~up
    /\ workspaces' = reconciled
    /\ up' = TRUE /\ life' = life + 1
    /\ UNCHANGED <<commands, projects, works, calls, answers, started>>

Next ==
    \/ \E c \in Callers, k \in Keys :
          \/ \E s \in Sources : RegisterProject(c, k, s)
          \/ \E i \in 1..Len(projects) : TakeIn(c, k, projects[i].op)
    \/ \E c \in Callers :
          \/ ReplayProject(c) \/ RecoverProject(c) \/ FindProject(c) \/ AppendProject(c)
          \/ ReplayWork(c) \/ RecoverWork(c) \/ AppendWork(c) \/ Ensure(c) \/ EnsureFails(c) \/ EnsureReplay(c)
          \/ complete(c)
    \/ Stop \/ Start \/ \E w \in workspaces : WorkspaceLost(w)

Spec == Init /\ [][Next]_vars

-----------------------------------------------------------------------------
TypeOK ==
    /\ \A o \in Operations : commands[o].status \in {"absent", "pending", "completed"}
    /\ \A w \in works : w.op \in Operations /\ w.op[1] = w.request.kind
    /\ workspaces \subseteq {w.op : w \in works}
    /\ started \in 0..MaxCalls

\* A key takes in one work item, as it was asked for: however calls of the key race, stop and
\* repeat, every success names the same value, that value is recorded, and its request is the one answered
\* (createWork, begin, complete).
OneResultPerKey ==
    /\ \A a, b \in answers : a.op = b.op => a = b
    /\ \A v, w \in works : v.op = w.op => v = w
    /\ \A a \in answers : IF a.op[1] = "project" THEN a.value \in Range(projects) /\ a.value.source = a.request.source
                          ELSE a.value \in works /\ a.value.request = a.request

\* A command answers only after its work item has a workspace, and the daemon serves only once the
\* work of its earlier lives has one, also work whose call never came to its end (ReconcileWorkspaces, ensureWorkspace).
ServedWorkHasWorkspace ==
    up => \A w \in works : (w.life < life \/ \E a \in answers : a.op = w.op) => w.op \in workspaces

firstAt(s, e) == CHOOSE i \in DOMAIN s : s[i] = e /\ \A j \in DOMAIN s : s[j] = e => i <= j
\* What is recorded of authored work lost nothing but blanks and repetitions, and comes in the order in which it was
\* first written; work that is routed by hand names its workflow, and no other does (normalizedEvidence,
\* normalizedRoutingIntent).
EvidenceIsKept ==
    \A w \in works : w.request.kind = "create" =>
        LET kept == w.request.evidence IN
        /\ IsInjective(kept)
        /\ w.request.intent.mode = "override" <=> w.request.intent.workflow \notin {Blank, "none"}
        /\ \E r \in WorkRequests :
              /\ Range(r.evidence) \ {Blank} = Range(kept)
              /\ \A i, j \in DOMAIN kept : i < j => firstAt(r.evidence, kept[i]) < firstAt(r.evidence, kept[j])

\* A registration that begins when its source has a project never records a second one; only
\* registrations that overlap can (RegisterProject).
RegisteredIsFound ==
    [][Len(projects') > Len(projects) =>
          \E c \in Callers : calls[c] # Idle /\ calls[c].pc = "appending" /\ calls[c].request.source \notin calls[c].known
                             /\ projects'[Len(projects')].op = calls[c].op]_vars
=============================================================================
