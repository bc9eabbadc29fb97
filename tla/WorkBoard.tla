----------------------------- MODULE WorkBoard -----------------------------
(***************************************************************************)
(* The board of one work item (core/worklifecycle/service.go) and the run  *)
(* preparation and launch behind it (core/runexecution: createWorkflowRun, *)
(* Launch and the controls).  Plan derives the board's state and the moves *)
(* it allows from work, runs and gates; Apply checks the version the       *)
(* client saw and delegates one effect, idempotent by the client's key.    *)
(* The daemon may stop between any two transactions, and a client may send *)
(* a command again.  pos is the newest event position of all of these,     *)
(* which is the plan's resource version.  A run waits at a checkpoint when *)
(* gate is set.                                                            *)
(***************************************************************************)
EXTENDS Naturals, Sequences, FiniteSets, FiniteSetTheorems, TLAPS

CONSTANTS Calls, Keys,
          MaxRuns, MaxPos, MaxStops   \* bounds

VARIABLES work,       \* [status, version]
          runs,       \* by creation: [status, version, gate, assessed, open, needs, launched, at, key]
          pos,
          request,    \* by key, what was sent: [target, expected]
          command,    \* by key, the work.transition command: "none", "pending" or its reply
          prepared,   \* by key, the runs.prepare command
          controlled, \* by key, the run control command: "none" or "completed"
          effects,    \* by key, how many effects it had
          call,       \* what every call in the daemon is doing
          stops

vars == <<work, runs, pos, request, command, prepared, controlled, effects, call, stops>>

States == {"backlog", "ready", "running", "waiting", "blocked", "review", "failed", "done"}
Idle == [pc |-> "idle", key |-> "", state |-> "", run |-> 0, version |-> 0, supersedes |-> {}]
NoRequest == [target |-> "none", expected |-> 0]
Init ==
    /\ work = [status |-> "open", version |-> 1] /\ runs = <<>> /\ pos = 1 /\ stops = 0
    /\ request = [k \in Keys |-> NoRequest] /\ effects = [k \in Keys |-> 0]
    /\ command = [k \in Keys |-> "none"] /\ prepared = command /\ controlled = command
    /\ call = [c \in Calls |-> Idle]

-----------------------------------------------------------------------------
WorkTerminal == work.status \in {"completed", "cancelled"}
RunTerminal(s) == s \in {"completed", "cancelled", "reconcile_required"}
\* facts: the run the board is about is the unresolved one that changed last,
\* or the last of them all when none is unresolved.
Unresolved == {r \in DOMAIN runs : ~RunTerminal(runs[r].status)}
Newest(S) == CHOOSE r \in S : \A q \in S : runs[q].at <= runs[r].at
BoardRun == IF runs = <<>> THEN 0 ELSE IF Unresolved # {} THEN Newest(Unresolved) ELSE Newest(DOMAIN runs)

\* deriveState
BoardState ==
    IF BoardRun = 0 THEN IF WorkTerminal THEN "done" ELSE "backlog"
    ELSE LET run == runs[BoardRun]
         IN  IF WorkTerminal THEN "done"
             ELSE IF run.gate THEN "review"
             ELSE CASE run.status = "ready" -> IF run.needs THEN "review" ELSE "ready"
                    [] run.status = "queued" -> "ready"
                    [] run.status \in {"running", "waiting", "failed"} -> run.status
                    [] run.status = "reconcile_required" -> "blocked"
                    [] OTHER -> "done"

\* Plan and reasons: the targets that are enabled.
Enabled(target) ==
    /\ target # BoardState /\ ~WorkTerminal
    /\ Cardinality(Unresolved) <= 1                                   \* concurrency_conflict
    /\ BoardRun # 0 => ~runs[BoardRun].gate                           \* unresolved_checkpoint
                       /\ ~(runs[BoardRun].status = "ready" /\ BoardState = "review") \* readiness_required
    /\ CASE target = "ready"   -> BoardState = "backlog"
         [] target = "running" -> BoardRun # 0 /\ runs[BoardRun].status \in {"ready", "waiting", "failed"}
         [] target = "waiting" -> BoardRun # 0 /\ runs[BoardRun].status \in {"queued", "running"}
         [] OTHER              -> target = "done"

-----------------------------------------------------------------------------
Becomes(c, s) == call' = [call EXCEPT ![c] = s]
Goto(c, pc) == Becomes(c, [call[c] EXCEPT !.pc = pc])
Key(c) == call[c].key
Appended == pos < MaxPos /\ pos' = pos + 1
\* A change of one run's projection by an appended event.
Moved(r, status) == [runs[r] EXCEPT !.status = status, !.version = @ + 1, !.at = pos + 1]
commands == <<request, command, prepared, controlled, effects>>

\* A client sends a command against the plan it sees, or sends it again.
Send(c, k, target) ==
    /\ call[c].pc = "idle" /\ \A d \in Calls : call[d].pc = "idle" => c <= d   \* calls are alike
    /\ request[k] = NoRequest => k = CHOOSE j \in Keys : request[j] = NoRequest   \* and so are keys
    /\ request[k] \in {NoRequest, [target |-> target, expected |-> request[k].expected]}
    /\ request' = [request EXCEPT ![k] = IF @ = NoRequest THEN [target |-> target, expected |-> pos] ELSE @]
    /\ command[k] \in {"none", "pending"}                  \* an answered one is only answered again
    /\ Becomes(c, [Idle EXCEPT !.pc = "begin", !.key = k])
    /\ UNCHANGED <<work, runs, pos, command, prepared, controlled, effects, stops>>

\* Apply up to the effect: BeginCommand, the plan, its version and its decision.
Reply(k, answer) == IF command[k] \in {"none", "pending"} THEN [command EXCEPT ![k] = answer] ELSE command
Apply(c) ==
    /\ call[c].pc = "begin"
    /\ LET k == Key(c)
           req == request[k]
       IN  IF command[k] \notin {"none", "pending"} THEN UNCHANGED command /\ Becomes(c, Idle)
           ELSE IF req.target = "create"
           THEN UNCHANGED command /\ Goto(c, "prepare")
           ELSE IF pos # req.expected THEN command' = Reply(k, "version") /\ Becomes(c, Idle)
           ELSE IF ~Enabled(req.target) THEN command' = Reply(k, "rejected") /\ Becomes(c, Idle)
           ELSE /\ command' = Reply(k, "pending")
                /\ Becomes(c, [call[c] EXCEPT !.state = BoardState, !.run = BoardRun,
                                 !.pc = CASE req.target = "ready" -> "prepare"
                                          [] req.target = "done" /\ BoardRun = 0 -> "cancel work"
                                          [] OTHER -> "version"])
    /\ UNCHANGED <<work, runs, pos, request, prepared, controlled, effects, stops>>

\* createWorkflowRun up to its append: the command is claimed before the work is
\* read; earlier runs must be settled, or prepared and never attempted.
Settled(r) == RunTerminal(runs[r].status) \/ runs[r].status = "failed"
\* (A mutant of PrepareReads.)
PrepareReadsAgain(c) ==
    /\ call[c].pc = "prepare" /\ ~WorkTerminal
    /\ prepared' = [prepared EXCEPT ![Key(c)] = "pending"]
    /\ Becomes(c, [call[c] EXCEPT !.pc = "create", !.version = work.version, !.supersedes = {}])
    /\ UNCHANGED <<work, runs, pos, request, command, controlled, effects, stops>>
PrepareReads(c) ==
    /\ call[c].pc = "prepare"
    /\ LET k == Key(c)
           before == {r \in DOMAIN runs : ~Settled(r)}
       IN  IF prepared[k] # "none"
           THEN /\ UNCHANGED prepared
                /\ Goto(c, IF \E r \in DOMAIN runs : runs[r].key = k THEN "done" ELSE "failed")
           ELSE IF WorkTerminal \/ \E r \in before : runs[r].status # "ready"
           THEN prepared' = [prepared EXCEPT ![k] = "completed"] /\ Goto(c, "failed")
           ELSE /\ prepared' = [prepared EXCEPT ![k] = "pending"]
                /\ Becomes(c, [call[c] EXCEPT !.pc = "create", !.version = work.version,
                                              !.supersedes = {<<r, runs[r].version>> : r \in before}])
    /\ UNCHANGED <<work, runs, pos, request, command, controlled, effects, stops>>
\* The append: the prepared runs it supersedes are cancelled at the versions
\* read, the new run is created; the work item is not written.
PrepareAppends(c) ==
    /\ call[c].pc = "create"
    /\ prepared' = [prepared EXCEPT ![Key(c)] = "completed"]
    /\ IF \E s \in call[c].supersedes : runs[s[1]].version # s[2]
       THEN Goto(c, "failed") /\ UNCHANGED <<runs, pos, effects>>
       ELSE /\ Len(runs) < MaxRuns /\ Appended /\ Goto(c, "done")
            /\ effects' = [effects EXCEPT ![Key(c)] = @ + 1]
            /\ \E needs \in BOOLEAN :
                  runs' = Append([r \in DOMAIN runs |-> IF \E s \in call[c].supersedes : s[1] = r
                                                        THEN Moved(r, "cancelled") ELSE runs[r]],
                                 [status |-> "ready", version |-> 1, gate |-> FALSE, assessed |-> call[c].version,
                                  open |-> work.status = "open", needs |-> needs, launched |-> FALSE,
                                  at |-> pos + 1, key |-> Key(c)])
    /\ UNCHANGED <<work, request, command, controlled, stops>>

-----------------------------------------------------------------------------
\* (A mutant of MayLaunch.)
MayLaunchOpen(r) == runs[r].status = "ready" /\ ~runs[r].needs /\ ~WorkTerminal
\* Launch: the work item has not changed since the run was assessed.
MayLaunch(r) == runs[r].status = "ready" /\ ~runs[r].needs /\ work.version = runs[r].assessed /\ ~WorkTerminal
Launches(r) ==
    /\ Appended /\ runs' = [runs EXCEPT ![r] = [Moved(r, "queued") EXCEPT !.launched = TRUE]]
    /\ work' = IF work.status = "open" THEN [status |-> "active", version |-> work.version + 1] ELSE work

\* currentRunVersion, read after the plan was checked.
ReadVersion(c) ==
    /\ call[c].pc = "version"
    /\ Becomes(c, [call[c] EXCEPT !.pc = "control", !.version = runs[call[c].run].version])
    /\ UNCHANGED <<work, runs, pos, commands, stops>>
\* The control chosen by the target and the state planned, at the version read.
Control(c) ==
    LET r == call[c].run
        status == runs[r].status
        target == request[Key(c)].target
        allowed == CASE target = "running" /\ call[c].state = "failed" -> status = "failed"
                     [] target = "running" /\ call[c].state \in {"waiting", "blocked"} -> status = "waiting" /\ ~runs[r].gate
                     [] target = "running" /\ call[c].state \notin {"failed", "waiting", "blocked"} -> MayLaunch(r)
                     [] target = "waiting" -> status \in {"queued", "running"}
                     [] OTHER -> ~RunTerminal(status) \/ status = "reconcile_required"
    IN  /\ call[c].pc = "control"
        /\ IF controlled[Key(c)] = "completed" THEN Goto(c, "done") /\ UNCHANGED <<work, runs, pos, controlled, effects>>
           ELSE IF runs[r].version # call[c].version \/ ~allowed
           THEN Goto(c, "failed") /\ UNCHANGED <<work, runs, pos, controlled, effects>>
           ELSE /\ Goto(c, "done")
                /\ controlled' = [controlled EXCEPT ![Key(c)] = "completed"]
                /\ effects' = [effects EXCEPT ![Key(c)] = @ + 1]
                /\ IF target = "running" /\ call[c].state \notin {"failed", "waiting", "blocked"} THEN Launches(r)
                   ELSE /\ Appended /\ UNCHANGED work
                        /\ runs' = [runs EXCEPT ![r] = [Moved(r, CASE target = "running" -> "queued"
                                                                   [] target = "waiting" -> "waiting"
                                                                   [] OTHER -> "cancelled") EXCEPT !.gate = FALSE]]
        /\ UNCHANGED <<request, command, prepared, stops>>
\* work.cancelled when the plan had no run, at the work item's own version.
CancelWork(c) ==
    /\ call[c].pc = "cancel work"
    /\ IF WorkTerminal THEN Goto(c, "failed") /\ UNCHANGED <<work, pos, effects>>
       ELSE /\ Appended /\ Goto(c, "done")
            /\ work' = [status |-> "cancelled", version |-> work.version + 1]
            /\ effects' = [effects EXCEPT ![Key(c)] = @ + 1]
    /\ UNCHANGED <<runs, request, command, prepared, controlled, stops>>
\* (A mutant of Complete.)
CompleteOk(c) ==
    /\ call[c].pc \in {"done", "failed"}
    /\ command' = Reply(Key(c), "ok") /\ Becomes(c, Idle)
    /\ UNCHANGED <<work, runs, pos, request, prepared, controlled, effects, stops>>
\* CompleteCommand with the result, or with the failure.
Complete(c) ==
    /\ call[c].pc \in {"done", "failed"}
    /\ command' = Reply(Key(c), IF call[c].pc = "done" THEN "ok" ELSE "runtime")
    /\ Becomes(c, Idle)
    /\ UNCHANGED <<work, runs, pos, request, prepared, controlled, effects, stops>>

-----------------------------------------------------------------------------
\* The queue launches prepared runs that are ready, and runs go on.
Queue(r) ==
    /\ MayLaunch(r) /\ Launches(r)
    /\ UNCHANGED <<commands, call, stops>>
Progress(r) ==
    /\ \E s \in {[from |-> "queued", to |-> "running", gate |-> FALSE], [from |-> "running", to |-> "failed", gate |-> FALSE],
                 [from |-> "running", to |-> "waiting", gate |-> TRUE], [from |-> "waiting", to |-> "running", gate |-> FALSE],
                 [from |-> "running", to |-> "completed", gate |-> FALSE],
                 [from |-> "running", to |-> "reconcile_required", gate |-> FALSE]} :
          /\ runs[r].status = s.from /\ (s.from = "waiting" => runs[r].gate)
          /\ Appended /\ runs' = [runs EXCEPT ![r] = [Moved(r, s.to) EXCEPT !.gate = s.gate]]
          /\ work' = IF s.to = "completed" /\ ~WorkTerminal
                     THEN [status |-> "completed", version |-> work.version + 1] ELSE work
    /\ UNCHANGED <<commands, call, stops>>
Stop ==
    /\ stops < MaxStops /\ stops' = stops + 1 /\ call' = [c \in Calls |-> Idle]
    /\ UNCHANGED <<work, runs, pos, commands>>

Next ==
    \/ Stop
    \/ \E c \in Calls :
          \/ \E k \in Keys, t \in {"ready", "running", "waiting", "done", "create"} : Send(c, k, t)
          \/ Apply(c) \/ PrepareReads(c) \/ PrepareAppends(c) \/ ReadVersion(c) \/ Control(c)
          \/ CancelWork(c) \/ Complete(c)
    \/ \E r \in DOMAIN runs : Queue(r) \/ Progress(r)

-----------------------------------------------------------------------------
\* Every variable has its type.
TypeOK ==
    /\ work.status \in {"open", "active", "completed", "cancelled"} /\ work.version \in 1..MaxPos
    /\ \A r \in DOMAIN runs : runs[r].status \in {"ready", "queued", "running", "waiting", "failed", "completed",
                                                  "cancelled", "reconcile_required"}
    /\ pos \in 1..MaxPos /\ BoardState \in States
    /\ \A k \in Keys : command[k] \in {"none", "pending", "ok", "version", "rejected", "runtime"}

\* Of the runs prepared while the work item was open only one is launched,
\* although several may be prepared at once: the launch compares the work
\* item's version with the assessed one, and the first launch changes it.
OpenWorkLaunchesOnce == Cardinality({r \in DOMAIN runs : runs[r].open /\ runs[r].launched}) <= 1

\* A command has one effect at most, sent twice at once or again after the
\* daemon stopped in the middle of it.
EffectOncePerKey == \A k \in Keys : effects[k] <= 1

\* Success is reported only for an effect that happened.
SuccessHappened == \A k \in Keys : command[k] = "ok" => effects[k] = 1

-----------------------------------------------------------------------------
(* Proofs.  Several calls of one key may be at work, each on a plan it read *)
(* earlier; three command rows, the plan's version and the work item's own  *)
(* status keep them from having two effects.  BoardInv says which of these  *)
(* holds back which call.                                                   *)
Spec == Init /\ [][Next]_vars

Shaped(x) == {"pc", "key", "version"} \subseteq DOMAIN x
RunStatuses == {"ready", "queued", "running", "waiting", "failed", "completed", "cancelled", "reconcile_required"}
RunRows == [status : RunStatuses, version : Nat, gate : BOOLEAN, assessed : Nat, open : BOOLEAN, needs : BOOLEAN,
            launched : BOOLEAN, at : Nat, key : Keys]
Targets == {"ready", "running", "waiting", "done", "create"}
Tables ==
    /\ pos \in Nat /\ runs \in Seq(RunRows)
    /\ work \in [status : {"open", "active", "completed", "cancelled"}, version : Nat]
    /\ request \in [Keys -> [target : Targets \cup {"none"}, expected : Nat]] /\ effects \in [Keys -> Nat]
    /\ command = [k \in Keys |-> command[k]] /\ prepared = [k \in Keys |-> prepared[k]]
    /\ controlled = [k \in Keys |-> controlled[k]]
    /\ call = [c \in Calls |-> call[c]] /\ \A c \in Calls : Shaped(call[c])

\* A call at work has a key that was sent and goes the way of its target.
Sent(k) == request[k].target # "none"
Prepares(k) == request[k].target \in {"ready", "create"}
Planned == {"version", "control"}
Routed ==
    \A c \in Calls : call[c].pc # "idle" =>
       /\ Key(c) \in Keys /\ Sent(Key(c))
       /\ call[c].pc \in {"prepare", "create"} => Prepares(Key(c))
       /\ call[c].pc \in Planned \cup {"cancel work"} => ~Prepares(Key(c))

\* A plan that was acted upon is old: its version has been passed.
PlansAge ==
    \A k \in Keys : /\ request[k].expected <= pos
                    /\ effects[k] # 0 => Sent(k) /\ (Prepares(k) \/ request[k].expected < pos)
\* runs.prepare: the command row is claimed by one call.
PreparedOnce ==
    /\ \A k \in Keys : prepared[k] = "none" /\ Prepares(k) => effects[k] = 0
    /\ \A c \in Calls : call[c].pc = "create" => prepared[Key(c)] # "none" /\ effects[Key(c)] = 0
    /\ \A c, d \in Calls : call[c].pc = "create" /\ call[d].pc = "create" /\ Key(c) = Key(d) => c = d
\* The control and the cancellation of the work item exclude each other: which
\* of them a call goes for depends on the plan at the version it names.
ControlHeld ==
    \A c \in Calls : call[c].pc \in Planned => effects[Key(c)] = 0 \/ controlled[Key(c)] = "completed"
CancelHeld == \A c \in Calls : call[c].pc = "cancel work" => effects[Key(c)] = 0 \/ WorkTerminal
SamePlan ==
    \A c \in Calls : request[Key(c)].expected = pos =>
       /\ call[c].pc \in Planned => BoardRun # 0
       /\ call[c].pc = "cancel work" => BoardRun = 0
Apart == \A c, d \in Calls : call[c].pc = "cancel work" /\ call[d].pc \in Planned => Key(c) # Key(d)
\* What a repeated call takes for its own effect is one.
EffectsSeen ==
    /\ \A k \in Keys : controlled[k] = "completed" => effects[k] = 1
    /\ \A r \in DOMAIN runs : effects[runs[r].key] = 1
    /\ \A c \in Calls : call[c].pc = "done" => effects[Key(c)] = 1

EffectInv ==
    /\ PlansAge /\ PreparedOnce /\ ControlHeld /\ CancelHeld /\ SamePlan /\ Apart /\ EffectsSeen
    /\ EffectOncePerKey /\ SuccessHappened

\* The first launch of open work makes it active, at its second version.
LaunchInv ==
    /\ work.version > 0 /\ (work.version = 1 <=> work.status = "open")
    /\ \A c \in Calls : call[c].pc = "create" => call[c].version \in 1..work.version
    /\ \A r \in DOMAIN runs : runs[r].open => runs[r].assessed = 1
    /\ \A r \in DOMAIN runs : runs[r].open /\ runs[r].launched => work.version > 1
    /\ \A r, q \in DOMAIN runs : runs[r].open /\ runs[r].launched /\ runs[q].open /\ runs[q].launched => r = q

BoardInv == Tables /\ Routed /\ EffectInv /\ LaunchInv

\* A call goes on at p with its key, or is over.
CallAt(c, p) ==
    /\ call' = [d \in Calls |-> call'[d]] /\ Shaped(call'[c]) /\ call'[c].pc = p
    /\ \A d \in Calls \ {c} : call'[d] = call[d]
CallTo(c, p) == CallAt(c, p) /\ call'[c].key = call[c].key

\* What a call becomes when fields of it are replaced.
LEMMA Fields ==
    ASSUME NEW x, Shaped(x), NEW p, NEW a, NEW b
    PROVE  /\ LET y == [x EXCEPT !.pc = p] IN Shaped(y) /\ y.pc = p /\ y.key = x.key
           /\ LET y == [x EXCEPT !.pc = p, !.version = a] IN Shaped(y) /\ y.pc = p /\ y.key = x.key
           /\ LET y == [x EXCEPT !.state = a, !.run = b, !.pc = p] IN Shaped(y) /\ y.pc = p /\ y.key = x.key
           /\ LET y == [x EXCEPT !.pc = p, !.version = a, !.supersedes = b]
              IN  Shaped(y) /\ y.pc = p /\ y.key = x.key /\ y.version = a
  BY DEF Shaped

\* What the step of a call does to the table of calls (Goto, Becomes).
LEMMA CallMoves ==
    ASSUME Tables, NEW c \in Calls, NEW x
    PROVE  /\ Goto(c, x) => CallTo(c, x)
           /\ Becomes(c, Idle) => CallAt(c, "idle")
           /\ Becomes(c, x) /\ Shaped(x) => CallAt(c, x.pc) /\ call'[c] = x
  <1>1. Shaped(call[c]) /\ Shaped(Idle) /\ Idle.pc = "idle"
    BY DEF Tables, Shaped, Idle
  <1>2. ASSUME NEW y, Shaped(y), Becomes(c, y) PROVE CallAt(c, y.pc) /\ call'[c] = y
    BY <1>2 DEF Tables, Becomes, CallAt
  <1>3. LET y == [call[c] EXCEPT !.pc = x] IN Shaped(y) /\ y.pc = x /\ y.key = call[c].key
    BY <1>1 DEF Shaped
  <1>4. ASSUME Goto(c, x) PROVE CallTo(c, x)
    BY <1>2, <1>3, <1>4 DEF Goto, CallTo
  <1> QED
    BY <1>1, <1>2, <1>4

-----------------------------------------------------------------------------
\* Rows of the run table keep what the invariant speaks of.
RowsKept ==
    /\ runs' \in Seq(RunRows) /\ DOMAIN runs' = DOMAIN runs
    /\ \A q \in DOMAIN runs : /\ runs'[q].key = runs[q].key /\ runs'[q].open = runs[q].open
                              /\ runs'[q].assessed = runs[q].assessed
\* A run that moves to another status.
LEMMA RowMoved ==
    ASSUME Tables, NEW r \in DOMAIN runs, NEW st \in RunStatuses
    PROVE  /\ Moved(r, st) \in RunRows /\ Moved(r, st).key = runs[r].key /\ Moved(r, st).open = runs[r].open
           /\ Moved(r, st).assessed = runs[r].assessed /\ Moved(r, st).launched = runs[r].launched
  <1>1. runs[r] \in RunRows /\ pos + 1 \in Nat
    BY DEF Tables
  <1> DEFINE x == [runs[r] EXCEPT !.status = st]
             y == [x EXCEPT !.version = x.version + 1]
             z == [y EXCEPT !.at = pos + 1]
             Same(w) == /\ w \in RunRows /\ w.key = runs[r].key /\ w.open = runs[r].open
                        /\ w.assessed = runs[r].assessed /\ w.launched = runs[r].launched
  <1>2. Same(x)
    BY <1>1 DEF RunRows
  <1>3. Same(y)
    <2> HIDE DEF x
    <2> QED
      BY <1>2 DEF RunRows
  <1>4. Same(z)
    <2> HIDE DEF y
    <2> QED
      BY <1>1, <1>3 DEF RunRows
  <1>5. Moved(r, st) = z
    BY <1>1 DEF Moved, RunRows
  <1> QED
    BY <1>4, <1>5

\* The run table when one row is replaced.
LEMMA RunMoves ==
    ASSUME Tables, NEW r, NEW st \in RunStatuses, NEW g \in BOOLEAN
    PROVE  /\ runs' = [runs EXCEPT ![r] = [Moved(r, st) EXCEPT !.gate = g]] =>
                 RowsKept /\ \A q \in DOMAIN runs : runs'[q].launched = runs[q].launched
           /\ runs' = [runs EXCEPT ![r] = [Moved(r, st) EXCEPT !.launched = TRUE]] =>
                 RowsKept /\ \A q \in DOMAIN runs : q # r => runs'[q].launched = runs[q].launched
  <1>1. \A q \in DOMAIN runs : runs[q] \in RunRows
    BY DEF Tables
  <1>2. ASSUME r \in DOMAIN runs
        PROVE  /\ LET y == [Moved(r, st) EXCEPT !.gate = g]
                  IN  y \in RunRows /\ y.key = runs[r].key /\ y.open = runs[r].open
                      /\ y.assessed = runs[r].assessed /\ y.launched = runs[r].launched
               /\ LET y == [Moved(r, st) EXCEPT !.launched = TRUE]
                  IN  y \in RunRows /\ y.key = runs[r].key /\ y.open = runs[r].open /\ y.assessed = runs[r].assessed
    <2>1. /\ Moved(r, st) \in RunRows /\ Moved(r, st).key = runs[r].key /\ Moved(r, st).open = runs[r].open
          /\ Moved(r, st).assessed = runs[r].assessed /\ Moved(r, st).launched = runs[r].launched
      BY <1>2, RowMoved
    <2> QED
      BY <2>1 DEF RunRows
  <1>3. ASSUME NEW y, runs' = [runs EXCEPT ![r] = y], r \in DOMAIN runs => y \in RunRows
        PROVE  /\ runs' \in Seq(RunRows) /\ DOMAIN runs' = DOMAIN runs
               /\ \A q \in DOMAIN runs : runs'[q] = IF q = r THEN y ELSE runs[q]
    <2>1. runs \in Seq(RunRows)
      BY DEF Tables
    <2>2. CASE r \in DOMAIN runs
      BY <1>3, <2>1, <2>2
    <2>3. CASE r \notin DOMAIN runs
      <3>1. runs' = runs
        BY <1>3, <2>1, <2>3
      <3> QED
        BY <2>1, <2>3, <3>1
    <2> QED
      BY <2>2, <2>3
  <1>4. ASSUME runs' = [runs EXCEPT ![r] = [Moved(r, st) EXCEPT !.gate = g]]
        PROVE  RowsKept /\ \A q \in DOMAIN runs : runs'[q].launched = runs[q].launched
    BY <1>2, <1>3, <1>4 DEF RowsKept
  <1>5. ASSUME runs' = [runs EXCEPT ![r] = [Moved(r, st) EXCEPT !.launched = TRUE]]
        PROVE  RowsKept /\ \A q \in DOMAIN runs : q # r => runs'[q].launched = runs[q].launched
    BY <1>2, <1>3, <1>5 DEF RowsKept
  <1> QED
    BY <1>4, <1>5

\* A call of a launched run, or the queue: one prepared run of the work item is launched.
LEMMA LaunchKeeps ==
    ASSUME Tables, LaunchInv, NEW r, MayLaunch(r), Launches(r), \A c \in Calls : call'[c].pc = "create" => call'[c] = call[c]
    PROVE  /\ RowsKept /\ pos' = pos + 1 /\ LaunchInv'
           /\ work' \in [status : {"open", "active", "completed", "cancelled"}, version : Nat]
           /\ WorkTerminal => work' = work
  <1>1. RowsKept /\ \A q \in DOMAIN runs : q # r => runs'[q].launched = runs[q].launched
    BY RunMoves DEF Launches, RunStatuses
  <1>2. pos' = pos + 1 /\ (WorkTerminal => work' = work)
    BY DEF Launches, Appended, WorkTerminal
  <1>3. /\ work.status # "open" => work' = work
        /\ work.status = "open" => work'.status = "active" /\ work'.version = 2
        /\ work' \in [status : {"open", "active", "completed", "cancelled"}, version : Nat]
    BY DEF Launches, LaunchInv, Tables
  <1>4. r \in DOMAIN runs /\ runs[r].open => work.status = "open" /\ \A q \in DOMAIN runs : runs[q].open => ~runs[q].launched
    <2> SUFFICES ASSUME r \in DOMAIN runs, runs[r].open
                 PROVE  work.status = "open" /\ \A q \in DOMAIN runs : runs[q].open => ~runs[q].launched
      OBVIOUS
    <2>1. runs[r].assessed = 1
      BY DEF LaunchInv
    <2>2. work.version = 1
      BY <2>1 DEF MayLaunch
    <2> QED
      BY <2>2 DEF LaunchInv
  <1>5. LaunchInv'
    <2>1. /\ work'.version > 0 /\ (work'.version = 1 <=> work'.status = "open") /\ work.version <= work'.version
          /\ (work.version > 1 => work'.version > 1)
      BY <1>3 DEF LaunchInv, Tables
    <2>2. \A c \in Calls : call'[c].pc = "create" => call'[c].version \in 1..work'.version
      BY <1>3, <2>1 DEF LaunchInv, Tables
    <2>3. \A q \in DOMAIN runs' : runs'[q].open => runs'[q].assessed = 1
      BY <1>1 DEF LaunchInv, RowsKept
    <2>4. \A q \in DOMAIN runs' : runs'[q].open /\ runs'[q].launched => work'.version > 1
      BY <1>1, <1>3, <1>4, <2>1 DEF LaunchInv, RowsKept
    <2>5. \A p, q \in DOMAIN runs' :
             runs'[p].open /\ runs'[p].launched /\ runs'[q].open /\ runs'[q].launched => p = q
      BY <1>1, <1>4 DEF LaunchInv, RowsKept
    <2> QED
      BY <2>1, <2>2, <2>3, <2>4, <2>5 DEF LaunchInv
  <1> QED
    BY <1>1, <1>2, <1>3, <1>5

-----------------------------------------------------------------------------
\* Whether a call may go to p: what its stage relies on holds.
MayGo(c, p) ==
    /\ p # "idle" => call[c].pc # "idle" /\ call'[c].key = call[c].key
    /\ p = "prepare" => Prepares(Key(c))
    /\ p = "create" => /\ Prepares(Key(c)) /\ prepared[Key(c)] = "none" /\ prepared'[Key(c)] # "none"
                       /\ call'[c].version = work.version
    /\ p \in Planned => \/ call[c].pc = "version"
                        \/ ~Prepares(Key(c)) /\ request[Key(c)].expected = pos /\ BoardRun # 0
    /\ p = "cancel work" => ~Prepares(Key(c)) /\ request[Key(c)].expected = pos /\ BoardRun = 0
    /\ p = "done" => effects[Key(c)] = 1

\* A step of a call that has no effect: it reads, answers or gives up.
LEMMA NoEffectStep ==
    ASSUME BoardInv, NEW c \in Calls, NEW p, CallAt(c, p), MayGo(c, p),
           UNCHANGED <<work, runs, pos, effects, controlled, request>>,
           command' = [k \in Keys |-> command'[k]],
           \A k \in Keys : command'[k] = "ok" => command[k] = "ok" \/ effects[k] = 1,
           prepared' = [k \in Keys |-> prepared'[k]],
           \A k \in Keys : prepared[k] # "none" => prepared'[k] # "none"
    PROVE  BoardInv'
  <1> DEFINE k == Key(c)
  <1>1. BoardRun' = BoardRun /\ WorkTerminal' = WorkTerminal
    BY DEF BoardRun, Unresolved, Newest, WorkTerminal
  <1>2. /\ \A d \in Calls \ {c} : call'[d] = call[d]
        /\ call'[c].pc = p
    BY DEF CallAt
  <1>3. Tables'
    BY DEF BoardInv, Tables, CallAt
  <1>4. Routed'
    <2> SUFFICES ASSUME NEW d \in Calls, call'[d].pc # "idle"
                 PROVE  /\ call'[d].key \in Keys /\ Sent(call'[d].key)
                        /\ call'[d].pc \in {"prepare", "create"} => Prepares(call'[d].key)
                        /\ call'[d].pc \in Planned \cup {"cancel work"} => ~Prepares(call'[d].key)
      BY DEF Routed, Key, Sent, Prepares
    <2>1. CASE d = c
      BY <1>2, <2>1 DEF BoardInv, Routed, MayGo, Key, Planned
    <2>2. CASE d # c
      BY <1>2, <2>2 DEF BoardInv, Routed, Key
    <2> QED
      BY <2>1, <2>2
  <1>5. call[c].pc # "idle" => k \in Keys
    BY DEF BoardInv, Routed
  <1>6. PlansAge'
    BY DEF BoardInv, EffectInv, PlansAge, Sent, Prepares
  <1>7. PreparedOnce'
    <2>1. \A q \in Keys : prepared'[q] = "none" /\ Prepares(q)' => effects'[q] = 0
      BY DEF BoardInv, EffectInv, PreparedOnce, Prepares
    <2>2. p = "create" => /\ k \in Keys /\ effects[k] = 0
                          /\ \A d \in Calls : call[d].pc = "create" => Key(d) # k
      BY <1>5 DEF BoardInv, EffectInv, PreparedOnce, MayGo
    <2>3. \A d \in Calls : call'[d].pc = "create" => prepared'[call'[d].key] # "none" /\ effects[call'[d].key] = 0
      <3> SUFFICES ASSUME NEW d \in Calls, call'[d].pc = "create"
                   PROVE  prepared'[call'[d].key] # "none" /\ effects[call'[d].key] = 0
        OBVIOUS
      <3>1. CASE d = c
        BY <1>2, <2>2, <3>1 DEF MayGo, Key
      <3>2. CASE d # c
        BY <1>2, <3>2 DEF BoardInv, EffectInv, PreparedOnce, Routed, Key
      <3> QED
        BY <3>1, <3>2
    <2>4. \A d, e \in Calls : call'[d].pc = "create" /\ call'[e].pc = "create" /\ call'[d].key = call'[e].key => d = e
      <3> SUFFICES ASSUME NEW d \in Calls, NEW e \in Calls, call'[d].pc = "create", call'[e].pc = "create",
                          call'[d].key = call'[e].key
                   PROVE  d = e
        OBVIOUS
      <3>1. CASE d # c /\ e # c
        BY <1>2, <3>1 DEF BoardInv, EffectInv, PreparedOnce, Key
      <3>2. CASE d = c /\ e # c
        BY <1>2, <2>2, <3>2 DEF MayGo, Key
      <3>3. CASE d # c /\ e = c
        BY <1>2, <2>2, <3>3 DEF MayGo, Key
      <3> QED
        BY <3>1, <3>2, <3>3
    <2> QED
      BY <2>1, <2>3, <2>4 DEF PreparedOnce, Key
  <1>0. k \in Keys /\ ~Prepares(k) /\ request[k].expected = pos => effects[k] = 0
    <2>1. pos \in Nat
      BY DEF BoardInv, Tables
    <2> QED
      BY <2>1 DEF BoardInv, EffectInv, PlansAge
  <1>8. p \in Planned => effects[k] = 0 \/ controlled[k] = "completed"
    BY <1>0, <1>5 DEF BoardInv, EffectInv, ControlHeld, MayGo, Planned
  <1>9. p = "cancel work" => effects[k] = 0
    BY <1>0, <1>5 DEF MayGo
  <1>10. ControlHeld'
    BY <1>2, <1>8 DEF BoardInv, EffectInv, ControlHeld, MayGo, Key, Planned
  <1>11. CancelHeld'
    BY <1>1, <1>2, <1>9 DEF BoardInv, EffectInv, CancelHeld, MayGo, Key
  <1>12. p \in Planned /\ request[k].expected = pos => BoardRun # 0
    BY DEF BoardInv, EffectInv, SamePlan, MayGo, Planned
  <1>13. SamePlan'
    BY <1>1, <1>2, <1>12 DEF BoardInv, EffectInv, SamePlan, MayGo, Key, Planned
  <1>14. /\ p \in Planned => \A d \in Calls : call[d].pc = "cancel work" => Key(d) # k
         /\ p = "cancel work" => \A d \in Calls : call[d].pc \in Planned => Key(d) # k
    BY DEF BoardInv, EffectInv, SamePlan, Apart, MayGo, Planned
  <1>15. Apart'
    <2> SUFFICES ASSUME NEW d \in Calls, NEW e \in Calls, call'[d].pc = "cancel work", call'[e].pc \in Planned
                 PROVE  call'[d].key # call'[e].key
      BY DEF Apart, Key, Planned
    <2>1. CASE d = c /\ e # c
      BY <1>2, <1>14, <2>1 DEF MayGo, Key
    <2>2. CASE d # c /\ e = c
      BY <1>2, <1>14, <2>2 DEF MayGo, Key, Planned
    <2>3. CASE d # c /\ e # c
      <3>1. Apart
        BY DEF BoardInv, EffectInv
      <3>2. call'[d] = call[d] /\ call'[e] = call[e]
        BY <1>2, <2>3
      <3> QED
        BY <3>1, <3>2 DEF Apart, Key
    <2>4. CASE d = c /\ e = c
      BY <1>2, <2>4 DEF Planned
    <2> QED
      BY <2>1, <2>2, <2>3, <2>4
  <1>16. EffectsSeen'
    BY <1>2 DEF BoardInv, EffectInv, EffectsSeen, MayGo, Key
  <1>17. EffectOncePerKey' /\ SuccessHappened'
    BY DEF BoardInv, EffectInv, EffectOncePerKey, SuccessHappened
  <1>18. LaunchInv'
    <2>1. \A d \in Calls : call'[d].pc = "create" => call'[d].version \in 1..work.version
      <3>1. p = "create" => call'[c].version \in 1..work.version
        <4>1. work.version \in Nat /\ work.version > 0
          BY DEF BoardInv, Tables, LaunchInv
        <4> QED
          BY <4>1 DEF MayGo
      <3> QED
        BY <1>2, <3>1 DEF BoardInv, LaunchInv
    <2> QED
      BY <2>1 DEF BoardInv, LaunchInv
  <1> QED
    BY <1>3, <1>4, <1>6, <1>7, <1>10, <1>11, <1>13, <1>15, <1>16, <1>17, <1>18 DEF BoardInv, EffectInv

\* An answer other than success.
LEMMA Replies ==
    ASSUME Tables, NEW k, NEW a
    PROVE  /\ Reply(k, a) = [q \in Keys |-> Reply(k, a)[q]]
           /\ \A q \in Keys : Reply(k, a)[q] = "ok" => command[q] = "ok" \/ (q = k /\ a = "ok")
  BY DEF Reply, Tables

\* Apply up to the effect.
LEMMA ApplyStep == ASSUME BoardInv, NEW c \in Calls, Apply(c) PROVE BoardInv'
  <1> DEFINE req == request[Key(c)]
             at == CASE req.target = "ready" -> "prepare"
                     [] req.target = "done" /\ BoardRun = 0 -> "cancel work"
                     [] OTHER -> "version"
             y == [call[c] EXCEPT !.state = BoardState, !.run = BoardRun, !.pc = at]
  <1>1. /\ Tables /\ Shaped(call[c]) /\ call[c].pc = "begin" /\ Key(c) \in Keys /\ req.target \in Targets
        /\ UNCHANGED <<work, runs, pos, request, prepared, controlled, effects>>
    BY DEF Apply, BoardInv, Tables, Routed, Sent
  <1>2. command' = command \/ \E a \in {"version", "rejected", "pending"} : command' = Reply(Key(c), a)
    BY DEF Apply
  <1>3. command' = [k \in Keys |-> command'[k]] /\ \A k \in Keys : command'[k] = "ok" => command[k] = "ok"
    BY <1>1, <1>2, Replies DEF Tables
  <1>4. prepared' = [k \in Keys |-> prepared'[k]]
    BY <1>1 DEF Tables
  <1>5. ASSUME NEW p, CallAt(c, p), MayGo(c, p) PROVE BoardInv'
    BY <1>1, <1>3, <1>4, <1>5, NoEffectStep
  <1>6. CASE Becomes(c, Idle)
    BY <1>1, <1>5, <1>6, CallMoves DEF MayGo, Planned
  <1>7. CASE req.target = "create" /\ Goto(c, "prepare")
    BY <1>1, <1>5, <1>7, CallMoves DEF CallTo, MayGo, Planned, Prepares
  <1>8. CASE req.target # "create" /\ pos = req.expected /\ Enabled(req.target) /\ Becomes(c, y)
    <2>1. req.target \in {"running", "waiting"} => BoardRun # 0
      BY <1>8 DEF Enabled
    <2>2. /\ req.target = "ready" => at = "prepare"
          /\ req.target # "ready" /\ BoardRun = 0 => at = "cancel work"
          /\ req.target # "ready" /\ BoardRun # 0 => at = "version"
      BY <1>1, <1>8, <2>1 DEF Targets
    <2> HIDE DEF at
    <2>3. Shaped(y) /\ y.pc = at /\ y.key = call[c].key
      BY <1>1 DEF Shaped
    <2> HIDE DEF y
    <2>4. CallAt(c, at) /\ call'[c].key = call[c].key
      BY <1>1, <1>8, <2>3, CallMoves
    <2>5. MayGo(c, at)
      BY <1>1, <1>8, <2>2, <2>4 DEF MayGo, Planned, Prepares
    <2> QED
      BY <1>5, <2>4, <2>5
  <1>9. \/ Becomes(c, Idle) \/ (req.target = "create" /\ Goto(c, "prepare"))
        \/ (req.target # "create" /\ pos = req.expected /\ Enabled(req.target) /\ Becomes(c, y))
    BY DEF Apply
  <1> QED
    BY <1>6, <1>7, <1>8, <1>9

\* createWorkflowRun up to its append.
LEMMA PrepareStep == ASSUME BoardInv, NEW c \in Calls, PrepareReads(c) PROVE BoardInv'
  <1> DEFINE k == Key(c)
             S == {<<r, runs[r].version>> : r \in {q \in DOMAIN runs : ~Settled(q)}}
             y == [call[c] EXCEPT !.pc = "create", !.version = work.version, !.supersedes = S]
  <1>1. /\ Tables /\ Shaped(call[c]) /\ call[c].pc = "prepare" /\ k \in Keys /\ Prepares(k)
        /\ UNCHANGED <<work, runs, pos, request, command, controlled, effects>>
    BY DEF PrepareReads, BoardInv, Tables, Routed
  <1>2. \/ /\ UNCHANGED prepared /\ (Goto(c, "done") \/ Goto(c, "failed"))
           /\ (Goto(c, "done") => \E r \in DOMAIN runs : runs[r].key = k)
        \/ prepared' = [prepared EXCEPT ![k] = "completed"] /\ Goto(c, "failed")
        \/ prepared[k] = "none" /\ prepared' = [prepared EXCEPT ![k] = "pending"] /\ Becomes(c, y)
    <2>1. CASE prepared[k] # "none"
      <3>1. UNCHANGED prepared /\ Goto(c, IF \E r \in DOMAIN runs : runs[r].key = k THEN "done" ELSE "failed")
        BY <2>1 DEF PrepareReads
      <3>2. Goto(c, "done") => call'[c].pc = "done"
        BY <1>1, CallMoves DEF CallTo, CallAt
      <3>3. CASE \E r \in DOMAIN runs : runs[r].key = k
        BY <3>1, <3>3
      <3>4. CASE ~\E r \in DOMAIN runs : runs[r].key = k
        <4>1. Goto(c, "failed")
          BY <3>1, <3>4
        <4>2. call'[c].pc = "failed"
          BY <1>1, <4>1, CallMoves DEF CallTo, CallAt
        <4> QED
          BY <3>1, <3>2, <4>1, <4>2
      <3> QED
        BY <3>3, <3>4
    <2>2. CASE prepared[k] = "none"
      BY <2>2 DEF PrepareReads
    <2> QED
      BY <2>1, <2>2
  <1>3. /\ prepared' = [q \in Keys |-> prepared'[q]]
        /\ \A q \in Keys : prepared[q] # "none" => prepared'[q] # "none"
    BY <1>1, <1>2 DEF Tables
  <1>4. command' = [q \in Keys |-> command'[q]] /\ \A q \in Keys : command'[q] = "ok" => command[q] = "ok"
    BY <1>1 DEF Tables
  <1>5. ASSUME NEW p, CallAt(c, p), MayGo(c, p) PROVE BoardInv'
    BY <1>1, <1>3, <1>4, <1>5, NoEffectStep
  <1>6. CASE Goto(c, "failed")
    BY <1>1, <1>5, <1>6, CallMoves DEF CallTo, MayGo, Planned
  <1>7. CASE Goto(c, "done") /\ \E r \in DOMAIN runs : runs[r].key = k
    <2>1. effects[k] = 1
      BY <1>7 DEF BoardInv, EffectInv, EffectsSeen
    <2> QED
      BY <1>1, <1>5, <1>7, <2>1, CallMoves DEF CallTo, MayGo, Planned
  <1>8. CASE prepared[k] = "none" /\ prepared' = [prepared EXCEPT ![k] = "pending"] /\ Becomes(c, y)
    <2>1. Shaped(y) /\ y.pc = "create" /\ y.key = call[c].key /\ y.version = work.version
      BY <1>1 DEF Shaped
    <2> HIDE DEF y
    <2>2. CallAt(c, "create") /\ call'[c] = y
      BY <1>1, <1>8, <2>1, CallMoves
    <2>3. prepared'[k] # "none"
      BY <1>1, <1>8 DEF Tables
    <2>4. MayGo(c, "create")
      BY <1>1, <1>8, <2>1, <2>2, <2>3 DEF MayGo, Planned
    <2> QED
      BY <1>5, <2>2, <2>4
  <1> QED
    BY <1>2, <1>6, <1>7, <1>8

\* currentRunVersion, and CompleteCommand.
LEMMA AnswerStep == ASSUME BoardInv, NEW c \in Calls, ReadVersion(c) \/ Complete(c) PROVE BoardInv'
  <1>1. Tables /\ Shaped(call[c])
    BY DEF BoardInv, Tables
  <1>2. CASE ReadVersion(c)
    <2> DEFINE y == [call[c] EXCEPT !.pc = "control", !.version = runs[call[c].run].version]
    <2>1. /\ call[c].pc = "version" /\ Becomes(c, y)
          /\ UNCHANGED <<work, runs, pos, request, command, prepared, controlled, effects>>
      BY <1>2 DEF ReadVersion, commands
    <2>2. Shaped(y) /\ y.pc = "control" /\ y.key = call[c].key
      BY <1>1 DEF Shaped
    <2> HIDE DEF y
    <2>3. CallAt(c, "control") /\ call'[c].key = call[c].key
      BY <1>1, <2>1, <2>2, CallMoves
    <2>4. MayGo(c, "control")
      BY <2>1, <2>3 DEF MayGo, Planned
    <2>5. command' = [k \in Keys |-> command'[k]] /\ prepared' = [k \in Keys |-> prepared'[k]]
      BY <1>1, <2>1 DEF Tables
    <2> QED
      BY <2>1, <2>3, <2>4, <2>5, NoEffectStep
  <1>3. CASE Complete(c)
    <2>1. /\ call[c].pc \in {"done", "failed"} /\ Becomes(c, Idle)
          /\ UNCHANGED <<work, runs, pos, request, prepared, controlled, effects>>
          /\ command' = Reply(Key(c), IF call[c].pc = "done" THEN "ok" ELSE "runtime")
      BY <1>3 DEF Complete
    <2>2. CallAt(c, "idle") /\ MayGo(c, "idle")
      BY <1>1, <2>1, CallMoves DEF MayGo, Planned
    <2>3. call[c].pc = "done" => effects[Key(c)] = 1
      BY DEF BoardInv, EffectInv, EffectsSeen
    <2>4. /\ command' = [k \in Keys |-> command'[k]]
          /\ \A k \in Keys : command'[k] = "ok" => command[k] = "ok" \/ effects[k] = 1
      BY <1>1, <2>1, <2>3, Replies
    <2>5. prepared' = [k \in Keys |-> prepared'[k]]
      BY <1>1, <2>1 DEF Tables
    <2> QED
      BY <2>1, <2>2, <2>4, <2>5, NoEffectStep
  <1> QED
    BY <1>2, <1>3

-----------------------------------------------------------------------------
\* The one effect of a key, by a call at one of the three stages that have one.
EffectOf(c) ==
    /\ call[c].pc \in {"create", "control", "cancel work"} /\ CallTo(c, "done")
    /\ effects[Key(c)] = 0 /\ effects' = [effects EXCEPT ![Key(c)] = @ + 1]
    /\ pos' = pos + 1 /\ UNCHANGED <<request, command>>
    /\ WorkTerminal => WorkTerminal'
    /\ call[c].pc = "cancel work" => WorkTerminal'
EffectTables(c) ==
    /\ work' \in [status : {"open", "active", "completed", "cancelled"}, version : Nat]
    /\ runs' \in Seq(RunRows)
    /\ \A r \in DOMAIN runs' : \/ runs'[r].key = Key(c)
                               \/ r \in DOMAIN runs /\ runs'[r].key = runs[r].key
    /\ prepared' = [k \in Keys |-> prepared'[k]] /\ controlled' = [k \in Keys |-> controlled'[k]]
\* The command rows after it.
EffectRows(c) ==
    \A k \in Keys :
       /\ prepared[k] # "none" \/ (k = Key(c) /\ call[c].pc = "create") => prepared'[k] # "none"
       /\ controlled'[k] = "completed" => controlled[k] = "completed" \/ k = Key(c)
       /\ controlled[k] = "completed" \/ (k = Key(c) /\ call[c].pc = "control") => controlled'[k] = "completed"

\* A step that has the one effect of a key keeps the invariant, given what the
\* tables are after it.
LEMMA EffectStep ==
    ASSUME BoardInv, NEW c \in Calls, EffectOf(c), EffectTables(c), EffectRows(c), LaunchInv'
    PROVE  BoardInv'
  <1> DEFINE k == Key(c)
  <1>1. /\ k \in Keys /\ Sent(k) /\ (call[c].pc = "create" <=> Prepares(k))
        /\ pos \in Nat /\ effects \in [Keys -> Nat] /\ \A q \in Keys : request[q].expected \in Nat
    BY DEF BoardInv, Tables, Routed, Planned, EffectOf
  <1>2. effects'[k] = 1 /\ effects' \in [Keys -> Nat] /\ \A q \in Keys \ {k} : effects'[q] = effects[q]
    <2>1. effects[k] = 0 /\ effects' = [effects EXCEPT ![k] = effects[k] + 1]
      BY DEF EffectOf
    <2> HIDE DEF k
    <2> QED
      BY <1>1, <2>1
  <1>0. pos' = pos + 1 /\ UNCHANGED <<request, command>> /\ effects[k] = 0
    BY DEF EffectOf
  <1>3. /\ \A d \in Calls \ {c} : call'[d] = call[d]
        /\ call'[c].pc = "done" /\ call'[c].key = k
    BY DEF EffectOf, CallTo, CallAt, Key
  <1>4. Tables'
    <2>1. call' = [d \in Calls |-> call'[d]] /\ \A d \in Calls : Shaped(call'[d])
      BY <1>3 DEF BoardInv, Tables, EffectOf, CallTo, CallAt
    <2>2. pos' \in Nat /\ command' = [q \in Keys |-> command'[q]]
          /\ request' \in [Keys -> [target : Targets \cup {"none"}, expected : Nat]]
      BY <1>0, <1>1 DEF BoardInv, Tables
    <2> QED
      BY <1>2, <2>1, <2>2 DEF Tables, EffectTables
  <1>5. Routed'
    BY <1>0, <1>1, <1>3 DEF BoardInv, Routed, Key, Sent, Prepares, Planned
  <1>6. PlansAge'
    <2> SUFFICES ASSUME NEW q \in Keys
                 PROVE  /\ request[q].expected <= pos + 1
                        /\ effects'[q] # 0 => Sent(q) /\ (Prepares(q) \/ request[q].expected < pos + 1)
      BY <1>0 DEF PlansAge, Sent, Prepares
    <2>1. request[q].expected <= pos /\ (effects[q] # 0 => Sent(q))
      BY DEF BoardInv, EffectInv, PlansAge
    <2> QED
      BY <1>1, <1>2, <2>1
  <1>7. \A d \in Calls \ {c} : call[d].pc # "idle" => Key(d) \in Keys /\ (call[d].pc = "create" => Prepares(Key(d)))
           /\ (call[d].pc \in Planned \cup {"cancel work"} => ~Prepares(Key(d)))
    BY DEF BoardInv, Routed
  <1>8. PreparedOnce'
    <2>1. \A q \in Keys : prepared'[q] = "none" /\ Prepares(q) => effects'[q] = 0
      BY <1>1, <1>2 DEF BoardInv, EffectInv, PreparedOnce, EffectRows
    <2>2. \A d \in Calls \ {c} : call[d].pc = "create" => Key(d) # k
      BY <1>1, <1>7 DEF BoardInv, EffectInv, PreparedOnce
    <2>3. \A d \in Calls \ {c} : call[d].pc = "create" => prepared'[Key(d)] # "none" /\ effects'[Key(d)] = 0
      BY <1>2, <1>7, <2>2 DEF BoardInv, EffectInv, PreparedOnce, EffectRows
    <2>4. \A d, e \in Calls \ {c} : call[d].pc = "create" /\ call[e].pc = "create" /\ Key(d) = Key(e) => d = e
      BY DEF BoardInv, EffectInv, PreparedOnce
    <2>5. \A d \in Calls : call'[d].pc = "create" => d # c
      BY <1>3
    <2>6. \A q \in Keys : Prepares(q)' = Prepares(q)
      BY <1>0 DEF Prepares
    <2> QED
      BY <1>3, <2>1, <2>3, <2>4, <2>5, <2>6 DEF PreparedOnce, Key
  <1>9. ControlHeld'
    <2>1. ASSUME NEW d \in Calls \ {c}, call[d].pc \in Planned
          PROVE  effects'[Key(d)] = 0 \/ controlled'[Key(d)] = "completed"
      <3>1. Key(d) \in Keys /\ ~Prepares(Key(d))
        BY <1>7, <2>1 DEF Planned
      <3>2. CASE Key(d) = k
        <4>1. call[c].pc = "control"
          BY <1>1, <2>1, <3>1, <3>2 DEF BoardInv, EffectInv, Apart, EffectOf
        <4> QED
          BY <1>1, <3>2, <4>1 DEF EffectRows
      <3>3. CASE Key(d) # k
        BY <1>2, <2>1, <3>1, <3>3 DEF BoardInv, EffectInv, ControlHeld, EffectRows
      <3> QED
        BY <3>2, <3>3
    <2> QED
      <3>1. \A d \in Calls : call'[d].pc \in Planned => d # c
        BY <1>3 DEF Planned
      <3> QED
        BY <1>3, <2>1, <3>1 DEF ControlHeld, Key, Planned
  <1>10. CancelHeld'
    <2>1. ASSUME NEW d \in Calls \ {c}, call[d].pc = "cancel work"
          PROVE  effects'[Key(d)] = 0 \/ WorkTerminal'
      <3>1. Key(d) \in Keys /\ ~Prepares(Key(d))
        BY <1>7, <2>1
      <3>2. CASE Key(d) = k
        <4>1. call[c].pc = "cancel work"
          BY <1>1, <2>1, <3>1, <3>2 DEF BoardInv, EffectInv, Apart, Planned, EffectOf
        <4> QED
          BY <4>1 DEF EffectOf
      <3>3. CASE Key(d) # k
        BY <1>2, <2>1, <3>1, <3>3 DEF BoardInv, EffectInv, CancelHeld, EffectOf
      <3> QED
        BY <3>2, <3>3
    <2> QED
      <3>1. \A d \in Calls : call'[d].pc = "cancel work" => d # c
        BY <1>3
      <3> QED
        BY <1>3, <2>1, <3>1 DEF CancelHeld, Key
  <1>11. SamePlan'
    <2>1. \A q \in Keys : request[q].expected # pos'
      BY <1>0, <1>1 DEF BoardInv, EffectInv, PlansAge
    <2>2. \A d \in Calls : call'[d].pc \in Planned \cup {"cancel work"} => call'[d].key \in Keys
      BY <1>3, <1>7 DEF Key, Planned
    <2> QED
      BY <1>0, <2>1, <2>2 DEF SamePlan, Key, Planned
  <1>12. Apart'
    <2>1. \A d \in Calls : call'[d].pc \in Planned \cup {"cancel work"} => call'[d] = call[d]
      BY <1>3 DEF Planned
    <2> QED
      BY <2>1 DEF BoardInv, EffectInv, Apart, Key, Planned
  <1>13. EffectsSeen'
    <2>1. \A q \in Keys : controlled'[q] = "completed" => effects'[q] = 1
      BY <1>2 DEF BoardInv, EffectInv, EffectsSeen, EffectRows
    <2>2. \A r \in DOMAIN runs' : effects'[runs'[r].key] = 1
      <3> SUFFICES ASSUME NEW r \in DOMAIN runs', runs'[r].key # k PROVE effects'[runs'[r].key] = 1
        BY <1>2
      <3>1. r \in DOMAIN runs /\ runs'[r].key = runs[r].key
        BY DEF EffectTables
      <3>2. runs[r].key \in Keys
        <4>1. runs \in Seq(RunRows)
          BY DEF BoardInv, Tables
        <4>2. runs[r] \in RunRows
          BY <3>1, <4>1
        <4> QED
          BY <4>2 DEF RunRows
      <3> QED
        BY <1>2, <3>1, <3>2 DEF BoardInv, EffectInv, EffectsSeen
    <2>3. \A d \in Calls : call'[d].pc = "done" => effects'[call'[d].key] = 1
      <3>1. \A d \in Calls \ {c} : call[d].pc = "done" => Key(d) \in Keys /\ effects[Key(d)] = 1 /\ Key(d) # k
        <4>1. \A d \in Calls \ {c} : call[d].pc = "done" => Key(d) \in Keys
          BY <1>7
        <4>2. \A d \in Calls \ {c} : call[d].pc = "done" => effects[Key(d)] = 1
          BY DEF BoardInv, EffectInv, EffectsSeen
        <4> QED
          BY <1>0, <4>1, <4>2
      <3> QED
        BY <1>2, <1>3, <3>1 DEF Key
    <2> QED
      BY <2>1, <2>2, <2>3 DEF EffectsSeen, Key
  <1>14. EffectOncePerKey' /\ SuccessHappened'
    <2>1. \A q \in Keys : effects[q] <= 1 /\ (command[q] = "ok" => effects[q] = 1)
      BY DEF BoardInv, EffectInv, EffectOncePerKey, SuccessHappened
    <2>2. \A q \in Keys : effects'[q] <= 1 /\ (command[q] = "ok" => effects'[q] = 1)
      BY <1>2, <2>1
    <2> QED
      BY <1>0, <2>2 DEF EffectOncePerKey, SuccessHappened
  <1> QED
    BY <1>4, <1>5, <1>6, <1>8, <1>9, <1>10, <1>11, <1>12, <1>13, <1>14 DEF BoardInv, EffectInv

\* A step of the runs themselves: calls keep their stages, plans age.
LEMMA WorldStep ==
    ASSUME BoardInv, UNCHANGED <<commands, call>>, pos' = pos + 1, RowsKept, LaunchInv',
           work' \in [status : {"open", "active", "completed", "cancelled"}, version : Nat],
           WorkTerminal => WorkTerminal'
    PROVE  BoardInv'
  <1>1. /\ UNCHANGED <<request, command, prepared, controlled, effects, call>>
        /\ pos \in Nat /\ \A k \in Keys : request[k].expected \in Nat
    BY DEF commands, BoardInv, Tables
  <1>2. Tables'
    BY <1>1 DEF BoardInv, Tables, RowsKept
  <1>3. Routed'
    BY <1>1 DEF BoardInv, Routed, Key, Sent, Prepares
  <1>4. PlansAge' /\ PreparedOnce'
    BY <1>1 DEF BoardInv, EffectInv, PlansAge, PreparedOnce, Key, Sent, Prepares
  <1>5. ControlHeld' /\ CancelHeld' /\ Apart'
    BY <1>1 DEF BoardInv, EffectInv, ControlHeld, CancelHeld, Apart, Key
  <1>6. SamePlan'
    <2>1. \A k \in Keys : request[k].expected # pos'
      BY <1>1 DEF BoardInv, EffectInv, PlansAge
    <2> QED
      BY <1>1, <2>1 DEF BoardInv, Routed, SamePlan, Key, Planned
  <1>7. EffectsSeen' /\ EffectOncePerKey' /\ SuccessHappened'
    BY <1>1 DEF BoardInv, EffectInv, EffectsSeen, EffectOncePerKey, SuccessHappened, RowsKept, Key
  <1> QED
    BY <1>2, <1>3, <1>4, <1>5, <1>6, <1>7 DEF BoardInv, EffectInv

\* What no step of the calls or the runs does to the version of the work item.
LEMMA LaunchKept ==
    ASSUME BoardInv, RowsKept, \A q \in DOMAIN runs : runs'[q].launched = runs[q].launched,
           \A c \in Calls : call'[c].pc = "create" => call'[c] = call[c],
           \/ work' = work
           \/ /\ work'.status \in {"completed", "cancelled"} /\ work'.version = work.version + 1
    PROVE  LaunchInv'
  <1>1. work.version \in Nat /\ LaunchInv
    BY DEF BoardInv, Tables
  <1>2. /\ work'.version > 0 /\ (work'.version = 1 <=> work'.status = "open")
        /\ work.version <= work'.version /\ work'.version \in Nat
    BY <1>1 DEF LaunchInv
  <1>3. \A c \in Calls : call'[c].pc = "create" => call'[c].version \in 1..work'.version
    BY <1>1, <1>2 DEF LaunchInv
  <1>4. \A r \in DOMAIN runs : runs[r].open /\ runs[r].launched => work'.version > 1
    BY <1>1, <1>2 DEF LaunchInv
  <1> QED
    BY <1>1, <1>2, <1>3, <1>4 DEF LaunchInv, RowsKept

\* The run is created and what it supersedes cancelled, or the call has failed.
LEMMA CreateStep == ASSUME BoardInv, NEW c \in Calls, PrepareAppends(c) PROVE BoardInv'
  <1> DEFINE k == Key(c)
             stale == \E s \in call[c].supersedes : runs[s[1]].version # s[2]
  <1>1. /\ Tables /\ call[c].pc = "create" /\ k \in Keys
        /\ prepared' = [prepared EXCEPT ![k] = "completed"] /\ UNCHANGED <<work, request, command, controlled>>
    BY DEF PrepareAppends, BoardInv, Routed
  <1>2. /\ prepared' = [q \in Keys |-> prepared'[q]] /\ prepared'[k] # "none"
        /\ \A q \in Keys : prepared[q] # "none" => prepared'[q] # "none"
        /\ command' = [q \in Keys |-> command'[q]] /\ controlled' = [q \in Keys |-> controlled'[q]]
    BY <1>1 DEF Tables
  <1>3. CASE stale
    <2>1. Goto(c, "failed") /\ UNCHANGED <<runs, pos, effects>>
      BY <1>3 DEF PrepareAppends
    <2>2. CallAt(c, "failed") /\ MayGo(c, "failed")
      BY <1>1, <2>1, CallMoves DEF CallTo, MayGo, Planned
    <2> QED
      BY <1>1, <1>2, <2>1, <2>2, NoEffectStep
  <1>4. CASE ~stale
    <2>1. PICK needs \in BOOLEAN :
             runs' = Append([r \in DOMAIN runs |-> IF \E s \in call[c].supersedes : s[1] = r
                                                   THEN Moved(r, "cancelled") ELSE runs[r]],
                            [status |-> "ready", version |-> 1, gate |-> FALSE, assessed |-> call[c].version,
                             open |-> work.status = "open", needs |-> needs, launched |-> FALSE,
                             at |-> pos + 1, key |-> k])
      BY <1>4 DEF PrepareAppends
    <2>2. pos' = pos + 1 /\ Goto(c, "done") /\ effects' = [effects EXCEPT ![k] = @ + 1]
      BY <1>4 DEF PrepareAppends, Appended
    <2> DEFINE old == [r \in DOMAIN runs |-> IF \E s \in call[c].supersedes : s[1] = r
                                             THEN Moved(r, "cancelled") ELSE runs[r]]
               new == [status |-> "ready", version |-> 1, gate |-> FALSE, assessed |-> call[c].version,
                       open |-> work.status = "open", needs |-> needs, launched |-> FALSE,
                       at |-> pos + 1, key |-> k]
    <2>3. /\ call[c].version \in 1..work.version /\ pos \in Nat /\ work.version \in Nat
          /\ runs \in Seq(RunRows) /\ Len(runs) \in Nat /\ DOMAIN runs = 1..Len(runs)
      BY <1>1 DEF BoardInv, LaunchInv, Tables
    <2>4. new \in RunRows /\ new.key = k /\ ~new.launched /\ (new.open => new.assessed = 1)
      <3>1. new \in RunRows
        BY <1>1, <2>3 DEF RunRows, RunStatuses
      <3>2. work.status = "open" => call[c].version = 1
        BY <2>3 DEF BoardInv, LaunchInv
      <3> QED
        BY <3>1, <3>2
    <2>5. ASSUME NEW r \in DOMAIN runs
          PROVE  /\ old[r] \in RunRows /\ old[r].key = runs[r].key /\ old[r].open = runs[r].open
                 /\ old[r].assessed = runs[r].assessed /\ old[r].launched = runs[r].launched
      <3>1. /\ Moved(r, "cancelled") \in RunRows /\ Moved(r, "cancelled").key = runs[r].key
            /\ Moved(r, "cancelled").open = runs[r].open /\ Moved(r, "cancelled").assessed = runs[r].assessed
            /\ Moved(r, "cancelled").launched = runs[r].launched
        BY <1>1, <2>5, RowMoved DEF RunStatuses
      <3>2. runs[r] \in RunRows
        BY <2>3, <2>5
      <3> QED
        BY <3>1, <3>2
    <2>6. old \in Seq(RunRows) /\ Len(old) = Len(runs)
      <3>1. old \in [1..Len(runs) -> RunRows]
        BY <2>3, <2>5
      <3> HIDE DEF old
      <3> QED
        BY <2>3, <3>1
    <2> HIDE DEF old, new
    <2>7. /\ runs' \in Seq(RunRows) /\ DOMAIN runs' = 1..(Len(runs) + 1) /\ runs'[Len(runs) + 1] = new
          /\ \A r \in DOMAIN runs : runs'[r] = old[r]
      <3>1. runs' = Append(old, new)
        BY <2>1 DEF old, new
      <3> QED
        BY <2>3, <2>4, <2>6, <3>1
    <2>8. \A r \in DOMAIN runs' : (r \in DOMAIN runs /\ runs'[r] = old[r]) \/ runs'[r] = new
      BY <2>3, <2>7
    <2>9. CallTo(c, "done")
      BY <1>1, <2>2, CallMoves
    <2>10. EffectOf(c)
      <3>1. effects[k] = 0
        BY <1>1 DEF BoardInv, EffectInv, PreparedOnce
      <3> QED
        BY <1>1, <2>2, <2>9, <3>1 DEF EffectOf, WorkTerminal
    <2>11. EffectTables(c)
      <3>1. work' \in [status : {"open", "active", "completed", "cancelled"}, version : Nat]
        BY <1>1 DEF Tables
      <3>2. ASSUME NEW r \in DOMAIN runs'
            PROVE  runs'[r].key = Key(c) \/ (r \in DOMAIN runs /\ runs'[r].key = runs[r].key)
        BY <2>4, <2>5, <2>8, <3>2
      <3> QED
        BY <1>2, <2>7, <3>1, <3>2 DEF EffectTables
    <2>12. EffectRows(c)
      BY <1>1, <1>2 DEF EffectRows
    <2>13. LaunchInv'
      <3>1. \A d \in Calls : call'[d].pc = "create" => call'[d] = call[d]
        BY <2>9 DEF CallTo, CallAt
      <3>2. /\ \A r \in DOMAIN runs' : runs'[r].open => runs'[r].assessed = 1
            /\ \A r \in DOMAIN runs' : runs'[r].launched =>
                  r \in DOMAIN runs /\ runs'[r].open = runs[r].open /\ runs[r].launched
        BY <2>4, <2>5, <2>8 DEF BoardInv, LaunchInv
      <3> QED
        BY <1>1, <3>1, <3>2 DEF BoardInv, LaunchInv
    <2> QED
      BY <2>10, <2>11, <2>12, <2>13, EffectStep
  <1> QED
    BY <1>3, <1>4

\* The control of the run: launch, retry, resume, pause or cancel.
LEMMA ControlStep == ASSUME BoardInv, NEW c \in Calls, Control(c) PROVE BoardInv'
  <1> DEFINE k == Key(c)
             r == call[c].run
             target == request[k].target
             starts == target = "running" /\ call[c].state \notin {"failed", "waiting", "blocked"}
             to == CASE target = "running" -> "queued" [] target = "waiting" -> "waiting" [] OTHER -> "cancelled"
  <1>1. Tables /\ call[c].pc = "control" /\ k \in Keys /\ UNCHANGED <<request, command, prepared>>
    BY DEF Control, BoardInv, Routed
  <1>2. /\ prepared' = [q \in Keys |-> prepared'[q]] /\ \A q \in Keys : prepared[q] # "none" => prepared'[q] # "none"
        /\ command' = [q \in Keys |-> command'[q]] /\ \A q \in Keys : command'[q] = "ok" => command[q] = "ok"
    BY <1>1 DEF Tables
  <1>3. \/ /\ UNCHANGED <<work, runs, pos, controlled, effects>>
           /\ (Goto(c, "failed") \/ (controlled[k] = "completed" /\ Goto(c, "done")))
        \/ /\ controlled[k] # "completed" /\ Goto(c, "done")
           /\ controlled' = [controlled EXCEPT ![k] = "completed"]
           /\ effects' = [effects EXCEPT ![k] = @ + 1]
           /\ \/ starts /\ MayLaunch(r) /\ Launches(r)
              \/ /\ ~starts /\ Appended /\ UNCHANGED work
                 /\ runs' = [runs EXCEPT ![r] = [Moved(r, to) EXCEPT !.gate = FALSE]]
    BY DEF Control
  <1>4. ASSUME UNCHANGED <<work, runs, pos, controlled, effects>>,
               Goto(c, "failed") \/ (controlled[k] = "completed" /\ Goto(c, "done"))
        PROVE  BoardInv'
    <2>1. controlled[k] = "completed" => effects[k] = 1
      BY <1>1 DEF BoardInv, EffectInv, EffectsSeen
    <2>2. \E p : CallAt(c, p) /\ MayGo(c, p)
      BY <1>1, <1>4, <2>1, CallMoves DEF CallTo, MayGo, Planned
    <2> QED
      BY <1>1, <1>2, <1>4, <2>2, NoEffectStep
  <1>5. ASSUME controlled[k] # "completed", Goto(c, "done"), controlled' = [controlled EXCEPT ![k] = "completed"],
               effects' = [effects EXCEPT ![k] = @ + 1],
               \/ starts /\ MayLaunch(r) /\ Launches(r)
               \/ /\ Appended /\ UNCHANGED work
                  /\ runs' = [runs EXCEPT ![r] = [Moved(r, to) EXCEPT !.gate = FALSE]]
        PROVE  BoardInv'
    <2>1. CallTo(c, "done") /\ \A d \in Calls : call'[d].pc = "create" => call'[d] = call[d]
      <3>1. CallTo(c, "done")
        BY <1>1, <1>5, CallMoves
      <3> QED
        BY <3>1 DEF CallTo, CallAt
    <2>2. effects[k] = 0
      BY <1>1, <1>5 DEF BoardInv, EffectInv, ControlHeld, Planned
    <2>3. /\ RowsKept /\ pos' = pos + 1 /\ LaunchInv' /\ (WorkTerminal => work' = work)
          /\ work' \in [status : {"open", "active", "completed", "cancelled"}, version : Nat]
      <3>1. CASE MayLaunch(r) /\ Launches(r)
        BY <1>1, <2>1, <3>1, LaunchKeeps DEF BoardInv
      <3>2. CASE Appended /\ UNCHANGED work /\ runs' = [runs EXCEPT ![r] = [Moved(r, to) EXCEPT !.gate = FALSE]]
        <4>1. to \in RunStatuses
          BY DEF RunStatuses
        <4>2. RowsKept /\ \A q \in DOMAIN runs : runs'[q].launched = runs[q].launched
          BY <1>1, <3>2, <4>1, RunMoves
        <4> QED
          BY <1>1, <2>1, <3>2, <4>2, LaunchKept DEF Appended, Tables
      <3> QED
        BY <1>5, <3>1, <3>2
    <2>4. EffectOf(c)
      BY <1>1, <1>5, <2>1, <2>2, <2>3 DEF EffectOf, WorkTerminal
    <2>5. EffectTables(c)
      BY <1>1, <1>2, <1>5, <2>3 DEF EffectTables, RowsKept, Tables
    <2>6. EffectRows(c)
      BY <1>1, <1>2, <1>5 DEF EffectRows, Tables
    <2> QED
      BY <2>3, <2>4, <2>5, <2>6, EffectStep
  <1> QED
    BY <1>3, <1>4, <1>5

\* work.cancelled for work without a run.
LEMMA CancelStep == ASSUME BoardInv, NEW c \in Calls, CancelWork(c) PROVE BoardInv'
  <1> DEFINE k == Key(c)
  <1>1. /\ Tables /\ call[c].pc = "cancel work" /\ k \in Keys
        /\ UNCHANGED <<runs, request, command, prepared, controlled>>
    BY DEF CancelWork, BoardInv, Routed
  <1>2. /\ prepared' = [q \in Keys |-> prepared'[q]] /\ command' = [q \in Keys |-> command'[q]]
        /\ controlled' = [q \in Keys |-> controlled'[q]]
    BY <1>1 DEF Tables
  <1>3. CASE WorkTerminal
    <2>1. Goto(c, "failed") /\ UNCHANGED <<work, pos, effects>>
      BY <1>3 DEF CancelWork
    <2>2. CallAt(c, "failed") /\ MayGo(c, "failed")
      BY <1>1, <2>1, CallMoves DEF CallTo, MayGo, Planned
    <2> QED
      BY <1>1, <1>2, <2>1, <2>2, NoEffectStep
  <1>4. CASE ~WorkTerminal
    <2>1. /\ pos' = pos + 1 /\ Goto(c, "done") /\ effects' = [effects EXCEPT ![k] = @ + 1]
          /\ work' = [status |-> "cancelled", version |-> work.version + 1]
      BY <1>4 DEF CancelWork, Appended
    <2>2. CallTo(c, "done") /\ \A d \in Calls : call'[d].pc = "create" => call'[d] = call[d]
      <3>1. CallTo(c, "done")
        BY <1>1, <2>1, CallMoves
      <3> QED
        BY <3>1 DEF CallTo, CallAt
    <2>3. RowsKept
      BY <1>1 DEF RowsKept, Tables
    <2>4. LaunchInv'
      BY <1>1, <2>1, <2>2, <2>3, LaunchKept
    <2>5. effects[k] = 0
      BY <1>1, <1>4 DEF BoardInv, EffectInv, CancelHeld
    <2>6. EffectOf(c)
      BY <1>1, <2>1, <2>2, <2>5 DEF EffectOf, WorkTerminal
    <2>7. EffectTables(c) /\ EffectRows(c)
      <3>1. EffectRows(c)
        BY <1>1 DEF EffectRows
      <3>2. /\ runs' \in Seq(RunRows) /\ work.version + 1 \in Nat
            /\ \A r \in DOMAIN runs' : r \in DOMAIN runs /\ runs'[r].key = runs[r].key
        <4>1. runs' = runs /\ runs \in Seq(RunRows) /\ work.version \in Nat
          BY <1>1 DEF Tables
        <4> QED
          BY <4>1
      <3> QED
        BY <1>2, <2>1, <3>1, <3>2 DEF EffectTables
    <2> QED
      BY <2>4, <2>6, <2>7, EffectStep
  <1> QED
    BY <1>3, <1>4

\* The queue, the runs and the end of the daemon.
LEMMA RunStep == ASSUME BoardInv, NEW r \in DOMAIN runs, Queue(r) \/ Progress(r) PROVE BoardInv'
  <1>1. Tables /\ UNCHANGED <<commands, call>>
    BY DEF BoardInv, Queue, Progress
  <1>2. CASE Queue(r)
    <2>1. MayLaunch(r) /\ Launches(r)
      BY <1>2 DEF Queue
    <2>2. /\ RowsKept /\ pos' = pos + 1 /\ LaunchInv' /\ (WorkTerminal => work' = work)
          /\ work' \in [status : {"open", "active", "completed", "cancelled"}, version : Nat]
      BY <1>1, <2>1, LaunchKeeps DEF BoardInv
    <2> QED
      BY <1>1, <2>2, WorldStep DEF WorkTerminal
  <1>3. CASE Progress(r)
    <2>1. PICK st \in RunStatuses, g \in BOOLEAN :
             /\ Appended /\ runs' = [runs EXCEPT ![r] = [Moved(r, st) EXCEPT !.gate = g]]
             /\ work' = IF st = "completed" /\ ~WorkTerminal
                        THEN [status |-> "completed", version |-> work.version + 1] ELSE work
      <3>1. PICK s \in {[from |-> "queued", to |-> "running", gate |-> FALSE],
                         [from |-> "running", to |-> "failed", gate |-> FALSE],
                         [from |-> "running", to |-> "waiting", gate |-> TRUE],
                         [from |-> "waiting", to |-> "running", gate |-> FALSE],
                         [from |-> "running", to |-> "completed", gate |-> FALSE],
                         [from |-> "running", to |-> "reconcile_required", gate |-> FALSE]} :
               /\ Appended /\ runs' = [runs EXCEPT ![r] = [Moved(r, s.to) EXCEPT !.gate = s.gate]]
               /\ work' = IF s.to = "completed" /\ ~WorkTerminal
                          THEN [status |-> "completed", version |-> work.version + 1] ELSE work
        BY <1>3 DEF Progress
      <3>2. s.to \in RunStatuses /\ s.gate \in BOOLEAN
        <4>1. \/ s = [from |-> "queued", to |-> "running", gate |-> FALSE]
              \/ s = [from |-> "running", to |-> "failed", gate |-> FALSE]
              \/ s = [from |-> "running", to |-> "waiting", gate |-> TRUE]
              \/ s = [from |-> "waiting", to |-> "running", gate |-> FALSE]
              \/ s = [from |-> "running", to |-> "completed", gate |-> FALSE]
              \/ s = [from |-> "running", to |-> "reconcile_required", gate |-> FALSE]
          BY Zenon
        <4>2. s.to \in {"running", "failed", "waiting", "completed", "reconcile_required"}
          BY <4>1
        <4>3. s.gate \in BOOLEAN
          <5>1. CASE s = [from |-> "running", to |-> "waiting", gate |-> TRUE]
            <6>1. s.gate = TRUE
              BY <5>1
            <6> QED
              BY <6>1
          <5>2. CASE s # [from |-> "running", to |-> "waiting", gate |-> TRUE]
            <6>1. s.gate = FALSE
              BY <4>1, <5>2
            <6> QED
              BY <6>1
          <5> QED
            BY <5>1, <5>2
        <4> QED
          BY <4>2, <4>3 DEF RunStatuses
      <3> QED
        BY <3>1, <3>2
    <2>2. RowsKept /\ \A q \in DOMAIN runs : runs'[q].launched = runs[q].launched
      BY <1>1, <2>1, RunMoves
    <2>3. /\ work' = work \/ (work'.status \in {"completed", "cancelled"} /\ work'.version = work.version + 1)
          /\ WorkTerminal => work' = work
          /\ work' \in [status : {"open", "active", "completed", "cancelled"}, version : Nat]
      BY <1>1, <2>1 DEF Tables
    <2>4. LaunchInv'
      BY <1>1, <2>2, <2>3, LaunchKept
    <2> QED
      BY <1>1, <2>1, <2>2, <2>3, <2>4, WorldStep DEF WorkTerminal, Appended
  <1> QED
    BY <1>2, <1>3

\* The daemon stops and its calls are gone.
LEMMA StopStep == ASSUME BoardInv, Stop PROVE BoardInv'
  <1>1. /\ UNCHANGED <<work, runs, pos, request, command, prepared, controlled, effects>>
        /\ call' = [c \in Calls |-> Idle] /\ \A c \in Calls : call'[c].pc = "idle" /\ Shaped(call'[c])
    BY DEF Stop, commands, Idle, Shaped
  <1>2. Tables' /\ Routed'
    BY <1>1 DEF BoardInv, Tables, Routed
  <1>3. PlansAge' /\ PreparedOnce'
    BY <1>1 DEF BoardInv, EffectInv, PlansAge, PreparedOnce, Sent, Prepares
  <1>4. ControlHeld' /\ CancelHeld' /\ SamePlan' /\ Apart'
    BY <1>1 DEF ControlHeld, CancelHeld, SamePlan, Apart, Planned
  <1>5. EffectsSeen' /\ EffectOncePerKey' /\ SuccessHappened' /\ LaunchInv'
    BY <1>1 DEF BoardInv, EffectInv, EffectsSeen, EffectOncePerKey, SuccessHappened, LaunchInv
  <1> QED
    BY <1>2, <1>3, <1>4, <1>5 DEF BoardInv, EffectInv

\* A client sends a command, or sends it again.
LEMMA SendStep ==
    ASSUME BoardInv, NEW c \in Calls, NEW k \in Keys, NEW t \in Targets, Send(c, k, t)
    PROVE  BoardInv'
  <1> DEFINE y == [Idle EXCEPT !.pc = "begin", !.key = k]
             sent == [target |-> t, expected |-> pos]
  <1>1. /\ Tables /\ call[c].pc = "idle" /\ Becomes(c, y)
        /\ UNCHANGED <<work, runs, pos, command, prepared, controlled, effects>>
        /\ request' = [request EXCEPT ![k] = IF request[k] = NoRequest THEN sent ELSE request[k]]
        /\ request[k] \in {NoRequest, [target |-> t, expected |-> request[k].expected]}
    BY DEF Send, BoardInv
  <1>2. y.pc = "begin" /\ y.key = k /\ Shaped(y)
    BY DEF Idle, Shaped
  <1> HIDE DEF y
  <1>3. CallAt(c, "begin") /\ call'[c].key = k
    BY <1>1, <1>2, CallMoves
  <1>4. /\ \A d \in Calls \ {c} : call'[d] = call[d]
        /\ call'[c].pc = "begin"
    BY <1>3 DEF CallAt
  <1>5. BoardRun' = BoardRun /\ WorkTerminal' = WorkTerminal
    BY <1>1 DEF BoardRun, Unresolved, Newest, WorkTerminal
  <1>6. /\ Sent(k) => request'[k] = request[k]
        /\ ~Sent(k) => request'[k] = sent
        /\ \A q \in Keys \ {k} : request'[q] = request[q]
    <2>1. request[k] = NoRequest <=> ~Sent(k)
      BY <1>1 DEF Sent, NoRequest, Targets
    <2> QED
      BY <1>1, <2>1 DEF Tables
  <1>7. request' \in [Keys -> [target : Targets \cup {"none"}, expected : Nat]]
    BY <1>1 DEF Tables
  <1>8. request'[k].target # "none" /\ \A q \in Keys : Sent(q) => request'[q] = request[q]
    BY <1>6 DEF Sent, Targets
  <1>9. ~Sent(k) => effects[k] = 0
    BY DEF BoardInv, EffectInv, PlansAge
  <1>10. Tables'
    BY <1>1, <1>3, <1>4, <1>7 DEF Tables, CallAt
  <1>11. \A d \in Calls : call[d].pc # "idle" => /\ Key(d) \in Keys /\ request'[Key(d)] = request[Key(d)]
                                                 /\ d # c /\ Sent(Key(d))
    BY <1>1, <1>8 DEF BoardInv, Routed
  <1>12. Routed'
    <2> SUFFICES ASSUME NEW d \in Calls, call'[d].pc # "idle"
                 PROVE  /\ call'[d].key \in Keys /\ request'[call'[d].key].target # "none"
                        /\ call'[d].pc \in {"prepare", "create"} => request'[call'[d].key].target \in {"ready", "create"}
                        /\ call'[d].pc \in Planned \cup {"cancel work"} =>
                              request'[call'[d].key].target \notin {"ready", "create"}
      BY DEF Routed, Key, Sent, Prepares
    <2>1. CASE d = c
      BY <1>3, <1>4, <1>8, <2>1 DEF Planned
    <2>2. CASE d # c
      BY <1>4, <1>11, <2>2 DEF BoardInv, Routed, Key, Sent, Prepares
    <2> QED
      BY <2>1, <2>2
  <1>13. PlansAge'
    <2> SUFFICES ASSUME NEW q \in Keys
                 PROVE  /\ request'[q].expected <= pos
                        /\ effects[q] # 0 => /\ request'[q].target # "none"
                                             /\ \/ request'[q].target \in {"ready", "create"}
                                                \/ request'[q].expected < pos
      BY <1>1 DEF PlansAge, Sent, Prepares
    <2>1. pos \in Nat
      BY <1>1 DEF Tables
    <2>2. CASE request'[q] = request[q]
      BY <2>2 DEF BoardInv, EffectInv, PlansAge, Sent, Prepares
    <2>3. CASE q = k /\ ~Sent(k)
      BY <1>6, <1>9, <2>1, <2>3
    <2> QED
      BY <1>6, <2>2, <2>3
  <1>14. PreparedOnce'
    <2>1. \A q \in Keys : prepared[q] = "none" /\ request'[q].target \in {"ready", "create"} => effects[q] = 0
      BY <1>6, <1>9 DEF BoardInv, EffectInv, PreparedOnce, Prepares
    <2>2. \A d \in Calls : call'[d].pc = "create" => call'[d] = call[d]
      BY <1>4
    <2> QED
      BY <1>1, <2>1, <2>2 DEF BoardInv, EffectInv, PreparedOnce, Prepares, Key
  <1>15. \A d \in Calls : call'[d].pc \in Planned \cup {"cancel work"} =>
            /\ call'[d] = call[d] /\ request'[Key(d)] = request[Key(d)]
    BY <1>4, <1>11 DEF Planned
  <1>16. ControlHeld' /\ CancelHeld' /\ Apart'
    <2>1. ControlHeld'
      BY <1>1, <1>15 DEF BoardInv, EffectInv, ControlHeld, Key
    <2>2. CancelHeld'
      BY <1>1, <1>5, <1>15 DEF BoardInv, EffectInv, CancelHeld, Key
    <2>3. \A d \in Calls : call'[d].pc \in Planned \/ call'[d].pc = "cancel work" => call'[d] = call[d]
      BY <1>15
    <2>4. Apart
      BY DEF BoardInv, EffectInv
    <2>5. Apart'
      <3> SUFFICES ASSUME NEW b \in Calls, NEW d \in Calls, call'[b].pc = "cancel work", call'[d].pc \in Planned
                   PROVE  call'[b].key # call'[d].key
        BY DEF Apart, Key
      <3>1. call'[b] = call[b] /\ call'[d] = call[d]
        BY <2>3
      <3> QED
        BY <2>4, <3>1 DEF Apart, Key
    <2> QED
      BY <2>1, <2>2, <2>5
  <1>17. SamePlan'
    <2> SUFFICES ASSUME NEW d \in Calls, request'[call'[d].key].expected = pos'
                 PROVE  /\ call'[d].pc \in Planned => BoardRun' # 0
                        /\ call'[d].pc = "cancel work" => BoardRun' = 0
      BY DEF SamePlan, Key, Planned
    <2>1. SamePlan
      BY DEF BoardInv, EffectInv
    <2>2. CASE call'[d].pc \in Planned \cup {"cancel work"}
      <3>1. call'[d] = call[d] /\ request'[call[d].key] = request[call[d].key]
        BY <1>15, <2>2 DEF Key
      <3> QED
        BY <1>1, <1>5, <2>1, <3>1 DEF SamePlan, Key
    <2> QED
      BY <2>2
  <1>18. EffectsSeen' /\ EffectOncePerKey' /\ SuccessHappened'
    BY <1>1, <1>4 DEF BoardInv, EffectInv, EffectsSeen, EffectOncePerKey, SuccessHappened, Key
  <1>19. LaunchInv'
    BY <1>1, <1>4 DEF BoardInv, LaunchInv
  <1> QED
    BY <1>10, <1>12, <1>13, <1>14, <1>16, <1>17, <1>18, <1>19 DEF BoardInv, EffectInv

-----------------------------------------------------------------------------
\* BoardInv holds before the first command.
LEMMA BoardInit == Init => BoardInv
  <1> SUFFICES ASSUME Init PROVE BoardInv
    OBVIOUS
  <1>1. /\ \A c \in Calls : call[c].pc = "idle" /\ Shaped(call[c])
        /\ \A k \in Keys : request[k].target = "none" /\ request[k].expected = 0 /\ effects[k] = 0
        /\ \A k \in Keys : command[k] = "none" /\ controlled[k] = "none"
        /\ work.status = "open" /\ work.version = 1 /\ pos = 1
    BY DEF Init, Idle, NoRequest, Shaped
  <1>2. runs = <<>> /\ DOMAIN runs = {} /\ runs \in Seq(RunRows)
    BY DEF Init
  <1>3. Tables
    BY <1>2 DEF Init, Tables, NoRequest, Idle, Shaped
  <1>4. Routed /\ PlansAge
    <2>1. Routed
      BY <1>1 DEF Routed
    <2>2. \A k \in Keys : request[k].expected <= pos /\ effects[k] = 0
      BY <1>1
    <2> QED
      BY <2>1, <2>2 DEF PlansAge
  <1>5. PreparedOnce /\ ControlHeld /\ CancelHeld /\ SamePlan /\ Apart
    BY <1>1 DEF PreparedOnce, ControlHeld, CancelHeld, SamePlan, Apart, Planned
  <1>6. EffectsSeen /\ EffectOncePerKey /\ SuccessHappened
    BY <1>1, <1>2 DEF EffectsSeen, EffectOncePerKey, SuccessHappened
  <1>7. LaunchInv
    BY <1>1, <1>2 DEF LaunchInv
  <1> QED
    BY <1>3, <1>4, <1>5, <1>6, <1>7 DEF BoardInv, EffectInv

\* BoardInv is inductive: every operation of worklifecycle, the queue and the
\* runs keeps it.
LEMMA BoardStep == BoardInv /\ [Next]_vars => BoardInv'
  <1> SUFFICES ASSUME BoardInv, [Next]_vars PROVE BoardInv'
    OBVIOUS
  <1>1. CASE UNCHANGED vars
    <2>1. UNCHANGED <<work, runs, pos, request, command, prepared, controlled, effects, call>>
      BY <1>1 DEF vars
    <2>2. BoardRun' = BoardRun /\ WorkTerminal' = WorkTerminal
      BY <2>1 DEF BoardRun, Unresolved, Newest, WorkTerminal
    <2>3. Tables' /\ LaunchInv'
      BY <2>1 DEF BoardInv, Tables, LaunchInv
    <2>4. Routed' /\ PlansAge' /\ PreparedOnce'
      BY <2>1 DEF BoardInv, EffectInv, Routed, PlansAge, PreparedOnce, Key, Sent, Prepares
    <2>5. ControlHeld' /\ CancelHeld' /\ SamePlan' /\ Apart'
      BY <2>1, <2>2 DEF BoardInv, EffectInv, ControlHeld, CancelHeld, SamePlan, Apart, Key
    <2>6. EffectsSeen' /\ EffectOncePerKey' /\ SuccessHappened'
      BY <2>1 DEF BoardInv, EffectInv, EffectsSeen, EffectOncePerKey, SuccessHappened, Key
    <2> QED
      BY <2>3, <2>4, <2>5, <2>6 DEF BoardInv, EffectInv
  <1>2. ASSUME NEW c \in Calls, NEW k \in Keys, NEW t \in {"ready", "running", "waiting", "done", "create"}, Send(c, k, t)
        PROVE  BoardInv'
    BY <1>2, SendStep DEF Targets
  <1> QED
    BY <1>1, <1>2, StopStep, ApplyStep, PrepareStep, CreateStep, AnswerStep, ControlStep, CancelStep, RunStep DEF
       Next

\* However many calls and keys there are: a command sent twice at once, or again
\* after the daemon stopped in the middle of it, has one effect at most, and
\* success is reported only for an effect that happened (worklifecycle, Apply).
THEOREM EffectsOnce == Spec => [](EffectOncePerKey /\ SuccessHappened)
  <1>1. BoardInv => EffectOncePerKey /\ SuccessHappened
    BY DEF BoardInv, EffectInv
  <1> QED
    BY <1>1, BoardInit, BoardStep, PTL DEF Spec

\* Of any number of runs prepared while the work item was open only one is ever
\* launched, by a control or by the queue (runexecution, Launch).
THEOREM LaunchedOnce == Spec => []OpenWorkLaunchesOnce
  <1>1. BoardInv => OpenWorkLaunchesOnce
    <2> SUFFICES ASSUME BoardInv PROVE OpenWorkLaunchesOnce
      OBVIOUS
    <2> DEFINE S == {r \in DOMAIN runs : runs[r].open /\ runs[r].launched}
    <2>1. \A r, q \in S : r = q
      BY DEF BoardInv, LaunchInv
    <2>2. CASE S = {}
      BY <2>2, FS_EmptySet DEF OpenWorkLaunchesOnce
    <2>3. CASE S # {}
      <3>1. PICK r \in S : S = {r}
        BY <2>1, <2>3
      <3>2. Cardinality({r}) = 1
        BY FS_Singleton
      <3> QED
        BY <3>1, <3>2 DEF OpenWorkLaunchesOnce
    <2> QED
      BY <2>2, <2>3
  <1> QED
    BY <1>1, BoardInit, BoardStep, PTL DEF Spec

\* The answers of the commands, and the positions of the log: the work item's
\* version counts events, so it is never ahead of the newest position.
Answered == command \in [Keys -> {"none", "pending", "ok", "version", "rejected", "runtime"}]
Counted == pos \in 1 .. MaxPos /\ work.version <= pos

\* Whatever the runs are at, deriveState gives the work item a column of the board.
LEMMA BoardHasColumn == BoardState \in States
  <1>1. CASE BoardRun = 0
    BY <1>1 DEF BoardState, States
  <1>2. CASE BoardRun # 0
    <2> DEFINE run == runs[BoardRun]
               column == CASE run.status = "ready" -> IF run.needs THEN "review" ELSE "ready"
                           [] run.status = "queued" -> "ready"
                           [] run.status \in {"running", "waiting", "failed"} -> run.status
                           [] run.status = "reconcile_required" -> "blocked"
                           [] OTHER -> "done"
    <2>1. column \in States
      BY DEF States
    <2>2. BoardState \in {"done", "review", column}
      BY <1>2 DEF BoardState
    <2> QED
      BY <2>1, <2>2 DEF States
  <1> QED
    BY <1>1, <1>2

\* A reply is one of the answers.
LEMMA AnsweredStep == ASSUME Answered, [Next]_vars PROVE Answered'
  <1>1. ASSUME NEW k, NEW a \in {"pending", "ok", "version", "rejected", "runtime"}, command' = Reply(k, a)
        PROVE  Answered'
    BY <1>1 DEF Answered, Reply
  <1>2. ASSUME UNCHANGED command PROVE Answered'
    BY <1>2 DEF Answered
  <1>3. ASSUME NEW c \in Calls, Apply(c) PROVE Answered'
    BY <1>1, <1>2, <1>3 DEF Apply
  <1>4. ASSUME NEW c \in Calls, Complete(c) PROVE Answered'
    BY <1>1, <1>4 DEF Complete
  <1>5. ASSUME NEW c \in Calls, NEW k \in Keys, NEW t, Send(c, k, t) PROVE Answered'
    BY <1>2, <1>5 DEF Send
  <1>6. ASSUME NEW c \in Calls,
               PrepareReads(c) \/ PrepareAppends(c) \/ ReadVersion(c) \/ Control(c) \/ CancelWork(c)
        PROVE  Answered'
    BY <1>2, <1>6 DEF PrepareReads, PrepareAppends, ReadVersion, Control, CancelWork, commands
  <1>7. ASSUME NEW r, Queue(r) \/ Progress(r) PROVE Answered'
    BY <1>2, <1>7 DEF Queue, Progress, commands
  <1>8. CASE Stop \/ UNCHANGED vars
    BY <1>2, <1>8 DEF Stop, commands, vars
  <1> QED
    BY <1>3, <1>4, <1>5, <1>6, <1>7, <1>8 DEF Next

\* What changes the work item appends an event.
LEMMA CountedStep == ASSUME MaxPos \in Nat, BoardInv, Counted, [Next]_vars PROVE Counted'
  <1>1. pos \in Nat /\ work.version \in Nat
    BY DEF BoardInv, Tables
  <1>2. ASSUME UNCHANGED <<work, pos>> PROVE Counted'
    BY <1>2 DEF Counted
  <1>3. ASSUME Appended, work' = work \/ work'.version = work.version + 1 PROVE Counted'
    BY <1>1, <1>3 DEF Counted, Appended
  <1>4. ASSUME NEW r, Launches(r) PROVE Counted'
    <2>1. work' = work \/ work'.version = work.version + 1
      BY <1>4 DEF Launches
    <2> QED
      BY <1>3, <1>4, <2>1 DEF Launches
  <1>5. ASSUME NEW c \in Calls, PrepareAppends(c) PROVE Counted'
    BY <1>2, <1>3, <1>5 DEF PrepareAppends
  <1>6. ASSUME NEW c \in Calls, Control(c) PROVE Counted'
    BY <1>2, <1>3, <1>4, <1>6 DEF Control
  <1>7. ASSUME NEW c \in Calls, CancelWork(c) PROVE Counted'
    <2>1. CASE WorkTerminal
      BY <1>2, <1>7, <2>1 DEF CancelWork
    <2>2. CASE ~WorkTerminal
      <3>1. Appended /\ work' = [status |-> "cancelled", version |-> work.version + 1]
        BY <1>7, <2>2 DEF CancelWork
      <3>2. work'.version = work.version + 1
        BY <3>1
      <3> QED
        BY <1>3, <3>1, <3>2
    <2> QED
      BY <2>1, <2>2
  <1>8. ASSUME NEW r, Queue(r) PROVE Counted'
    BY <1>4, <1>8 DEF Queue
  <1>9. ASSUME NEW r, Progress(r) PROVE Counted'
    <2>1. Appended /\ (work' = work \/ work'.version = work.version + 1)
      BY <1>9 DEF Progress
    <2> QED
      BY <1>3, <2>1
  <1>10. ASSUME NEW c \in Calls,
               \/ \E k \in Keys, t \in {"ready", "running", "waiting", "done", "create"} : Send(c, k, t)
               \/ Apply(c) \/ PrepareReads(c) \/ ReadVersion(c) \/ Complete(c)
        PROVE  Counted'
    BY <1>2, <1>10 DEF Send, Apply, PrepareReads, ReadVersion, Complete
  <1>11. CASE Stop \/ UNCHANGED vars
    BY <1>2, <1>11 DEF Stop, vars
  <1> QED
    BY <1>5, <1>6, <1>7, <1>8, <1>9, <1>10, <1>11 DEF Next

\* The board is always in one of its columns, every command has one of its
\* answers, and the work item's version is one of the log's positions.
THEOREM TypeCorrect ==
    ASSUME MaxPos \in Nat \ {0}
    PROVE  Spec => []TypeOK
  <1>1. Init => Answered /\ Counted
    BY DEF Init, Answered, Counted
  <1>2. BoardInv /\ Answered /\ Counted => TypeOK
    <2> SUFFICES ASSUME BoardInv, Answered, Counted PROVE TypeOK
      OBVIOUS
    <2>1. work.status \in {"open", "active", "completed", "cancelled"} /\ work.version \in 1 .. MaxPos
      BY DEF BoardInv, Tables, LaunchInv, Counted
    <2>2. \A r \in DOMAIN runs : runs[r].status \in RunStatuses
      <3>1. \A r \in DOMAIN runs : runs[r] \in RunRows
        BY DEF BoardInv, Tables
      <3> QED
        BY <3>1 DEF RunRows
    <2> QED
      BY <2>1, <2>2, BoardHasColumn DEF TypeOK, Answered, Counted, RunStatuses
  <1>3. BoardInv /\ Answered /\ Counted /\ [Next]_vars => Answered' /\ Counted'
    BY AnsweredStep, CountedStep
  <1> QED
    BY <1>1, <1>2, <1>3, BoardInit, BoardStep, PTL DEF Spec
=============================================================================
