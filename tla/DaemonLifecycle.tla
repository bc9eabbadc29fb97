-------------------------- MODULE DaemonLifecycle --------------------------
(***************************************************************************)
(* The daemon's life in one runtime directory (daemon/lifecycle.go), with  *)
(* its API endpoint file (api/endpoint.go, api/server.go) and the commands *)
(* that start, stop and reach it (cli/cli.go, api/client/client.go).       *)
(* daemon.lock is held open by a process, daemon.json names an instance,   *)
(* endpoint.json names the one that accepts requests.  A file is read and  *)
(* removed in two steps; a process may die at any time and leaves both     *)
(* files.  Process identities are never reused, so a recorded one is       *)
(* either the live process or nothing.                                     *)
(***************************************************************************)
EXTENDS Naturals, FiniteSets, FiniteSetTheorems, TLAPS

CONSTANTS Daemons,    \* processes that run the daemon
          Clients,    \* command processes
          MaxDeaths   \* bound on processes that die unasked

VARIABLES file,       \* daemon.json: an instance, "none" or "invalid"
          endpoint,   \* endpoint.json: an instance or "none"
          lock,       \* who holds daemon.lock, or "none"
          daemon,     \* phase of every daemon
          signalled,  \* daemons whose stop event is set
          client,     \* what every command is doing: [pc, op, seen]
          deaths

vars == <<file, endpoint, lock, daemon, signalled, client, deaths>>

Idle == [pc |-> "idle", op |-> "none", seen |-> "none"]
Alive(d) == daemon[d] \notin {"unborn", "gone"}
\* Phases in which the runtime service is open.
Serves(d) == daemon[d] \in {"serving", "running", "closing"}
\* A daemon of an earlier session, which may have left its files.
Earlier == CHOOSE d \in Daemons : TRUE
Init ==
    /\ daemon \in {[d \in Daemons |-> "unborn"], [d \in Daemons |-> IF d = Earlier THEN "gone" ELSE "unborn"]}
    /\ file \in {"none", "invalid"} \cup {d \in Daemons : daemon[d] = "gone"}
    /\ endpoint \in {"none"} \cup {d \in Daemons : daemon[d] = "gone"}
    /\ lock = "none" /\ signalled = {} /\ deaths = 0 /\ client = [c \in Clients |-> Idle]

-----------------------------------------------------------------------------
\* Inspect: what daemon.json says, given the process it names.
Inspect == CASE file = "none"     -> "stopped"
             [] file = "invalid"  -> "invalid"
             [] OTHER             -> IF Alive(file) THEN "running" ELSE "stale"

Phase(d, p) == daemon' = [daemon EXCEPT ![d] = p]
Release(who) == IF lock = who THEN "none" ELSE lock
\* The service's Close: the endpoint file goes only when it is its own.
DropEndpoint(d) == IF endpoint = d THEN "none" ELSE endpoint

Spawn(d) == daemon[d] = "unborn" /\ d = CHOOSE e \in Daemons : daemon[e] = "unborn"

\* RunWithService.
AcquireLock(d) ==
    /\ daemon[d] = "new"
    /\ IF lock = "none" THEN lock' = d /\ Phase(d, "locked")
                        ELSE UNCHANGED lock /\ Phase(d, "gone")
    /\ UNCHANGED <<file, endpoint, signalled, client, deaths>>
PrepareStateWhileLocked(d) ==
    /\ daemon[d] = "locked"
    /\ IF Inspect = "running" THEN Phase(d, "gone") /\ lock' = "none" /\ UNCHANGED file
       ELSE Phase(d, "prepared") /\ file' = "none" /\ UNCHANGED lock
    /\ UNCHANGED <<endpoint, signalled, client, deaths>>
\* endpoint.json is replaced as a whole.
PublishEndpoint(d) == endpoint' = d
\* (A mutant of StartService.)
StartServiceLate(d) ==
    /\ daemon[d] = "prepared" /\ Phase(d, "serving")
    /\ UNCHANGED <<file, endpoint, lock, signalled, client, deaths>>
\* The service starts, publishing its endpoint last, or fails and leaves nothing.
StartService(d) ==
    /\ daemon[d] = "prepared"
    /\ \/ Phase(d, "serving") /\ PublishEndpoint(d) /\ UNCHANGED lock
       \/ Phase(d, "gone") /\ lock' = "none" /\ UNCHANGED endpoint
    /\ UNCHANGED <<file, signalled, client, deaths>>
WriteState(d) ==
    /\ daemon[d] = "serving"
    /\ \/ Phase(d, "running") /\ file' = d /\ UNCHANGED <<endpoint, lock>>
       \/ Phase(d, "gone") /\ lock' = "none" /\ endpoint' = DropEndpoint(d) /\ UNCHANGED file
    /\ UNCHANGED <<signalled, client, deaths>>
\* The stop event or an interrupt ends the wait.
StopRequested(d) ==
    /\ daemon[d] = "running" /\ (d \in signalled \/ deaths < MaxDeaths) /\ Phase(d, "closing")
    /\ deaths' = IF d \in signalled THEN deaths ELSE deaths + 1
    /\ UNCHANGED <<file, endpoint, lock, signalled, client>>
\* (A mutant of CloseService.)
CloseServiceUnlocked(d) ==
    /\ daemon[d] = "closing" /\ lock' = Release(d)
    /\ IF lock = d THEN UNCHANGED <<daemon, endpoint>> ELSE Phase(d, "closed") /\ endpoint' = DropEndpoint(d)
    /\ UNCHANGED <<file, signalled, client, deaths>>
\* The deferred calls, last first: the service is closed, the record removed if
\* it is still its own, the lock let go.
CloseService(d) ==
    /\ daemon[d] = "closing" /\ Phase(d, "closed") /\ endpoint' = DropEndpoint(d)
    /\ UNCHANGED <<file, lock, signalled, client, deaths>>
ReadOwnState(d) ==
    /\ daemon[d] = "closed"
    /\ IF file = d THEN Phase(d, "removing") /\ UNCHANGED lock ELSE Phase(d, "gone") /\ lock' = Release(d)
    /\ UNCHANGED <<file, endpoint, signalled, client, deaths>>
RemoveOwnState(d) ==
    /\ daemon[d] = "removing" /\ file' = "none" /\ Phase(d, "gone") /\ lock' = Release(d)
    /\ UNCHANGED <<endpoint, signalled, client, deaths>>
Die(d) ==
    /\ Alive(d) /\ deaths < MaxDeaths /\ deaths' = deaths + 1
    /\ Phase(d, "gone") /\ lock' = Release(d)
    /\ UNCHANGED <<file, endpoint, signalled, client>>

-----------------------------------------------------------------------------
Becomes(c, s) == client' = [client EXCEPT ![c] = s]
Goto(c, pc) == Becomes(c, IF pc = "idle" THEN Idle ELSE [client[c] EXCEPT !.pc = pc])
files == <<file, endpoint, lock, daemon, signalled>>

Command(c, op) ==
    /\ client[c].pc = "idle" /\ \E d \in Daemons : daemon[d] = "unborn"
    /\ Becomes(c, [Idle EXCEPT !.op = op, !.pc = CASE op = "connect" -> "connect" [] op = "start" -> "start"
                                                   [] OTHER -> "stop"])
    /\ UNCHANGED <<files, deaths>>
\* ReadEndpoint names a daemon, and it accepts.
Reachable == endpoint # "none" /\ Serves(endpoint)
\* Connect: a reachable daemon is the session; otherwise it starts one
\* and tries once more.
Connect(c) ==
    /\ client[c].pc \in {"connect", "reconnect"}
    /\ IF Reachable
       THEN Goto(c, "idle")
       ELSE Goto(c, IF client[c].pc = "connect" THEN "start" ELSE "idle")
    /\ UNCHANGED <<files, deaths>>
Start(c) ==
    /\ client[c].pc = "start"
    /\ Goto(c, CASE Inspect = "running" -> IF client[c].op = "connect" THEN "reconnect" ELSE "idle"
                 [] Inspect = "stopped" -> "spawn"
                 [] OTHER               -> "clean")
    /\ UNCHANGED <<files, deaths>>
StartDetached(c) ==
    /\ client[c].pc = "spawn"
    /\ \/ \E d \in Daemons : Spawn(d) /\ Phase(d, "new")
       \/ UNCHANGED daemon /\ \A d \in Daemons : daemon[d] # "unborn"
    /\ Goto(c, "poll")
    /\ UNCHANGED <<file, endpoint, lock, signalled, deaths>>
\* Polls until a running daemon is recorded, or until the startup timeout.
Poll(c) ==
    /\ client[c].pc = "poll"
    /\ \/ Inspect = "running" /\ Goto(c, IF client[c].op = "connect" THEN "reconnect" ELSE "idle")
       \/ Inspect # "running" /\ Goto(c, "idle")
    /\ UNCHANGED <<files, deaths>>

\* (A mutant of CleanLock.)
CleanUnlocked(c) ==
    /\ client[c].pc = "clean" /\ Goto(c, "look")
    /\ UNCHANGED <<files, deaths>>
\* cleanStaleState: the lock, a second look, the removal.
CleanLock(c) ==
    /\ client[c].pc = "clean"
    /\ IF lock = "none" THEN lock' = c /\ Goto(c, "look") ELSE UNCHANGED lock /\ Goto(c, "idle")
    /\ UNCHANGED <<file, endpoint, daemon, signalled, deaths>>
CleanLook(c) ==
    /\ client[c].pc = "look"
    /\ IF Inspect = "running" THEN lock' = Release(c) /\ Goto(c, "idle") ELSE UNCHANGED lock /\
          Goto(c, "clean remove")
    /\ UNCHANGED <<file, endpoint, daemon, signalled, deaths>>
CleanRemove(c) ==
    /\ client[c].pc = "clean remove" /\ file' = "none" /\ lock' = Release(c)
    /\ Goto(c, IF client[c].op \in {"start", "connect"} THEN "spawn"
               ELSE IF client[c].op = "restart" THEN "start" ELSE "idle")
    /\ UNCHANGED <<endpoint, daemon, signalled, deaths>>

Stopped(c) == IF client[c].op = "restart" THEN "start" ELSE "idle"
Stop(c) ==
    /\ client[c].pc = "stop"
    /\ CASE Inspect = "running" -> Becomes(c, [client[c] EXCEPT !.pc = "waiting", !.seen = file])
                                   /\ signalled' = signalled \cup {file}
         [] Inspect = "stopped" -> Goto(c, Stopped(c)) /\ UNCHANGED signalled
         [] OTHER               -> Goto(c, "clean") /\ UNCHANGED signalled
    /\ UNCHANGED <<file, endpoint, lock, daemon, deaths>>
\* waitForExit; after the grace period the process is terminated if it still
\* has the recorded identity.
Waited(c) ==
    /\ client[c].pc = "waiting"
    /\ IF Alive(client[c].seen) THEN Phase(client[c].seen, "gone") /\ lock' = Release(client[c].seen)
                                ELSE UNCHANGED <<daemon, lock>>
    /\ Goto(c, "read")
    /\ UNCHANGED <<file, endpoint, signalled, deaths>>
\* removeStateIfOwned, by the stopping command: without the lock.
ReadStopped(c) ==
    /\ client[c].pc = "read" /\ Goto(c, IF file = client[c].seen THEN "remove" ELSE Stopped(c))
    /\ UNCHANGED <<files, deaths>>
RemoveStopped(c) ==
    /\ client[c].pc = "remove" /\ file' = "none" /\ Goto(c, Stopped(c))
    /\ UNCHANGED <<endpoint, lock, daemon, signalled, deaths>>

Next ==
    \/ \E d \in Daemons :
          \/ AcquireLock(d) \/ PrepareStateWhileLocked(d) \/ StartService(d) \/ WriteState(d) \/
                StopRequested(d)
          \/ CloseService(d) \/ ReadOwnState(d) \/ RemoveOwnState(d) \/ Die(d)
    \/ \E c \in Clients :
          \/ \E op \in {"start", "stop", "restart", "connect"} : Command(c, op)
          \/ Connect(c) \/ Start(c) \/ StartDetached(c) \/ Poll(c) \/ CleanLock(c) \/ CleanLook(c) \/
                CleanRemove(c)
          \/ Stop(c) \/ Waited(c) \/ ReadStopped(c) \/ RemoveStopped(c)

Spec == Init /\ [][Next]_vars

-----------------------------------------------------------------------------
\* Every variable has its type.
TypeOK ==
    /\ file \in Daemons \cup {"none", "invalid"} /\ endpoint \in Daemons \cup {"none"}
    /\ lock \in Daemons \cup Clients \cup {"none"} /\ signalled \subseteq Daemons /\ deaths \in 0..MaxDeaths
    /\ daemon \in [Daemons -> {"unborn", "new", "locked", "prepared", "serving", "running", "closing", "closed",
                               "removing", "gone"}]

\* Two daemons never have the runtime service open at once, however many are
\* started, killed or stopped: the database has one writer.
OneService == Cardinality({d \in Daemons : Serves(d)}) <= 1

\* A daemon that daemon.json names and that has not begun to close accepts API
\* requests at the recorded endpoint: "a process reported as running already
\* has an accepting API".
RunningAccepts == \A d \in Daemons : file = d /\ daemon[d] = "running" => endpoint = d

\* The clean-up of a stale or malformed record never removes the record of a
\* live daemon, whatever happened since the record was first inspected.
CleanupCannotRace ==
    [][\A c \in Clients : (client[c].pc = "clean remove" /\ client'[c].pc # "clean remove")
                             => file \in {"none", "invalid"} \/ ~Alive(file)]_vars

-----------------------------------------------------------------------------
(* Proofs.  The lock is let go in eight places, by daemons, by the command  *)
(* that cleans up and by the system when a process dies; the record and the *)
(* endpoint are written and removed in as many, some of them without the    *)
(* lock.  LockInv says what each of these may count on.                     *)

Phases == {"unborn", "new", "locked", "prepared", "serving", "running", "closing", "closed", "removing", "gone"}

\* Phases between taking the lock and letting it go.
Locked == {"locked", "prepared", "serving", "running", "closing", "closed", "removing"}

\* Processes and the words in the files are told apart.
DistinctNames ==
    /\ Daemons \cap Clients = {}
    /\ {"none", "invalid"} \cap (Daemons \cup Clients) = {}

Cleaning == {"look", "clean remove"}
Steps == {"idle", "connect", "reconnect", "start", "spawn", "poll", "clean", "stop", "waiting", "read",
     "remove"}
         \cup Cleaning
Commands == [pc : Steps, op : {"none", "start", "stop", "restart", "connect"}, seen : Daemons \cup {"none"}]

\* What the proof needs of the types; a command that waits for a daemon has seen it.
ClientsTyped ==
    /\ client \in [Clients -> Commands]
    /\ \A c \in Clients : client[c].pc = "waiting" => client[c].seen \in Daemons
Typed ==
    /\ daemon \in [Daemons -> Phases]
    /\ file \in Daemons \cup {"none", "invalid"}
    /\ ClientsTyped

\* A daemon in a locked phase holds the lock.
DaemonsLocked == \A d \in Daemons : daemon[d] \in Locked => lock = d

\* A command that looks at a record in order to remove it holds the lock too, and
\* the record it decided to remove is not that of a live daemon.
CleanersLocked ==
    \A c \in Clients :
        /\ client[c].pc \in Cleaning => lock = c
        /\ client[c].pc = "clean remove" => file \in {"none", "invalid"} \/ ~Alive(file)

\* A recorded daemon was started.
RecordedWasBorn == file \in Daemons => daemon[file] # "unborn"

\* The endpoint names the daemon that serves.
EndpointNamed == \A d \in Daemons : daemon[d] \in {"serving", "running"} => endpoint = d

LockInv == Typed /\ DaemonsLocked /\ CleanersLocked /\ RecordedWasBorn /\ EndpointNamed

\* Nothing has been started yet; an earlier session may have left its files.
LEMMA LockInit ==
    ASSUME Init, DistinctNames
    PROVE  LockInv
  <1>1. daemon \in [Daemons -> {"unborn", "gone"}]
    BY DEF Init
  <1>2. Idle \in Commands /\ Idle.pc = "idle"
    BY DEF Idle, Commands, Steps
  <1>3. ClientsTyped /\ \A c \in Clients : client[c].pc = "idle"
    BY <1>2 DEF Init, ClientsTyped
  <1>4. Typed
    BY <1>1, <1>3 DEF Init, Typed, Phases
  <1>5. RecordedWasBorn
    BY DEF Init, RecordedWasBorn, DistinctNames
  <1>6. DaemonsLocked /\ EndpointNamed
    BY <1>1 DEF DaemonsLocked, EndpointNamed, Locked
  <1>7. CleanersLocked
    BY <1>3 DEF CleanersLocked, Cleaning
  <1> QED
    BY <1>4, <1>5, <1>6, <1>7 DEF LockInv

\* A step that changes the phase of one daemon, and of the commands none to or in
\* the clean-up.
LEMMA DaemonMoves ==
    ASSUME LockInv, DistinctNames, NEW d \in Daemons, NEW p \in Phases,
           Alive(d), p # "unborn",
           daemon' = [daemon EXCEPT ![d] = p],
           ClientsTyped',
           \A c \in Clients : client'[c].pc \in Cleaning => client'[c] = client[c],
           \* the lock is kept, taken while free, or let go by its holder
           \/ UNCHANGED lock /\ (p \in Locked => daemon[d] \in Locked)
           \/ lock = "none" /\ lock' = d /\ UNCHANGED file
           \/ lock' = Release(d) /\ p \notin Locked,
           \* a record is written under the lock
           file' \in {file, "none"} \/ (file' = d /\ daemon[d] \in Locked),
           \* the endpoint is its own to publish and to remove
           \/ UNCHANGED endpoint /\ (p \in {"serving", "running"} => daemon[d] \in {"serving", "running"})
           \/ daemon[d] \in Locked /\ endpoint' = d
           \/ p \notin {"serving", "running"} /\ endpoint' = DropEndpoint(d)
    PROVE  LockInv'
  <1> USE DEF LockInv
  <1>1. Typed'
    BY DEF Typed
  <1>2. daemon'[d] = p /\ \A e \in Daemons \ {d} : daemon'[e] = daemon[e]
    BY DEF Typed
  <1>3. DaemonsLocked'
    BY <1>2 DEF DaemonsLocked, Release, DistinctNames
  <1>4. RecordedWasBorn'
    BY <1>2 DEF RecordedWasBorn, Typed, DistinctNames
  <1>5. EndpointNamed'
    BY <1>2, <1>3 DEF EndpointNamed, DaemonsLocked, DropEndpoint, Locked
  <1>6. ASSUME NEW c \in Clients, client'[c].pc \in Cleaning
        PROVE  /\ lock' = c
               /\ client'[c].pc = "clean remove" => file' \in {"none", "invalid"} \/ ~Alive(file)'
    <2>1. lock = c /\ c # d /\ c # "none" /\ daemon[d] \notin Locked
      BY <1>6 DEF CleanersLocked, DaemonsLocked, DistinctNames
    <2>3. client'[c] = client[c]
      BY <1>6
    <2>2. lock' = c /\ file' \in {file, "none"}
      BY <2>1 DEF Release
    <2> QED
      BY <1>2, <1>6, <2>2, <2>3 DEF CleanersLocked, Alive, Typed
  <1>7. CleanersLocked'
    BY <1>6 DEF CleanersLocked, Cleaning
  <1> QED
    BY <1>1, <1>3, <1>4, <1>5, <1>7

\* A daemon ends or is killed, and the system lets go of its lock.
LEMMA DaemonEnds ==
    ASSUME LockInv, DistinctNames, NEW d \in Daemons, Alive(d),
           daemon' = [daemon EXCEPT ![d] = "gone"],
           ClientsTyped',
           \A c \in Clients : client'[c].pc \in Cleaning => client'[c] = client[c],
           lock' \in {lock, Release(d)},
           UNCHANGED <<file, endpoint>>
    PROVE  LockInv'
  <1> DEFINE p == "gone"
  <1>1. p \in Phases /\ p # "unborn" /\ p \notin Locked /\ p \notin {"serving", "running"}
    BY DEF Phases, Locked
  <1>2. daemon' = [daemon EXCEPT ![d] = p]
    OBVIOUS
  <1> HIDE DEF p
  <1> QED
    BY <1>1, <1>2, DaemonMoves

\* A step of one command that is not in the clean-up afterwards.
LEMMA ClientMoves ==
    ASSUME LockInv, DistinctNames, NEW c \in Clients, NEW n \in Commands,
           n.pc \notin Cleaning, n.pc = "waiting" => n.seen \in Daemons,
           client' = [client EXCEPT ![c] = n],
           UNCHANGED <<daemon, endpoint>>,
           lock' \in {lock, Release(c)},
           file' \in {file, "none"}
    PROVE  LockInv'
  <1> USE DEF LockInv
  <1>1. client'[c] = n /\ \A k \in Clients \ {c} : client'[k] = client[k]
    BY DEF Typed, ClientsTyped
  <1>2. Typed'
    BY <1>1 DEF Typed, ClientsTyped
  <1>3. DaemonsLocked' /\ EndpointNamed'
    BY DEF DaemonsLocked, EndpointNamed, Release, DistinctNames
  <1>4. RecordedWasBorn'
    BY DEF RecordedWasBorn, DistinctNames
  <1>5. CleanersLocked'
    BY <1>1 DEF CleanersLocked, Release, Alive, Cleaning
  <1> QED
    BY <1>2, <1>3, <1>4, <1>5

\* A step of the command that cleans up, under the lock.
LEMMA CleanerMoves ==
    ASSUME LockInv, DistinctNames, NEW c \in Clients, NEW n \in Commands,
           n.pc \in Cleaning,
           n.pc = "clean remove" => file \in {"none", "invalid"} \/ ~Alive(file),
           client' = [client EXCEPT ![c] = n],
           UNCHANGED <<daemon, endpoint, file>>,
           lock \in {"none", c}, lock' = c
    PROVE  LockInv'
  <1> USE DEF LockInv
  <1>1. client'[c] = n /\ \A k \in Clients \ {c} : client'[k] = client[k]
    BY DEF Typed, ClientsTyped
  <1>2. Typed'
    BY <1>1 DEF Typed, ClientsTyped, Cleaning
  <1>3. (\A d \in Daemons : daemon[d] \notin Locked) /\ (\A k \in Clients \ {c} : client[k].pc \notin Cleaning)
    BY DEF DaemonsLocked, CleanersLocked, DistinctNames
  <1>4. DaemonsLocked' /\ EndpointNamed' /\ RecordedWasBorn'
    BY <1>3 DEF DaemonsLocked, EndpointNamed, RecordedWasBorn
  <1>5. CleanersLocked'
    BY <1>1, <1>3 DEF CleanersLocked, Cleaning, Alive
  <1> QED
    BY <1>2, <1>4, <1>5

\* What a command holds.
LEMMA CommandValues ==
    ASSUME LockInv, NEW c \in Clients
    PROVE  client[c] \in Commands /\ Idle \in Commands /\ Idle.pc = "idle" /\ "waiting" \in Steps
  <1>1. client[c] \in Commands
    BY DEF LockInv, Typed, ClientsTyped
  <1>2. Idle \in Commands /\ Idle.pc = "idle" /\ "waiting" \in Steps
    BY DEF Idle, Commands, Steps
  <1> QED
    BY <1>1, <1>2

\* Goto, outside the clean-up.
LEMMA GotoMoves ==
    ASSUME LockInv, DistinctNames, NEW c \in Clients, NEW p \in Steps \ (Cleaning \cup {"waiting"}), Goto(c, p),
           UNCHANGED <<daemon, endpoint>>,
           lock' \in {lock, Release(c)},
           file' \in {file, "none"}
    PROVE  LockInv'
  <1> DEFINE n == IF p = "idle" THEN Idle ELSE [client[c] EXCEPT !.pc = p]
  <1>1. n \in Commands /\ n.pc = p
    BY CommandValues DEF Commands
  <1>2. client' = [client EXCEPT ![c] = n]
    BY DEF Goto, Becomes
  <1> HIDE DEF n
  <1> QED
    BY <1>1, <1>2, ClientMoves

\* RunWithService, a signal and a death: every step of a daemon.
LEMMA DaemonStep ==
    ASSUME LockInv, DistinctNames, NEW d \in Daemons,
           \/ AcquireLock(d) \/ PrepareStateWhileLocked(d) \/ StartService(d) \/ WriteState(d) \/
                 StopRequested(d)
           \/ CloseService(d) \/ ReadOwnState(d) \/ RemoveOwnState(d) \/ Die(d)
    PROVE  LockInv'
  <1>1. Alive(d)
    BY DEF AcquireLock, PrepareStateWhileLocked, StartService, PublishEndpoint, WriteState,
       StopRequested, CloseService,
           ReadOwnState, RemoveOwnState, Die, Alive
  <1>2. UNCHANGED client
    BY DEF AcquireLock, PrepareStateWhileLocked, StartService, PublishEndpoint, WriteState,
       StopRequested, CloseService,
           ReadOwnState, RemoveOwnState, Die
  <1>3. ClientsTyped' /\ \A c \in Clients : client'[c].pc \in Cleaning => client'[c] = client[c]
    BY <1>2 DEF LockInv, Typed, ClientsTyped
  <1>4. daemon[d] \in Locked => lock = d
    BY DEF LockInv, DaemonsLocked
  <1>5. CASE AcquireLock(d)
    <2>1. CASE lock = "none"
      <3>1. /\ daemon' = [daemon EXCEPT ![d] = "locked"] /\ lock' = d
            /\ UNCHANGED <<file, endpoint>>
        BY <1>5, <2>1 DEF AcquireLock, Phase
      <3> QED
        <4> DEFINE p == "locked"
        <4>1. p \in Phases /\ p # "unborn" /\ p \notin {"serving", "running"}
          BY DEF Phases
        <4>2. daemon' = [daemon EXCEPT ![d] = p]
          BY <3>1
        <4> HIDE DEF p
        <4> QED
          BY <1>1, <1>3, <2>1, <3>1, <4>1, <4>2, DaemonMoves
    <2>2. CASE lock # "none"
      <3>1. daemon' = [daemon EXCEPT ![d] = "gone"] /\ UNCHANGED <<lock, file, endpoint>>
        BY <1>5, <2>2 DEF AcquireLock, Phase
      <3> QED
        BY <1>1, <1>3, <3>1, DaemonEnds
    <2> QED
      BY <2>1, <2>2
  <1>6. CASE PrepareStateWhileLocked(d)
    BY <1>1, <1>3, <1>4, <1>6, DaemonMoves DEF PrepareStateWhileLocked, Phase, Phases, Locked, Release
  <1>7. CASE StartService(d)
    BY <1>1, <1>3, <1>4, <1>7, DaemonMoves DEF StartService, PublishEndpoint, Phase, Phases, Locked, Release
  <1>8. CASE WriteState(d)
    BY <1>1, <1>3, <1>4, <1>8, DaemonMoves DEF WriteState, Phase, Phases, Locked, Release
  <1>9. CASE StopRequested(d) \/ CloseService(d)
    BY <1>1, <1>3, <1>9, DaemonMoves DEF StopRequested, CloseService, Phase, Phases, Locked
  <1>10. CASE ReadOwnState(d) \/ RemoveOwnState(d)
    BY <1>1, <1>3, <1>10, DaemonMoves DEF ReadOwnState, RemoveOwnState, Phase, Phases, Locked
  <1>11. CASE Die(d)
    <2>1. /\ daemon' = [daemon EXCEPT ![d] = "gone"] /\ lock' = Release(d)
          /\ UNCHANGED <<file, endpoint>>
      BY <1>11 DEF Die, Phase
    <2> QED
      BY <1>1, <1>3, <2>1, DaemonEnds
  <1> QED
    BY <1>5, <1>6, <1>7, <1>8, <1>9, <1>10, <1>11

\* Every step of a command.
LEMMA ClientStep ==
    ASSUME LockInv, DistinctNames, NEW c \in Clients,
           \/ \E op \in {"start", "stop", "restart", "connect"} : Command(c, op)
           \/ Connect(c) \/ Start(c) \/ StartDetached(c) \/ Poll(c) \/ CleanLock(c) \/ CleanLook(c) \/
                 CleanRemove(c)
           \/ Stop(c) \/ Waited(c) \/ ReadStopped(c) \/ RemoveStopped(c)
    PROVE  LockInv'
  <1>1. {"idle", "connect", "reconnect", "start", "spawn", "poll", "clean", "stop", "read", "remove"}
        \subseteq Steps \ (Cleaning \cup {"waiting"})
    BY DEF Steps, Cleaning
  <1>2. Stopped(c) \in {"idle", "start"}
    BY DEF Stopped
  <1>3. ASSUME NEW op \in {"start", "stop", "restart", "connect"}, Command(c, op)
        PROVE  LockInv'
    <2>1. PICK p \in {"connect", "start", "stop"} :
             client' = [client EXCEPT ![c] = [Idle EXCEPT !.op = op, !.pc = p]]
      BY <1>3 DEF Command, Becomes
    <2> DEFINE n == [Idle EXCEPT !.op = op, !.pc = p]
    <2>2. n \in Commands /\ n.pc = p
      BY <1>1, CommandValues DEF Commands
    <2>3. UNCHANGED files
      BY <1>3 DEF Command
    <2> HIDE DEF n
    <2> QED
      BY <1>1, <2>1, <2>2, <2>3, ClientMoves DEF files, n
  <1>4. CASE Connect(c) \/ Poll(c) \/ Start(c) \/ ReadStopped(c)
    <2>1. PICK p \in {"idle", "start", "reconnect", "spawn", "clean", "remove"} : Goto(c, p)
      BY <1>2, <1>4 DEF Connect, Poll, Start, ReadStopped
    <2>2. UNCHANGED files
      BY <1>4 DEF Connect, Poll, Start, ReadStopped
    <2> QED
      BY <1>1, <2>1, <2>2, GotoMoves DEF files
  <1>5. CASE RemoveStopped(c)
    BY <1>1, <1>2, <1>5, GotoMoves DEF RemoveStopped
  <1>6. CASE CleanRemove(c)
    <2>1. PICK p \in {"spawn", "start", "idle"} : Goto(c, p)
      BY <1>6 DEF CleanRemove
    <2> QED
      BY <1>1, <1>6, <2>1, GotoMoves DEF CleanRemove
  <1>7. CASE Stop(c)
    <2>1. CASE Inspect = "running"
      <3>1. file \in Daemons
        BY <2>1 DEF Inspect, LockInv, Typed
      <3>2. client' = [client EXCEPT ![c] = [client[c] EXCEPT !.pc = "waiting", !.seen = file]]
            /\ UNCHANGED <<file, endpoint, lock, daemon>>
        BY <1>7, <2>1 DEF Stop, Becomes
      <3> DEFINE n == [client[c] EXCEPT !.pc = "waiting", !.seen = file]
      <3>3. n \in Commands /\ n.pc = "waiting" /\ n.seen = file
        BY <3>1, CommandValues DEF Commands
      <3> HIDE DEF n
      <3> QED
        BY <3>1, <3>2, <3>3, ClientMoves DEF n, Cleaning
    <2>2. CASE Inspect # "running"
      BY <1>1, <1>2, <1>7, <2>2, GotoMoves DEF Stop
    <2> QED
      BY <2>1, <2>2
  <1>8. CASE CleanLock(c)
    <2>1. CASE lock = "none"
      <3> DEFINE n == [client[c] EXCEPT !.pc = "look"]
      <3>1. /\ client' = [client EXCEPT ![c] = n] /\ lock' = c
            /\ UNCHANGED <<file, endpoint, daemon>>
        BY <1>8, <2>1 DEF CleanLock, Goto, Becomes
      <3>2. n \in Commands /\ n.pc = "look"
        BY CommandValues DEF Commands, Steps, Cleaning
      <3> HIDE DEF n
      <3> QED
        BY <2>1, <3>1, <3>2, CleanerMoves DEF Cleaning
    <2>2. CASE lock # "none"
      BY <1>1, <1>8, <2>2, GotoMoves DEF CleanLock
    <2> QED
      BY <2>1, <2>2
  <1>9. CASE CleanLook(c)
    <2>1. CASE Inspect # "running"
      <3> DEFINE n == [client[c] EXCEPT !.pc = "clean remove"]
      <3>1. client' = [client EXCEPT ![c] = n] /\ UNCHANGED <<lock, file, endpoint, daemon>>
        BY <1>9, <2>1 DEF CleanLook, Goto, Becomes
      <3>2. n \in Commands /\ n.pc = "clean remove"
        BY CommandValues DEF Commands, Steps, Cleaning
      <3>3. lock = c
        BY <1>9 DEF CleanLook, LockInv, CleanersLocked, Cleaning
      <3>4. file \in {"none", "invalid"} \/ ~Alive(file)
        BY <2>1 DEF Inspect, LockInv, Typed
      <3> HIDE DEF n
      <3> QED
        BY <3>1, <3>2, <3>3, <3>4, CleanerMoves DEF Cleaning
    <2>2. CASE Inspect = "running"
      BY <1>1, <1>9, <2>2, GotoMoves DEF CleanLook
    <2> QED
      BY <2>1, <2>2
  <1>10. CASE StartDetached(c)
    <2> DEFINE n == [client[c] EXCEPT !.pc = "poll"]
    <2>1. Goto(c, "poll") /\ client' = [client EXCEPT ![c] = n] /\ UNCHANGED <<file, endpoint, lock>>
      BY <1>10 DEF StartDetached, Goto, Becomes
    <2>2. n \in Commands /\ n.pc = "poll"
      BY CommandValues DEF Commands, Steps
    <2>3. CASE UNCHANGED daemon
      BY <1>1, <2>1, <2>3, GotoMoves
    <2>4. ASSUME NEW d \in Daemons, Spawn(d), Phase(d, "new")
          PROVE  LockInv'
      <3> HIDE DEF n
      <3>1. daemon[d] = "unborn" /\ daemon' = [daemon EXCEPT ![d] = "new"]
        BY <2>4 DEF Spawn, Phase
      <3>2. daemon'[d] = "new" /\ \A e \in Daemons \ {d} : daemon'[e] = daemon[e]
        BY <3>1 DEF LockInv, Typed
      <3>3. client'[c] = n /\ \A k \in Clients \ {c} : client'[k] = client[k]
        BY <2>1 DEF LockInv, Typed, ClientsTyped
      <3>4. Typed'
        BY <2>1, <2>2, <3>1, <3>3 DEF LockInv, Typed, ClientsTyped, Phases
      <3>5. DaemonsLocked' /\ EndpointNamed' /\ RecordedWasBorn'
        BY <2>1, <3>2 DEF LockInv, DaemonsLocked, EndpointNamed, RecordedWasBorn, Locked
      <3>6. file # d
        BY <3>1 DEF LockInv, RecordedWasBorn
      <3>7. CleanersLocked'
        BY <2>1, <2>2, <3>2, <3>3, <3>6 DEF LockInv, Typed, CleanersLocked, Cleaning, Alive
      <3> QED
        BY <3>4, <3>5, <3>7 DEF LockInv
    <2> QED
      BY <1>10, <2>3, <2>4 DEF StartDetached
  <1>11. CASE Waited(c)
    <2> DEFINE d == client[c].seen
               n == [client[c] EXCEPT !.pc = "read"]
    <2>1. d \in Daemons
      BY <1>11 DEF Waited, LockInv, Typed, ClientsTyped
    <2>2. client' = [client EXCEPT ![c] = n] /\ UNCHANGED <<file, endpoint>> /\ Goto(c, "read")
      BY <1>11 DEF Waited, Goto, Becomes
    <2>3. n \in Commands /\ n.pc = "read"
      BY CommandValues DEF Commands, Steps
    <2>4. CASE Alive(d)
      <3>1. daemon' = [daemon EXCEPT ![d] = "gone"] /\ lock' = Release(d)
        BY <1>11, <2>4 DEF Waited, Phase
      <3> HIDE DEF n, d
      <3>2. client'[c] = n /\ \A k \in Clients \ {c} : client'[k] = client[k]
        BY <2>2 DEF LockInv, Typed, ClientsTyped
      <3>3. ClientsTyped'
        BY <2>2, <2>3, <3>2 DEF LockInv, Typed, ClientsTyped
      <3>4. \A k \in Clients : client'[k].pc \in Cleaning => client'[k] = client[k]
        BY <2>3, <3>2 DEF Cleaning
      <3>5. "gone" \in Phases /\ "gone" \notin Locked /\ "gone" \notin {"serving", "running", "unborn"}
        BY DEF Phases, Locked
      <3> QED
        BY <2>1, <2>2, <2>4, <3>1, <3>3, <3>4, DaemonEnds
    <2>5. CASE ~Alive(d)
      BY <1>1, <1>11, <2>2, <2>5, GotoMoves DEF Waited
    <2> QED
      BY <2>4, <2>5
  <1> QED
    BY <1>3, <1>4, <1>5, <1>6, <1>7, <1>8, <1>9, <1>10, <1>11

\* Every step.
LEMMA LockStep ==
    ASSUME LockInv, DistinctNames, [Next]_vars
    PROVE  LockInv'
  <1>1. CASE UNCHANGED vars
    BY <1>1 DEF vars, LockInv, Typed, ClientsTyped, DaemonsLocked, CleanersLocked, RecordedWasBorn,
       EndpointNamed, Alive
  <1> QED
    BY <1>1, DaemonStep, ClientStep DEF Next

\* The invariant of the lock, the record and the endpoint.
THEOREM LockHolds == ASSUME DistinctNames PROVE Spec => []LockInv
  <1>1. Init => LockInv
    BY LockInit
  <1>2. LockInv /\ [Next]_vars => LockInv'
    BY LockStep
  <1> QED
    BY <1>1, <1>2, PTL DEF Spec

\* However many daemons and commands there are, and whichever of them die: two
\* daemons never have the runtime service open at once, and a daemon recorded as
\* running has published its endpoint (lifecycle.go, RunWithService).
THEOREM OneDaemonWrites == ASSUME DistinctNames PROVE Spec => [](OneService /\ RunningAccepts)
  <1>1. LockInv => OneService /\ RunningAccepts
    <2> SUFFICES ASSUME LockInv PROVE OneService /\ RunningAccepts
      OBVIOUS
    <2> DEFINE S == {d \in Daemons : Serves(d)}
    <2>1. S \subseteq {lock}
      BY DEF LockInv, DaemonsLocked, Serves, Locked
    <2>2. IsFiniteSet({lock}) /\ Cardinality({lock}) = 1
      BY FS_Singleton
    <2>3. IsFiniteSet(S) /\ Cardinality(S) <= Cardinality({lock})
      <3> HIDE DEF S
      <3> QED
        BY <2>1, <2>2, FS_Subset
    <2>4. Cardinality(S) \in Nat
      BY <2>3, FS_CardinalityType
    <2>5. OneService
      BY <2>2, <2>3, <2>4 DEF OneService
    <2> QED
      BY <2>5 DEF LockInv, EndpointNamed, RunningAccepts
  <1> QED
    BY <1>1, LockHolds, PTL

\* The clean-up of a stale or malformed record looks and removes in two steps; it
\* never removes the record of a daemon that started in between (cleanStaleState).
THEOREM CleanupIsSafe == ASSUME DistinctNames PROVE Spec => CleanupCannotRace
  <1>1. LockInv => \A c \in Clients : client[c].pc = "clean remove" => file \in {"none", "invalid"} \/
           ~Alive(file)
    BY DEF LockInv, CleanersLocked
  <1>2. LockInv /\ [Next]_vars =>
           [\A c \in Clients : (client[c].pc = "clean remove" /\ client'[c].pc # "clean remove")
                                  => file \in {"none", "invalid"} \/ ~Alive(file)]_vars
    BY <1>1
  <1> QED
    BY <1>2, LockHolds, PTL DEF Spec, CleanupCannotRace

\* Who can hold the lock, be published and be asked to stop.
Holders ==
    /\ endpoint \in Daemons \cup {"none"} /\ lock \in Daemons \cup Clients \cup {"none"}
    /\ signalled \subseteq Daemons
Deaths == deaths \in 0 .. MaxDeaths

\* A step of a daemon takes the lock, publishes or removes its own endpoint.
LEMMA HoldersStep ==
    ASSUME LockInv, DistinctNames, Holders, [Next]_vars
    PROVE  Holders'
  <1> USE DEF Holders
  <1>1. ASSUME NEW d \in Daemons,
               AcquireLock(d) \/ PrepareStateWhileLocked(d) \/ StartService(d) \/ WriteState(d) \/
                  StopRequested(d)
        PROVE  Holders'
    BY <1>1 DEF AcquireLock, PrepareStateWhileLocked, StartService, PublishEndpoint, WriteState,
       StopRequested, DropEndpoint
  <1>2. ASSUME NEW d \in Daemons,
               CloseService(d) \/ ReadOwnState(d) \/ RemoveOwnState(d) \/ Die(d)
        PROVE  Holders'
    BY <1>2 DEF CloseService, ReadOwnState, RemoveOwnState, Die, DropEndpoint, Release
  <1>3. ASSUME NEW c \in Clients,
               \/ \E op \in {"start", "stop", "restart", "connect"} : Command(c, op)
               \/ Connect(c) \/ Start(c) \/ StartDetached(c) \/ Poll(c) \/ ReadStopped(c) \/ RemoveStopped(c)
        PROVE  Holders'
    BY <1>3 DEF Command, Connect, Start, StartDetached, Poll, ReadStopped, RemoveStopped, files
  <1>4. ASSUME NEW c \in Clients, CleanLock(c) \/ CleanLook(c) \/ CleanRemove(c) \/ Waited(c)
        PROVE  Holders'
    BY <1>4 DEF CleanLock, CleanLook, CleanRemove, Waited, Release
  <1>5. ASSUME NEW c \in Clients, Stop(c)
        PROVE  Holders'
    <2>1. UNCHANGED <<endpoint, lock>>
      BY <1>5 DEF Stop
    <2>2. CASE Inspect = "running"
      <3>1. file \in Daemons
        BY <2>2 DEF Inspect, LockInv, Typed
      <3>2. signalled' = signalled \cup {file}
        BY <1>5, <2>2 DEF Stop
      <3> QED
        BY <2>1, <3>1, <3>2
    <2>3. CASE Inspect # "running"
      BY <1>5, <2>1, <2>3 DEF Stop
    <2> QED
      BY <2>2, <2>3
  <1>6. CASE UNCHANGED vars
    BY <1>6 DEF vars
  <1> QED
    BY <1>1, <1>2, <1>3, <1>4, <1>5, <1>6 DEF Next

\* Only a daemon that dies, or is interrupted, counts.
LEMMA DeathsStep == ASSUME MaxDeaths \in Nat, Deaths, [Next]_vars PROVE Deaths'
  <1>1. ASSUME NEW d \in Daemons, StopRequested(d) \/ Die(d) PROVE Deaths'
    BY <1>1 DEF StopRequested, Die, Deaths
  <1>2. ASSUME UNCHANGED deaths PROVE Deaths'
    BY <1>2 DEF Deaths
  <1>3. ASSUME NEW d \in Daemons,
               \/ AcquireLock(d) \/ PrepareStateWhileLocked(d) \/ StartService(d) \/ WriteState(d)
               \/ CloseService(d) \/ ReadOwnState(d) \/ RemoveOwnState(d)
        PROVE  Deaths'
    BY <1>2, <1>3 DEF AcquireLock, PrepareStateWhileLocked, StartService, PublishEndpoint, WriteState,
       CloseService,
                      ReadOwnState, RemoveOwnState
  <1>4. ASSUME NEW c \in Clients,
               \/ \E op \in {"start", "stop", "restart", "connect"} : Command(c, op)
               \/ Connect(c) \/ Start(c) \/ StartDetached(c) \/ Poll(c) \/ CleanLock(c) \/
                     CleanLook(c) \/ CleanRemove(c)
               \/ Stop(c) \/ Waited(c) \/ ReadStopped(c) \/ RemoveStopped(c)
        PROVE  Deaths'
    BY <1>2, <1>4 DEF Command, Connect, Start, StartDetached, Poll, CleanLock, CleanLook, CleanRemove,
                      Stop, Waited, ReadStopped, RemoveStopped
  <1>5. CASE UNCHANGED vars
    BY <1>2, <1>5 DEF vars
  <1> QED
    BY <1>1, <1>3, <1>4, <1>5 DEF Next

\* Records, endpoint and lock name processes of this directory, or nobody.
THEOREM TypeCorrect ==
    ASSUME DistinctNames, MaxDeaths \in Nat
    PROVE  Spec => []TypeOK
  <1>1. Init => Holders /\ Deaths
    BY DEF Init, Holders, Deaths
  <1>2. LockInv /\ Holders /\ Deaths /\ [Next]_vars => Holders' /\ Deaths'
    BY HoldersStep, DeathsStep
  <1>3. LockInv /\ Holders /\ Deaths => TypeOK
    BY DEF LockInv, Typed, Phases, Holders, Deaths, TypeOK
  <1> QED
    BY <1>1, <1>2, <1>3, LockHolds, PTL DEF Spec
=============================================================================
