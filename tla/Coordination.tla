---------------------------- MODULE Coordination ----------------------------
(***************************************************************************)
(* Durable leases, fencing tokens and the repository-writer queue of the   *)
(* SQLite state store (adapters/statestore/sqlite/coordination.go).        *)
(*                                                                         *)
(* A table is a set of rows.  Every exported method of the store runs in   *)
(* one SQLite transaction and is one action; a call the store refuses      *)
(* changes nothing and is a stuttering step.  The callers (executors,      *)
(* repository managers, a daemon that has since been replaced) hold        *)
(* capabilities: the guards that earlier calls returned.  They may present *)
(* any of them at any later time, in any order and any number of times.    *)
(***************************************************************************)
EXTENDS Naturals, FiniteSets

CONSTANTS
    LeaseIds,       \* lease identities chosen by the callers
    Scopes,         \* attempts, repositories and worktrees that are fenced
    Holders,        \* holder attempt IDs
    Daemons,        \* daemon instance IDs
    QueueItems,     \* item IDs of the repository write queue (naturals: the
                    \* order of the IDs is the last tie-breaker)
    Priorities,     \* queue priorities
    Duration,       \* lease duration in clock ticks
    TicksPerSecond, \* a tick is a fraction of a second with one decimal
    MaxTime,        \* bound: the clock stops here
    MaxToken,       \* bound: fencing tokens issued per scope
    Evidence        \* disposition evidence documents

ASSUME CoordinationAssumption ==
    /\ Duration \in Nat \ {0}
    /\ TicksPerSecond \in 1 .. 10
    /\ MaxTime \in Nat
    /\ MaxToken \in Nat
    /\ QueueItems \subseteq Nat
    /\ Priorities \subseteq Nat

VARIABLES
    now,        \* d.now()
    leases,     \* table leases
    lastToken,  \* table lease_scopes: scope -> last_fencing_token
    queue,      \* table queue_entries, kind repository_write
    issued      \* guards of the leases returned to callers so far

coordVars == <<now, leases, lastToken, queue, issued>>

-----------------------------------------------------------------------------
\* Rows and capabilities

Held == "held"
Releasing == "releasing"
Released == "released"
ReconcileRequired == "reconcile_required"

LeaseStates == {Held, Releasing, Released, ReconcileRequired}

NoEvidence == "none"

\* statestore.Lease: released_at is left out, evidence is NoEvidence for NULL.
LeaseRow ==
    [id : LeaseIds, scope : Scopes, holder : Holders, daemon : Daemons,
     token : Nat, acquiredAt : Nat, heartbeatAt : Nat, expiresAt : Nat,
     state : LeaseStates, evidence : Evidence \cup {NoEvidence}]

\* statestore.LeaseGuard: the complete capability for a fenced mutation.
LeaseGuard ==
    [id : LeaseIds, holder : Holders, daemon : Daemons, token : Nat]

QueueEntry ==
    [scope : Scopes, item : QueueItems, priority : Priorities,
     availableAt : Nat, enqueuedAt : Nat]

GuardOf(row) ==
    [id |-> row.id, holder |-> row.holder,
     daemon |-> row.daemon, token |-> row.token]

\* Mutant: the guard is compared without the daemon instance.
GuardsAnyDaemon(g, row) == GuardOf(row) = [g EXCEPT !.daemon = row.daemon]

\* readGuardedLease: the row is found by ID, then holder, daemon and token
\* must match exactly.
Guards(g, row) == GuardOf(row) = g

Expired(row) == now > row.expiresAt

Replace(row, new) == (leases \ {row}) \cup {new}

-----------------------------------------------------------------------------
\* AcquireLease

\* leaseMatchesRequest: a repeated request adopts the row it created.  The
\* interval test fails once a heartbeat has moved expires_at.
LeaseMatchesRequest(row, s, h, d, expected) ==
    /\ row.scope = s
    /\ row.holder = h
    /\ row.daemon = d
    /\ row.token = expected + 1
    /\ row.expiresAt = row.acquiredAt + Duration

\* The caller repeats a request whose response it lost.
AdoptLease(id, s, h, d, expected) ==
    \E row \in leases :
        /\ row.id = id
        /\ LeaseMatchesRequest(row, s, h, d, expected)
        /\ issued' = issued \cup {GuardOf(row)}
        /\ UNCHANGED <<now, leases, lastToken, queue>>

\* Mutant: an expired lease no longer blocks the scope.
UnexpiredLeases(s) ==
    {row \in leases : row.scope = s /\ row.state # Released /\ ~Expired(row)}

\* readActiveLease
ActiveLeases(s) == {row \in leases : row.scope = s /\ row.state # Released}

\* acquireLeaseTx for a lease ID that has no row: compare the fencing token,
\* refuse while any unreleased lease exists (an expired one included), insert.
InsertLease(id, s, h, d, expected) ==
    /\ \A row \in leases : row.id # id
    /\ lastToken[s] = expected
    /\ ActiveLeases(s) = {}
    /\ lastToken[s] < MaxToken
    /\ LET row == [id |-> id, scope |-> s, holder |-> h, daemon |-> d,
                   token |-> lastToken[s] + 1, acquiredAt |-> now,
                   heartbeatAt |-> now, expiresAt |-> now + Duration,
                   state |-> Held, evidence |-> NoEvidence]
       IN  /\ leases' = leases \cup {row}
           /\ issued' = issued \cup {GuardOf(row)}
    /\ lastToken' = [lastToken EXCEPT ![s] = @ + 1]

AcquireLease(id, s, h, d, expected) ==
    \/ AdoptLease(id, s, h, d, expected)
    \/ InsertLease(id, s, h, d, expected) /\ UNCHANGED <<now, queue>>

-----------------------------------------------------------------------------
\* Operations on a guarded lease

HeartbeatLease(g) ==
    \E row \in leases :
        /\ Guards(g, row)
        /\ row.state = Held
        /\ now >= row.heartbeatAt
        /\ ~Expired(row)
        /\ leases' = Replace(row, [row EXCEPT !.heartbeatAt = now,
                                              !.expiresAt = now + Duration])
        /\ UNCHANGED <<now, lastToken, queue, issued>>

BeginLeaseRelease(g) ==
    \E row \in leases :
        /\ Guards(g, row)
        /\ row.state = Held
        /\ leases' = Replace(row, [row EXCEPT !.state = Releasing])
        /\ UNCHANGED <<now, lastToken, queue, issued>>

\* Mutant: a held lease may be released in one step.
ReleaseHeldLease(g, e) ==
    \E row \in leases :
        /\ Guards(g, row)
        /\ row.state # Released
        /\ leases' = Replace(row, [row EXCEPT !.state = Released,
                                              !.evidence = e])
        /\ UNCHANGED <<now, lastToken, queue, issued>>

\* The scope is freed only after the release began, or by operator proof.
CompleteLeaseRelease(g, e) ==
    \E row \in leases :
        /\ Guards(g, row)
        /\ row.state \in {Releasing, ReconcileRequired}
        /\ leases' = Replace(row, [row EXCEPT !.state = Released,
                                              !.evidence = e])
        /\ UNCHANGED <<now, lastToken, queue, issued>>

MarkLeaseReconcileRequired(g, e) ==
    \E row \in leases :
        /\ Guards(g, row)
        /\ row.state \in {Held, Releasing}
        /\ leases' = Replace(row, [row EXCEPT !.state = ReconcileRequired,
                                              !.evidence = e])
        /\ UNCHANGED <<now, lastToken, queue, issued>>

\* ValidateLease: would the store admit a mutation of scope s under guard g?
ValidateLease(s, g) ==
    \E row \in leases :
        /\ Guards(g, row)
        /\ row.scope = s
        /\ row.state = Held
        /\ ~Expired(row)

-----------------------------------------------------------------------------
\* The repository write queue

\* Insert once; a repeated request keeps the first row and its enqueued_at.
Enqueue(s, item, p, at) ==
    /\ \A e \in queue : ~(e.scope = s /\ e.item = item)
    /\ queue' = queue \cup {[scope |-> s, item |-> item, priority |-> p,
                             availableAt |-> at, enqueuedAt |-> now]}
    /\ UNCHANGED <<now, leases, lastToken, issued>>

RemoveQueueEntry(s, item) ==
    /\ \E e \in queue : e.scope = s /\ e.item = item
    /\ queue' = {e \in queue : ~(e.scope = s /\ e.item = item)}
    /\ UNCHANGED <<now, leases, lastToken, issued>>

\* formatTime writes RFC 3339 with trailing zeros removed ("05.5Z", "05Z") and
\* SQLite compares the column as text: within one second the fractions come in
\* order and the whole second, whose text has "Z" where they have ".", last.
Second(t) == t \div TicksPerSecond

TextRank(t) ==
    LET fraction == t % TicksPerSecond
    IN  Second(t) * TicksPerSecond
            + (IF fraction = 0 THEN TicksPerSecond ELSE fraction) - 1

\* Mutant: the enqueue time is compared before the priority.
BeforeByTime(a, b) ==
    \/ TextRank(a.enqueuedAt) < TextRank(b.enqueuedAt)
    \/ /\ a.enqueuedAt = b.enqueuedAt
       /\ \/ a.priority > b.priority
          \/ a.priority = b.priority /\ a.item < b.item

\* ORDER BY priority DESC, enqueued_at, item_id
Before(a, b) ==
    \/ a.priority > b.priority
    \/ /\ a.priority = b.priority
       /\ \/ TextRank(a.enqueuedAt) < TextRank(b.enqueuedAt)
          \/ a.enqueuedAt = b.enqueuedAt /\ a.item < b.item

\* WHERE available_at <= now, compared as text too
Available(s) ==
    {e \in queue : e.scope = s /\ TextRank(e.availableAt) <= TextRank(now)}

QueueHead(s, e) ==
    /\ e \in Available(s)
    /\ \A other \in Available(s) \ {e} : Before(e, other)

\* One transaction proves the head, allocates the token and removes the item.
AcquireRepositoryLock(item, id, s, h, d, expected) ==
    \/ AdoptLease(id, s, h, d, expected)
    \/ \E e \in queue :
          /\ e.item = item
          /\ QueueHead(s, e)
          /\ InsertLease(id, s, h, d, expected)
          /\ queue' = queue \ {e}
          /\ UNCHANGED now

Tick ==
    /\ now < MaxTime
    /\ now' = now + 1
    /\ UNCHANGED <<leases, lastToken, queue, issued>>

-----------------------------------------------------------------------------
CoordInit ==
    /\ now = 0
    /\ leases = {}
    /\ lastToken = [s \in Scopes |-> 0]
    /\ queue = {}
    /\ issued = {}

Tokens == 0 .. MaxToken

\* A guarded call by whoever holds capability g.
GuardedCall(g) ==
    \/ HeartbeatLease(g)
    \/ BeginLeaseRelease(g)
    \/ \E e \in Evidence : CompleteLeaseRelease(g, e)
    \/ \E e \in Evidence : MarkLeaseReconcileRequired(g, e)

QueueCall ==
    \E s \in Scopes, item \in QueueItems :
        \/ \E p \in Priorities, at \in {now, now + 1} : Enqueue(s, item, p, at)
        \/ RemoveQueueEntry(s, item)

\* A call made by daemon instance d.
DaemonCall(d) ==
    \E id \in LeaseIds, s \in Scopes, h \in Holders, expected \in Tokens :
        \/ AcquireLease(id, s, h, d, expected)
        \/ \E item \in QueueItems :
              AcquireRepositoryLock(item, id, s, h, d, expected)
=============================================================================
