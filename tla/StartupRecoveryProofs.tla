----------------------- MODULE StartupRecoveryProofs -----------------------
(***************************************************************************)
(* Proofs about module StartupRecovery, for every set of leases, scopes,   *)
(* holders, daemon instances, operations and observer outcomes and every   *)
(* bound.  FenceOrder is not inductive: that a new token cannot meet an    *)
(* unreleased older lease rests on the counter of the scope (TokensBounded,*)
(* ActiveIsNewest) and on lease IDs being keys.                            *)
(***************************************************************************)
EXTENDS StartupRecovery, TLAPS

\* lease_id is the primary key of the table.
LeaseKey == \A r1, r2 \in leases : r1.id = r2.id => r1 = r2

\* The scope's counter bounds the tokens of its leases.
TokensBounded == \A row \in leases : row.token <= lastToken[row.scope]

\* UNIQUE(scope, fencing_token)
TokensDistinct ==
    \A r1, r2 \in leases : r1.scope = r2.scope /\ r1.token = r2.token => r1 = r2

\* An unreleased lease carries the last token of its scope.
ActiveIsNewest ==
    \A row \in leases : row.state # Released => row.token = lastToken[row.scope]

FenceInv == LeaseKey /\ TokensBounded /\ TokensDistinct /\ ActiveIsNewest

\* A lease owned by an earlier instance is still to be decided by the pass.
OwnersCovered ==
    \A row \in leases :
        row.state \in {Held, Releasing} =>
            \/ phase = "down"
            \/ row.daemon = daemon
            \/ /\ phase = "recovering"
               /\ [kind |-> "lease", id |-> row.id, state |-> row.state] \in pending

-----------------------------------------------------------------------------
\* What a replaced row leaves behind (Replace, transitionGuardedLease): when
\* the new row keeps identity, scope and token and does not revive a released
\* lease, the fencing invariant survives.
LEMMA ReplaceKeepsFence ==
    ASSUME FenceInv, NEW row \in leases, NEW new,
           new.id = row.id, new.scope = row.scope, new.token = row.token,
           row.state # Released,
           leases' = Replace(row, new), lastToken' = lastToken
    PROVE  FenceInv'
  BY DEF FenceInv, LeaseKey, TokensBounded, TokensDistinct, ActiveIsNewest, Replace

\* The same for a step that leaves the lease tables alone.
LEMMA StutterKeepsFence ==
    ASSUME FenceInv, UNCHANGED <<leases, lastToken>>
    PROVE  FenceInv'
  BY DEF FenceInv, LeaseKey, TokensBounded, TokensDistinct, ActiveIsNewest

\* acquireLeaseTx: a fresh row takes the next token of a scope without
\* unreleased leases.
LEMMA InsertKeepsFence ==
    ASSUME TypeOK, FenceInv, NEW id \in LeaseIds, NEW s \in Scopes,
           NEW h \in Holders, NEW d \in Daemons, NEW t \in Tokens,
           InsertLease(id, s, h, d, t)
    PROVE  FenceInv'
  <1> DEFINE new == [id |-> id, scope |-> s, holder |-> h, daemon |-> d,
                     token |-> lastToken[s] + 1, acquiredAt |-> now,
                     heartbeatAt |-> now, expiresAt |-> now + Duration,
                     state |-> Held, evidence |-> NoEvidence]
  <1>1. leases' = leases \cup {new} /\ lastToken' = [lastToken EXCEPT ![s] = @ + 1]
    BY DEF InsertLease
  <1>2. new.id = id /\ new.scope = s /\ new.token = lastToken[s] + 1
    OBVIOUS
  <1>3. \A row \in leases : row.id # id /\ (row.scope = s => row.state = Released)
    BY DEF InsertLease, ActiveLeases
  <1>4. lastToken \in [Scopes -> Nat]
    BY DEF TypeOK
  <1>5. \A row \in leases : row.scope \in Scopes /\ row.token \in Nat
    BY DEF TypeOK, LeaseRow
  <1>6. lastToken'[s] = lastToken[s] + 1
        /\ \A u \in Scopes : u # s => lastToken'[u] = lastToken[u]
    BY <1>1, <1>4
  <1> HIDE DEF new
  <1>7. LeaseKey'
    BY <1>1, <1>2, <1>3 DEF FenceInv, LeaseKey
  <1>8. TokensBounded'
    BY <1>1, <1>2, <1>4, <1>5, <1>6 DEF FenceInv, TokensBounded
  <1>9. TokensDistinct'
    BY <1>1, <1>2, <1>4, <1>5 DEF FenceInv, TokensBounded, TokensDistinct
  <1>10. ActiveIsNewest'
    BY <1>1, <1>2, <1>3, <1>5, <1>6 DEF FenceInv, ActiveIsNewest
  <1> QED
    BY <1>7, <1>8, <1>9, <1>10 DEF FenceInv

-----------------------------------------------------------------------------
\* The tables of Coordination hold well-formed rows.
CoordTypeOK ==
    /\ now \in Nat
    /\ leases \subseteq LeaseRow
    /\ lastToken \in [Scopes -> Nat]
    /\ queue \subseteq QueueEntry
    /\ issued \subseteq LeaseGuard

\* A capability names what the row says.
LEMMA GuardOfTyped == \A row \in LeaseRow : GuardOf(row) \in LeaseGuard
  BY DEF LeaseRow, GuardOf, LeaseGuard

\* Inserting a lease keeps the tables well-formed.
LEMMA InsertTyped ==
    ASSUME CoordTypeOK, NEW id \in LeaseIds, NEW s \in Scopes,
           NEW h \in Holders, NEW d \in Daemons, NEW t \in Tokens,
           InsertLease(id, s, h, d, t)
    PROVE  leases' \subseteq LeaseRow /\ issued' \subseteq LeaseGuard
           /\ lastToken' \in [Scopes -> Nat]
  <1> DEFINE new == [id |-> id, scope |-> s, holder |-> h, daemon |-> d,
                     token |-> lastToken[s] + 1, acquiredAt |-> now,
                     heartbeatAt |-> now, expiresAt |-> now + Duration,
                     state |-> Held, evidence |-> NoEvidence]
  <1>1. /\ leases' = leases \cup {new}
        /\ issued' = issued \cup {GuardOf(new)}
        /\ lastToken' = [lastToken EXCEPT ![s] = @ + 1]
    BY DEF InsertLease
  <1>2. now \in Nat /\ now + Duration \in Nat /\ lastToken[s] + 1 \in Nat
    BY CoordinationAssumption DEF CoordTypeOK
  <1>3. new \in LeaseRow
    BY <1>2 DEF LeaseRow, LeaseStates, Held
  <1> HIDE DEF new
  <1>4. GuardOf(new) \in LeaseGuard
    BY <1>3, GuardOfTyped
  <1> QED
    BY <1>1, <1>3, <1>4, CoordinationAssumption DEF CoordTypeOK

\* Calls by the serving daemon keep the tables well-formed and the fence.
LEMMA DaemonCallKeeps ==
    ASSUME TypeOK, FenceInv, NEW d \in Daemons, DaemonCall(d)
    PROVE  CoordTypeOK' /\ FenceInv'
  <1>0. CoordTypeOK
    BY DEF TypeOK, CoordTypeOK
  <1>1. PICK id \in LeaseIds, s \in Scopes, h \in Holders, t \in Tokens :
            \/ AcquireLease(id, s, h, d, t)
            \/ \E item \in QueueItems :
                  AcquireRepositoryLock(item, id, s, h, d, t)
    BY DEF DaemonCall
  <1>2. CASE AdoptLease(id, s, h, d, t)
    <2>1. PICK row \in leases : issued' = issued \cup {GuardOf(row)}
                                /\ UNCHANGED <<now, leases, lastToken, queue>>
      BY <1>2 DEF AdoptLease
    <2>2. GuardOf(row) \in LeaseGuard
      BY <1>0, GuardOfTyped DEF CoordTypeOK
    <2> QED
      BY <1>0, <2>1, <2>2, StutterKeepsFence DEF CoordTypeOK
  <1>3. CASE InsertLease(id, s, h, d, t) /\ UNCHANGED now /\ queue' \subseteq queue
    BY <1>0, <1>3, InsertTyped, InsertKeepsFence DEF CoordTypeOK
  <1> QED
    BY <1>1, <1>2, <1>3 DEF AcquireLease, AcquireRepositoryLock

\* What every guarded transition does: one unreleased row is replaced by one
\* with the same identity, owner and token.
GuardedStep ==
    \E row \in leases, new \in LeaseRow :
        /\ row.state # Released
        /\ <<new.id, new.scope, new.holder, new.daemon, new.token>>
             = <<row.id, row.scope, row.holder, row.daemon, row.token>>
        /\ leases' = Replace(row, new)
        /\ row.state \in {Held, Releasing} \/ new.state = Released
        /\ row.state = Held => new.state # Released
        /\ UNCHANGED <<now, lastToken, queue, issued>>

\* A guarded call (coordination.go) either changes nothing or changes the one lease its guard names.
LEMMA GuardedCallStep ==
    ASSUME TypeOK, NEW g \in issued, GuardedCall(g)
    PROVE  GuardedStep
  <1>0. leases \subseteq LeaseRow /\ now \in Nat /\ now + Duration \in Nat
    BY CoordinationAssumption DEF TypeOK
  <1> USE DEF GuardedStep
  <1>1. CASE HeartbeatLease(g)
    <2>1. PICK row \in leases :
            /\ row.state = Held
            /\ leases' = Replace(row, [row EXCEPT !.heartbeatAt = now,
                                                  !.expiresAt = now + Duration])
            /\ UNCHANGED <<now, lastToken, queue, issued>>
      BY <1>1 DEF HeartbeatLease
    <2> DEFINE new == [row EXCEPT !.heartbeatAt = now, !.expiresAt = now + Duration]
    <2>2. new \in LeaseRow /\ new.state = row.state
          /\ <<new.id, new.scope, new.holder, new.daemon, new.token>>
             = <<row.id, row.scope, row.holder, row.daemon, row.token>>
      BY <1>0 DEF LeaseRow
    <2> QED
      BY <2>1, <2>2 DEF Held, Releasing, Released
  <1>2. CASE BeginLeaseRelease(g)
    <2>1. PICK row \in leases :
            /\ row.state = Held
            /\ leases' = Replace(row, [row EXCEPT !.state = Releasing])
            /\ UNCHANGED <<now, lastToken, queue, issued>>
      BY <1>2 DEF BeginLeaseRelease
    <2> DEFINE new == [row EXCEPT !.state = Releasing]
    <2>2. new \in LeaseRow /\ new.state = Releasing
          /\ <<new.id, new.scope, new.holder, new.daemon, new.token>>
             = <<row.id, row.scope, row.holder, row.daemon, row.token>>
      BY <1>0 DEF LeaseRow, LeaseStates
    <2> QED
      BY <2>1, <2>2 DEF Held, Releasing, Released
  <1>3. ASSUME NEW e \in Evidence, CompleteLeaseRelease(g, e)
        PROVE  GuardedStep
    <2>1. PICK row \in leases :
            /\ row.state \in {Releasing, ReconcileRequired}
            /\ leases' = Replace(row, [row EXCEPT !.state = Released, !.evidence = e])
            /\ UNCHANGED <<now, lastToken, queue, issued>>
      BY <1>3 DEF CompleteLeaseRelease
    <2> DEFINE new == [row EXCEPT !.state = Released, !.evidence = e]
    <2>2. new \in LeaseRow /\ new.state = Released
          /\ <<new.id, new.scope, new.holder, new.daemon, new.token>>
             = <<row.id, row.scope, row.holder, row.daemon, row.token>>
      BY <1>0 DEF LeaseRow, LeaseStates
    <2> QED
      BY <2>1, <2>2 DEF Held, Releasing, ReconcileRequired, Released
  <1>4. ASSUME NEW e \in Evidence, MarkLeaseReconcileRequired(g, e)
        PROVE  GuardedStep
    <2>1. PICK row \in leases :
            /\ row.state \in {Held, Releasing}
            /\ leases' = Replace(row, [row EXCEPT !.state = ReconcileRequired,
                                                  !.evidence = e])
            /\ UNCHANGED <<now, lastToken, queue, issued>>
      BY <1>4 DEF MarkLeaseReconcileRequired
    <2> DEFINE new == [row EXCEPT !.state = ReconcileRequired, !.evidence = e]
    <2>2. new \in LeaseRow /\ new.state = ReconcileRequired
          /\ <<new.id, new.scope, new.holder, new.daemon, new.token>>
             = <<row.id, row.scope, row.holder, row.daemon, row.token>>
      BY <1>0 DEF LeaseRow, LeaseStates
    <2> QED
      BY <2>1, <2>2 DEF Held, Releasing, Released, ReconcileRequired
  <1> QED
    BY <1>1, <1>2, <1>3, <1>4 DEF GuardedCall

\* A guarded transition keeps the tables well-formed and the fence.
LEMMA GuardedStepKeeps ==
    ASSUME CoordTypeOK, FenceInv, GuardedStep
    PROVE  CoordTypeOK' /\ FenceInv'
  <1>1. PICK row \in leases, new \in LeaseRow :
            /\ row.state # Released
            /\ new.id = row.id /\ new.scope = row.scope /\ new.token = row.token
            /\ leases' = Replace(row, new)
            /\ UNCHANGED <<now, lastToken, queue, issued>>
    BY DEF GuardedStep
  <1>2. FenceInv'
    BY <1>1, ReplaceKeepsFence
  <1> QED
    BY <1>1, <1>2 DEF CoordTypeOK, Replace

\* applyLeaseRecovery: one pending row is resumed by this instance, released
\* or fenced; its identity, scope and token stay.
RecoveryStep(subject) ==
    \E row \in leases, new \in LeaseRow :
        /\ row.id = subject.id
        /\ row.state = subject.state
        /\ new.id = row.id /\ new.scope = row.scope /\ new.token = row.token
        /\ new.holder = row.holder
        /\ leases' = Replace(row, new)
        /\ new.state \in {Held, Releasing} => new.daemon = daemon
        /\ issued' \subseteq issued \cup {GuardOf(new)}
        /\ UNCHANGED <<now, lastToken, queue, ops>>

\* A recovery decision on a lease changes that lease only, and only while it is unreleased.
LEMMA ApplyLeaseRecoveryStep ==
    ASSUME TypeOK, NEW subject \in Subjects, NEW outcome \in Outcomes,
           subject.kind = "lease", ValidDecision(subject, outcome),
           NEW e \in Evidence, ApplyLeaseRecovery(subject, outcome, e)
    PROVE  RecoveryStep(subject)
  <1>0. leases \subseteq LeaseRow /\ now \in Nat /\ now + Duration \in Nat
        /\ daemon \in Daemons
    BY CoordinationAssumption DEF TypeOK
  <1>1. PICK row \in leases :
            /\ row.id = subject.id
            /\ row.state = subject.state
            /\ leases' = Replace(row, RecoveredLease(row, outcome, e))
            /\ issued' = IF outcome = Resume
                         THEN issued \cup {GuardOf(RecoveredLease(row, outcome, e))}
                         ELSE issued
            /\ UNCHANGED <<now, lastToken, queue, ops>>
    BY DEF ApplyLeaseRecovery
  <1>2. row \in LeaseRow
    BY <1>0
  <1> DEFINE new == RecoveredLease(row, outcome, e)
  <1>3. new \in LeaseRow
        /\ new.id = row.id /\ new.scope = row.scope /\ new.token = row.token
        /\ new.holder = row.holder
        /\ (new.state \in {Held, Releasing} => new.daemon = daemon)
    <2>1. CASE outcome = Resume
      <3>1. new = [row EXCEPT !.daemon = daemon, !.heartbeatAt = now,
                              !.expiresAt = now + Duration]
        BY <2>1 DEF RecoveredLease, Resume, Retry, Interrupt, ReconcileRequired
      <3> HIDE DEF new
      <3> QED
        BY <1>0, <1>2, <3>1 DEF LeaseRow
    <2>2. CASE outcome \in {Retry, Interrupt}
      <3>1. new = [row EXCEPT !.state = Released, !.evidence = e]
        BY <2>2 DEF RecoveredLease, Resume, Retry, Interrupt, ReconcileRequired
      <3> HIDE DEF new
      <3> QED
        BY <1>2, <3>1 DEF LeaseRow, LeaseStates, Held, Releasing, Released
    <2>3. CASE outcome = ReconcileRequired
      <3>1. new = [row EXCEPT !.state = ReconcileRequired, !.evidence = e]
        BY <2>3 DEF RecoveredLease, Resume, Retry, Interrupt, ReconcileRequired
      <3> HIDE DEF new
      <3> QED
        BY <1>2, <3>1 DEF LeaseRow, LeaseStates, Held, Releasing, ReconcileRequired
    <2> QED
      BY <2>1, <2>2, <2>3 DEF ValidDecision
  <1> HIDE DEF new
  <1>4. issued' \subseteq issued \cup {GuardOf(new)}
    BY <1>1 DEF new
  <1>5. leases' = Replace(row, new)
    BY <1>1 DEF new
  <1> QED
    BY <1>1, <1>3, <1>4, <1>5 DEF RecoveryStep

\* A recovery decision keeps the tables well-formed and the fence.
LEMMA RecoveryStepKeeps ==
    ASSUME CoordTypeOK, FenceInv, NEW subject \in Subjects,
           subject.kind = "lease", RecoveryStep(subject)
    PROVE  CoordTypeOK' /\ FenceInv'
  <1>1. PICK row \in leases, new \in LeaseRow :
            /\ row.state = subject.state
            /\ new.id = row.id /\ new.scope = row.scope /\ new.token = row.token
            /\ leases' = Replace(row, new)
            /\ issued' \subseteq issued \cup {GuardOf(new)}
            /\ UNCHANGED <<now, lastToken, queue>>
    BY DEF RecoveryStep
  <1>2. row.state # Released
    <2>1. subject.state \in {Held, Releasing, "prepared", "leased"}
      BY DEF Subjects
    <2> QED
      BY <1>1, <2>1 DEF Held, Releasing, Released
  <1>3. FenceInv'
    BY <1>1, <1>2, ReplaceKeepsFence
  <1>4. GuardOf(new) \in LeaseGuard
    BY GuardOfTyped
  <1> QED
    BY <1>1, <1>3, <1>4 DEF CoordTypeOK, Replace

-----------------------------------------------------------------------------
\* The reconciler's own variables are well-typed.
RecTypeOK ==
    /\ phase \in {"down", "recovering", "serving"}
    /\ daemon \in Daemons
    /\ usedIds \subseteq Daemons
    /\ ops \in [OpIds -> OpStates]
    /\ pending \subseteq Subjects
    /\ report \subseteq Outcomes
    /\ decisions \subseteq Decisions
    /\ scheduling \in BOOLEAN

\* The type invariant is the store's part and the reconciler's part.
LEMMA TypeSplit == TypeOK <=> CoordTypeOK /\ RecTypeOK
  BY DEF TypeOK, CoordTypeOK, RecTypeOK

\* The subjects a pass lists are well-formed.
LEMMA PendingTyped == TypeOK => PendingRecovery \subseteq Subjects
  BY DEF TypeOK, PendingRecovery, Subjects, LeaseRow

\* The parts of a queue call.
LEMMA QueueCallKeeps ==
    ASSUME CoordTypeOK, FenceInv, QueueCall
    PROVE  CoordTypeOK' /\ FenceInv' /\ leases' = leases
  <1>1. PICK s \in Scopes, item \in QueueItems :
            \/ \E p \in Priorities, at \in {now, now + 1} : Enqueue(s, item, p, at)
            \/ RemoveQueueEntry(s, item)
    BY DEF QueueCall
  <1>2. UNCHANGED <<now, leases, lastToken, issued>>
    BY <1>1 DEF Enqueue, RemoveQueueEntry
  <1>3. queue' \subseteq QueueEntry
    <2>1. ASSUME NEW p \in Priorities, NEW at \in {now, now + 1}, Enqueue(s, item, p, at)
          PROVE  queue' \subseteq QueueEntry
      <3>1. [scope |-> s, item |-> item, priority |-> p, availableAt |-> at,
             enqueuedAt |-> now] \in QueueEntry
        BY DEF QueueEntry, CoordTypeOK
      <3> QED
        BY <2>1, <3>1 DEF Enqueue, CoordTypeOK
    <2>2. CASE RemoveQueueEntry(s, item)
      BY <2>2 DEF RemoveQueueEntry, CoordTypeOK
    <2> QED
      BY <1>1, <2>1, <2>2
  <1> QED
    BY <1>2, <1>3, StutterKeepsFence DEF CoordTypeOK

\* The inductive invariant.
IndInv == TypeOK /\ FenceInv /\ OwnersCovered

\* A store without leases satisfies the inductive invariant.
LEMMA InitInv == Init => IndInv
  <1> SUFFICES ASSUME Init PROVE IndInv
    OBVIOUS
  <1>1. TypeOK
    BY DEF Init, CoordInit, TypeOK, OpStates
  <1>2. FenceInv /\ OwnersCovered
    BY DEF Init, CoordInit, FenceInv, LeaseKey, TokensBounded, TokensDistinct,
           ActiveIsNewest, OwnersCovered
  <1> QED
    BY <1>1, <1>2 DEF IndInv

\* A call served by the daemon keeps the ownership part: the leases it touches
\* either were its own or become so.
LEMMA ServeKeepsOwners ==
    ASSUME IndInv, ServeCall
    PROVE  OwnersCovered'
  <1>0. phase = "serving" /\ UNCHANGED recVars
    BY DEF ServeCall
  <1>1. \A row \in leases : row.state \in {Held, Releasing} => row.daemon = daemon
    BY <1>0 DEF IndInv, OwnersCovered
  <1>2. \A row \in leases' : row.state \in {Held, Releasing} => row.daemon = daemon
    <2>1. CASE DaemonCall(daemon)
      <3>1. \A row \in leases' \ leases : row.daemon = daemon
        <4>1. PICK id \in LeaseIds, s \in Scopes, h \in Holders, t \in Tokens :
                \/ UNCHANGED leases
                \/ InsertLease(id, s, h, daemon, t)
          BY <2>1 DEF DaemonCall, AcquireLease, AcquireRepositoryLock, AdoptLease
        <4> QED
          BY <4>1 DEF InsertLease
      <3> QED
        BY <1>1, <3>1
    <2>2. ASSUME NEW g \in issued, GuardedCall(g)
          PROVE  \A row \in leases' : row.state \in {Held, Releasing} => row.daemon = daemon
      <3>1. PICK row \in leases, new \in LeaseRow :
              /\ new.daemon = row.daemon
              /\ leases' = Replace(row, new)
              /\ row.state \in {Held, Releasing} \/ new.state = Released
        BY <2>2, GuardedCallStep DEF GuardedStep, IndInv
      <3> QED
        BY <1>1, <3>1 DEF Replace, Held, Releasing, Released
    <2>3. CASE QueueCall
      BY <1>1, <2>3 DEF QueueCall, Enqueue, RemoveQueueEntry
    <2> QED
      BY <2>1, <2>2, <2>3 DEF ServeCall
  <1> QED
    BY <1>0, <1>2 DEF OwnersCovered, recVars

\* Calls that arrive at the serving daemon keep the inductive invariant.
LEMMA ServeKeepsInv ==
    ASSUME IndInv, ServeCall
    PROVE  IndInv'
  <1>0. TypeOK /\ FenceInv /\ CoordTypeOK /\ RecTypeOK /\ daemon \in Daemons
    BY TypeSplit DEF IndInv, RecTypeOK
  <1>1. CoordTypeOK' /\ FenceInv'
    <2>1. CASE DaemonCall(daemon)
      BY <1>0, <2>1, DaemonCallKeeps
    <2>2. ASSUME NEW g \in issued, GuardedCall(g)
          PROVE  CoordTypeOK' /\ FenceInv'
      BY <1>0, <2>2, GuardedCallStep, GuardedStepKeeps
    <2>3. CASE QueueCall
      BY <1>0, <2>3, QueueCallKeeps
    <2> QED
      BY <2>1, <2>2, <2>3 DEF ServeCall
  <1>2. RecTypeOK'
    BY <1>0 DEF ServeCall, recVars, RecTypeOK
  <1>3. OwnersCovered'
    BY ServeKeepsOwners
  <1> QED
    BY <1>1, <1>2, <1>3, TypeSplit, PTL DEF IndInv

-----------------------------------------------------------------------------
\* The decisions of a pass: the list it works from names a subject once, whatever
\* its state, and a subject leaves it with its decision.

\* Kind and ID are the key of recovery_decisions within a startup.
SameSubject(a, b) == a.kind = b.kind /\ a.id = b.id

DecisionInv ==
    /\ phase = "recovering" => daemon \in usedIds
    /\ \A dec \in decisions : dec.startup \in usedIds
    /\ \A a, b \in pending : SameSubject(a, b) => a = b
    /\ \A dec \in decisions, a \in pending :
          dec.startup = daemon => ~SameSubject(dec.subject, a)

\* pendingLeaseRecovery and pendingOperationRecovery list a subject once.
LEMMA PendingKeys ==
    ASSUME FenceInv, NEW a \in PendingRecovery, NEW b \in PendingRecovery, SameSubject(a, b)
    PROVE  a = b
  <1>1. CASE a.kind = "lease"
    <2>1. PICK r1 \in leases : a = [kind |-> "lease", id |-> r1.id, state |-> r1.state]
      BY <1>1 DEF PendingRecovery
    <2>5. b.kind = "lease"
      BY <1>1 DEF SameSubject
    <2>2. PICK r2 \in leases : b = [kind |-> "lease", id |-> r2.id, state |-> r2.state]
      BY <2>5 DEF PendingRecovery
    <2>3. r1.id = r2.id
      BY <2>1, <2>2 DEF SameSubject
    <2>4. r1 = r2
      BY <2>3 DEF FenceInv, LeaseKey
    <2> QED
      BY <2>1, <2>2, <2>4
  <1>2. CASE a.kind # "lease"
    <2>1. PICK o1 \in OpIds : a = [kind |-> "operation", id |-> o1, state |-> ops[o1]]
      BY <1>2 DEF PendingRecovery
    <2>2. PICK o2 \in OpIds : b = [kind |-> "operation", id |-> o2, state |-> ops[o2]]
      BY <1>2 DEF PendingRecovery, SameSubject
    <2>3. o1 = o2
      BY <2>1, <2>2 DEF SameSubject
    <2> QED
      BY <2>1, <2>2, <2>3
  <1> QED
    BY <1>1, <1>2

\* readRecoveryDecision finds nothing for a subject that is still to be decided,
\* so a decision of the pass is always applied.
LEMMA FreshDecision ==
    ASSUME DecisionInv, NEW subject \in pending
    PROVE  Recorded(subject.kind, subject.id) = {}
  BY DEF DecisionInv, Recorded, SameSubject

\* One decision of a pass.
LEMMA RecoverKeepsInv ==
    ASSUME IndInv, DecisionInv, NEW subject \in Subjects, NEW outcome \in Outcomes,
           RecoverSubject(subject, outcome)
    PROVE  IndInv'
  <1>0. TypeOK /\ FenceInv /\ CoordTypeOK /\ RecTypeOK
    BY TypeSplit DEF IndInv
  <1>4. Recorded(subject.kind, subject.id) = {}
    BY FreshDecision DEF RecoverSubject, NextSubject
  <1>1. /\ phase = "recovering"
        /\ ValidDecision(subject, outcome)
        /\ pending' = pending \ {subject}
        /\ report' = report \cup {outcome}
        /\ UNCHANGED <<phase, daemon, usedIds, scheduling>>
        /\ decisions' = decisions \cup
              {[startup |-> daemon, subject |-> subject, outcome |-> outcome]}
    BY <1>4 DEF RecoverSubject, ApplyRecovery, Decision
  <1>2. CASE subject.kind = "lease"
    <2>1. RecoveryStep(subject)
      <3>1. PICK e \in Evidence : ApplyLeaseRecovery(subject, outcome, e)
        BY <1>2, <1>4 DEF RecoverSubject, ApplyRecovery
      <3> QED
        BY <1>0, <1>1, <1>2, <3>1, ApplyLeaseRecoveryStep
    <2>2. CoordTypeOK' /\ FenceInv'
      BY <1>0, <1>2, <2>1, RecoveryStepKeeps
    <2>3. ops' = ops
      BY <2>1 DEF RecoveryStep
    <2>4. RecTypeOK'
      BY <1>0, <1>1, <2>3 DEF RecTypeOK, Decisions
    <2>5. OwnersCovered'
      <3>1. PICK row \in leases, new \in LeaseRow :
              /\ row.id = subject.id
              /\ leases' = Replace(row, new)
              /\ new.state \in {Held, Releasing} => new.daemon = daemon
        BY <2>1 DEF RecoveryStep
      <3>2. \A other \in leases \ {row} : other.id # subject.id
        BY <1>0, <3>1 DEF FenceInv, LeaseKey
      <3>3. \A other \in leases \ {row} :
              other.state \in {Held, Releasing} =>
                \/ other.daemon = daemon
                \/ [kind |-> "lease", id |-> other.id, state |-> other.state] \in pending
        BY <1>1 DEF IndInv, OwnersCovered
      <3>4. \A other \in leases \ {row} :
              [kind |-> "lease", id |-> other.id, state |-> other.state] # subject
        BY <3>2
      <3> QED
        BY <1>1, <3>1, <3>3, <3>4 DEF OwnersCovered, Replace
    <2> QED
      BY <2>2, <2>4, <2>5, TypeSplit, PTL DEF IndInv
  <1>3. CASE subject.kind = "operation"
    <2>1. /\ ops' = [ops EXCEPT ![subject.id] = RecoveredOperation(outcome)]
          /\ UNCHANGED coordVars
      BY <1>3, <1>4 DEF RecoverSubject, ApplyRecovery, ApplyOperationRecovery
    <2>2. RecoveredOperation(outcome) \in OpStates
      BY <1>1, <1>3 DEF ValidDecision, RecoveredOperation, OpStates, Adopt, Resume,
         Retry, Interrupt, ReconcileRequired
    <2>3. CoordTypeOK' /\ FenceInv'
      BY <1>0, <2>1, StutterKeepsFence DEF CoordTypeOK, coordVars
    <2>4. RecTypeOK'
      <3>1. ops' \in [OpIds -> OpStates]
        BY <1>0, <2>1, <2>2 DEF RecTypeOK
      <3>2. [startup |-> daemon, subject |-> subject, outcome |-> outcome] \in Decisions
        BY <1>0 DEF RecTypeOK, Decisions
      <3> QED
        BY <1>0, <1>1, <3>1, <3>2 DEF RecTypeOK
    <2>5. OwnersCovered'
      <3>1. \A row : [kind |-> "lease", id |-> row.id, state |-> row.state] # subject
        BY <1>3
      <3> QED
        BY <1>1, <2>1, <3>1 DEF IndInv, OwnersCovered, coordVars
    <2> QED
      BY <2>3, <2>4, <2>5, TypeSplit, PTL DEF IndInv
  <1> QED
    BY <1>2, <1>3 DEF Subjects

\* Every step keeps the inductive invariant.
LEMMA NextInv == IndInv /\ DecisionInv /\ [Next]_vars => IndInv'
  <1> SUFFICES ASSUME IndInv, DecisionInv, [Next]_vars PROVE IndInv'
    OBVIOUS
  <1>0. TypeOK /\ FenceInv /\ OwnersCovered
    BY DEF IndInv
  <1>1. ASSUME NEW d \in Daemons, Startup(d) PROVE IndInv'
    <2>1. TypeOK'
      BY <1>0, <1>1, PendingTyped DEF Startup, TypeOK, coordVars
    <2>2. FenceInv'
      BY <1>0, <1>1, StutterKeepsFence DEF Startup, coordVars
    <2>3. OwnersCovered'
      <3>1. \A row \in leases : row.state \in {Held, Releasing} =>
              [kind |-> "lease", id |-> row.id, state |-> row.state] \in PendingRecovery
        BY DEF PendingRecovery
      <3> QED
        BY <1>1, <3>1 DEF Startup, coordVars, OwnersCovered
    <2> QED
      BY <2>1, <2>2, <2>3 DEF IndInv
  <1>2. ASSUME NEW subject \in Subjects, NEW outcome \in Outcomes,
               RecoverSubject(subject, outcome)
        PROVE  IndInv'
    BY <1>2, RecoverKeepsInv
  <1>3. ASSUME NEW subject \in Subjects, NEW outcome \in Outcomes,
               RejectDecision(subject, outcome)
        PROVE  IndInv'
    <2>1. UNCHANGED coordVars /\ phase' = "down"
      BY <1>3 DEF RejectDecision
    <2>2. TypeOK'
      BY <1>0, <1>3 DEF RejectDecision, TypeOK, coordVars
    <2> QED
      BY <1>0, <2>1, <2>2, StutterKeepsFence DEF IndInv, coordVars, OwnersCovered
  <1>4. CASE FinishRecovery
    <2>1. TypeOK'
      BY <1>0, <1>4 DEF FinishRecovery, TypeOK, coordVars, SchedulingAllowed
    <2>2. OwnersCovered'
      BY <1>0, <1>4 DEF FinishRecovery, OwnersCovered, coordVars
    <2> QED
      BY <1>0, <1>4, <2>1, <2>2, StutterKeepsFence DEF IndInv, FinishRecovery, coordVars
  <1>5. CASE Crash
    <2>1. TypeOK'
      BY <1>0, <1>5 DEF Crash, TypeOK, coordVars
    <2> QED
      BY <1>0, <1>5, <2>1, StutterKeepsFence DEF IndInv, Crash, coordVars, OwnersCovered
  <1>6. CASE ServeCall
    BY <1>6, ServeKeepsInv
  <1>7. ASSUME NEW o \in OpIds, PrepareOperation(o) PROVE IndInv'
    <2>1. TypeOK'
      BY <1>0, <1>7 DEF PrepareOperation, TypeOK, coordVars, OpStates
    <2> QED
      BY <1>0, <1>7, <2>1, StutterKeepsFence
         DEF IndInv, PrepareOperation, coordVars, OwnersCovered
  <1>8. CASE PassTime
    <2>1. TypeOK'
      BY <1>0, <1>8 DEF PassTime, Tick, TypeOK, recVars
    <2> QED
      BY <1>0, <1>8, <2>1, StutterKeepsFence
         DEF IndInv, PassTime, Tick, recVars, OwnersCovered
  <1>9. CASE UNCHANGED vars
    <2>1. TypeOK'
      BY <1>0, <1>9 DEF vars, coordVars, recVars, TypeOK
    <2> QED
      BY <1>0, <1>9, <2>1, StutterKeepsFence
         DEF IndInv, vars, coordVars, recVars, OwnersCovered
  <1> QED
    BY <1>1, <1>2, <1>3, <1>4, <1>5, <1>6, <1>7, <1>8, <1>9 DEF Next

\* Every step of the reconciler and of the daemon keeps the list and the decisions apart.
LEMMA DecisionsKept == IndInv /\ DecisionInv /\ [Next]_vars => DecisionInv'
  <1> SUFFICES ASSUME IndInv, DecisionInv, [Next]_vars PROVE DecisionInv'
    OBVIOUS
  <1>1. ASSUME NEW d \in Daemons, Startup(d) PROVE DecisionInv'
    <2>1. /\ daemon' = d /\ d \notin usedIds /\ usedIds' = usedIds \cup {d}
          /\ pending' = PendingRecovery /\ decisions' = decisions
      BY <1>1 DEF Startup
    <2>2. \A a, b \in pending' : SameSubject(a, b) => a = b
      BY <2>1, PendingKeys DEF IndInv
    <2>3. \A dec \in decisions' : dec.startup \in usedIds' /\ dec.startup # daemon'
      BY <2>1 DEF DecisionInv
    <2> QED
      BY <2>1, <2>2, <2>3 DEF DecisionInv
  <1>2. ASSUME NEW subject \in Subjects, NEW outcome \in Outcomes,
               RecoverSubject(subject, outcome)
        PROVE  DecisionInv'
    <2> DEFINE new == [startup |-> daemon, subject |-> subject, outcome |-> outcome]
    <2>1. /\ phase = "recovering" /\ subject \in pending
          /\ pending' = pending \ {subject}
          /\ decisions' = decisions \cup {new}
          /\ UNCHANGED <<phase, daemon, usedIds>>
      BY <1>2, FreshDecision DEF RecoverSubject, ApplyRecovery, NextSubject, Decision
    <2>2. new.startup = daemon /\ new.subject = subject
      OBVIOUS
    <2> HIDE DEF new
    <2>5. \A a \in pending' : a # subject /\ ~SameSubject(subject, a)
      BY <2>1 DEF DecisionInv
    <2>6. \A dec \in decisions', a \in pending' :
             dec.startup = daemon' => ~SameSubject(dec.subject, a)
      BY <2>1, <2>2, <2>5 DEF DecisionInv
    <2> QED
      BY <2>1, <2>2, <2>6 DEF DecisionInv
  <1>3. CASE /\ pending' \subseteq pending /\ UNCHANGED <<daemon, usedIds, decisions>>
             /\ phase' = "recovering" => phase = "recovering"
    BY <1>3 DEF DecisionInv
  <1>4. ASSUME NEW subject \in Subjects, NEW outcome \in Outcomes,
               RejectDecision(subject, outcome)
        PROVE  DecisionInv'
    BY <1>3, <1>4 DEF RejectDecision
  <1>5. CASE FinishRecovery \/ Crash
    BY <1>3, <1>5 DEF FinishRecovery, Crash
  <1>6. CASE ServeCall \/ PassTime \/ UNCHANGED vars
    BY <1>3, <1>6 DEF ServeCall, PassTime, vars, recVars
  <1>7. ASSUME NEW o \in OpIds, PrepareOperation(o) PROVE DecisionInv'
    BY <1>3, <1>7 DEF PrepareOperation
  <1> QED
    BY <1>1, <1>2, <1>4, <1>5, <1>6, <1>7 DEF Next

\* The inductive invariant holds in every state.
LEMMA Inductive == Spec => [](IndInv /\ DecisionInv)
  <1>1. Init => DecisionInv
    BY DEF Init, DecisionInv
  <1> QED
    BY <1>1, InitInv, NextInv, DecisionsKept, PTL DEF Spec

-----------------------------------------------------------------------------
\* The tables and the reconciler's variables are well-formed in every state.
THEOREM TypeCorrect == Spec => []TypeOK
  BY Inductive, PTL DEF IndInv

\* A scope never has two unreleased leases, and a lease with an older token is
\* always released: acquireLeaseTx never starts a writer over another one.
THEOREM FencingCorrect == Spec => []FenceOrder
  <1>1. IndInv => FenceOrder
    BY DEF IndInv, FenceInv, TokensBounded, TokensDistinct, ActiveIsNewest,
           FenceOrder, TypeOK, LeaseRow
  <1> QED
    BY <1>1, Inductive, PTL

\* At most one of the capabilities ever issued passes ValidateLease, and it
\* carries the newest token: a stale holder cannot mutate.
THEOREM SingleWriter == Spec => []ExclusiveWriter
  <1>1. IndInv => ExclusiveWriter
    <2> SUFFICES ASSUME IndInv, NEW s \in Scopes, NEW g1 \in issued, NEW g2 \in issued,
                        ValidateLease(s, g1), ValidateLease(s, g2)
                 PROVE  g1 = g2 /\ g1.token = lastToken[s]
      BY DEF ExclusiveWriter
    <2>1. PICK r1 \in leases : GuardOf(r1) = g1 /\ r1.scope = s /\ r1.state = Held
      BY DEF ValidateLease, Guards
    <2>2. PICK r2 \in leases : GuardOf(r2) = g2 /\ r2.scope = s /\ r2.state = Held
      BY DEF ValidateLease, Guards
    <2>3. r1.token = lastToken[s] /\ r2.token = lastToken[s]
      BY <2>1, <2>2 DEF IndInv, FenceInv, ActiveIsNewest, Held, Released
    <2>4. r1 = r2
      BY <2>1, <2>2, <2>3 DEF IndInv, FenceInv, TokensDistinct
    <2>5. g1.token = r1.token
      BY <2>1 DEF GuardOf
    <2> QED
      BY <2>1, <2>2, <2>3, <2>4, <2>5
  <1> QED
    BY <1>1, Inductive, PTL

\* A serving daemon never inherits a held or releasing lease of an earlier
\* instance, whatever the observers answered and wherever passes died.
THEOREM OwnershipRecovered == Spec => []NoInheritedOwner
  <1>1. IndInv => NoInheritedOwner
    BY DEF IndInv, OwnersCovered, NoInheritedOwner
  <1> QED
    BY <1>1, Inductive, PTL

-----------------------------------------------------------------------------
\* What a step can do to the lease tables.
KeepsTables == UNCHANGED <<leases, lastToken>>

InsertsLease ==
    \E id \in LeaseIds, s \in Scopes, h \in Holders, d \in Daemons, t \in Tokens :
        InsertLease(id, s, h, d, t)

ChangesLease ==
    \E row \in leases, new \in LeaseRow :
        /\ row.state # Released
        /\ new.id = row.id
        /\ new.scope = row.scope
        /\ new.holder = row.holder
        /\ new.token = row.token
        /\ row.state = Held /\ new.state = Released => phase = "recovering"
        /\ leases' = Replace(row, new)
        /\ lastToken' = lastToken

\* What any step does to the lease tables: nothing, one fresh lease, or a change to one unreleased lease.
LEMMA TableSteps ==
    ASSUME IndInv, [Next]_vars
    PROVE  KeepsTables \/ InsertsLease \/ ChangesLease
  <1>0. TypeOK /\ daemon \in Daemons
    BY DEF IndInv, TypeOK
  <1>1. CASE ServeCall
    <2>1. CASE DaemonCall(daemon)
      BY <1>0, <2>1 DEF DaemonCall, AcquireLease, AcquireRepositoryLock, AdoptLease,
         KeepsTables, InsertsLease
    <2>2. ASSUME NEW g \in issued, GuardedCall(g)
          PROVE  ChangesLease
      BY <1>0, <2>2, GuardedCallStep DEF GuardedStep, ChangesLease
    <2>3. CASE QueueCall
      BY <2>3 DEF QueueCall, Enqueue, RemoveQueueEntry, KeepsTables
    <2> QED
      BY <1>1, <2>1, <2>2, <2>3 DEF ServeCall
  <1>2. ASSUME NEW subject \in Subjects, NEW outcome \in Outcomes,
               RecoverSubject(subject, outcome)
        PROVE  KeepsTables \/ ChangesLease
    <2>3. CASE Recorded(subject.kind, subject.id) # {}
      BY <1>2, <2>3 DEF RecoverSubject, ApplyRecovery, coordVars, KeepsTables
    <2>1. CASE subject.kind = "lease" /\ Recorded(subject.kind, subject.id) = {}
      <3>1. PICK e \in Evidence : ApplyLeaseRecovery(subject, outcome, e)
        BY <1>2, <2>1 DEF RecoverSubject, ApplyRecovery
      <3>2. RecoveryStep(subject)
        BY <1>0, <1>2, <2>1, <3>1, ApplyLeaseRecoveryStep DEF RecoverSubject
      <3>3. subject.state # Released
        BY DEF Subjects, Held, Releasing, Released
      <3>4. phase = "recovering"
        BY <1>2 DEF RecoverSubject
      <3> QED
        BY <3>2, <3>3, <3>4 DEF RecoveryStep, ChangesLease
    <2>2. CASE subject.kind = "operation" /\ Recorded(subject.kind, subject.id) = {}
      BY <1>2, <2>2 DEF RecoverSubject, ApplyRecovery, ApplyOperationRecovery,
         coordVars, KeepsTables
    <2> QED
      BY <2>1, <2>2, <2>3 DEF Subjects
  <1>3. ASSUME NEW d \in Daemons, Startup(d) PROVE KeepsTables
    BY <1>3 DEF Startup, coordVars, KeepsTables
  <1>4. ASSUME NEW subject \in Subjects, NEW outcome \in Outcomes,
               RejectDecision(subject, outcome)
        PROVE  KeepsTables
    BY <1>4 DEF RejectDecision, coordVars, KeepsTables
  <1>5. CASE FinishRecovery \/ Crash \/ PassTime \/ UNCHANGED vars
    BY <1>5 DEF FinishRecovery, Crash, PassTime, Tick, vars, coordVars, KeepsTables
  <1>6. ASSUME NEW o \in OpIds, PrepareOperation(o) PROVE KeepsTables
    BY <1>6 DEF PrepareOperation, coordVars, KeepsTables
  <1> QED
    BY <1>1, <1>2, <1>3, <1>4, <1>5, <1>6 DEF Next

\* A fresh lease is a token granted.
LEMMA InsertGrants ==
    ASSUME IndInv, InsertsLease
    PROVE  \E s \in Scopes : Lock!Grant(s)
  <1>1. PICK id \in LeaseIds, s \in Scopes, h \in Holders, d \in Daemons, t \in Tokens :
            InsertLease(id, s, h, d, t)
    BY DEF InsertsLease
  <1> DEFINE new == [id |-> id, scope |-> s, holder |-> h, daemon |-> d,
                     token |-> lastToken[s] + 1, acquiredAt |-> now,
                     heartbeatAt |-> now, expiresAt |-> now + Duration,
                     state |-> Held, evidence |-> NoEvidence]
  <1>2. /\ leases' = leases \cup {new}
        /\ lastToken' = [lastToken EXCEPT ![s] = @ + 1]
        /\ ActiveLeases(s) = {}
    BY <1>1 DEF InsertLease
  <1>3. new.scope = s /\ new.token = lastToken[s] + 1 /\ new.state # Released
    BY DEF Held, Released
  <1> HIDE DEF new
  <1>4. HeldTokens[s] = {}
    BY <1>2 DEF HeldTokens
  <1>5. ActiveLeases(s)' = {new}
    BY <1>2, <1>3 DEF ActiveLeases
  <1>6. \A u \in Scopes \ {s} : ActiveLeases(u)' = ActiveLeases(u)
    BY <1>2, <1>3 DEF ActiveLeases
  <1>7. HeldTokens' = [HeldTokens EXCEPT ![s] = {lastToken[s] + 1}]
    BY <1>3, <1>5, <1>6 DEF HeldTokens
  <1> QED
    BY <1>2, <1>4, <1>7 DEF Lock!Grant

\* A changed lease gives its token back or keeps it.
LEMMA ChangeKeepsOrGivesBack ==
    ASSUME IndInv, ChangesLease
    PROVE  (\E s \in Scopes : Lock!GiveBack(s)) \/ UNCHANGED <<HeldTokens, lastToken>>
  <1>1. PICK row \in leases, new \in LeaseRow :
            /\ row.state # Released
            /\ new.scope = row.scope
            /\ new.token = row.token
            /\ leases' = Replace(row, new)
            /\ lastToken' = lastToken
    BY DEF ChangesLease
  <1> DEFINE s == row.scope
  <1>2. s \in Scopes
    BY DEF IndInv, TypeOK, LeaseRow
  <1>3. ActiveLeases(s) = {row} /\ row.token = lastToken[s]
    <2>1. \A other \in ActiveLeases(s) : other.token = lastToken[s] /\ other.scope = s
      BY DEF ActiveLeases, IndInv, FenceInv, ActiveIsNewest
    <2>2. row \in ActiveLeases(s)
      BY <1>1 DEF ActiveLeases
    <2>3. \A other \in ActiveLeases(s) : other = row
      BY <2>1, <2>2 DEF ActiveLeases, IndInv, FenceInv, TokensDistinct
    <2> QED
      BY <2>1, <2>2, <2>3
  <1>4. \A u \in Scopes \ {s} : ActiveLeases(u)' = ActiveLeases(u)
    BY <1>1 DEF ActiveLeases, Replace
  <1>5. ActiveLeases(s)' = IF new.state = Released THEN {} ELSE {new}
    BY <1>1, <1>3 DEF ActiveLeases, Replace
  <1> HIDE DEF s
  <1>6. HeldTokens[s] = {lastToken[s]}
    BY <1>2, <1>3 DEF HeldTokens
  <1>7. CASE new.state = Released
    <2>1. HeldTokens' = [HeldTokens EXCEPT ![s] = {}]
      BY <1>4, <1>5, <1>7 DEF HeldTokens
    <2> QED
      BY <1>1, <1>2, <1>6, <2>1 DEF Lock!GiveBack
  <1>8. CASE new.state # Released
    <2>1. \A u \in Scopes : HeldTokens'[u] = HeldTokens[u]
      BY <1>1, <1>3, <1>4, <1>5, <1>8 DEF HeldTokens
    <2> QED
      BY <1>1, <2>1 DEF HeldTokens
  <1> QED
    BY <1>7, <1>8

\* The lease store, its repository queue and startup recovery implement the
\* fenced lock, for every number of leases, scopes, daemons and restarts.
THEOREM LockImplemented == Spec => ImplementsLock
  <1>1. Init => Lock!Init
    BY DEF Init, CoordInit, Lock!Init, HeldTokens, ActiveLeases
  <1>2. IndInv /\ [Next]_vars => [Lock!Next]_<<HeldTokens, lastToken>>
    <2> SUFFICES ASSUME IndInv, [Next]_vars
                 PROVE  [Lock!Next]_<<HeldTokens, lastToken>>
      OBVIOUS
    <2>1. CASE KeepsTables
      BY <2>1 DEF KeepsTables, HeldTokens, ActiveLeases
    <2>2. CASE InsertsLease
      BY <2>2, InsertGrants DEF Lock!Next
    <2>3. CASE ChangesLease
      BY <2>3, ChangeKeepsOrGivesBack DEF Lock!Next
    <2> QED
      BY <2>1, <2>2, <2>3, TableSteps
  <1> QED
    BY <1>1, <1>2, Inductive, PTL DEF Spec, ImplementsLock, Lock!Spec
-----------------------------------------------------------------------------
\* A step never drops a lease row or changes what it identifies, and only a
\* recovery pass releases a held lease: expiry (acquireLeaseTx ignores it) and new
\* acquisitions do not.
THEOREM LeasesEndExplicitly == Spec => ReleaseIsExplicit
  <1>1. ASSUME IndInv, [Next]_vars, NEW row \in leases
        PROVE  \E new \in leases' :
                  /\ <<new.id, new.scope, new.holder, new.token>>
                       = <<row.id, row.scope, row.holder, row.token>>
                  /\ row.state = Held /\ new.state = Released => phase = "recovering"
                  /\ row.state = Released => new = row
    <2>1. CASE row \in leases'
      BY <2>1 DEF Held, Released
    <2>2. CASE row \notin leases'
      <3>1. ChangesLease
        <4>1. InsertsLease => leases \subseteq leases'
          BY DEF InsertsLease, InsertLease
        <4> QED
          BY <1>1, <2>2, <4>1, TableSteps DEF KeepsTables
      <3>2. PICK old \in leases, new \in LeaseRow :
              /\ old.state # Released
              /\ new.id = old.id /\ new.scope = old.scope
              /\ new.holder = old.holder /\ new.token = old.token
              /\ old.state = Held /\ new.state = Released => phase = "recovering"
              /\ leases' = Replace(old, new)
        BY <3>1 DEF ChangesLease
      <3>3. old = row /\ new \in leases'
        BY <2>2, <3>2 DEF Replace
      <3> QED
        BY <3>2, <3>3
    <2> QED
      BY <2>1, <2>2
  <1>2. IndInv /\ [Next]_vars =>
           [\A row \in leases :
              \E new \in leases' :
                 /\ <<new.id, new.scope, new.holder, new.token>>
                      = <<row.id, row.scope, row.holder, row.token>>
                 /\ row.state = Held /\ new.state = Released => phase = "recovering"
                 /\ row.state = Released => new = row]_vars
    BY <1>1
  <1> QED
    BY <1>2, Inductive, PTL DEF Spec, ReleaseIsExplicit

-----------------------------------------------------------------------------
\* What a pass has done with the subjects it listed.

LeaseSubject(row) == [kind |-> "lease", id |-> row.id, state |-> row.state]
OperationSubject(o) == [kind |-> "operation", id |-> o, state |-> ops[o]]
Outcome(kind, id) == {dec.outcome : dec \in Recorded(kind, id)}

\* While a pass runs, every lease that is owned and every operation that is open
\* is still to be decided or has the one decision that leaves it so.
LeaseDecided(row) ==
    row.state \in {Held, Releasing} =>
        LeaseSubject(row) \in pending \/ Outcome("lease", row.id) = {Resume}
OperationDecided(o) ==
    ops[o] \in {"prepared", "leased"} =>
        \/ OperationSubject(o) \in pending
        \/ Outcome("operation", o) = {IF ops[o] = "prepared" THEN Retry ELSE Resume}
PassInv ==
    phase = "recovering" =>
        (\A row \in leases : LeaseDecided(row)) /\ (\A o \in OpIds : OperationDecided(o))

\* What a decision adds to the record of this startup: itself, for its subject.
LEMMA RecordedAfter ==
    ASSUME DecisionInv, NEW subject \in Subjects, NEW outcome \in Outcomes,
           RecoverSubject(subject, outcome)
    PROVE  /\ Outcome(subject.kind, subject.id)' = {outcome}
           /\ \A kind, id : kind # subject.kind \/ id # subject.id =>
                 Outcome(kind, id)' = Outcome(kind, id)
  <1> DEFINE new == Decision(subject, outcome)
  <1>1. Recorded(subject.kind, subject.id) = {}
    BY FreshDecision DEF RecoverSubject, NextSubject
  <1>2. decisions' = decisions \cup {new} /\ daemon' = daemon
    BY <1>1 DEF RecoverSubject, ApplyRecovery
  <1>3. new.startup = daemon /\ new.subject = subject /\ new.outcome = outcome
    BY DEF Decision
  <1> HIDE DEF new
  <1>4. Recorded(subject.kind, subject.id)' = {new}
    BY <1>1, <1>2, <1>3 DEF Recorded
  <1>5. \A kind, id : kind # subject.kind \/ id # subject.id =>
           Recorded(kind, id)' = Recorded(kind, id)
    BY <1>2, <1>3 DEF Recorded
  <1> QED
    BY <1>3, <1>4, <1>5 DEF Outcome

\* A decision about a lease covers that lease and leaves the others as they were.
LEMMA LeaseDecisionCovers ==
    ASSUME IndInv, DecisionInv, PassInv, NEW subject \in Subjects, NEW outcome \in Outcomes,
           RecoverSubject(subject, outcome), subject.kind = "lease"
    PROVE  PassInv'
  <1>1. /\ phase = "recovering" /\ ValidDecision(subject, outcome)
        /\ pending' = pending \ {subject}
        /\ Recorded(subject.kind, subject.id) = {}
    BY FreshDecision DEF RecoverSubject, NextSubject
  <1>2. PICK e \in Evidence : ApplyLeaseRecovery(subject, outcome, e)
    BY <1>1 DEF RecoverSubject, ApplyRecovery
  <1>3. PICK row \in leases : /\ row.id = subject.id /\ row.state = subject.state
                              /\ leases' = Replace(row, RecoveredLease(row, outcome, e))
                              /\ ops' = ops
    BY <1>2 DEF ApplyLeaseRecovery
  <1> DEFINE new == RecoveredLease(row, outcome, e)
  <1>4. row \in LeaseRow /\ \A other \in leases \ {row} : other.id # row.id
    BY DEF IndInv, TypeOK, FenceInv, LeaseKey
  <1>5. new.id = row.id /\ (new.state \in {Held, Releasing} => outcome = Resume)
    <2>1. CASE outcome = Resume
      <3>1. new = [row EXCEPT !.daemon = daemon, !.heartbeatAt = now,
                              !.expiresAt = now + Duration]
        BY <2>1 DEF RecoveredLease, Resume, Retry, Interrupt, ReconcileRequired
      <3> HIDE DEF new
      <3> QED
        BY <1>4, <2>1, <3>1 DEF LeaseRow
    <2>2. CASE outcome \in {Retry, Interrupt}
      <3>1. new = [row EXCEPT !.state = Released, !.evidence = e]
        BY <2>2 DEF RecoveredLease, Resume, Retry, Interrupt, ReconcileRequired
      <3> HIDE DEF new
      <3> QED
        BY <1>4, <3>1 DEF LeaseRow, Held, Releasing, Released
    <2>3. CASE outcome = ReconcileRequired
      <3>1. new = [row EXCEPT !.state = ReconcileRequired, !.evidence = e]
        BY <2>3 DEF RecoveredLease, Resume, Retry, Interrupt, ReconcileRequired
      <3> HIDE DEF new
      <3> QED
        BY <1>4, <3>1 DEF LeaseRow, Held, Releasing, ReconcileRequired
    <2> QED
      BY <1>1, <2>1, <2>2, <2>3 DEF ValidDecision
  <1> HIDE DEF new
  <1>6. \A r \in leases' : LeaseDecided(r)'
    <2> SUFFICES ASSUME NEW r \in leases', r.state \in {Held, Releasing}
                 PROVE  LeaseSubject(r) \in pending' \/ Outcome("lease", r.id)' = {Resume}
      BY DEF LeaseDecided, LeaseSubject
    <2>1. CASE r = new
      BY <1>3, <1>5, <2>1, RecordedAfter
    <2>2. CASE r \in leases \ {row}
      <3>1. r.id # subject.id
        BY <1>3, <1>4, <2>2
      <3>2. Outcome("lease", r.id)' = Outcome("lease", r.id)
        BY <3>1, RecordedAfter
      <3>3. LeaseSubject(r) # subject
        BY <3>1 DEF LeaseSubject
      <3> QED
        BY <1>1, <2>2, <3>2, <3>3 DEF PassInv, LeaseDecided
    <2> QED
      BY <1>3, <2>1, <2>2 DEF Replace, new
  <1>7. ASSUME NEW o \in OpIds PROVE OperationDecided(o)'
    <2>1. OperationSubject(o)' = OperationSubject(o) /\ OperationSubject(o) # subject
      BY <1>3 DEF OperationSubject
    <2>2. Outcome("operation", o)' = Outcome("operation", o)
      BY RecordedAfter
    <2> QED
      BY <1>1, <1>3, <2>1, <2>2 DEF PassInv, OperationDecided
  <1> QED
    BY <1>6, <1>7 DEF PassInv

\* The same for an operation.
LEMMA OperationDecisionCovers ==
    ASSUME IndInv, DecisionInv, PassInv, NEW subject \in Subjects, NEW outcome \in Outcomes,
           RecoverSubject(subject, outcome), subject.kind = "operation"
    PROVE  PassInv'
  <1>1. /\ phase = "recovering" /\ ValidDecision(subject, outcome)
        /\ pending' = pending \ {subject}
        /\ Recorded(subject.kind, subject.id) = {}
    BY FreshDecision DEF RecoverSubject, NextSubject
  <1>2. /\ ops' = [ops EXCEPT ![subject.id] = RecoveredOperation(outcome)] /\ leases' = leases
        /\ subject.id \in OpIds /\ ops \in [OpIds -> OpStates]
    BY <1>1 DEF RecoverSubject, ApplyRecovery, ApplyOperationRecovery, coordVars, Subjects,
       IndInv, TypeOK
  <1>3. ASSUME NEW row \in leases' PROVE LeaseDecided(row)'
    <2>1. LeaseSubject(row) # subject
      BY DEF LeaseSubject
    <2>2. Outcome("lease", row.id)' = Outcome("lease", row.id)
      BY RecordedAfter
    <2> QED
      BY <1>1, <1>2, <2>1, <2>2 DEF PassInv, LeaseDecided, LeaseSubject
  <1>4. ASSUME NEW o \in OpIds PROVE OperationDecided(o)'
    <2>1. CASE o = subject.id
      <3>1. Outcome("operation", o)' = {outcome} /\ ops'[o] = RecoveredOperation(outcome)
        BY <1>2, <2>1, RecordedAfter
      <3>2. /\ ops'[o] = "prepared" => outcome = Retry
            /\ ops'[o] = "leased" => outcome = Resume
        BY <1>1, <3>1 DEF ValidDecision, RecoveredOperation, Adopt, Resume, Retry,
           ReconcileRequired
      <3> QED
        BY <3>1, <3>2 DEF OperationDecided
    <2>2. CASE o # subject.id
      <3>1. ops'[o] = ops[o]
        BY <1>2, <2>2
      <3>2. OperationSubject(o)' = OperationSubject(o) /\ OperationSubject(o) # subject
        BY <2>2, <3>1 DEF OperationSubject
      <3>3. Outcome("operation", o)' = Outcome("operation", o)
        BY <2>2, RecordedAfter
      <3> QED
        BY <1>1, <3>1, <3>2, <3>3 DEF PassInv, OperationDecided
    <2> QED
      BY <2>1, <2>2
  <1> QED
    BY <1>3, <1>4 DEF PassInv

\* Every step keeps the pass covered.
LEMMA PassKept == IndInv /\ DecisionInv /\ PassInv /\ [Next]_vars => PassInv'
  <1> SUFFICES ASSUME IndInv, DecisionInv, PassInv, [Next]_vars PROVE PassInv'
    OBVIOUS
  <1>1. ASSUME NEW d \in Daemons, Startup(d) PROVE PassInv'
    <2>1. pending' = PendingRecovery /\ leases' = leases /\ ops' = ops
      BY <1>1 DEF Startup, coordVars
    <2>2. \A row \in leases : LeaseDecided(row)'
      BY <2>1 DEF LeaseDecided, LeaseSubject, PendingRecovery
    <2>3. \A o \in OpIds : OperationDecided(o)'
      BY <2>1 DEF OperationDecided, OperationSubject, PendingRecovery
    <2> QED
      BY <2>1, <2>2, <2>3 DEF PassInv
  <1>2. ASSUME NEW subject \in Subjects, NEW outcome \in Outcomes,
               RecoverSubject(subject, outcome)
        PROVE  PassInv'
    BY <1>2, LeaseDecisionCovers, OperationDecisionCovers DEF Subjects
  <1>3. ASSUME NEW subject \in Subjects, NEW outcome \in Outcomes,
               RejectDecision(subject, outcome)
        PROVE  PassInv'
    BY <1>3 DEF RejectDecision, PassInv
  <1>4. CASE FinishRecovery \/ Crash
    BY <1>4 DEF FinishRecovery, Crash, PassInv
  <1>5. CASE ServeCall
    BY <1>5 DEF ServeCall, recVars, PassInv
  <1>6. ASSUME NEW o \in OpIds, PrepareOperation(o) PROVE PassInv'
    BY <1>6 DEF PrepareOperation, PassInv
  <1>7. CASE PassTime \/ UNCHANGED vars
    BY <1>7 DEF PassTime, Tick, vars, coordVars, recVars, PassInv, LeaseDecided, LeaseSubject,
       OperationDecided, OperationSubject, Outcome, Recorded
  <1> QED
    BY <1>1, <1>2, <1>3, <1>4, <1>5, <1>6, <1>7 DEF Next

\* A daemon begins to serve only when its own pass has decided every lease that is
\* still owned and every operation that is still open, wherever earlier passes died.
THEOREM EverythingDecided == Spec => NothingLeftUndecided
  <1>1. Init => PassInv
    BY DEF Init, PassInv
  <1>2. ASSUME PassInv, [Next]_vars, phase = "recovering", phase' = "serving"
        PROVE  /\ \A row \in leases : row.state \in {Held, Releasing} =>
                     Outcome("lease", row.id) = {Resume}
               /\ \A o \in OpIds : ops[o] \in {"prepared", "leased"} =>
                     Outcome("operation", o)
                       = {IF ops[o] = "prepared" THEN Retry ELSE Resume}
    <2>1. pending = {}
      BY <1>2 DEF Next, Startup, RecoverSubject, RejectDecision, FinishRecovery, Crash,
         ServeCall, PrepareOperation, PassTime, vars, recVars
    <2> QED
      BY <1>2, <2>1 DEF PassInv, LeaseDecided, OperationDecided
  <1>3. PassInv /\ [Next]_vars =>
           [phase = "recovering" /\ phase' = "serving" =>
              /\ \A row \in leases : row.state \in {Held, Releasing} =>
                    {dec.outcome : dec \in Recorded("lease", row.id)} = {Resume}
              /\ \A o \in OpIds : ops[o] \in {"prepared", "leased"} =>
                    {dec.outcome : dec \in Recorded("operation", o)}
                      = {IF ops[o] = "prepared" THEN Retry ELSE Resume}]_vars
    BY <1>2 DEF Outcome
  <1> QED
    BY <1>1, <1>3, PassKept, Inductive, PTL DEF Spec, NothingLeftUndecided
-----------------------------------------------------------------------------
\* The repository queue.

\* The second and the rank as text of an instant are numbers.
LEMMA TextTyped ==
    ASSUME NEW a \in Nat
    PROVE  Second(a) \in Nat /\ TextRank(a) \in Nat
  <1> DEFINE T == TicksPerSecond
             p == Second(a)
  <1>1. T \in Nat /\ T > 0
    BY CoordinationAssumption
  <1>2. p \in Nat /\ a % T \in 0 .. T - 1
    BY <1>1 DEF Second
  <1> HIDE DEF p, T
  <1>3. p * T \in Nat
    BY <1>1, <1>2
  <1> QED
    BY <1>1, <1>2, <1>3 DEF TextRank, p, T

\* Times are compared as text (formatTime), which orders instants of different
\* seconds as they come.
LEMMA TextOrder ==
    ASSUME NEW a \in Nat, NEW b \in Nat, Second(a) < Second(b)
    PROVE  TextRank(a) < TextRank(b)
  <1> DEFINE T == TicksPerSecond
             p == Second(a)
             q == Second(b)
  <1>1. T \in Nat /\ T > 0
    BY CoordinationAssumption
  <1>2. p \in Nat /\ q \in Nat /\ a % T \in 0 .. T - 1 /\ b % T \in 0 .. T - 1
    BY <1>1 DEF Second
  <1>3. p + 1 <= q
    BY <1>2
  <1> HIDE DEF p, q, T
  <1>4. (p + 1) * T <= q * T
    BY <1>1, <1>2, <1>3
  <1>5. (p + 1) * T = p * T + T /\ p * T \in Nat /\ q * T \in Nat
    BY <1>1, <1>2
  <1>6. TextRank(a) <= p * T + T - 1
    BY <1>1, <1>2, <1>5 DEF TextRank, p, T
  <1>7. TextRank(b) >= q * T
    BY <1>1, <1>2, <1>5 DEF TextRank, q, T
  <1>8. TextRank(a) \in Nat /\ TextRank(b) \in Nat
    BY TextTyped
  <1> QED
    BY <1>1, <1>4, <1>5, <1>6, <1>7, <1>8

\* AcquireRepositoryLock takes the head of the queue in the transaction that
\* allocates the token: the entry it removes is overtaken by none that was
\* available and comes first by priority or, in whole seconds, by time.
THEOREM WritersInOrder == Spec => NoOvertaking
  <1>1. ASSUME IndInv, [Next]_vars, NEW e \in queue \ queue', NEW other \in queue,
               other.scope = e.scope, lastToken'[e.scope] # lastToken[e.scope],
               Second(other.availableAt) < Second(now),
               \/ other.priority > e.priority
               \/ /\ other.priority = e.priority
                  /\ Second(other.enqueuedAt) < Second(e.enqueuedAt)
        PROVE  FALSE
    <2>1. /\ e \in QueueEntry /\ other \in QueueEntry /\ now \in Nat
          /\ e.scope \in Scopes /\ lastToken \in [Scopes -> Nat]
      BY <1>1 DEF IndInv, TypeOK, QueueEntry
    <2>2. PICK item \in QueueItems, id \in LeaseIds, s \in Scopes, h \in Holders, t \in Tokens :
             AcquireRepositoryLock(item, id, s, h, daemon, t)
      <3>1. ServeCall
        BY <1>1 DEF Next, Startup, RecoverSubject, ApplyRecovery, ApplyLeaseRecovery,
           ApplyOperationRecovery, RejectDecision, FinishRecovery, Crash, PrepareOperation,
           PassTime, Tick, coordVars, vars
      <3>2. ASSUME NEW g \in issued, GuardedCall(g)
            PROVE  UNCHANGED queue
        BY <1>1, <3>2, GuardedCallStep DEF IndInv, GuardedStep
      <3>3. QueueCall => UNCHANGED lastToken
        BY DEF QueueCall, Enqueue, RemoveQueueEntry
      <3>4. DaemonCall(daemon)
        BY <1>1, <3>1, <3>2, <3>3 DEF ServeCall
      <3>5. \A id \in LeaseIds, s \in Scopes, h \in Holders, t \in Tokens :
               AcquireLease(id, s, h, daemon, t) => UNCHANGED queue
        BY DEF AcquireLease, AdoptLease
      <3> QED
        BY <1>1, <3>4, <3>5 DEF DaemonCall
    <2>3. PICK x \in queue : QueueHead(s, x) /\ queue' = queue \ {x}
                             /\ lastToken' = [lastToken EXCEPT ![s] = @ + 1]
      BY <1>1, <2>2 DEF AcquireRepositoryLock, AdoptLease, InsertLease
    <2>4. x = e /\ e.scope = s
      BY <1>1, <2>1, <2>3 DEF QueueHead, Available
    <2>8. /\ e.priority \in Nat /\ other.priority \in Nat
          /\ e.enqueuedAt \in Nat /\ other.enqueuedAt \in Nat /\ other.availableAt \in Nat
      BY <2>1, CoordinationAssumption DEF QueueEntry
    <2>9. /\ Second(e.enqueuedAt) \in Nat /\ Second(other.enqueuedAt) \in Nat
          /\ TextRank(e.enqueuedAt) \in Nat /\ TextRank(other.enqueuedAt) \in Nat
          /\ TextRank(other.availableAt) \in Nat /\ TextRank(now) \in Nat
      BY <2>1, <2>8, TextTyped
    <2>5. TextRank(other.availableAt) < TextRank(now)
      BY <1>1, <2>1, <2>8, TextOrder
    <2>6. other # e
      BY <1>1, <2>8, <2>9
    <2>7. Before(e, other)
      <3>1. other \in Available(s) \ {e}
        BY <1>1, <2>4, <2>5, <2>6, <2>9 DEF Available
      <3> QED
        BY <2>3, <2>4, <3>1 DEF QueueHead
    <2> QED
      <3>1. CASE other.priority > e.priority
        BY <2>7, <2>8, <3>1 DEF Before
      <3>2. CASE other.priority = e.priority /\ Second(other.enqueuedAt) < Second(e.enqueuedAt)
        <4>1. TextRank(other.enqueuedAt) < TextRank(e.enqueuedAt)
          BY <2>8, <3>2, TextOrder
        <4> QED
          BY <2>7, <2>8, <2>9, <3>2, <4>1 DEF Before
      <3> QED
        BY <1>1, <3>1, <3>2
  <1>2. IndInv /\ [Next]_vars =>
           [\A e \in queue \ queue', other \in queue :
              ~(/\ other.scope = e.scope
                /\ lastToken'[e.scope] # lastToken[e.scope]
                /\ Second(other.availableAt) < Second(now)
                /\ \/ other.priority > e.priority
                   \/ /\ other.priority = e.priority
                      /\ Second(other.enqueuedAt) < Second(e.enqueuedAt))]_vars
    BY <1>1
  <1> QED
    BY <1>2, Inductive, PTL DEF Spec, NoOvertaking
=============================================================================
