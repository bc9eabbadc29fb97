------------------------------ MODULE Backlog ------------------------------
(***************************************************************************)
(* The cached backlog of one project (core/backlog, sqlite/backlog.go):    *)
(* the selected source, the saved checkpoint of the scan of its tickets,   *)
(* the rows the scan keeps and the immutable observations they point to.   *)
(* The daemon polls while users refresh, read one ticket or select another *)
(* source; every commit carries the whole checkpoint and is accepted only  *)
(* from the state it was read from.  The revision number of a checkpoint   *)
(* is only ever compared for equality, so a call whose copy is no longer   *)
(* the stored one is "outdated": what it still reads is of no consequence, *)
(* for its commit will be refused.  A generation is only compared with the *)
(* checkpoint's own, so a row is "seen" or not; and NextAttemptAt is kept  *)
(* as the time still to wait.                                              *)
(***************************************************************************)
EXTENDS Integers, Sequences, Functions

CONSTANTS
    Sources,     \* what can be selected: a connection and its scope
    Tickets,     \* ticket identities, the same names in every source
    Queries,     \* queries a user may refresh with; a page size is part of one
    Listing,     \* the tickets a query lists, in the source's order
    Poller, Users,
    MaxPages, PollInterval, MaxBackoff, Advised,
    MaxSelections,
    MaxEvents    \* bound on selections, users' calls, faults and edits together

Callers == {Poller} \cup Users

VARIABLES
    bindings,     \* the sources selected so far; the last one is selected
    checkpoints,  \* for each binding, its saved scan
    rows,         \* for each binding, the cached tickets
    observations, \* what is retained of each (source, ticket, revision)
    calls,        \* for each caller, the call it is in
    polling,      \* the daemon's poll loop runs
    remote,       \* the tickets as their source has them
    events        \* how many of MaxEvents happened

vars == <<bindings, checkpoints, rows, observations, calls, polling, remote, events>>

Selected == Len(bindings)
NoFailure == "none"
None == [state |-> "none"]
NoCheckpoint ==
    [phase |-> "none", query |-> "none", cursor |-> 0, seen |-> {}, failures |-> 0, failure |-> NoFailure, wait |-> 0]
Idle == [step |-> "idle"]

IsRow(r) == r = None \/ DOMAIN r = {"state", "revision", "content"}

TypeOK ==
    /\ bindings \in Seq(Sources) /\ Selected \in 1..MaxSelections + 1
    /\ \A b \in 1..Selected :
          /\ checkpoints[b].phase \in {"none", "refreshing", "complete", "failed"}
          /\ checkpoints[b].seen \subseteq Tickets
          /\ (checkpoints[b].phase = "failed") = (checkpoints[b].failure # NoFailure)
          /\ \A t \in Tickets : IsRow(rows[b][t])
    /\ polling \in BOOLEAN /\ events \in 0..MaxEvents
    /\ \A o, p \in observations : o.source = p.source /\ o.ticket = p.ticket /\ o.revision = p.revision => o = p

Init ==
    /\ bindings \in {<<s>> : s \in Sources}
    /\ checkpoints = [b \in 1..MaxSelections + 1 |-> NoCheckpoint]
    /\ rows = [b \in 1..MaxSelections + 1 |-> [t \in Tickets |-> None]]
    /\ observations = {}
    /\ calls = [c \in Callers |-> Idle]
    /\ polling = FALSE
    /\ remote = [s \in Sources |-> [t \in Tickets |-> [revision |-> 1, content |-> 1]]]
    /\ events = 0

-----------------------------------------------------------------------------
(* Storage *)

\* backlogSourceNamespace and validateBacklogObservation: an observation is one of the selected
\* source, and its identity is the ticket's with the native revision.
Observation(b, t, answer) == [source |-> bindings[b], ticket |-> t, revision |-> answer.revision, content |-> answer.content]

\* INSERT ... ON CONFLICT DO NOTHING followed by the comparison of what is retained.
SameRevision(o, p) == o.source = p.source /\ o.ticket = p.ticket /\ o.revision = p.revision
retain(new) == {o \in new : \A p \in observations : ~SameRevision(o, p)}

reusedNever(new) == FALSE
reused(new) == \E o \in new, p \in observations : SameRevision(o, p) /\ o.content # p.content

\* CommitBacklogRefresh refuses a checkpoint of another binding than the selected one and one that
\* does not follow the stored revision: every other call under way has lost.
Outdated == [step |-> "outdated"]
outdated(c) == [x \in Callers |-> IF x = c \/ calls[x] = Idle THEN calls[x] ELSE Outdated]

CommitBacklogRefresh(c, state, new, cached, next) ==
    /\ checkpoints' = [checkpoints EXCEPT ![calls[c].binding] = state]
    /\ observations' = observations \cup retain(new)
    /\ rows' = [rows EXCEPT ![calls[c].binding] = [t \in Tickets |-> IF t \in DOMAIN cached THEN cached[t] ELSE @[t]]]
    /\ calls' = [outdated(c) EXCEPT ![c] = next]

Conflict(c) ==
    /\ calls[c] = Outdated
    /\ calls' = [calls EXCEPT ![c] = Idle]
    /\ UNCHANGED <<bindings, checkpoints, rows, observations, polling, remote, events>>

Event == events < MaxEvents /\ events' = events + 1

\* SelectBacklogSource: appends a binding; the former one and what it cached stay.
reselectedOnly == calls
reselected == [c \in Callers |-> IF calls[c] = Idle THEN Idle ELSE Outdated]
SelectBacklogSource(s) ==
    /\ Selected <= MaxSelections /\ Event
    /\ bindings' = Append(bindings, s)
    /\ calls' = reselected
    /\ UNCHANGED <<checkpoints, rows, observations, polling, remote>>

-----------------------------------------------------------------------------
(* Failures and their schedule *)

permissionFailure(failure) == failure = "permission"
Retryable(failure) == failure = "unavailable"
Smaller(a, b) == IF a < b THEN a ELSE b
Larger(a, b) == IF a > b THEN a ELSE b

\* retryAt: exponential, bounded; a failure that is not worth a retry waits longest; the source may
\* advise a later time, never an earlier one.
retryAt(failure, attempts, advised) ==
    Larger(IF Retryable(failure) THEN Smaller(2 ^ (attempts - 1), MaxBackoff) ELSE MaxBackoff, advised)

failedStateInPhase(state, failure, advised) ==
    LET attempts == Smaller(state.failures + 1, MaxBackoff) IN
    [state EXCEPT !.failure = failure, !.failures = attempts, !.wait = retryAt(failure, attempts, advised)]
failedState(state, failure, advised) ==
    LET attempts == Smaller(state.failures + 1, MaxBackoff) IN
    [state EXCEPT !.phase = "failed", !.failure = failure, !.failures = attempts, !.wait = retryAt(failure, attempts, advised)]

\* safeFailure: what a call fails with; the context's own end is not recorded.
Failing(c, state, failure) ==
    calls' = [calls EXCEPT ![c] = [step |-> "failing", binding |-> calls[c].binding, state |-> state, failure |-> failure, exact |-> calls[c].exact]]

\* recordFailure and recordExactFailure: an exact read that lost access marks the row.
recordFailure(c) ==
    /\ calls[c].step = "failing"
   
    /\ \E advised \in {0, Advised} :
          CommitBacklogRefresh(c, failedState(calls[c].state, calls[c].failure, advised), {},
              [t \in {x \in calls[c].exact : permissionFailure(calls[c].failure)} |-> [rows[calls[c].binding][t] EXCEPT !.state = "inaccessible"]], Idle)
    /\ UNCHANGED <<bindings, polling, remote, events>>

\* The time bound of a call, the end of the daemon, or the client going away.
GiveUp(c) ==
    /\ calls[c].step # "idle" /\ Event
    /\ calls' = [calls EXCEPT ![c] = Idle]
    /\ UNCHANGED <<bindings, checkpoints, rows, observations, polling, remote>>

-----------------------------------------------------------------------------
(* Refresh *)

\* A changed query, or a finished scan, starts a new generation: nothing is seen yet.
restartedAlways(state, query) == [state EXCEPT !.query = query, !.cursor = 0, !.seen = {}]
restarted(state, query) ==
    IF query # state.query \/ state.phase = "complete"
    THEN [state EXCEPT !.query = query, !.cursor = 0, !.seen = {}]
    ELSE state

deferredWhenScanned(state) == state.phase = "failed" /\ state.wait > 0 /\ state.seen # {}
deferred(state) == state.phase = "failed" /\ state.wait > 0

\* Before the time to retry, a changed query is saved and nothing else is done.
Refresh(c, query) ==
    LET saved == checkpoints[Selected]
        state == restarted(saved, query) IN
    /\ calls[c].step = "idle"
    /\ ~deferred(saved) \/ query # saved.query
    /\ calls' = [calls EXCEPT ![c] = [step |-> IF deferred(saved) THEN "saving" ELSE "resolving", binding |-> Selected, state |-> state, pages |-> 0, exact |-> {}]]
    /\ UNCHANGED <<bindings, checkpoints, rows, observations, polling, remote>>

startBacklogPolling ==
    /\ ~polling
    /\ polling' = TRUE
    /\ UNCHANGED <<bindings, checkpoints, rows, observations, calls, remote, events>>

Poll ==
    /\ polling
    /\ checkpoints[Selected].wait = 0
    /\ \E q \in Queries :
          /\ checkpoints[Selected].query \in {"none", q}
          /\ checkpoints[Selected].query = "none" => q = CHOOSE d \in Queries : TRUE
          /\ Refresh(Poller, q)
    /\ UNCHANGED events

UserRefresh(c, query) == Event /\ Refresh(c, query)

SaveQuery(c) ==
    /\ calls[c].step = "saving"
    /\ CommitBacklogRefresh(c, calls[c].state, {}, <<>>, Idle)
    /\ UNCHANGED <<bindings, polling, remote, events>>

\* resolve fails, or Discover's pin is the saved one's.
ResolveFails(c) ==
    /\ calls[c].step = "resolving" /\ Event
    /\ \E failure \in {"unavailable", "permission", "drift"} : Failing(c, calls[c].state, failure)
    /\ UNCHANGED <<bindings, checkpoints, rows, observations, polling, remote>>

\* The commit that says the scan is under way.
Begin(c) ==
    LET state == [calls[c].state EXCEPT !.phase = "refreshing", !.failure = NoFailure, !.wait = 0] IN
    /\ calls[c].step = "resolving" /\ calls[c].exact = {}
    /\ CommitBacklogRefresh(c, state, {}, <<>>, [calls[c] EXCEPT !.step = "browsing", !.state = state])
    /\ UNCHANGED <<bindings, polling, remote, events>>

\* One page: the tickets after the cursor, as the source has them now.
Page(state) == {Listing[state.query][i] : i \in (state.cursor + 1)..(state.cursor + 1)}
Browse(c) ==
    /\ calls[c].step = "browsing"
    /\ calls' = [calls EXCEPT ![c] = [step |-> "committing", pages |-> calls[c].pages, exact |-> {}, binding |-> calls[c].binding, state |-> calls[c].state,
                                      page |-> [t \in Page(calls[c].state) |-> remote[bindings[calls[c].binding]][t]]]]
    /\ UNCHANGED <<bindings, checkpoints, rows, observations, polling, remote, events>>

\* The source fails, or its page is too long, stale, without a cursor or with the same one again.
BrowseFails(c) ==
    /\ calls[c].step = "browsing" /\ Event
    /\ \E failure \in {"unavailable", "permission", "drift"} : Failing(c, calls[c].state, failure)
    /\ UNCHANGED <<bindings, checkpoints, rows, observations, polling, remote>>

pageObservations(c) == {Observation(calls[c].binding, t, calls[c].page[t]) : t \in DOMAIN calls[c].page}
available(answer) == [state |-> "available", revision |-> answer.revision, content |-> answer.content]

\* The rows of a page, its observations and the cursor after it, in one commit.
advanced(state, page) ==
    LET cursor == state.cursor + 1
        done == cursor = Len(Listing[state.query]) IN
    [state EXCEPT !.cursor = IF done THEN 0 ELSE cursor, !.seen = @ \cup page, !.phase = IF done THEN "complete" ELSE "refreshing",
                  !.wait = IF done THEN PollInterval ELSE 0, !.failures = 0, !.failure = NoFailure]
CommitPage(c) ==
    LET state == advanced(calls[c].state, DOMAIN calls[c].page) IN
    /\ calls[c].step = "committing" /\ ~reused(pageObservations(c))
    /\ CommitBacklogRefresh(c, state, pageObservations(c), [t \in DOMAIN calls[c].page |-> available(calls[c].page[t])],
          IF state.phase = "complete" \/ calls[c].pages + 1 = MaxPages THEN Idle
          ELSE [step |-> "browsing", binding |-> calls[c].binding, state |-> state, pages |-> calls[c].pages + 1, exact |-> {}])
    /\ UNCHANGED <<bindings, polling, remote, events>>

\* An immutable revision with other content: the page is refused and the failure recorded.
RefusePage(c) ==
    /\ calls[c].step = "committing" /\ reused(pageObservations(c))
    /\ Failing(c, calls[c].state, "drift")
    /\ UNCHANGED <<bindings, checkpoints, rows, observations, polling, remote, events>>

-----------------------------------------------------------------------------
(* ReadRefresh: one retained ticket by its exact identity *)

ReadRefresh(c, t) ==
    LET saved == checkpoints[Selected] IN
    /\ calls[c].step = "idle" /\ Event
    /\ rows[Selected][t] # None
    /\ ~deferred(saved)
    /\ calls' = [calls EXCEPT ![c] = [step |-> "resolving", binding |-> Selected, state |-> saved, pages |-> 0, exact |-> {t}]]
    /\ UNCHANGED <<bindings, checkpoints, rows, observations, polling, remote>>

\* Found, Unchanged or Missing, and only an exact answer says Missing.
Read(c, missing) ==
    LET t == CHOOSE x \in calls[c].exact : TRUE IN
    /\ calls[c].step = "resolving" /\ calls[c].exact # {}
    /\ calls' = [calls EXCEPT ![c] = [step |-> "reading", binding |-> calls[c].binding, state |-> calls[c].state, exact |-> calls[c].exact,
                                      missing |-> missing, page |-> [x \in {t} |-> remote[bindings[calls[c].binding]][t]]]]
    /\ UNCHANGED <<bindings, checkpoints, rows, observations, polling, remote, events>>

\* The scan's own marks stay as they are: an exact read says nothing about the query.
markedAsSeen(state, page) == state.seen \cup page
marked(state, page) == state.seen
reconciled(state, page) ==
    [state EXCEPT !.failure = NoFailure, !.failures = 0, !.seen = marked(state, page),
                  !.phase = IF @ = "failed" THEN "refreshing" ELSE @, !.wait = IF state.phase = "failed" THEN 0 ELSE @]
CommitRead(c) ==
    LET new == IF calls[c].missing THEN {} ELSE pageObservations(c) IN
    /\ calls[c].step = "reading" /\ ~reused(new)
    /\ CommitBacklogRefresh(c, reconciled(calls[c].state, calls[c].exact), new,
          [t \in calls[c].exact |-> IF calls[c].missing THEN [rows[calls[c].binding][t] EXCEPT !.state = "missing"] ELSE available(calls[c].page[t])], Idle)
    /\ UNCHANGED <<bindings, polling, remote, events>>

RefuseRead(c) ==
    /\ calls[c].step = "reading" /\ ~calls[c].missing /\ reused(pageObservations(c))
    /\ Failing(c, calls[c].state, "drift")
    /\ UNCHANGED <<bindings, checkpoints, rows, observations, polling, remote, events>>

-----------------------------------------------------------------------------
\* The source edits a ticket; one that is wrong keeps the revision.
Edit(s, t, kept) ==
    /\ Event
    /\ remote' = [remote EXCEPT ![s][t] = [revision |-> IF kept THEN @.revision ELSE @.revision + 1, content |-> @.content + 1]]
    /\ UNCHANGED <<bindings, checkpoints, rows, observations, calls, polling>>

Waiting(state) == state.wait > 0
Less(state) == [state EXCEPT !.wait = IF @ > 0 THEN @ - 1 ELSE 0]
Tick ==
    /\ \E b \in 1..Selected : Waiting(checkpoints[b])
    /\ checkpoints' = [b \in DOMAIN checkpoints |-> Less(checkpoints[b])]
    /\ calls' = [c \in Callers |-> IF "state" \in DOMAIN calls[c] THEN [calls[c] EXCEPT !.state = Less(@)] ELSE calls[c]]
    /\ UNCHANGED <<bindings, rows, observations, polling, remote, events>>

Working(c) ==
    \/ SaveQuery(c) \/ Begin(c) \/ Browse(c) \/ CommitPage(c) \/ RefusePage(c)
    \/ recordFailure(c) \/ Read(c, FALSE) \/ CommitRead(c) \/ RefuseRead(c)
    \/ Conflict(c)

Next ==
    \/ startBacklogPolling \/ Poll \/ Tick
    \/ \E c \in Callers : Working(c) \/ ResolveFails(c) \/ BrowseFails(c) \/ GiveUp(c) \/ Read(c, TRUE)
    \/ \E c \in Users : (\E q \in Queries : UserRefresh(c, q)) \/ (\E t \in Tickets : ReadRefresh(c, t))
    \/ \E s \in Sources : SelectBacklogSource(s)
    \/ \E s \in Sources, t \in Tickets, kept \in BOOLEAN : Edit(s, t, kept)

\* startBacklogPolling: the daemon polls an active project every fifteen seconds, and a call that is
\* not cut off goes on.
Fairness == WF_vars(Poll) /\ WF_vars(Working(Poller)) /\ WF_vars(Tick)
Spec == Init /\ [][Next]_vars /\ Fairness

-----------------------------------------------------------------------------
\* Whoever committed which page, across failures, changed queries and exact reads, a scan has seen
\* every ticket its query lists before the cursor, all of them once it is complete, and never one
\* the query does not list.
ScanIsContiguous ==
    \A b \in 1..Selected : LET scan == checkpoints[b] IN scan.query # "none" =>
        /\ scan.seen \subseteq Range(Listing[scan.query])
        /\ Range(SubSeq(Listing[scan.query], 1, IF scan.phase = "complete" THEN Len(Listing[scan.query]) ELSE scan.cursor)) \subseteq scan.seen

\* What a row shows is what is retained under its revision: a source that reuses a revision for
\* other content is refused, whichever of two refreshes came first.
RowsAreRetained ==
    \A b \in 1..Selected, t \in Tickets : rows[b][t] # None =>
        Observation(b, t, rows[b][t]) \in observations

\* A failed source is not asked again before its time, whoever asks and with whatever query.
BackoffHolds ==
    [][\A b \in 1..Selected : checkpoints[b].phase = "failed" /\ checkpoints[b].wait > 0 => checkpoints'[b].phase = "failed"]_vars

\* A refresh that was under way when another source was selected leaves what is cached of the old
\* one alone.
OldSourceIsFrozen ==
    [][\A b \in 1..Selected : b # Selected => rows'[b] = rows[b] /\ checkpoints'[b].seen = checkpoints[b].seen]_vars

Drifting == \E t \in Tickets : reused({Observation(Selected, t, remote[bindings[Selected]][t])})
\* A source that answers, and keeps to its revisions, is scanned to the end again and again, whatever
\* the users do in between.
ScanCompletes == <>polling /\ <>[]~Drifting => []<>(checkpoints[Selected].phase = "complete")
=============================================================================
