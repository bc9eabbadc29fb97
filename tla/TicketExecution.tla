-------------------------- MODULE TicketExecution --------------------------
(***************************************************************************)
(* Executing tickets of an external source (core/ticketexecution,          *)
(* sqlite/{ticket_execution,source_checks,source_runs}.go): a ticket is    *)
(* admitted as local work, one observed version of it is approved, and a   *)
(* run freezes that version when it is created.  What the store knows of a *)
(* ticket comes from two writers, the backlog scan of the selected source  *)
(* and exact checks of one work item; the approval, the creation of a run  *)
(* and a rebinding of the work each read it again in their transaction.    *)
(*                                                                         *)
(* A work item is named after the ticket it was first admitted for, the    *)
(* pin of an adapter is the binding it belongs to, and a repeated request  *)
(* (same idempotency key) is answered with the saved admission and changes *)
(* nothing, so it does not appear.                                         *)
(***************************************************************************)
EXTENDS Integers, Sequences, FiniteSets, NaturalsInduction, WellFoundedInduction, TLAPS

CONSTANTS
    Tickets,
    Revisions,      \* native revisions a ticket may be observed at
    Unfit,          \* observations that are archived, cancelled or moved out of scope
    Runs, Callers,
    MaxAge,         \* how old an observation may be when it is approved
    MaxTime, MaxBinding, MaxLineage,
    MaxEvents       \* bound on what the source, the users and the scheduler start

VARIABLES
    clock, selected,
    scan,        \* the page a backlog refresh has read and not yet committed
    cache,       \* for each binding, the rows of its backlog
    lost,        \* for each binding, when a refresh last failed for lack of access; 0 otherwise
    works,       \* for each work item: absent, retained or deleted
    lineages,    \* for each work item, the tickets it was bound to, oldest first
    checks,      \* for each work item and lineage revision, the exact check retained
    admissions,  \* the approvals, oldest first
    runs,        \* for each run its work, status, attempt and frozen source
    calls,       \* what each caller has read and not yet used
    events       \* how many of MaxEvents happened

vars == <<clock, selected, scan, cache, lost, works, lineages, checks, admissions, runs, calls, events>>

None == [state |-> "none"]
Row(rev, state, at) == [revision |-> rev, state |-> state, checked |-> at]
Rows == {None} \cup [revision : Revisions, state : {"available", "missing", "inaccessible"}, checked :
     1..MaxTime]
Idle == [kind |-> "idle"]
NoRun == [status |-> "none"]

TypeOK ==
    /\ clock \in 1..MaxTime /\ selected \in 1..MaxBinding /\ events \in 0..MaxEvents
    /\ cache \in [1..MaxBinding -> [Tickets -> Rows]]
    /\ works \in [Tickets -> {"absent", "retained", "deleted"}]
    /\ \A w \in Tickets : lineages[w] \in Seq([ticket : Tickets, binding : 1..MaxBinding]) /\
          (works[w] = "absent" => lineages[w] = <<>>)
    /\ checks \in [Tickets -> [1..MaxLineage -> Rows]]
    /\ admissions \in Seq([work : Tickets, lineage : 1..MaxLineage, binding : 1..MaxBinding, ticket :
          Tickets, revision : Revisions, at : 1..MaxTime])
    /\ \A r \in Runs : runs[r] = NoRun \/ runs[r].status \in {"open", "failed", "completed", "cancelled"}
    \* UNIQUE(project_id, ticket_key) of source_work_bindings
    /\ \A w, v \in Tickets : w # v /\ lineages[w] # <<>> /\ lineages[v] # <<>> =>
          lineages[w][Len(lineages[w])].ticket # lineages[v][Len(lineages[v])].ticket

Init ==
    /\ clock = 1 /\ selected = 1
    /\ scan = None
    /\ cache = [b \in 1..MaxBinding |-> [t \in Tickets |-> None]]
    /\ lost = [b \in 1..MaxBinding |-> 0]
    /\ works = [w \in Tickets |-> "absent"]
    /\ lineages = [w \in Tickets |-> <<>>]
    /\ checks = [w \in Tickets |-> [l \in 1..MaxLineage |-> None]]
    /\ admissions = <<>>
    /\ runs = [r \in Runs |-> NoRun]
    /\ calls = [c \in Callers |-> Idle]
    /\ events = 0

Event == events < MaxEvents /\ events' = events + 1

-----------------------------------------------------------------------------
(* What is known of a ticket *)

\* physicalLineage: the binding in force.
revisionOf(w) == Len(lineages[w])
lineageOf(w) == lineages[w][revisionOf(w)]

\* currentSource: the newer of the scan's row and the exact check, the check when they are as old;
\* a refresh that was denied access since then hides both.
newest(row, check) == IF check # None /\ (row = None \/ check.checked >= row.checked) THEN check ELSE row
hidden(row, b) == IF row # None /\ lost[b] > 0 /\ lost[b] >= row.checked
   THEN [row EXCEPT !.state = "inaccessible"] ELSE row
currentSource(l, check) ==
    LET row == cache[l.binding][l.ticket] IN
    IF row = None THEN check ELSE hidden(newest(row, check), l.binding)
currentOf(w) == currentSource(lineageOf(w), checks[w][revisionOf(w)])

\* validateSourceAdmission
fit(t, row) == row # None /\ row.state = "available" /\ clock - row.checked <= MaxAge /\
   <<t, row.revision>> \notin Unfit

-----------------------------------------------------------------------------
(* The writers of that knowledge *)

\* SelectBacklogSource; a later binding may be to the same tickets under another configuration.
SelectSource ==
    /\ selected < MaxBinding
    /\ selected' = selected + 1
    /\ Event
    /\ UNCHANGED <<clock, scan, cache, lost, works, lineages, checks, admissions, runs, calls>>

\* Refresh: a new refresh forgets that an earlier one was denied before it asks the source.
ScanStarts ==
    /\ scan = None /\ lost[selected] > 0
    /\ lost' = [lost EXCEPT ![selected] = 0]
    /\ UNCHANGED <<clock, selected, scan, cache, works, lineages, checks, admissions, runs, calls, events>>

\* Browse has returned a page, whose rows are stamped with the time after it.  One refresh of the
\* selected source at a time reaches its commit (module Backlog).
ScanReads(t, rev, state) ==
    /\ scan = None /\ lost[selected] = 0
    /\ state = "missing" => cache[selected][t] # None /\ rev = cache[selected][t].revision
    /\ scan' = [binding |-> selected, ticket |-> t, row |-> Row(rev, state, clock)]
    /\ Event
    /\ UNCHANGED <<clock, selected, cache, lost, works, lineages, checks, admissions, runs, calls>>

ScanCommits ==
    /\ scan # None
    /\ IF scan.binding = selected
       THEN cache' = [cache EXCEPT ![selected][scan.ticket] = scan.row]
       ELSE UNCHANGED cache
    /\ scan' = None
    /\ UNCHANGED <<clock, selected, lost, works, lineages, checks, admissions, runs, calls, events>>

ScanDenied ==
    /\ scan = None /\ \E t \in Tickets : cache[selected][t] # None
    /\ lost' = [lost EXCEPT ![selected] = clock]
    /\ Event
    /\ UNCHANGED <<clock, selected, scan, cache, works, lineages, checks, admissions, runs, calls>>

\* RefreshSource: the lineage and what is known are read, then the source, then the check is recorded.
\* Unchanged and Observed with the known revision leave the same row.
RefreshSource(c, w, state, rev) ==
    LET known == currentOf(w) IN
    /\ calls[c] = Idle /\ lineages[w] # <<>>
    /\ state # "available" => known # None /\ rev = known.revision
    /\ calls' = [calls EXCEPT ![c] = [kind |-> "check", work |-> w, lineage |-> revisionOf(w),
          row |-> Row(rev, state, clock)]]
    /\ Event
    /\ UNCHANGED <<clock, selected, scan, cache, lost, works, lineages, checks, admissions, runs>>

\* RecordSourceCheck: the lineage must still be the one read, and a newer check wins.
notOlderThanCached(row, w) == LET l == lineageOf(w) IN cache[l.binding][l.ticket] # None =>
   row.checked >= cache[l.binding][l.ticket].checked
notOlder(row, w) == currentOf(w) # None => row.checked >= currentOf(w).checked
RecordSourceCheck(c) ==
    LET call == calls[c] IN
    /\ call.kind = "check"
    /\ IF call.lineage = revisionOf(call.work) /\ notOlder(call.row, call.work)
       THEN checks' = [checks EXCEPT ![call.work][call.lineage] = call.row]
       ELSE UNCHANGED checks
    /\ calls' = [calls EXCEPT ![c] = Idle]
    /\ UNCHANGED <<clock, selected, scan, cache, lost, works, lineages, admissions, runs, events>>

-----------------------------------------------------------------------------
(* Approvals *)

\* selectedObservation: the row of the selected source, still accessible.
selectedFit(b, t, rev) ==
    /\ b = selected
    /\ fit(t, hidden(cache[b][t], b)) /\ cache[b][t].revision = rev
insertAdmission(w, l, t, b, rev) ==
    admissions' = Append(admissions, [work |-> w, lineage |-> l, binding |-> b, ticket |-> t,
       revision |-> rev, at |-> clock])

\* AdmitSourceTicket of a ticket: the work bound to it, or new work.
AdmitSourceTicket(b, t, rev) ==
    LET owners == {w \in Tickets : lineages[w] # <<>> /\ lineageOf(w).ticket = t}
        w == IF owners = {} THEN t ELSE CHOOSE x \in owners : TRUE IN
    /\ selectedFit(b, t, rev)
    /\ lineages[w] # <<>> => lineageOf(w) = [ticket |-> t, binding |-> b]
    /\ works[w] # "deleted"
    /\ works' = [works EXCEPT ![w] = "retained"]
    /\ lineages' = IF lineages[w] = <<>> THEN [lineages EXCEPT ![w] = <<[ticket |-> t, binding |-> b]>>]
          ELSE lineages
    /\ insertAdmission(w, Len(lineages'[w]), t, b, rev)
    /\ Event
    /\ UNCHANGED <<clock, selected, scan, cache, lost, checks, runs, calls>>

\* AdmitSourceTicket of existing work: another version of the ticket it is bound to.
Approve(w, rev) ==
    /\ works[w] = "retained" /\ lineages[w] # <<>>
    /\ fit(lineageOf(w).ticket, currentOf(w)) /\ currentOf(w).revision = rev
    /\ insertAdmission(w, revisionOf(w), lineageOf(w).ticket, lineageOf(w).binding, rev)
    /\ Event
    /\ UNCHANGED <<clock, selected, scan, cache, lost, works, lineages, checks, runs, calls>>

\* sourceWorkSettled: every other run of the work is completed or cancelled and no attempt is alive.
settledRunsOnly(w, excluding) == \A r \in Runs \ {excluding} : runs[r] # NoRun /\ runs[r].work = w =>
   runs[r].status \in {"completed", "cancelled"}
settled(w, excluding) ==
    \A r \in Runs \ {excluding} : runs[r] # NoRun /\ runs[r].work = w =>
        runs[r].status \in {"completed", "cancelled"} /\ ~runs[r].attempt

\* RebindSourceTicket: settled work moves to another ticket that no other work has.
Rebind(w, expected, b, t, rev) ==
    /\ expected < MaxLineage
    /\ works[w] = "retained" /\ revisionOf(w) = expected /\ expected > 0
    /\ settled(w, "none")
    /\ selectedFit(b, t, rev)
    /\ \A v \in Tickets \ {w} : lineages[v] # <<>> => lineageOf(v).ticket # t
    /\ lineages' = [lineages EXCEPT ![w] = Append(@, [ticket |-> t, binding |-> b])]
    /\ insertAdmission(w, expected + 1, t, b, rev)
    /\ Event
    /\ UNCHANGED <<clock, selected, scan, cache, lost, works, checks, runs, calls>>

-----------------------------------------------------------------------------
(* Runs *)

\* approvedRunSource: the latest approval of this version under the lineage in force, while the
\* version is the current one and accessible.
approvalsUnderAnyLineage(w, rev) == {i \in DOMAIN admissions : admissions[i].work = w /\
   admissions[i].revision = rev /\ admissions[i].ticket = lineageOf(w).ticket}
approvals(w, rev) ==
    {i \in DOMAIN admissions :
        /\ admissions[i].work = w /\ admissions[i].lineage = revisionOf(w)
        /\ admissions[i].revision = rev /\ admissions[i].ticket = lineageOf(w).ticket}
latest(indices) == CHOOSE i \in indices : \A j \in indices : j <= i
approvedRunSource(w, rev) ==
    /\ lineages[w] # <<>> /\ approvals(w, rev) # {}
    /\ fit(lineageOf(w).ticket, currentOf(w)) /\ currentOf(w).revision = rev

\* approvedSourceWork: read while the run is prepared.
PrepareRun(c, r, w, rev) ==
    /\ calls[c] = Idle /\ runs[r] = NoRun /\ works[w] = "retained"
    /\ approvedRunSource(w, rev)
    /\ calls' = [calls EXCEPT ![c] = [kind |-> "run", run |-> r, work |-> w, revision |-> rev,
          lineage |-> revisionOf(w), admission |-> latest(approvals(w, rev))]]
    /\ Event
    /\ UNCHANGED <<clock, selected, scan, cache, lost, works, lineages, checks, admissions, runs>>

\* prepareTicketExecutionEvent of run.created: read again in the transaction of the event.
stillApprovedUnread(call) == call.lineage = revisionOf(call.work)
stillApproved(call) ==
    /\ approvedRunSource(call.work, call.revision)
    /\ call.lineage = revisionOf(call.work) /\ call.admission = latest(approvals(call.work, call.revision))
CreateRun(c) ==
    LET call == calls[c]
        l == lineageOf(call.work)
        snapshot == [admission |-> call.admission, revision |-> call.revision, lineage |-> call.lineage,
           binding |-> l.binding, ticket |-> l.ticket, at |-> clock] IN
    /\ call.kind = "run"
    /\ IF /\ runs[call.run] = NoRun /\ works[call.work] = "retained"
          /\ settled(call.work, call.run) /\ stillApproved(call)
       THEN runs' = [runs EXCEPT ![call.run] = [work |-> call.work, status |-> "open",
          attempt |-> FALSE, source |-> snapshot]]
       ELSE UNCHANGED runs
    /\ calls' = [calls EXCEPT ![c] = Idle]
    /\ UNCHANGED <<clock, selected, scan, cache, lost, works, lineages, checks, admissions, events>>

\* run.started and run.resumed of an open run, run.retried and run.resumed of a failed one,
\* run.continued of a completed one: the same ownership is asked for and the frozen version stays,
\* whatever the work is bound to by then.
Execute(r) ==
    /\ runs[r].status \in {"open", "failed", "completed"}
    /\ works[runs[r].work] = "retained" /\ settled(runs[r].work, r)
    /\ runs' = [runs EXCEPT ![r].status = "open", ![r].attempt = TRUE]
    /\ Event
    /\ UNCHANGED <<clock, selected, scan, cache, lost, works, lineages, checks, admissions, calls>>

\* A run ends, a failed one by its cancellation; the attempt of a cancelled run may still have to be
\* reconciled.
EndRun(r, status) ==
    /\ runs[r].status = "open" \/ (runs[r].status = "failed" /\ status = "cancelled")
    /\ runs' = [runs EXCEPT ![r].status = status, ![r].attempt = @ /\ status = "cancelled"]
    /\ Event
    /\ UNCHANGED <<clock, selected, scan, cache, lost, works, lineages, checks, admissions, calls>>

SettleAttempt(r) ==
    /\ runs[r] # NoRun /\ runs[r].attempt
    /\ runs' = [runs EXCEPT ![r].attempt = FALSE]
    /\ UNCHANGED <<clock, selected, scan, cache, lost, works, lineages, checks, admissions, calls, events>>

\* work.deleted, the last step of a deletion (module WorkDeletion).
DeleteWork(w) ==
    /\ works[w] = "retained" /\ settled(w, "none")
    /\ works' = [works EXCEPT ![w] = "deleted"]
    /\ Event
    /\ UNCHANGED <<clock, selected, scan, cache, lost, lineages, checks, admissions, runs, calls>>

Tick ==
    /\ clock < MaxTime
    /\ clock' = clock + 1
    /\ Event
    /\ UNCHANGED <<selected, scan, cache, lost, works, lineages, checks, admissions, runs, calls>>

Next ==
    \/ SelectSource \/ ScanStarts \/ ScanCommits \/ ScanDenied \/ Tick
    \/ \E t \in Tickets, rev \in Revisions :
          \/ \E state \in {"available", "missing"} : ScanReads(t, rev, state)
          \/ \E b \in 1..selected : AdmitSourceTicket(b, t, rev) \/ \E w \in Tickets,
                l \in 1..MaxLineage : Rebind(w, l, b, t, rev)
          \/ Approve(t, rev)
          \/ \E c \in Callers : (\E state \in {"available", "missing", "inaccessible"} :
                RefreshSource(c, t, state, rev)) \/ (\E r \in Runs : PrepareRun(c, r, t, rev))
    \/ \E c \in Callers : RecordSourceCheck(c) \/ CreateRun(c)
    \/ \E r \in Runs : Execute(r) \/ SettleAttempt(r) \/
          (\E status \in {"failed", "completed", "cancelled"} : EndRun(r, status))
    \/ \E w \in Tickets : DeleteWork(w)

Spec == Init /\ [][Next]_vars

-----------------------------------------------------------------------------
Holds(r) == runs[r] # NoRun /\ (runs[r].status = "open" \/ runs[r].attempt)
HasMoved(r) == runs[r].source.lineage < revisionOf(runs[r].work)
\* No two runs work on one source ticket at a time, an attempt that outlives its cancelled run
\* included, although work may be rebound to another ticket and runs may be retried; the exception is
\* a completed run that is continued after its work has moved to another ticket.  Work that is deleted
\* has no run at work, even if one was prepared before the deletion.
OneExecution ==
    /\ \A r, q \in Runs : r # q /\ Holds(r) /\ Holds(q) =>
          /\ runs[r].work # runs[q].work
          /\ runs[r].source.ticket = runs[q].source.ticket => HasMoved(r) \/ HasMoved(q)
    /\ \A r \in Runs : Holds(r) => works[runs[r].work] = "retained"

\* RunSourceSnapshot: what a run froze can be verified ever after, against its exact approval and the
\* lineage the work had, whatever the work is bound to now.
SnapshotVerifies ==
    \A r \in Runs : runs[r] # NoRun =>
        LET s == runs[r].source
            a == admissions[s.admission]
            l == lineages[runs[r].work][s.lineage] IN
        /\ a.work = runs[r].work /\ a.ticket = s.ticket /\ a.revision = s.revision
        /\ a.lineage = s.lineage /\ a.binding = s.binding /\ a.at <= s.at
        /\ l = [ticket |-> s.ticket, binding |-> s.binding]

\* A run is created from the version that is current, accessible and recently checked when its event
\* is written, not when it was prepared.
CreatedFromCurrent ==
    [][\A r \in Runs : runs[r] = NoRun /\ runs'[r] # NoRun =>
          LET w == runs'[r].work IN
          fit(runs'[r].source.ticket, currentOf(w)) /\ currentOf(w).revision = runs'[r].source.revision]_vars

\* While work stays bound to a ticket, what is known of the ticket is never replaced by something
\* checked earlier, whichever of a scan and two exact checks is recorded last.
NewestIsKept ==
    [][\A w \in Tickets : lineages[w] # <<>> /\ lineages'[w] = lineages[w] /\ currentOf(w) # None =>
          (currentOf(w)').checked >= currentOf(w).checked]_vars

-----------------------------------------------------------------------------
(* The inductive invariant: a lineage only grows, an approval is of a ticket  *)
(* the work was bound to, and a run at work is alone at work that is retained. *)

\* Times, bindings and lineages are counted from one, and no run has the name of none.
BoundsKnown ==
    MaxTime \in Nat \ {0} /\ MaxBinding \in Nat \ {0} /\ MaxLineage \in Nat \ {0} /\
       MaxEvents \in Nat /\ "none" \notin Runs

Lineages == [ticket : Tickets, binding : 1..MaxBinding]
Known == [revision : Revisions, state : {"available", "missing", "inaccessible"}, checked : 1..MaxTime]
Scans == [binding : 1..MaxBinding, ticket : Tickets, row : Known]
Checks == [kind : {"check"}, work : Tickets, lineage : 1..MaxLineage, row : Known]
Preparations == [kind : {"run"}, run : Runs, work : Tickets, revision : Revisions, lineage :
     1..MaxLineage, admission : Nat]
Admissions == [work : Tickets, lineage : 1..MaxLineage, binding : 1..MaxBinding, ticket : Tickets,
     revision : Revisions, at : 1..MaxTime]
Snapshots == [admission : Nat, revision : Revisions, lineage : 1..MaxLineage, binding : 1..MaxBinding,
     ticket : Tickets, at : 1..MaxTime]
SourceRuns == [work : Tickets, status : {"open", "failed", "completed", "cancelled"}, attempt : BOOLEAN,
     source : Snapshots]

SourceTypes ==
    /\ clock \in 1..MaxTime /\ selected \in 1..MaxBinding /\ events \in 0..MaxEvents
    /\ scan \in {None} \cup Scans
    /\ cache \in [1..MaxBinding -> [Tickets -> Rows]] /\ lost \in [1..MaxBinding -> 0..MaxTime]
    /\ works \in [Tickets -> {"absent", "retained", "deleted"}]
    /\ lineages \in [Tickets -> Seq(Lineages)]
    /\ checks \in [Tickets -> [1..MaxLineage -> Rows]]
    /\ admissions \in Seq(Admissions)
    /\ runs \in [Runs -> {NoRun} \cup SourceRuns]
    /\ calls \in [Callers -> {Idle} \cup Checks \cup Preparations]

\* A page was read after what is cached of its ticket.
ScanFits ==
    /\ scan # None => scan.row.checked <= clock
    /\ \A b \in 1..MaxBinding, t \in Tickets :
          cache[b][t] # None => /\ cache[b][t].checked <= clock
                                /\ scan # None /\ scan.binding = b => cache[b][t].checked <= scan.row.checked

BoundOnce ==
    \A w, v \in Tickets : w # v /\ lineages[w] # <<>> /\ lineages[v] # <<>> =>
       lineageOf(w).ticket # lineageOf(v).ticket
LineagesFit ==
    /\ \A w \in Tickets : Len(lineages[w]) <= MaxLineage /\ (works[w] = "absent" => lineages[w] = <<>>)
    /\ BoundOnce

Approved(a) ==
    /\ a.lineage \in 1..Len(lineages[a.work]) /\ lineages[a.work][a.lineage] = [ticket |-> a.ticket,
          binding |-> a.binding]
    /\ a.at <= clock
AdmissionsFit == \A i \in 1..Len(admissions) : Approved(admissions[i])

Frozen(x) ==
    LET s == x.source  a == admissions[s.admission] IN
    /\ s.admission \in 1..Len(admissions) /\ s.lineage \in 1..Len(lineages[x.work])
    /\ a.work = x.work /\ a.ticket = s.ticket /\ a.revision = s.revision
    /\ a.lineage = s.lineage /\ a.binding = s.binding /\ a.at <= s.at
    /\ lineages[x.work][s.lineage] = [ticket |-> s.ticket, binding |-> s.binding]
RunsFit ==
    /\ \A r \in Runs : runs[r] # NoRun => Frozen(runs[r])
    /\ \A r, q \in Runs : r # q /\ Holds(r) /\ Holds(q) => runs[r].work # runs[q].work
    /\ \A r \in Runs : Holds(r) => works[runs[r].work] = "retained"

TicketInv == SourceTypes /\ ScanFits /\ LineagesFit /\ AdmissionsFit /\ RunsFit

-----------------------------------------------------------------------------
(* Proofs.                                                                  *)

\* A non-empty set of naturals has a smallest element.
LEMMA LeastOf ==
    ASSUME NEW T, T \subseteq Nat, T # {} PROVE \E x \in T : \A y \in T : x <= y
  <1> DEFINE Less == {ss \in Nat \X Nat : ss[1] < ss[2]}
  <1>1. IsWellFoundedOn(Less, Nat)
    BY NatLessThanWellFounded DEF OpToRel
  <1>2. \E x \in T : \A y \in T : ~(<<y, x>> \in Less)
    <2> HIDE DEF Less
    <2> QED
      BY <1>1, WFMin
  <1>3. PICK x \in T : \A y \in T : ~(<<y, x>> \in Less)
    BY <1>2
  <1>4. ASSUME NEW y \in T PROVE x <= y
    <2>1. x \in Nat /\ y \in Nat
      OBVIOUS
    <2>2. y < x => <<y, x>> \in Less
      BY <2>1
    <2>3. ~(y < x)
      <3> HIDE DEF Less
      <3> QED
        BY <1>3, <2>2
    <2> QED
      BY <2>1, <2>3
  <1> QED
    BY <1>4

\* None, a row that is known, and the outcomes of a read are told apart.
LEMMA KnownRows ==
    /\ Rows = {None} \cup Known /\ None \notin Known
    /\ \A x \in Known : x.checked \in 1..MaxTime /\ x.revision \in Revisions
    /\ \A x \in Known, y \in {"available", "missing", "inaccessible"} :
          [x EXCEPT !.state = y] \in Known /\ [x EXCEPT !.state = y].checked = x.checked
    /\ None \notin Scans
  BY DEF Rows, Known, None, Scans

\* A row that is read now.
LEMMA RowRead ==
    ASSUME NEW rev \in Revisions, NEW s \in {"available", "missing", "inaccessible"}, NEW t \in 1..MaxTime
    PROVE  Row(rev, s, t) \in Known /\ Row(rev, s, t).checked = t
  BY DEF Row, Known

\* What currentSource answers is as new as the row and as the check.
LEMMA CurrentIsNewest ==
    ASSUME NEW row \in Rows, NEW check \in Rows, NEW k,
           row = None => k = check,
           row # None => k = newest(row, check) \/ k = [newest(row, check) EXCEPT !.state = "inaccessible"]
    PROVE  /\ k \in Rows /\ (k # None <=> row # None \/ check # None)
           /\ row # None => k.checked >= row.checked
           /\ check # None => k.checked >= check.checked
           /\ k # None => (row # None /\ k.checked = row.checked) \/ (check # None /\ k.checked = check.checked)
  <1> DEFINE n == newest(row, check)
  <1>1. \A x \in Rows : x # None => x.checked \in Int
    BY KnownRows
  <1>2. CASE row = None
    BY <1>1, <1>2
  <1>3. CASE row # None
    <2>1. n \in Rows /\ n # None
      BY <1>3 DEF newest
    <2>2. n.checked >= row.checked /\ (check # None => n.checked >= check.checked)
          /\ (n.checked = row.checked \/ (check # None /\ n.checked = check.checked))
      BY <1>1, <1>3 DEF newest
    <2>3. k \in Rows /\ k # None /\ k.checked = n.checked
      <3>1. k = n \/ k = [n EXCEPT !.state = "inaccessible"]
        BY <1>3
      <3> HIDE DEF n
      <3>2. n \in Known
        BY <2>1, KnownRows
      <3>3. CASE k = n
        BY <2>1, <3>3
      <3>4. CASE k = [n EXCEPT !.state = "inaccessible"]
        <4>1. [n EXCEPT !.state = "inaccessible"] \in Known /\
                 [n EXCEPT !.state = "inaccessible"].checked = n.checked
          BY <3>2 DEF Known
        <4> QED
          BY <3>4, <4>1, KnownRows
      <3> QED
        BY <3>1, <3>3, <3>4
    <2> QED
      BY <1>3, <2>2, <2>3
  <1> QED
    BY <1>2, <1>3

\* What is known of the ticket a work item is bound to.
LEMMA CurrentKnown ==
    ASSUME BoundsKnown, SourceTypes, LineagesFit, NEW w \in Tickets, lineages[w] # <<>>
    PROVE  /\ revisionOf(w) \in 1..MaxLineage /\ lineageOf(w) \in Lineages
           /\ LET row == cache[lineageOf(w).binding][lineageOf(w).ticket]
                  check == checks[w][revisionOf(w)]
                  k == currentOf(w)
              IN /\ row \in Rows /\ check \in Rows /\ k \in Rows
                 /\ k # None <=> row # None \/ check # None
                 /\ row # None => k.checked >= row.checked
                 /\ check # None => k.checked >= check.checked
                 /\ k # None => (row # None /\ k.checked = row.checked) \/
                       (check # None /\ k.checked = check.checked)
  <1>1. lineages[w] \in Seq(Lineages) /\ Len(lineages[w]) <= MaxLineage /\ MaxLineage \in Nat
    BY DEF SourceTypes, LineagesFit, BoundsKnown
  <1>2. revisionOf(w) \in 1..MaxLineage /\ revisionOf(w) \in 1..Len(lineages[w])
    BY <1>1 DEF revisionOf
  <1>3. lineageOf(w) \in Lineages
    BY <1>1, <1>2 DEF lineageOf
  <1>4. lineageOf(w).binding \in 1..MaxBinding /\ lineageOf(w).ticket \in Tickets
    BY <1>3 DEF Lineages
  <1> DEFINE l == lineageOf(w)
             row == cache[l.binding][l.ticket]
             check == checks[w][revisionOf(w)]
  <1>5. row \in Rows /\ check \in Rows
    BY <1>2, <1>4 DEF SourceTypes
  <1>6. /\ row = None => currentOf(w) = check
        /\ row # None => currentOf(w) = newest(row, check) \/
              currentOf(w) = [newest(row, check) EXCEPT !.state = "inaccessible"]
    BY DEF currentOf, currentSource, hidden
  <1> HIDE DEF row, check, l
  <1>7. LET k == currentOf(w)
        IN /\ k \in Rows /\ (k # None <=> row # None \/ check # None)
           /\ row # None => k.checked >= row.checked
           /\ check # None => k.checked >= check.checked
           /\ k # None => (row # None /\ k.checked = row.checked) \/ (check # None /\ k.checked = check.checked)
    BY <1>5, <1>6, CurrentIsNewest
  <1> QED
    BY <1>2, <1>3, <1>5, <1>7 DEF row, check, l

\* Nothing that runs and approvals are about changes, and the clock goes on.
LEMMA BindingsStand ==
    ASSUME TicketInv, clock' \in 1..MaxTime, clock <= clock', UNCHANGED <<lineages, admissions, runs, works>>
    PROVE  LineagesFit' /\ AdmissionsFit' /\ RunsFit'
  <1>1. LineagesFit'
    BY DEF TicketInv, LineagesFit, BoundOnce, lineageOf, revisionOf
  <1>2. AdmissionsFit'
    <2> SUFFICES ASSUME NEW i \in 1..Len(admissions) PROVE Approved(admissions[i])'
      BY DEF AdmissionsFit
    <2>1. Approved(admissions[i]) /\ admissions[i] \in Admissions /\ clock \in Int
      BY DEF TicketInv, AdmissionsFit, SourceTypes
    <2>2. admissions[i].at \in Int
      BY <2>1 DEF Admissions
    <2> QED
      BY <2>1, <2>2 DEF Approved
  <1>3. RunsFit'
    BY DEF TicketInv, RunsFit, Frozen, Holds
  <1> QED
    BY <1>1, <1>2, <1>3

\* Pages and rows stand, and the clock goes on.
LEMMA ScanStands ==
    ASSUME TicketInv, clock' \in 1..MaxTime, clock <= clock', UNCHANGED <<scan, cache>>
    PROVE  ScanFits'
  <1>1. ASSUME NEW b \in 1..MaxBinding, NEW t \in Tickets, cache[b][t] # None
        PROVE  cache[b][t].checked <= clock'
    <2>1. cache[b][t] \in Known /\ clock \in Int
      BY <1>1, KnownRows DEF TicketInv, SourceTypes
    <2> QED
      BY <1>1, <2>1, KnownRows DEF TicketInv, ScanFits
  <1>2. scan # None => scan.row.checked <= clock'
    <2> SUFFICES ASSUME scan # None PROVE scan.row.checked <= clock'
      OBVIOUS
    <2>1. scan.row \in Known /\ clock \in Int
      BY DEF TicketInv, SourceTypes, Scans
    <2> QED
      BY <2>1, KnownRows DEF TicketInv, ScanFits
  <1> QED
    BY <1>1, <1>2 DEF TicketInv, ScanFits

\* An event is counted.
LEMMA EventCounted ==
    ASSUME BoundsKnown, SourceTypes, Event PROVE events' \in 0..MaxEvents
  BY DEF BoundsKnown, SourceTypes, Event

\* SelectBacklogSource, and the clock.
LEMMA SelectStep ==
    ASSUME BoundsKnown, TicketInv, SelectSource \/ Tick PROVE TicketInv'
  <1>0. events' \in 0..MaxEvents
    BY EventCounted DEF SelectSource, Tick, TicketInv
  <1>1. /\ clock' \in 1..MaxTime /\ clock <= clock' /\ selected' \in 1..MaxBinding
        /\ UNCHANGED <<scan, cache, lost, works, lineages, checks, admissions, runs, calls>>
    BY DEF SelectSource, Tick, BoundsKnown, TicketInv, SourceTypes
  <1>2. SourceTypes'
    BY <1>0, <1>1 DEF TicketInv, SourceTypes
  <1> QED
    BY <1>1, <1>2, BindingsStand, ScanStands DEF TicketInv

\* A page is read at the time of the clock.
LEMMA ScanReadsStep ==
    ASSUME BoundsKnown, TicketInv, NEW t \in Tickets, NEW rev \in Revisions, NEW s \in {"available", "missing"},
           ScanReads(t, rev, s)
    PROVE  TicketInv'
  <1> DEFINE row == Row(rev, s, clock)
  <1>1. /\ scan' = [binding |-> selected, ticket |-> t, row |-> row] /\ events' \in 0..MaxEvents
        /\ UNCHANGED <<clock, selected, cache, lost, works, lineages, checks, admissions, runs, calls>>
    BY EventCounted DEF ScanReads, TicketInv
  <1>2. clock \in 1..MaxTime /\ selected \in 1..MaxBinding /\ clock \in Int
    BY DEF TicketInv, SourceTypes
  <1>3. row \in Known /\ row.checked = clock
    BY <1>2, RowRead
  <1> HIDE DEF row
  <1>4. scan' \in Scans /\ scan'.row = row
    BY <1>1, <1>2, <1>3 DEF Scans
  <1>5. SourceTypes'
    BY <1>1, <1>4 DEF TicketInv, SourceTypes
  <1>6. ScanFits'
    BY <1>1, <1>2, <1>3, <1>4 DEF TicketInv, ScanFits
  <1> QED
    BY <1>1, <1>2, <1>5, <1>6, BindingsStand DEF TicketInv

\* A page of the selected source is committed: it is newer than what it replaces.
LEMMA ScanCommitsStep ==
    ASSUME BoundsKnown, TicketInv, ScanCommits PROVE TicketInv'
  <1>1. /\ scan # None /\ scan \in Scans /\ scan.ticket \in Tickets /\ scan.row \in Known /\ scan.row # None
        /\ scan' = None /\ UNCHANGED <<clock, selected, works, lineages, checks, admissions, runs,
              calls, events>>
        /\ clock \in 1..MaxTime /\ clock \in Int /\ selected \in 1..MaxBinding
    <2>1. scan # None /\ scan' = None /\ UNCHANGED <<clock, selected, works, lineages, checks,
             admissions, runs, calls, events>>
      BY DEF ScanCommits
    <2>2. scan \in {None} \cup Scans /\ clock \in 1..MaxTime /\ clock \in Int /\ selected \in 1..MaxBinding
      BY DEF TicketInv, SourceTypes
    <2>3. scan \in Scans
      BY <2>1, <2>2
    <2>4. scan.ticket \in Tickets /\ scan.row \in Known
      BY <2>3 DEF Scans
    <2> QED
      BY <2>1, <2>2, <2>3, <2>4, KnownRows
  <1>2. CASE scan.binding # selected
    <2>1. UNCHANGED <<cache, lost>>
      BY <1>2 DEF ScanCommits
    <2> QED
      BY <1>1, <2>1, BindingsStand DEF TicketInv, SourceTypes, ScanFits
  <1>3. CASE scan.binding = selected
    <2>1. /\ cache' = [cache EXCEPT ![selected] = [cache[selected] EXCEPT ![scan.ticket] = scan.row]]
          /\ lost' = lost
      BY <1>3 DEF ScanCommits
    <2>2. [cache[selected] EXCEPT ![scan.ticket] = scan.row] \in [Tickets -> Rows]
      BY <1>1, KnownRows DEF TicketInv, SourceTypes
    <2>3. cache' \in [1..MaxBinding -> [Tickets -> Rows]] /\ lost' \in [1..MaxBinding -> 0..MaxTime]
      BY <1>1, <2>1, <2>2 DEF TicketInv, SourceTypes, BoundsKnown
    <2>4. \A b \in 1..MaxBinding, t \in Tickets :
             cache'[b][t] = IF b = selected /\ t = scan.ticket THEN scan.row ELSE cache[b][t]
      BY <1>1, <2>1 DEF TicketInv, SourceTypes
    <2>5. SourceTypes'
      BY <1>1, <2>3 DEF TicketInv, SourceTypes
    <2>6. ScanFits'
      BY <1>1, <2>4 DEF TicketInv, ScanFits
    <2> QED
      BY <1>1, <2>5, <2>6, BindingsStand DEF TicketInv
  <1> QED
    BY <1>2, <1>3

\* A refresh is denied.
LEMMA ScanDeniedStep ==
    ASSUME BoundsKnown, TicketInv, ScanDenied PROVE TicketInv'
  <1>1. /\ lost' = [lost EXCEPT ![selected] = clock] /\ events' \in 0..MaxEvents
        /\ UNCHANGED <<clock, selected, scan, cache, works, lineages, checks, admissions, runs, calls>>
    BY EventCounted DEF ScanDenied, TicketInv
  <1>2. clock \in 1..MaxTime /\ clock \in 0..MaxTime /\ clock <= clock
    BY DEF TicketInv, SourceTypes
  <1>3. SourceTypes'
    BY <1>1, <1>2 DEF TicketInv, SourceTypes
  <1> QED
    BY <1>1, <1>2, <1>3, BindingsStand, ScanStands DEF TicketInv

\* A refresh forgets that the last one was denied.
LEMMA ScanStartsStep ==
    ASSUME BoundsKnown, TicketInv, ScanStarts PROVE TicketInv'
  <1>1. /\ lost' = [lost EXCEPT ![selected] = 0]
        /\ UNCHANGED <<clock, selected, scan, cache, works, lineages, checks, admissions, runs, calls, events>>
    BY DEF ScanStarts
  <1>2. clock \in 1..MaxTime /\ 0 \in 0..MaxTime /\ clock <= clock
    BY DEF TicketInv, SourceTypes, BoundsKnown
  <1>3. SourceTypes'
    BY <1>1, <1>2 DEF TicketInv, SourceTypes
  <1> QED
    BY <1>1, <1>2, <1>3, BindingsStand, ScanStands DEF TicketInv

\* A step of a caller that has its answer, or its check, and leaves the rest alone.
LEMMA CallStep ==
    ASSUME BoundsKnown, TicketInv, NEW c \in Callers, NEW x \in {Idle} \cup Checks \cup Preparations,
           calls' = [calls EXCEPT ![c] = x], events' \in 0..MaxEvents,
           checks' \in [Tickets -> [1..MaxLineage -> Rows]],
           UNCHANGED <<clock, selected, scan, cache, lost, works, lineages, admissions, runs>>
    PROVE  TicketInv'
  <1>1. clock \in 1..MaxTime /\ clock <= clock
    BY DEF TicketInv, SourceTypes
  <1>2. SourceTypes'
    BY DEF TicketInv, SourceTypes
  <1> QED
    BY <1>1, <1>2, BindingsStand, ScanStands DEF TicketInv

\* RefreshSource: what was read waits to be recorded.
LEMMA RefreshStep ==
    ASSUME BoundsKnown, TicketInv, NEW c \in Callers, NEW w \in Tickets, NEW rev \in Revisions,
           NEW s \in {"available", "missing", "inaccessible"}, RefreshSource(c, w, s, rev)
    PROVE  TicketInv'
  <1> DEFINE row == Row(rev, s, clock)
             x == [kind |-> "check", work |-> w, lineage |-> revisionOf(w), row |-> row]
  <1>1. /\ calls' = [calls EXCEPT ![c] = x] /\ lineages[w] # <<>> /\ events' \in 0..MaxEvents
        /\ UNCHANGED <<clock, selected, scan, cache, lost, works, lineages, checks, admissions, runs>>
    BY EventCounted DEF RefreshSource, TicketInv
  <1>2. row \in Known
    BY RowRead DEF TicketInv, SourceTypes
  <1>3. revisionOf(w) \in 1..MaxLineage
    BY <1>1, CurrentKnown DEF TicketInv
  <1> HIDE DEF row
  <1>4. x \in Checks
    BY <1>2, <1>3 DEF Checks
  <1>5. checks' \in [Tickets -> [1..MaxLineage -> Rows]]
    BY <1>1 DEF TicketInv, SourceTypes
  <1> HIDE DEF x
  <1>6. x \in {Idle} \cup Checks \cup Preparations
    BY <1>4
  <1> QED
    BY <1>1, <1>5, <1>6, CallStep

\* RecordSourceCheck.
LEMMA RecordStep ==
    ASSUME BoundsKnown, TicketInv, NEW c \in Callers, RecordSourceCheck(c) PROVE TicketInv'
  <1> DEFINE x == calls[c]
  <1>1. x \in Checks
    <2>1. x \in {Idle} \cup Checks \cup Preparations /\ x.kind = "check"
      BY DEF RecordSourceCheck, TicketInv, SourceTypes
    <2> HIDE DEF x
    <2> QED
      BY <2>1 DEF Preparations, Idle
  <1>2. x.work \in Tickets /\ x.lineage \in 1..MaxLineage /\ x.row \in Rows
    BY <1>1, KnownRows DEF Checks
  <1>3. \/ checks' = checks
        \/ checks' = [checks EXCEPT ![x.work] = [checks[x.work] EXCEPT ![x.lineage] = x.row]]
    BY DEF RecordSourceCheck
  <1>4. checks' \in [Tickets -> [1..MaxLineage -> Rows]]
    <2>1. checks \in [Tickets -> [1..MaxLineage -> Rows]]
      BY DEF TicketInv, SourceTypes
    <2>2. [checks[x.work] EXCEPT ![x.lineage] = x.row] \in [1..MaxLineage -> Rows]
      BY <1>2, <2>1
    <2> HIDE DEF x
    <2> QED
      BY <1>2, <1>3, <2>1, <2>2
  <1>5. /\ calls' = [calls EXCEPT ![c] = Idle] /\ events' \in 0..MaxEvents
        /\ UNCHANGED <<clock, selected, scan, cache, lost, works, lineages, admissions, runs>>
    BY DEF RecordSourceCheck, TicketInv, SourceTypes
  <1> QED
    BY <1>4, <1>5, CallStep

\* The latest of some approvals is one of them.
LEMMA LatestOf ==
    ASSUME NEW n \in Nat, NEW S, S \subseteq 1..n, S # {} PROVE latest(S) \in S
  <1> DEFINE T == {n - i : i \in S}
  <1>1. T \subseteq Nat /\ T # {}
    <2>1. \A i \in S : n - i \in Nat
      <3> SUFFICES ASSUME NEW i \in S PROVE n - i \in Nat
        OBVIOUS
      <3>1. i \in 1..n
        OBVIOUS
      <3> QED
        BY <3>1
    <2>2. PICK i : i \in S
      OBVIOUS
    <2>3. n - i \in T
      BY <2>2
    <2> QED
      BY <2>1, <2>3
  <1>2. \E x \in T : \A y \in T : x <= y
    <2> HIDE DEF T
    <2> QED
      BY <1>1, LeastOf
  <1>3. PICK i \in S : \A y \in T : n - i <= y
    BY <1>2
  <1>4. \A j \in S : j <= i
    BY <1>3
  <1> QED
    BY <1>4 DEF latest

\* The approvals of a version are among those recorded.
LEMMA ApprovalsOf ==
    ASSUME TicketInv, NEW w \in Tickets, NEW rev, approvals(w, rev) # {}
    PROVE  /\ latest(approvals(w, rev)) \in 1..Len(admissions)
           /\ LET a == admissions[latest(approvals(w, rev))]
              IN /\ a \in Admissions /\ a.work = w /\ a.lineage = revisionOf(w)
                 /\ a.revision = rev /\ a.ticket = lineageOf(w).ticket
  <1>1. admissions \in Seq(Admissions)
    BY DEF TicketInv, SourceTypes
  <1>2. Len(admissions) \in Nat /\ DOMAIN admissions = 1..Len(admissions)
    BY <1>1
  <1>3. approvals(w, rev) \subseteq 1..Len(admissions)
    BY <1>2 DEF approvals
  <1>4. latest(approvals(w, rev)) \in approvals(w, rev)
    BY <1>2, <1>3, LatestOf
  <1>5. latest(approvals(w, rev)) \in 1..Len(admissions)
    BY <1>3, <1>4
  <1>6. admissions[latest(approvals(w, rev))] \in Admissions
    BY <1>1, <1>5
  <1> QED
    BY <1>4, <1>5, <1>6 DEF approvals

\* A run is prepared: what it will freeze was read.
LEMMA PrepareStep ==
    ASSUME BoundsKnown, TicketInv, NEW c \in Callers, NEW r \in Runs, NEW w \in Tickets, NEW rev \in Revisions,
           PrepareRun(c, r, w, rev)
    PROVE  TicketInv'
  <1> DEFINE i == latest(approvals(w, rev))
             x == [kind |-> "run", run |-> r, work |-> w, revision |-> rev, lineage |-> revisionOf(w),
                admission |-> i]
  <1>1. /\ calls' = [calls EXCEPT ![c] = x] /\ lineages[w] # <<>> /\ approvals(w, rev) # {} /\
              events' \in 0..MaxEvents
        /\ UNCHANGED <<clock, selected, scan, cache, lost, works, lineages, checks, admissions, runs>>
    BY EventCounted DEF PrepareRun, approvedRunSource, TicketInv
  <1>2. i \in Nat
    BY <1>1, ApprovalsOf
  <1>3. revisionOf(w) \in 1..MaxLineage
    BY <1>1, CurrentKnown DEF TicketInv
  <1> HIDE DEF i
  <1>4. x \in Preparations
    BY <1>2, <1>3 DEF Preparations
  <1>5. checks' \in [Tickets -> [1..MaxLineage -> Rows]]
    BY <1>1 DEF TicketInv, SourceTypes
  <1> HIDE DEF x
  <1> QED
    BY <1>1, <1>4, <1>5, CallStep

\* An approval is recorded: the lineage of its work, which is retained, grows or stands.
LEMMA ApprovalIn ==
    ASSUME BoundsKnown, TicketInv, NEW w \in Tickets, NEW s \in Seq(Lineages), NEW a \in Admissions,
           lineages' = [lineages EXCEPT ![w] = s], s # <<>>, Len(s) <= MaxLineage,
           Len(lineages[w]) <= Len(s), \A i \in 1..Len(lineages[w]) : s[i] = lineages[w][i],
           admissions' = Append(admissions, a), a.work = w, a.lineage = Len(s), a.at = clock,
           s[Len(s)] = [ticket |-> a.ticket, binding |-> a.binding],
           \A v \in Tickets \ {w} : lineages[v] # <<>> => lineageOf(v).ticket # a.ticket,
           works' \in [Tickets -> {"absent", "retained", "deleted"}], works'[w] = "retained",
           \A v \in Tickets \ {w} : works'[v] = works[v],
           events' \in 0..MaxEvents,
           UNCHANGED <<clock, selected, scan, cache, lost, checks, runs, calls>>
    PROVE  TicketInv'
  <1>1. /\ lineages \in [Tickets -> Seq(Lineages)] /\ admissions \in Seq(Admissions)
        /\ clock \in 1..MaxTime /\ clock \in Int /\ clock <= clock
    BY DEF TicketInv, SourceTypes
  <1>2. /\ lineages' \in [Tickets -> Seq(Lineages)] /\ lineages'[w] = s
        /\ \A v \in Tickets \ {w} : lineages'[v] = lineages[v]
    BY <1>1
  <1>3. /\ admissions' \in Seq(Admissions) /\ Len(admissions) \in Nat /\ Len(admissions') = Len(admissions) + 1
        /\ admissions'[Len(admissions) + 1] = a /\ \A i \in 1..Len(admissions) : admissions'[i] = admissions[i]
    BY <1>1
  <1>4. SourceTypes'
    BY <1>2, <1>3 DEF TicketInv, SourceTypes
  <1>5. ScanFits'
    BY <1>1, ScanStands
  <1>6. \A v \in Tickets : /\ Len(lineages[v]) \in Nat /\ Len(lineages'[v]) \in Nat /\
                               Len(lineages[v]) <= Len(lineages'[v])
                            /\ \A i \in 1..Len(lineages[v]) : lineages'[v][i] = lineages[v][i]
    <2> SUFFICES ASSUME NEW v \in Tickets
                 PROVE  /\ Len(lineages[v]) \in Nat /\ Len(lineages'[v]) \in Nat /\
                            Len(lineages[v]) <= Len(lineages'[v])
                        /\ \A i \in 1..Len(lineages[v]) : lineages'[v][i] = lineages[v][i]
      OBVIOUS
    <2>1. lineages[v] \in Seq(Lineages) /\ lineages'[v] \in Seq(Lineages)
      BY <1>1, <1>2
    <2>2. Len(lineages[v]) \in Nat /\ Len(lineages'[v]) \in Nat
      BY <2>1
    <2>3. CASE v = w
      BY <1>2, <2>2, <2>3
    <2>4. CASE v # w
      <3>1. lineages'[v] = lineages[v]
        BY <1>2, <2>4
      <3> QED
        BY <2>2, <3>1
    <2> QED
      BY <2>3, <2>4
  <1>7. LineagesFit'
    <2>1. ASSUME NEW v \in Tickets PROVE Len(lineages'[v]) <= MaxLineage /\
                 (works'[v] = "absent" => lineages'[v] = <<>>)
      BY <1>2 DEF TicketInv, LineagesFit
    <2>2. \A v \in Tickets \ {w} : lineages[v] # <<>> => lineageOf(v)' = lineageOf(v)
      BY <1>2 DEF lineageOf, revisionOf
    <2>3. lineageOf(w)' = [ticket |-> a.ticket, binding |-> a.binding]
      BY <1>2 DEF lineageOf, revisionOf
    <2>4. lineageOf(w)'.ticket = a.ticket
      BY <2>3
    <2>5. ASSUME NEW v \in Tickets, NEW u \in Tickets, v # u, lineages'[v] # <<>>, lineages'[u] # <<>>
          PROVE  lineageOf(v)'.ticket # lineageOf(u)'.ticket
      <3>1. CASE v = w
        BY <1>2, <2>2, <2>4, <2>5, <3>1
      <3>2. CASE u = w
        BY <1>2, <2>2, <2>4, <2>5, <3>2
      <3>3. CASE v # w /\ u # w
        BY <1>2, <2>2, <2>5, <3>3 DEF TicketInv, LineagesFit, BoundOnce
      <3> QED
        BY <3>1, <3>2, <3>3
    <2> QED
      BY <2>1, <2>5 DEF LineagesFit, BoundOnce
  <1>8. AdmissionsFit'
    <2> SUFFICES ASSUME NEW i \in 1..(Len(admissions) + 1) PROVE Approved(admissions[i])'
      BY <1>3 DEF AdmissionsFit
    <2>1. CASE i = Len(admissions) + 1
      <3>1. Len(s) \in 1..Len(s)
        BY <1>2, <1>6
      <3> QED
        BY <1>1, <1>2, <1>3, <2>1, <3>1 DEF Approved
    <2>2. CASE i \in 1..Len(admissions)
      <3>1. Approved(admissions[i]) /\ admissions[i] \in Admissions /\ admissions'[i] = admissions[i]
        BY <1>1, <1>3, <2>2 DEF TicketInv, AdmissionsFit
      <3>2. admissions[i].work \in Tickets
        BY <3>1 DEF Admissions
      <3> QED
        BY <1>6, <3>1, <3>2 DEF Approved
    <2> QED
      BY <1>3, <2>1, <2>2
  <1>9. RunsFit'
    <2>1. ASSUME NEW r \in Runs, runs[r] # NoRun PROVE Frozen(runs[r])'
      <3> DEFINE x == runs[r]
                 j == x.source.admission
      <3>1. Frozen(x) /\ x \in SourceRuns
        BY <2>1 DEF TicketInv, RunsFit, SourceTypes
      <3>2. x.work \in Tickets
        BY <3>1 DEF SourceRuns
      <3>3. j \in 1..Len(admissions) /\ x.source.lineage \in 1..Len(lineages[x.work])
        BY <3>1 DEF Frozen
      <3>4. j \in 1..Len(admissions') /\ admissions'[j] = admissions[j]
        BY <1>3, <3>3
      <3>5. /\ x.source.lineage \in 1..Len(lineages'[x.work])
            /\ lineages'[x.work][x.source.lineage] = lineages[x.work][x.source.lineage]
        BY <1>6, <3>2, <3>3
      <3> HIDE DEF x, j
      <3>6. x' = x
        BY DEF x
      <3> QED
        BY <3>1, <3>4, <3>5, <3>6 DEF Frozen, j, x
    <2>2. ASSUME NEW r \in Runs, Holds(r) PROVE works'[runs[r].work] = "retained"
      <3>1. works[runs[r].work] = "retained" /\ runs[r].work \in Tickets
        BY <2>2 DEF TicketInv, RunsFit, SourceTypes, SourceRuns, Holds
      <3> QED
        BY <3>1
    <2> QED
      BY <2>1, <2>2 DEF TicketInv, RunsFit, Holds
  <1> QED
    BY <1>4, <1>5, <1>7, <1>8, <1>9 DEF TicketInv


\* AdmitSourceTicket: the work that has the ticket, or new work.
LEMMA AdmitStep ==
    ASSUME BoundsKnown, TicketInv, NEW b \in 1..MaxBinding, NEW t \in Tickets, NEW rev \in Revisions,
           AdmitSourceTicket(b, t, rev)
    PROVE  TicketInv'
  <1> DEFINE owners == {u \in Tickets : lineages[u] # <<>> /\ lineageOf(u).ticket = t}
  <1>1. PICK w : w = IF owners = {} THEN t ELSE CHOOSE x \in owners : TRUE
    OBVIOUS
  <1>2. w \in Tickets /\ (owners # {} => w \in owners)
    BY <1>1
  <1> DEFINE l == [ticket |-> t, binding |-> b]
  <1>3. /\ lineages[w] # <<>> => lineageOf(w) = l
        /\ works' = [works EXCEPT ![w] = "retained"]
        /\ lineages' = IF lineages[w] = <<>> THEN [lineages EXCEPT ![w] = <<l>>] ELSE lineages
        /\ admissions' = Append(admissions, [work |-> w, lineage |-> Len(lineages'[w]), binding |-> b,
              ticket |-> t, revision |-> rev, at |-> clock])
        /\ UNCHANGED <<clock, selected, scan, cache, lost, checks, runs, calls>>
    BY <1>1 DEF AdmitSourceTicket, insertAdmission
  <1>4. events' \in 0..MaxEvents
    BY EventCounted DEF AdmitSourceTicket, TicketInv
  <1>5. \A v \in Tickets \ {w} : lineages[v] # <<>> => lineageOf(v).ticket # t
    <2> SUFFICES ASSUME NEW v \in Tickets \ {w}, lineages[v] # <<>>, lineageOf(v).ticket = t PROVE FALSE
      OBVIOUS
    <2>1. w \in owners
      BY <1>2
    <2> QED
      BY <2>1 DEF TicketInv, LineagesFit, BoundOnce
  <1>6. /\ works' \in [Tickets -> {"absent", "retained", "deleted"}] /\ works'[w] = "retained"
        /\ \A v \in Tickets \ {w} : works'[v] = works[v]
    BY <1>2, <1>3 DEF TicketInv, SourceTypes
  <1>7. /\ l \in Lineages /\ clock \in 1..MaxTime /\ lineages \in [Tickets -> Seq(Lineages)]
        /\ MaxLineage \in Nat /\ MaxLineage >= 1
    <2>1. l \in Lineages
      BY DEF Lineages
    <2> HIDE DEF l
    <2> QED
      BY <2>1 DEF TicketInv, SourceTypes, BoundsKnown
  <1> HIDE DEF l, owners
  <1> DEFINE s == IF lineages[w] = <<>> THEN <<l>> ELSE lineages[w]
  <1>8. s \in Seq(Lineages) /\ s # <<>> /\ lineages' = [lineages EXCEPT ![w] = s] /\ lineages'[w] = s
    <2>1. CASE lineages[w] = <<>>
      <3>1. <<l>> \in Seq(Lineages) /\ <<l>> # <<>> /\ s = <<l>>
        BY <1>7, <2>1
      <3> HIDE DEF s
      <3>2. lineages' = [lineages EXCEPT ![w] = s]
        BY <1>3, <2>1, <3>1
      <3> QED
        BY <1>2, <1>7, <3>1, <3>2
    <2>2. CASE lineages[w] # <<>>
      BY <1>2, <1>3, <1>7, <2>2
    <2> QED
      BY <2>1, <2>2
  <1>9. /\ Len(s) <= MaxLineage /\ Len(s) \in 1..MaxLineage /\ Len(lineages[w]) <= Len(s)
        /\ \A i \in 1..Len(lineages[w]) : s[i] = lineages[w][i]
        /\ s[Len(s)] = l
    <2>1. CASE lineages[w] = <<>>
      BY <1>7, <2>1
    <2>2. CASE lineages[w] # <<>>
      <3>1. lineages[w] \in Seq(Lineages) /\ Len(lineages[w]) <= MaxLineage
        BY <1>2, <1>7 DEF TicketInv, LineagesFit
      <3>2. s = lineages[w] /\ lineages[w][Len(lineages[w])] = l
        BY <1>3, <2>2 DEF lineageOf, revisionOf
      <3> QED
        BY <1>7, <2>2, <3>1, <3>2
    <2> QED
      BY <2>1, <2>2
  <1> HIDE DEF s
  <1> DEFINE a == [work |-> w, lineage |-> Len(s), binding |-> b, ticket |-> t, revision |-> rev, at |-> clock]
  <1>11. admissions' = Append(admissions, a)
    BY <1>3, <1>8
  <1>12. a \in Admissions /\ a.work = w /\ a.lineage = Len(s) /\ a.at = clock /\ a.ticket = t /\ a.binding = b
    BY <1>2, <1>7, <1>8, <1>9 DEF Admissions
  <1>13. s[Len(s)] = [ticket |-> a.ticket, binding |-> a.binding]
    BY <1>9, <1>12 DEF l
  <1>14. \A v \in Tickets \ {w} : lineages[v] # <<>> => lineageOf(v).ticket # a.ticket
    BY <1>5, <1>12
  <1> HIDE DEF a
  <1>15. UNCHANGED <<clock, selected, scan, cache, lost, checks, runs, calls>>
    BY <1>3
  <1>16. w \in Tickets /\ lineages' = [lineages EXCEPT ![w] = s] /\ s \in Seq(Lineages) /\ s # <<>>
    BY <1>2, <1>8
  <1>17. /\ Len(s) <= MaxLineage /\ Len(lineages[w]) <= Len(s)
         /\ \A i \in 1..Len(lineages[w]) : s[i] = lineages[w][i]
    BY <1>9
  <1> QED
    BY <1>4, <1>6, <1>11, <1>12, <1>13, <1>14, <1>15, <1>16, <1>17, ApprovalIn

\* Another version of the ticket is approved.
LEMMA ApproveStep ==
    ASSUME BoundsKnown, TicketInv, NEW w \in Tickets, NEW rev \in Revisions, Approve(w, rev) PROVE TicketInv'
  <1> DEFINE l == lineageOf(w)
             s == lineages[w]
             a == [work |-> w, lineage |-> revisionOf(w), binding |-> l.binding, ticket |-> l.ticket,
                revision |-> rev, at |-> clock]
  <1>1. /\ works[w] = "retained" /\ s # <<>> /\ admissions' = Append(admissions, a) /\ events' \in 0..MaxEvents
        /\ UNCHANGED <<clock, selected, scan, cache, lost, works, lineages, checks, runs, calls>>
    BY EventCounted DEF Approve, insertAdmission, TicketInv
  <1>2. /\ s \in Seq(Lineages) /\ Len(s) <= MaxLineage /\ revisionOf(w) \in 1..MaxLineage /\ l \in Lineages
        /\ clock \in 1..MaxTime /\ Len(s) \in Nat
    BY <1>1, CurrentKnown DEF TicketInv, SourceTypes, LineagesFit
  <1>3. l = [ticket |-> l.ticket, binding |-> l.binding] /\ l.ticket \in Tickets /\ l.binding \in 1..MaxBinding
    BY <1>2 DEF Lineages
  <1>4. lineages' = [lineages EXCEPT ![w] = s]
    BY <1>1 DEF TicketInv, SourceTypes
  <1>5. \A v \in Tickets \ {w} : lineages[v] # <<>> => lineageOf(v).ticket # l.ticket
    BY <1>1 DEF TicketInv, LineagesFit, BoundOnce
  <1>6. works' \in [Tickets -> {"absent", "retained", "deleted"}] /\ works'[w] = "retained"
    BY <1>1 DEF TicketInv, SourceTypes
  <1>7. s[Len(s)] = l /\ revisionOf(w) = Len(s)
    BY DEF lineageOf, revisionOf
  <1> HIDE DEF l
  <1>8. a \in Admissions /\ a.work = w /\ a.lineage = Len(s) /\ a.at = clock /\ a.ticket = l.ticket /\
           a.binding = l.binding
    BY <1>2, <1>3, <1>7 DEF Admissions
  <1>9. s[Len(s)] = [ticket |-> a.ticket, binding |-> a.binding]
    BY <1>3, <1>7, <1>8
  <1>10. \A v \in Tickets \ {w} : lineages[v] # <<>> => lineageOf(v).ticket # a.ticket
    BY <1>5, <1>8
  <1> HIDE DEF a, s
  <1>11. /\ Len(lineages[w]) <= Len(s) /\ \A i \in 1..Len(lineages[w]) : s[i] = lineages[w][i]
         /\ s = lineages[w] /\ \A v \in Tickets \ {w} : works'[v] = works[v]
    BY <1>1, <1>2 DEF s
  <1> QED
    BY <1>1, <1>2, <1>4, <1>6, <1>8, <1>9, <1>10, <1>11, ApprovalIn

\* RebindSourceTicket: none of the runs of the work is at work.
LEMMA RebindStep ==
    ASSUME BoundsKnown, TicketInv, NEW w \in Tickets, NEW e \in 1..MaxLineage, NEW b \in 1..MaxBinding,
           NEW t \in Tickets,
           NEW rev \in Revisions, Rebind(w, e, b, t, rev)
    PROVE  TicketInv'
  <1> DEFINE l == [ticket |-> t, binding |-> b]
             s == Append(lineages[w], l)
             a == [work |-> w, lineage |-> e + 1, binding |-> b, ticket |-> t, revision |-> rev, at |-> clock]
  <1>1. /\ e < MaxLineage /\ works[w] = "retained" /\ Len(lineages[w]) = e /\ settled(w, "none")
        /\ \A v \in Tickets \ {w} : lineages[v] # <<>> => lineageOf(v).ticket # t
        /\ lineages' = [lineages EXCEPT ![w] = s] /\ admissions' = Append(admissions, a)
        /\ UNCHANGED <<clock, selected, scan, cache, lost, works, checks, runs, calls>>
    BY DEF Rebind, insertAdmission, revisionOf
  <1>2. events' \in 0..MaxEvents
    BY EventCounted DEF Rebind, TicketInv
  <1>3. l \in Lineages /\ clock \in 1..MaxTime /\ lineages[w] \in Seq(Lineages) /\ MaxLineage \in Nat
    BY DEF Lineages, TicketInv, SourceTypes, BoundsKnown
  <1>5. works' \in [Tickets -> {"absent", "retained", "deleted"}] /\ works'[w] = "retained"
    BY <1>1 DEF TicketInv, SourceTypes
  <1> HIDE DEF l
  <1>6. /\ s \in Seq(Lineages) /\ s # <<>> /\ Len(s) = e + 1 /\ s[Len(s)] = l /\ Len(s) <= MaxLineage
        /\ Len(lineages[w]) <= Len(s) /\ \A i \in 1..Len(lineages[w]) : s[i] = lineages[w][i]
    BY <1>1, <1>3
  <1> HIDE DEF s
  <1>7. a \in Admissions /\ a.work = w /\ a.lineage = Len(s) /\ a.at = clock /\ a.ticket = t /\ a.binding = b
    BY <1>1, <1>3, <1>6 DEF Admissions
  <1>8. s[Len(s)] = [ticket |-> a.ticket, binding |-> a.binding]
    BY <1>6, <1>7 DEF l
  <1> HIDE DEF a
  <1> QED
    BY <1>1, <1>2, <1>5, <1>6, <1>7, <1>8, ApprovalIn

\* A run changes, and is alone at its work when it holds it.
LEMMA RunIn ==
    ASSUME BoundsKnown, TicketInv, NEW r \in Runs, NEW x \in SourceRuns, runs' = [runs EXCEPT ![r] = x],
           Frozen(x),
           x.status = "open" \/ x.attempt => works[x.work] = "retained" /\
              \A q \in Runs \ {r} : Holds(q) => runs[q].work # x.work,
           calls' \in [Callers -> {Idle} \cup Checks \cup Preparations], events' \in 0..MaxEvents,
           UNCHANGED <<clock, selected, scan, cache, lost, works, lineages, checks, admissions>>
    PROVE  TicketInv'
  <1>1. /\ runs \in [Runs -> {NoRun} \cup SourceRuns] /\ clock \in 1..MaxTime /\ clock <= clock
    BY DEF TicketInv, SourceTypes
  <1>2. /\ runs' \in [Runs -> {NoRun} \cup SourceRuns] /\ runs'[r] = x /\ \A q \in Runs \ {r} :
              runs'[q] = runs[q]
    BY <1>1
  <1>3. SourceTypes'
    BY <1>2 DEF TicketInv, SourceTypes
  <1>4. ScanFits'
    BY <1>1, ScanStands
  <1>5. LineagesFit' /\ AdmissionsFit'
    BY DEF TicketInv, LineagesFit, BoundOnce, lineageOf, revisionOf, AdmissionsFit, Approved
  <1>6. ASSUME NEW q \in Runs, runs'[q] # NoRun PROVE Frozen(runs[q])'
    <2>1. PICK y : y = runs'[q]
      OBVIOUS
    <2>2. Frozen(y)
      BY <1>2, <1>6, <2>1 DEF TicketInv, RunsFit
    <2> QED
      BY <2>1, <2>2 DEF Frozen
  <1>7. ASSUME NEW q \in Runs, NEW p \in Runs, q # p, Holds(q)', Holds(p)' PROVE runs'[q].work # runs'[p].work
    <2>1. \A z \in Runs \ {r} : Holds(z)' => Holds(z)
      BY <1>2 DEF Holds
    <2>2. Holds(r)' => x.status = "open" \/ x.attempt
      BY <1>2 DEF Holds
    <2>3. CASE q = r
      BY <1>2, <1>7, <2>1, <2>2, <2>3
    <2>4. CASE p = r
      BY <1>2, <1>7, <2>1, <2>2, <2>4
    <2>5. CASE q # r /\ p # r
      BY <1>2, <1>7, <2>1, <2>5 DEF TicketInv, RunsFit
    <2> QED
      BY <2>3, <2>4, <2>5
  <1>8. ASSUME NEW q \in Runs, Holds(q)' PROVE works'[runs'[q].work] = "retained"
    BY <1>2, <1>8 DEF Holds, TicketInv, RunsFit
  <1> QED
    BY <1>3, <1>4, <1>5, <1>6, <1>7, <1>8 DEF TicketInv, RunsFit

\* A run that was created, as the invariant describes it.
LEMMA RunKnown ==
    ASSUME TicketInv, NEW r \in Runs, runs[r] # NoRun
    PROVE  /\ runs[r] \in SourceRuns /\ runs[r].work \in Tickets /\ runs[r].attempt \in BOOLEAN /\
               Frozen(runs[r])
           /\ runs[r].status \in {"open", "failed", "completed", "cancelled"}
  <1>1. runs[r] \in SourceRuns /\ Frozen(runs[r])
    BY DEF TicketInv, SourceTypes, RunsFit
  <1> QED
    BY <1>1 DEF SourceRuns

\* A run that changes its status keeps what it froze.
LEMMA RunStep ==
    ASSUME BoundsKnown, TicketInv, NEW r \in Runs, runs[r] # NoRun,
           NEW s \in {"open", "failed", "completed", "cancelled"}, NEW b \in BOOLEAN,
           runs' = [runs EXCEPT ![r] = [runs[r] EXCEPT !.status = s, !.attempt = b]],
           s = "open" \/ b => works[runs[r].work] = "retained" /\
              \A q \in Runs \ {r} : Holds(q) => runs[q].work # runs[r].work,
           events' \in 0..MaxEvents,
           UNCHANGED <<clock, selected, scan, cache, lost, works, lineages, checks, admissions, calls>>
    PROVE  TicketInv'
  <1>1. runs[r] \in SourceRuns /\ Frozen(runs[r])
    BY RunKnown
  <1>2. PICK y : y = [runs[r] EXCEPT !.status = s, !.attempt = b]
    OBVIOUS
  <1>3. y \in SourceRuns /\ y.status = s /\ y.attempt = b /\ y.work = runs[r].work /\ y.source = runs[r].source
    <2>1. PICK x : x = runs[r]
      OBVIOUS
    <2>2. x \in SourceRuns /\ y = [x EXCEPT !.status = s, !.attempt = b]
      BY <1>1, <1>2, <2>1
    <2> DEFINE z == [x EXCEPT !.status = s]
    <2>3. z \in SourceRuns /\ z.status = s /\ z.work = x.work /\ z.source = x.source
      BY <2>2 DEF SourceRuns
    <2>4. y = [z EXCEPT !.attempt = b]
      BY <2>2
    <2> HIDE DEF z
    <2>5. y \in SourceRuns /\ y.status = s /\ y.attempt = b /\ y.work = x.work /\ y.source = x.source
      BY <2>3, <2>4 DEF SourceRuns
    <2> QED
      BY <2>1, <2>5
  <1>4. Frozen(y)
    BY <1>1, <1>3 DEF Frozen
  <1>5. calls' \in [Callers -> {Idle} \cup Checks \cup Preparations] /\ runs' = [runs EXCEPT ![r] = y]
    BY <1>2 DEF TicketInv, SourceTypes
  <1>6. y.status = "open" \/ y.attempt => works[y.work] = "retained" /\
           \A q \in Runs \ {r} : Holds(q) => runs[q].work # y.work
    BY <1>3
  <1> QED
    BY <1>3, <1>4, <1>5, <1>6, RunIn

\* Nobody else holds the work of a run when the others are settled.
LEMMA SettledAlone ==
    ASSUME TicketInv, NEW w, NEW r, settled(w, r), NEW q \in Runs \ {r}, Holds(q) PROVE runs[q].work # w
  BY DEF settled, Holds

\* run.started, run.resumed, run.continued and run.retried.
LEMMA ExecuteStep ==
    ASSUME BoundsKnown, TicketInv, NEW r \in Runs, Execute(r) PROVE TicketInv'
  <1>1. /\ runs[r].status \in {"open", "failed", "completed"}
        /\ works[runs[r].work] = "retained" /\ settled(runs[r].work, r)
        /\ runs' = [runs EXCEPT ![r].status = "open", ![r].attempt = TRUE] /\ events' \in 0..MaxEvents
        /\ UNCHANGED <<clock, selected, scan, cache, lost, works, lineages, checks, admissions, calls>>
    BY EventCounted DEF Execute, TicketInv
  <1>2. runs[r] # NoRun
    BY <1>1 DEF NoRun
  <1>3. runs' = [runs EXCEPT ![r] = [runs[r] EXCEPT !.status = "open", !.attempt = TRUE]]
    <2>1. runs \in [Runs -> {NoRun} \cup SourceRuns] /\ runs[r] \in SourceRuns
      BY <1>2, RunKnown DEF TicketInv, SourceTypes
    <2> QED
      BY <1>1, <2>1 DEF SourceRuns
  <1>4. \A q \in Runs \ {r} : Holds(q) => runs[q].work # runs[r].work
    BY <1>1, SettledAlone
  <1> QED
    BY <1>1, <1>2, <1>3, <1>4, RunStep

\* A run ends; a cancelled one keeps its attempt.
LEMMA EndStep ==
    ASSUME BoundsKnown, TicketInv, NEW r \in Runs, NEW s \in {"failed", "completed", "cancelled"}, EndRun(r, s)
    PROVE  TicketInv'
  <1> DEFINE b == runs[r].attempt /\ s = "cancelled"
  <1>1. /\ runs[r].status \in {"open", "failed"} /\ events' \in 0..MaxEvents
        /\ UNCHANGED <<clock, selected, scan, cache, lost, works, lineages, checks, admissions, calls>>
    BY EventCounted DEF EndRun, TicketInv
  <1>2. runs[r] # NoRun /\ (b => Holds(r))
    BY <1>1 DEF NoRun, Holds
  <1>3. runs[r] \in SourceRuns /\ runs \in [Runs -> {NoRun} \cup SourceRuns]
    BY <1>2, RunKnown DEF TicketInv, SourceTypes
  <1>4. runs' = [runs EXCEPT ![r] = [runs[r] EXCEPT !.status = s, !.attempt = b]]
    BY <1>3 DEF EndRun, SourceRuns
  <1>5. b \in BOOLEAN
    OBVIOUS
  <1>6. b => works[runs[r].work] = "retained" /\ \A q \in Runs \ {r} : Holds(q) => runs[q].work # runs[r].work
    BY <1>2 DEF TicketInv, RunsFit
  <1> HIDE DEF b
  <1> QED
    BY <1>1, <1>2, <1>4, <1>5, <1>6, RunStep

\* The attempt of a run is reconciled.
LEMMA SettleStep ==
    ASSUME BoundsKnown, TicketInv, NEW r \in Runs, SettleAttempt(r) PROVE TicketInv'
  <1> DEFINE x == runs[r]
  <1>1. /\ x # NoRun /\ x.attempt /\ runs' = [runs EXCEPT ![r] = [x EXCEPT !.attempt = FALSE]] /\
              events' \in 0..MaxEvents
        /\ UNCHANGED <<clock, selected, scan, cache, lost, works, lineages, checks, admissions, calls>>
    BY DEF SettleAttempt, TicketInv, SourceTypes
  <1>2. x \in SourceRuns /\ x.status \in {"open", "failed", "completed", "cancelled"}
    BY <1>1, RunKnown
  <1>3. [x EXCEPT !.attempt = FALSE] = [x EXCEPT !.status = x.status, !.attempt = FALSE]
    BY <1>2 DEF SourceRuns
  <1>4. Holds(r)
    BY <1>1 DEF Holds
  <1>5. works[runs[r].work] = "retained" /\ \A q \in Runs \ {r} : Holds(q) => runs[q].work # runs[r].work
    BY <1>4 DEF TicketInv, RunsFit
  <1>6. PICK s : s = x.status
    OBVIOUS
  <1>7. /\ runs' = [runs EXCEPT ![r] = [runs[r] EXCEPT !.status = s, !.attempt = FALSE]]
        /\ s \in {"open", "failed", "completed", "cancelled"}
    BY <1>1, <1>2, <1>3, <1>6
  <1> QED
    BY <1>1, <1>4, <1>5, <1>7, RunStep

\* run.created: the approval is read again, so what is frozen is what was approved.
LEMMA CreateStep ==
    ASSUME BoundsKnown, TicketInv, NEW c \in Callers, CreateRun(c) PROVE TicketInv'
  <1>0. PICK x : x = calls[c]
    OBVIOUS
  <1>1. x \in Preparations
    BY <1>0 DEF CreateRun, TicketInv, SourceTypes, Checks, Idle
  <1>2. x.run \in Runs /\ x.work \in Tickets /\ x.revision \in Revisions /\
           x.lineage \in 1..MaxLineage /\ x.admission \in Nat
    BY <1>1 DEF Preparations
  <1>3. /\ calls' = [calls EXCEPT ![c] = Idle]
        /\ UNCHANGED <<clock, selected, scan, cache, lost, works, lineages, checks, admissions, events>>
    BY DEF CreateRun
  <1>4. events' \in 0..MaxEvents /\ checks' \in [Tickets -> [1..MaxLineage -> Rows]]
    BY <1>3 DEF TicketInv, SourceTypes
  <1> DEFINE w == x.work
             l == lineageOf(w)
             s == [admission |-> x.admission, revision |-> x.revision, lineage |-> x.lineage,
                binding |-> l.binding, ticket |-> l.ticket, at |-> clock]
             y == [work |-> w, status |-> "open", attempt |-> FALSE, source |-> s]
  <1>5. CASE runs' = runs
    BY <1>3, <1>4, <1>5, CallStep
  <1>6. CASE /\ runs[x.run] = NoRun /\ works[w] = "retained" /\ settled(w, x.run) /\ stillApproved(x)
             /\ runs' = [runs EXCEPT ![x.run] = y]
    <2>1. /\ lineages[w] # <<>> /\ approvals(w, x.revision) # {} /\ x.lineage = revisionOf(w)
          /\ x.admission = latest(approvals(w, x.revision))
      BY <1>6 DEF stillApproved, approvedRunSource
    <2> DEFINE a == admissions[x.admission]
    <2>2. /\ x.admission \in 1..Len(admissions) /\ a \in Admissions /\ a.work = w /\ a.lineage = x.lineage
          /\ a.revision = x.revision /\ a.ticket = l.ticket
      BY <1>2, <2>1, ApprovalsOf
    <2>3. Approved(a)
      BY <2>2 DEF TicketInv, AdmissionsFit
    <2>4. lineages[w][x.lineage] = l
      BY <2>1 DEF lineageOf
    <2>5. /\ x.lineage \in 1..Len(lineages[w]) /\ l = [ticket |-> a.ticket, binding |-> a.binding] /\
                a.at <= clock
      BY <2>2, <2>3, <2>4 DEF Approved
    <2>6. l \in Lineages /\ clock \in 1..MaxTime
      BY <1>2, <2>1, CurrentKnown DEF TicketInv, SourceTypes
    <2>7. l.ticket \in Tickets /\ l.binding \in 1..MaxBinding /\ l.binding = a.binding /\
             l = [ticket |-> l.ticket, binding |-> l.binding]
      BY <2>5, <2>6 DEF Lineages
    <2> HIDE DEF a, l, w
    <2>8. s \in Snapshots
      BY <1>2, <2>6, <2>7 DEF Snapshots
    <2>9. /\ s.admission = x.admission /\ s.revision = x.revision /\ s.lineage = x.lineage /\
                s.binding = l.binding
          /\ s.ticket = l.ticket /\ s.at = clock
      OBVIOUS
    <2> HIDE DEF s
    <2>10. y \in SourceRuns /\ y.work = w /\ y.source = s /\ y.status = "open"
      BY <1>2, <2>8 DEF SourceRuns, w
    <2> HIDE DEF y
    <2>11. Frozen(y)
      <3>1. x.lineage = Len(lineages[w])
        BY <2>1 DEF revisionOf, w
      <3> QED
        BY <2>2, <2>4, <2>5, <2>7, <2>9, <2>10, <3>1 DEF Frozen, a
    <2>12. works[y.work] = "retained" /\ \A q \in Runs \ {x.run} : Holds(q) => runs[q].work # y.work
      BY <1>6, <2>10, SettledAlone
    <2>13. calls' \in [Callers -> {Idle} \cup Checks \cup Preparations]
      BY <1>3 DEF TicketInv, SourceTypes
    <2> QED
      BY <1>2, <1>3, <1>4, <1>6, <2>10, <2>11, <2>12, <2>13, RunIn
  <1> QED
    BY <1>0, <1>5, <1>6 DEF CreateRun

\* Work without a run at work is deleted; its lineage stays.
LEMMA DeleteStep ==
    ASSUME BoundsKnown, TicketInv, NEW w \in Tickets, DeleteWork(w) PROVE TicketInv'
  <1>1. /\ works' = [works EXCEPT ![w] = "deleted"] /\ events' \in 0..MaxEvents
        /\ UNCHANGED <<clock, selected, scan, cache, lost, lineages, checks, admissions, runs, calls>>
    BY EventCounted DEF DeleteWork, TicketInv
  <1>2. SourceTypes'
    BY <1>1 DEF TicketInv, SourceTypes
  <1>3. \A v \in Tickets : works'[v] = "absent" => works[v] = "absent"
    BY <1>1 DEF TicketInv, SourceTypes
  <1>4. LineagesFit'
    BY <1>1, <1>3 DEF TicketInv, LineagesFit, BoundOnce, lineageOf, revisionOf
  <1>5. clock \in 1..MaxTime /\ clock <= clock
    BY DEF TicketInv, SourceTypes
  <1>6. ScanFits' /\ AdmissionsFit'
    BY <1>1, <1>5, ScanStands DEF TicketInv, AdmissionsFit, Approved
  <1>7. ASSUME NEW r \in Runs, Holds(r) PROVE works'[runs[r].work] = "retained"
    <2>1. runs[r].work # w
      BY <1>7 DEF DeleteWork, settled, Holds, BoundsKnown
    <2>2. works[runs[r].work] = "retained" /\ runs[r].work \in Tickets
      BY <1>7, RunKnown DEF TicketInv, RunsFit, Holds
    <2> QED
      BY <1>1, <2>1, <2>2
  <1>8. RunsFit'
    BY <1>1, <1>7 DEF TicketInv, RunsFit, Frozen, Holds
  <1> QED
    BY <1>2, <1>4, <1>6, <1>8 DEF TicketInv

\* Nothing is known, admitted or running.
LEMMA TicketInit ==
    ASSUME BoundsKnown, Init PROVE TicketInv
  <1>1. SourceTypes
    BY DEF BoundsKnown, Init, SourceTypes, Rows
  <1>2. \A b \in 1..MaxBinding, t \in Tickets : cache[b][t] = None
    BY DEF Init
  <1>3. ScanFits
    BY <1>2 DEF Init, ScanFits
  <1>4. LineagesFit
    BY DEF BoundsKnown, Init, LineagesFit, BoundOnce
  <1>5. AdmissionsFit
    BY DEF Init, AdmissionsFit
  <1>6. RunsFit
    BY DEF Init, RunsFit, Holds
  <1> QED
    BY <1>1, <1>3, <1>4, <1>5, <1>6 DEF TicketInv

\* Every step of the store keeps the invariant.
LEMMA TicketStep ==
    ASSUME BoundsKnown, TicketInv, [Next]_vars PROVE TicketInv'
  <1>0. selected \in 1..MaxBinding /\ MaxBinding \in Nat
    BY DEF TicketInv, SourceTypes, BoundsKnown
  <1>1. CASE UNCHANGED vars
    <2>1. clock \in 1..MaxTime /\ clock <= clock
      BY DEF TicketInv, SourceTypes
    <2>2. SourceTypes'
      BY <1>1 DEF vars, TicketInv, SourceTypes
    <2> QED
      BY <1>1, <2>1, <2>2, BindingsStand, ScanStands DEF vars, TicketInv
  <1>2. CASE SelectSource \/ ScanStarts \/ ScanCommits \/ ScanDenied \/ Tick
    BY <1>2, SelectStep, ScanStartsStep, ScanCommitsStep, ScanDeniedStep
  <1>3. ASSUME NEW t \in Tickets, NEW rev \in Revisions,
               \/ \E state \in {"available", "missing"} : ScanReads(t, rev, state)
               \/ \E b \in 1..selected : AdmitSourceTicket(b, t, rev) \/ \E w \in Tickets,
                     l \in 1..MaxLineage : Rebind(w, l, b, t, rev)
               \/ Approve(t, rev)
               \/ \E c \in Callers : \/ \E state \in {"available", "missing", "inaccessible"} :
                                         RefreshSource(c, t, state, rev)
                                     \/ \E r \in Runs : PrepareRun(c, r, t, rev)
        PROVE  TicketInv'
    <2>1. CASE \E state \in {"available", "missing"} : ScanReads(t, rev, state)
      BY <2>1, ScanReadsStep
    <2>2. ASSUME NEW b \in 1..selected, AdmitSourceTicket(b, t, rev) \/ \E w \in Tickets,
                 l \in 1..MaxLineage : Rebind(w, l, b, t, rev)
          PROVE  TicketInv'
      <3>1. b \in 1..MaxBinding
        BY <1>0
      <3> QED
        BY <2>2, <3>1, AdmitStep, RebindStep
    <2>3. CASE Approve(t, rev)
      BY <2>3, ApproveStep
    <2>4. ASSUME NEW c \in Callers,
                 \/ \E state \in {"available", "missing", "inaccessible"} : RefreshSource(c, t, state, rev)
                 \/ \E r \in Runs : PrepareRun(c, r, t, rev)
          PROVE  TicketInv'
      BY <2>4, RefreshStep, PrepareStep
    <2> QED
      BY <1>3, <2>1, <2>2, <2>3, <2>4
  <1>4. ASSUME NEW c \in Callers, RecordSourceCheck(c) \/ CreateRun(c) PROVE TicketInv'
    BY <1>4, RecordStep, CreateStep
  <1>5. ASSUME NEW r \in Runs,
               Execute(r) \/ SettleAttempt(r) \/ \E status \in {"failed", "completed", "cancelled"} :
                  EndRun(r, status)
        PROVE  TicketInv'
    BY <1>5, ExecuteStep, SettleStep, EndStep
  <1>6. ASSUME NEW w \in Tickets, DeleteWork(w) PROVE TicketInv'
    BY <1>6, DeleteStep
  <1> QED
    BY <1>1, <1>2, <1>3, <1>4, <1>5, <1>6 DEF Next

\* What the invariant says of runs and approvals.
LEMMA TicketKeeps ==
    ASSUME TicketInv PROVE TypeOK /\ OneExecution /\ SnapshotVerifies
  <1>1. TypeOK
    <2>1. \A w \in Tickets : lineages[w] \in Seq([ticket : Tickets, binding : 1..MaxBinding]) /\
             (works[w] = "absent" => lineages[w] = <<>>)
      BY DEF TicketInv, SourceTypes, LineagesFit, Lineages
    <2>2. admissions \in Seq([work : Tickets, lineage : 1..MaxLineage, binding : 1..MaxBinding, ticket :
             Tickets, revision : Revisions, at : 1..MaxTime])
      BY DEF TicketInv, SourceTypes, Admissions
    <2>3. \A r \in Runs : runs[r] = NoRun \/ runs[r].status \in {"open", "failed", "completed", "cancelled"}
      BY RunKnown
    <2>4. \A w, v \in Tickets : w # v /\ lineages[w] # <<>> /\ lineages[v] # <<>> =>
             lineages[w][Len(lineages[w])].ticket # lineages[v][Len(lineages[v])].ticket
      BY DEF TicketInv, LineagesFit, BoundOnce, lineageOf, revisionOf
    <2>5. /\ clock \in 1..MaxTime /\ selected \in 1..MaxBinding /\ events \in 0..MaxEvents
          /\ cache \in [1..MaxBinding -> [Tickets -> Rows]]
          /\ works \in [Tickets -> {"absent", "retained", "deleted"}]
          /\ checks \in [Tickets -> [1..MaxLineage -> Rows]]
      BY DEF TicketInv, SourceTypes
    <2> QED
      BY <2>1, <2>2, <2>3, <2>4, <2>5 DEF TypeOK
  <1>2. ASSUME NEW r \in Runs, Holds(r), ~HasMoved(r)
        PROVE  /\ runs[r].work \in Tickets /\ lineages[runs[r].work] # <<>>
               /\ lineageOf(runs[r].work).ticket = runs[r].source.ticket
    <2> DEFINE x == runs[r]
    <2>1. x # NoRun
      BY <1>2 DEF Holds
    <2>2. x.work \in Tickets /\ Frozen(x)
      BY <2>1, RunKnown
    <2>3. ~(x.source.lineage < Len(lineages[x.work])) /\ Len(lineages[x.work]) \in Nat
      BY <1>2, <2>2 DEF HasMoved, revisionOf, TicketInv, SourceTypes
    <2> HIDE DEF x
    <2>4. /\ x.source.lineage \in 1..Len(lineages[x.work]) /\ x.source.lineage = Len(lineages[x.work])
          /\ lineages[x.work][x.source.lineage] = [ticket |-> x.source.ticket, binding |-> x.source.binding]
      BY <2>2, <2>3 DEF Frozen
    <2>5. lineageOf(x.work) = [ticket |-> x.source.ticket, binding |-> x.source.binding]
      BY <2>4 DEF lineageOf, revisionOf
    <2>6. lineages[x.work] # <<>>
      <3> SUFFICES ASSUME lineages[x.work] = <<>> PROVE FALSE
        OBVIOUS
      <3>1. Len(lineages[x.work]) = 0
        OBVIOUS
      <3> QED
        BY <2>4, <3>1
    <2> QED
      BY <2>2, <2>5, <2>6 DEF x
  <1>3. OneExecution
    BY <1>2 DEF TicketInv, RunsFit, LineagesFit, BoundOnce, OneExecution
  <1>4. SnapshotVerifies
    BY DEF TicketInv, RunsFit, Frozen, SnapshotVerifies
  <1> QED
    BY <1>1, <1>3, <1>4

\* Rows are written by a scan that commits, checks by RecordSourceCheck, runs by their events.
LEMMA KnownWrites ==
    ASSUME [Next]_vars
    PROVE  /\ ScanCommits \/ cache' = cache
           /\ (\E c \in Callers : RecordSourceCheck(c)) \/ checks' = checks
           /\ \/ runs' = runs \/ \E c \in Callers : CreateRun(c)
              \/ \E r \in Runs : Execute(r) \/ SettleAttempt(r) \/
                    \E status \in {"failed", "completed", "cancelled"} : EndRun(r, status)
  <1>1. CASE SelectSource \/ ScanStarts \/ ScanDenied \/ Tick \/ UNCHANGED vars
    BY <1>1 DEF SelectSource, ScanStarts, ScanDenied, Tick, vars
  <1>2. CASE ScanCommits
    BY <1>2 DEF ScanCommits
  <1>3. ASSUME NEW t \in Tickets, NEW rev \in Revisions,
               \/ \E state \in {"available", "missing"} : ScanReads(t, rev, state)
               \/ \E b \in 1..selected : AdmitSourceTicket(b, t, rev) \/ \E w \in Tickets,
                     l \in 1..MaxLineage : Rebind(w, l, b, t, rev)
               \/ Approve(t, rev)
               \/ \E c \in Callers : \/ \E state \in {"available", "missing", "inaccessible"} :
                                         RefreshSource(c, t, state, rev)
                                     \/ \E r \in Runs : PrepareRun(c, r, t, rev)
        PROVE  cache' = cache /\ checks' = checks /\ runs' = runs
    BY <1>3 DEF ScanReads, AdmitSourceTicket, Rebind, Approve, RefreshSource, PrepareRun
  <1>4. ASSUME NEW c \in Callers, RecordSourceCheck(c) PROVE cache' = cache /\ runs' = runs
    BY <1>4 DEF RecordSourceCheck
  <1>5. ASSUME NEW c \in Callers, CreateRun(c) PROVE cache' = cache /\ checks' = checks
    BY <1>5 DEF CreateRun
  <1>6. ASSUME NEW r \in Runs,
               Execute(r) \/ SettleAttempt(r) \/ \E status \in {"failed", "completed", "cancelled"} :
                  EndRun(r, status)
        PROVE  cache' = cache /\ checks' = checks
    BY <1>6 DEF Execute, SettleAttempt, EndRun
  <1>7. ASSUME NEW w \in Tickets, DeleteWork(w) PROVE cache' = cache /\ checks' = checks /\ runs' = runs
    BY <1>7 DEF DeleteWork
  <1> QED
    BY <1>1, <1>2, <1>3, <1>4, <1>5, <1>6, <1>7 DEF Next

\* A run appears with its event and no other step.
LEMMA OnlyCreated ==
    ASSUME Next, NEW r \in Runs, runs[r] = NoRun, runs'[r] # NoRun, TicketInv
    PROVE  \E c \in Callers : CreateRun(c)
  <1>1. runs \in [Runs -> {NoRun} \cup SourceRuns]
    BY DEF TicketInv, SourceTypes
  <1>2. runs' # runs
    OBVIOUS
  <1>3. ASSUME NEW q \in Runs, Execute(q) \/ SettleAttempt(q) \/
               \E status \in {"failed", "completed", "cancelled"} : EndRun(q, status)
        PROVE  FALSE
    <2>1. runs[q] # NoRun
      BY <1>3 DEF Execute, SettleAttempt, EndRun, NoRun
    <2>2. \A p \in Runs \ {q} : runs'[p] = runs[p]
      BY <1>1, <1>3 DEF Execute, SettleAttempt, EndRun
    <2> QED
      BY <2>1, <2>2
  <1> QED
    BY <1>2, <1>3, KnownWrites

\* A run is created from what is current in the transaction of its event.
LEMMA CreatedCurrent ==
    ASSUME TicketInv, Next, NEW r \in Runs, runs[r] = NoRun, runs'[r] # NoRun
    PROVE  LET w == runs'[r].work
           IN fit(runs'[r].source.ticket, currentOf(w)) /\ currentOf(w).revision = runs'[r].source.revision
  <1>1. PICK c \in Callers : CreateRun(c)
    BY OnlyCreated
  <1>2. PICK x : x = calls[c]
    OBVIOUS
  <1> DEFINE l == lineageOf(x.work)
             s == [admission |-> x.admission, revision |-> x.revision, lineage |-> x.lineage,
                binding |-> l.binding, ticket |-> l.ticket, at |-> clock]
             y == [work |-> x.work, status |-> "open", attempt |-> FALSE, source |-> s]
  <1>3. stillApproved(x) /\ runs' = [runs EXCEPT ![x.run] = y]
    BY <1>1, <1>2 DEF CreateRun
  <1>4. y.work = x.work /\ y.source.ticket = l.ticket /\ y.source.revision = x.revision
    OBVIOUS
  <1> HIDE DEF y, l
  <1>5. runs'[r] = y
    BY <1>3 DEF TicketInv, SourceTypes
  <1>6. fit(l.ticket, currentOf(x.work)) /\ currentOf(x.work).revision = x.revision
    BY <1>3 DEF stillApproved, approvedRunSource, l
  <1> QED
    BY <1>4, <1>5, <1>6

\* Whatever is recorded last, what is known of a ticket is not replaced by something older.
LEMMA NewestKept ==
    ASSUME BoundsKnown, TicketInv, TicketInv', [Next]_vars, NEW w \in Tickets,
           lineages[w] # <<>>, lineages'[w] = lineages[w], currentOf(w) # None
    PROVE  (currentOf(w)').checked >= currentOf(w).checked
  <1>1. PICK n, l : n = revisionOf(w) /\ l = lineageOf(w)
    OBVIOUS
  <1>2. n = revisionOf(w)' /\ l = lineageOf(w)'
    BY <1>1 DEF revisionOf, lineageOf
  <1>3. n \in 1..MaxLineage /\ l.ticket \in Tickets /\ l.binding \in 1..MaxBinding
    BY <1>1, CurrentKnown DEF TicketInv, Lineages
  <1>4. PICK row, check, row1, check1 :
           /\ row = cache[l.binding][l.ticket] /\ check = checks[w][n]
           /\ row1 = cache'[l.binding][l.ticket] /\ check1 = checks'[w][n]
    OBVIOUS
  <1>5. row \in Rows /\ check \in Rows /\ row1 \in Rows /\ check1 \in Rows
    <2>1. cache \in [1..MaxBinding -> [Tickets -> Rows]] /\ checks \in [Tickets -> [1..MaxLineage -> Rows]]
      BY DEF TicketInv, SourceTypes
    <2>2. cache' \in [1..MaxBinding -> [Tickets -> Rows]] /\ checks' \in [Tickets -> [1..MaxLineage -> Rows]]
      BY DEF TicketInv, SourceTypes
    <2>3. cache[l.binding] \in [Tickets -> Rows] /\ cache'[l.binding] \in [Tickets -> Rows]
      BY <1>3, <2>1, <2>2
    <2>4. checks[w] \in [1..MaxLineage -> Rows] /\ checks'[w] \in [1..MaxLineage -> Rows]
      BY <2>1, <2>2
    <2>5. cache[l.binding][l.ticket] \in Rows /\ cache'[l.binding][l.ticket] \in Rows
      BY <1>3, <2>3
    <2>6. checks[w][n] \in Rows /\ checks'[w][n] \in Rows
      BY <1>3, <2>4
    <2> QED
      BY <1>4, <2>5, <2>6
  <1>6. PICK k, k1 : k = currentOf(w) /\ k1 = currentOf(w)'
    OBVIOUS
  <1>7. /\ row = None => k = check
        /\ row # None => k = newest(row, check) \/ k = [newest(row, check) EXCEPT !.state = "inaccessible"]
    BY <1>1, <1>4, <1>6 DEF currentOf, currentSource, hidden
  <1>8. /\ row1 = None => k1 = check1
        /\ row1 # None => k1 = newest(row1, check1) \/
              k1 = [newest(row1, check1) EXCEPT !.state = "inaccessible"]
    BY <1>2, <1>4, <1>6 DEF currentOf, currentSource, hidden
  <1>9. /\ k \in Rows /\ (row # None => k.checked >= row.checked)
        /\ (row # None /\ k.checked = row.checked) \/ (check # None /\ k.checked = check.checked)
    BY <1>5, <1>6, <1>7, CurrentIsNewest
  <1>10. /\ k1 \in Rows /\ (row1 # None => k1.checked >= row1.checked) /\
               (check1 # None => k1.checked >= check1.checked)
         /\ (k1 # None <=> row1 # None \/ check1 # None)
    BY <1>5, <1>8, CurrentIsNewest
  <1>11. row # None => row1 # None /\ row1.checked >= row.checked
    <2> SUFFICES ASSUME row # None PROVE row1 # None /\ row1.checked >= row.checked
      OBVIOUS
    <2>1. row.checked \in Int
      BY <1>5, KnownRows
    <2>2. CASE cache' = cache
      BY <1>4, <2>1, <2>2
    <2>3. CASE ScanCommits /\ cache' # cache
      <3>1. /\ cache' = [cache EXCEPT ![selected] = [cache[selected] EXCEPT ![scan.ticket] = scan.row]]
            /\ scan # None /\ scan.binding = selected
        BY <2>3 DEF ScanCommits
      <3>2. /\ scan.row \in Known /\ cache \in [1..MaxBinding -> [Tickets -> Rows]] /\
                  selected \in 1..MaxBinding
            /\ scan.ticket \in Tickets
        BY <3>1 DEF TicketInv, SourceTypes, Scans
      <3>3. row.checked <= scan.row.checked \/ l.binding # selected
        BY <1>3, <1>4, <3>1 DEF TicketInv, ScanFits
      <3>4. row1 = IF l.binding = selected /\ l.ticket = scan.ticket THEN scan.row ELSE row
        BY <1>3, <1>4, <3>1, <3>2
      <3> QED
        BY <2>1, <3>2, <3>3, <3>4, KnownRows
    <2> QED
      BY <2>2, <2>3, KnownWrites
  <1>12. check1 = check \/ (check1 # None /\ check1.checked >= k.checked)
    <2> SUFFICES ASSUME check1 # check PROVE check1 # None /\ check1.checked >= k.checked
      OBVIOUS
    <2>1. PICK c \in Callers : RecordSourceCheck(c)
      BY <1>4, KnownWrites
    <2>2. PICK x : x = calls[c]
      OBVIOUS
    <2>3. x \in Checks
      <3>1. x \in {Idle} \cup Checks \cup Preparations /\ x.kind = "check"
        BY <2>1, <2>2 DEF RecordSourceCheck, TicketInv, SourceTypes
      <3> QED
        BY <3>1 DEF Preparations, Idle
    <2>4. x.work \in Tickets /\ x.lineage \in 1..MaxLineage /\ x.row \in Known
      BY <2>3 DEF Checks
    <2>5. /\ checks' = [checks EXCEPT ![x.work] = [checks[x.work] EXCEPT ![x.lineage] = x.row]]
          /\ x.lineage = revisionOf(x.work) /\ notOlder(x.row, x.work)
      BY <1>4, <2>1, <2>2 DEF RecordSourceCheck
    <2>6. x.work = w /\ x.lineage = n /\ check1 = x.row
      BY <1>3, <1>4, <2>4, <2>5 DEF TicketInv, SourceTypes
    <2>7. x.row.checked >= currentOf(w).checked
      BY <2>5, <2>6 DEF notOlder
    <2> QED
      BY <1>6, <2>4, <2>6, <2>7, KnownRows
  <1>13. \A x \in Rows : x # None => x.checked \in Int
    BY KnownRows
  <1>14. k1.checked >= k.checked
    <2>1. k # None /\ k.checked \in Int
      BY <1>6, <1>9, <1>13
    <2>2. k1 # None /\ k1.checked \in Int
      BY <1>9, <1>10, <1>11, <1>12, <1>13
    <2>3. CASE check1 # check
      BY <1>5, <1>10, <1>12, <1>13, <2>1, <2>2, <2>3
    <2>4. CASE check1 = check /\ check # None /\ k.checked = check.checked
      BY <1>10, <2>4
    <2>5. CASE row # None /\ k.checked = row.checked
      BY <1>5, <1>10, <1>11, <1>13, <2>1, <2>2, <2>5
    <2> QED
      BY <1>9, <2>3, <2>4, <2>5
  <1> QED
    BY <1>6, <1>14

\* Whatever the order of scans, checks, approvals, rebindings and calls: a ticket has at most
\* one execution at a time, what a run froze verifies against its approval, a run is created from the
\* version of the ticket that is current, and what is known of a ticket never becomes older
\* (source_runs.go, source_checks.go).
THEOREM TicketIsWhole ==
    ASSUME BoundsKnown
    PROVE  Spec => [](TypeOK /\ OneExecution /\ SnapshotVerifies) /\ CreatedFromCurrent /\ NewestIsKept
  <1>1. Init => TicketInv
    BY TicketInit
  <1>2. TicketInv /\ [Next]_vars => TicketInv'
    BY TicketStep
  <1>3. TicketInv => TypeOK /\ OneExecution /\ SnapshotVerifies
    BY TicketKeeps
  <1>4. TicketInv /\ [Next]_vars =>
          [\A r \in Runs : runs[r] = NoRun /\ runs'[r] # NoRun =>
             LET w == runs'[r].work IN
             fit(runs'[r].source.ticket, currentOf(w)) /\ currentOf(w).revision = runs'[r].source.revision]_vars
    BY CreatedCurrent
  <1>5. TicketInv /\ TicketInv' /\ [Next]_vars =>
          [\A w \in Tickets : lineages[w] # <<>> /\ lineages'[w] = lineages[w] /\ currentOf(w) # None =>
             (currentOf(w)').checked >= currentOf(w).checked]_vars
    BY NewestKept
  <1> QED
    BY <1>1, <1>2, <1>3, <1>4, <1>5, PTL DEF Spec, CreatedFromCurrent, NewestIsKept
=============================================================================
