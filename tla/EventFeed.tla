----------------------------- MODULE EventFeed -----------------------------
(***************************************************************************)
(* The event stream of the API (api/streaming.go) and the dashboard that   *)
(* follows it (dashboard/src/state).  Events are only signals that the     *)
(* projections changed: the dashboard reads its three collections again    *)
(* after every event, one refresh at a time, and remembers that another    *)
(* one is due.  The stream may break anywhere, a read may fail, and the    *)
(* daemon may come back with another database (a restored one), whose      *)
(* positions start again.                                                  *)
(***************************************************************************)
EXTENDS Naturals, FiniteSets

CONSTANTS Collections,
          Batch,                             \* eventBatchSize
          MaxEvents, MaxBreaks, MaxFailures  \* bounds

VARIABLES log,       \* the event log: [gen, latest]
          stream,    \* "closed", "refused" or "open"
          sent,      \* the server's cursor of the open stream, and its own log
          wire,      \* positions written and not yet read by the dashboard
          cursor,    \* [gen, at]: the last event the dashboard accepted
          shown,     \* what every collection on screen reflects: [gen, at]
          read,      \* collections read by the refresh in flight
          refresh,   \* "unmounted", "idle" or "reading"
          again,     \* refreshAgain
          status,    \* hydration
          breaks, failures

vars == <<log, stream, sent, wire, cursor, shown, read, refresh, again, status, breaks, failures>>
feed == <<log, stream, sent, wire, cursor, breaks>>
view == <<shown, read, refresh, again, status, failures>>

Nothing == [gen |-> 1, at |-> 0]
Now == [gen |-> log.gen, at |-> log.latest]
Init ==
    /\ log = [gen |-> 1, latest |-> 0] /\ stream = "closed" /\ sent = Nothing /\ wire = <<>> /\ cursor = Nothing
    /\ shown = [c \in Collections |-> Nothing] /\ read = [c \in {} |-> Nothing]
    /\ refresh = "unmounted" /\ again = FALSE /\ status = "loading" /\ breaks = 0 /\ failures = 0

-----------------------------------------------------------------------------
\* Something is recorded.
Append ==
    /\ log.latest < MaxEvents /\ log' = [log EXCEPT !.latest = @ + 1]
    /\ UNCHANGED <<stream, sent, wire, cursor, breaks, view>>
\* The daemon stops; it comes back with its database or with an older copy.
Restart ==
    /\ breaks < MaxBreaks /\ breaks' = breaks + 1 /\ stream' = "closed" /\ wire' = <<>>
    /\ \/ UNCHANGED log
       \/ \E n \in 0..log.latest : log' = [gen |-> log.gen + 1, latest |-> n]
    /\ UNCHANGED <<sent, cursor, view>>

\* The page opens: the first refresh ends before the stream is opened.
Mount ==
    /\ refresh = "unmounted" /\ refresh' = "reading"
    /\ UNCHANGED <<feed, shown, read, again, status, failures>>
\* serveEvents up to the first batch: a cursor newer than the log is refused.
\* (The refusal of a cursor older than the log does not occur: the log is
\* append-only from position 1, its triggers refuse every deletion.)
Open ==
    /\ stream = "closed" /\ status # "loading"
    /\ IF cursor.at > log.latest THEN stream' = "refused" /\ UNCHANGED sent
       ELSE stream' = "open" /\ sent' = [gen |-> log.gen, at |-> cursor.at]
    /\ wire' = <<>> /\ UNCHANGED <<log, cursor, breaks, view>>
\* EventsAfter: one batch, in order and without a gap, while the last is read.
Write ==
    /\ stream = "open" /\ wire = <<>> /\ sent.at < log.latest
    /\ LET n == IF log.latest - sent.at < Batch THEN log.latest - sent.at ELSE Batch
       IN  wire' = [i \in 1..n |-> sent.at + i] /\ sent' = [sent EXCEPT !.at = @ + n]
    /\ UNCHANGED <<log, stream, cursor, breaks, view>>
Break ==
    /\ stream = "open" /\ breaks < MaxBreaks /\ breaks' = breaks + 1
    /\ stream' = "closed" /\ wire' = <<>>
    /\ UNCHANGED <<log, sent, cursor, view>>

-----------------------------------------------------------------------------
\* (A mutant of Refresh.)
RefreshOnce == IF refresh = "idle" THEN refresh' = "reading" /\ again' = FALSE /\ read' = [c \in {} |-> Nothing]
                                       /\ status' = "refreshing"
               ELSE UNCHANGED <<refresh, again, read, status>>
\* refresh(): one in flight; a call during it asks for another round.
Refresh ==
    IF refresh = "reading" THEN again' = TRUE /\ UNCHANGED <<refresh, read, status>>
    ELSE /\ refresh' = "reading" /\ again' = FALSE /\ read' = [c \in {} |-> Nothing]
         /\ status' = IF status = "loading" THEN "loading" ELSE "refreshing"

\* The dashboard takes the next message: exactly the next position, or one it
\* has seen; anything else breaks the stream.
Receive ==
    /\ stream = "open" /\ wire # <<>>
    /\ LET p == wire[1]
           rest == [i \in 1..(Cardinality(DOMAIN wire) - 1) |-> wire[i + 1]]
       IN  IF p <= cursor.at THEN wire' = rest /\ UNCHANGED <<stream, cursor, refresh, again, read, status>>
           ELSE IF p # cursor.at + 1
           THEN stream' = "closed" /\ wire' = <<>> /\ UNCHANGED <<cursor, refresh, again, read, status>>
           ELSE cursor' = [gen |-> sent.gen, at |-> p] /\ wire' = rest /\ UNCHANGED stream /\ Refresh
    /\ UNCHANGED <<log, sent, breaks, shown, failures>>

\* hydrateDashboard reads the collections at different moments.
ReadOne(c) ==
    /\ refresh = "reading" /\ c \notin DOMAIN read
    /\ read' = [d \in DOMAIN read \cup {c} |-> IF d = c THEN Now ELSE read[d]]
    /\ UNCHANGED <<feed, shown, refresh, again, status, failures>>
\* All are read: they replace what is shown, and another round begins when one
\* was asked for in the meantime.
Hydrated ==
    /\ refresh = "reading" /\ DOMAIN read = Collections
    /\ shown' = read /\ read' = [c \in {} |-> Nothing] /\ again' = FALSE
    /\ IF again THEN status' = "refreshing" /\ UNCHANGED refresh ELSE status' = "ready" /\ refresh' = "idle"
    /\ UNCHANGED <<feed, failures>>
HydrateFailed ==
    /\ refresh = "reading" /\ failures < MaxFailures /\ failures' = failures + 1
    /\ refresh' = "idle" /\ status' = "error" /\ read' = [c \in {} |-> Nothing]
    /\ UNCHANGED <<feed, shown, again>>

\* After a refusal the collections are read again before the cursor goes back
\* to the start, and it does not when they cannot be read.
Rebase ==
    /\ stream = "refused" /\ Refresh /\ stream' = "rebasing"
    /\ UNCHANGED <<log, sent, wire, cursor, shown, breaks, failures>>
\* (A mutant of Rebased.)
RebasedKeepsCursor ==
    /\ stream = "rebasing" /\ refresh = "idle" /\ stream' = "closed"
    /\ UNCHANGED <<log, sent, wire, cursor, breaks, view>>
Rebased ==
    /\ stream = "rebasing" /\ refresh = "idle" /\ stream' = "closed"
    /\ cursor' = IF status = "error" THEN cursor ELSE [gen |-> shown[CHOOSE c \in Collections : TRUE].gen, at |-> 0]
    /\ UNCHANGED <<log, sent, wire, breaks, view>>

Next == Mount \/ Append \/ Restart \/ Open \/ Write \/ Break \/ Receive \/ Hydrated \/ HydrateFailed \/ Rebase
        \/ Rebased \/ \E c \in Collections : ReadOne(c)
Fairness == WF_vars(Open) /\ WF_vars(Write) /\ WF_vars(Receive) /\ WF_vars(Hydrated) /\ WF_vars(Rebase)
            /\ WF_vars(Rebased) /\ \A c \in Collections : WF_vars(ReadOne(c))

-----------------------------------------------------------------------------
\* Every variable has its type.
TypeOK ==
    /\ stream \in {"closed", "refused", "rebasing", "open"} /\ refresh \in {"unmounted", "idle", "reading"}
    /\ status \in {"loading", "refreshing", "ready", "error"} /\ DOMAIN read \subseteq Collections
    /\ cursor.at \in 0..MaxEvents /\ sent.at \in 0..MaxEvents

Reflects(s, at) == s.gen > at.gen \/ (s.gen = at.gen /\ s.at >= at.at)
\* A dashboard that says it is synchronised shows, in every collection, the
\* state after the last event it received, wherever its refreshes began and
\* although they are coalesced.
ReadyReflectsEvents == status = "ready" => \A c \in Collections : Reflects(shown[c], cursor)

\* Once nothing more happens, an open dashboard has received every event of the
\* daemon's log and shows its newest state, unless it says that a read failed.
\* (A restored database is noticed when it is shorter than the cursor, or with
\* its next event.)
CatchesUp ==
    <>[](refresh = "unmounted" \/ /\ cursor.at = log.latest
                                  /\ status = "error" \/ cursor.gen # log.gen \/ \A c \in Collections : shown[c] = Now)
=============================================================================
