---------------------------- MODULE MCProviders ----------------------------
(***************************************************************************)
(* Both ends of the streams of events, for TLC: the provider adapters and the*)
(* plugin session, the dashboard that follows the event feed, and the artifact*)
(* reviews between agents and people.  They share no state: a behaviour belongs*)
(* to one of them, its subject, and the others stay in their initial states.*)
(***************************************************************************)
EXTENDS Naturals, Sequences, FiniteSets

VARIABLES subject,
    \* CodexAttempt
    codexLaunch, codexProcess, codexTurn, codexWire, codexPump, codexStop,
    codexInterrupted, codexResult, codexRequests, codexResponses, codexWritten,
    codexTold, codexPanicked,
    \* AppServerClient
    clientCall, clientReply, clientPending, clientThreads, clientStdout, clientQueue,
    clientTaken, clientSent, clientServer, clientClosing, clientDone,
    clientStdinClosed, clientShutdown,
    \* PluginSession
    sessionClient, sessionAlive, sessionOpened, sessionNext, sessionWriter,
    sessionCallbacks, sessionCalls, sessionWire, sessionAnswered, sessionMade,
    sessionFaults,
    \* EventFeed
    feedLog, feedStream, feedSent, feedWire, feedCursor, feedShown, feedRead,
    feedRefresh, feedAgain, feedStatus, feedBreaks, feedFailures,
    \* ArtifactReview
    reviewRounds, reviewLatest, reviewControl, reviewVisit, reviewAccepted, reviewPass,
    reviewAttempt, reviewWorker, reviewUserRevisions, reviewRestarts

Codex == INSTANCE CodexAttempt WITH
        Requests <- {"q"}, Keys <- {"k"}, MaxMessages <- 1, launch <- codexLaunch,
        process <- codexProcess, turn <- codexTurn, wire <- codexWire,
        pump <- codexPump, stop <- codexStop, interrupted <- codexInterrupted,
        result <- codexResult, requests <- codexRequests, responses <- codexResponses,
        written <- codexWritten, told <- codexTold, panicked <- codexPanicked
Client == INSTANCE AppServerClient WITH
        Callers <- {"c"}, Threads <- {"t"}, MaxSent <- 2, call <- clientCall,
        reply <- clientReply, pending <- clientPending, threads <- clientThreads,
        stdout <- clientStdout, queue <- clientQueue, taken <- clientTaken,
        sent <- clientSent, server <- clientServer, closing <- clientClosing,
        done <- clientDone, stdinClosed <- clientStdinClosed, shutdown <- clientShutdown
Session == INSTANCE PluginSession WITH
        Callers <- {"c1", "c2"}, Sessions <- 1..2, MaxPending <- 1, MaxCallbacks <- 1,
        MaxCalls <- 2, MaxFaults <- 1, client <- sessionClient, alive <- sessionAlive,
        opened <- sessionOpened, next <- sessionNext, writer <- sessionWriter,
        callbacks <- sessionCallbacks, calls <- sessionCalls, wire <- sessionWire,
        answered <- sessionAnswered, made <- sessionMade, faults <- sessionFaults
Feed == INSTANCE EventFeed WITH
        Collections <- {"runs", "work"}, Batch <- 2, MaxEvents <- 2, MaxBreaks <- 1,
        MaxFailures <- 1, log <- feedLog, stream <- feedStream, sent <- feedSent,
        wire <- feedWire, cursor <- feedCursor, shown <- feedShown, read <- feedRead,
        refresh <- feedRefresh, again <- feedAgain, status <- feedStatus,
        breaks <- feedBreaks, failures <- feedFailures
Review == INSTANCE ArtifactReview WITH
        Outputs <- <<"plan">>, MaxVersion <- 3, MaxResource <- 4,
        MaxUserRevisions <- 1, MaxRestarts <- 1, rounds <- reviewRounds,
        latest <- reviewLatest, control <- reviewControl, visit <- reviewVisit,
        accepted <- reviewAccepted, pass <- reviewPass, attempt <- reviewAttempt,
        worker <- reviewWorker, userRevisions <- reviewUserRevisions,
        restarts <- reviewRestarts

codexVars ==
    <<codexLaunch, codexProcess, codexTurn, codexWire, codexPump, codexStop,
      codexInterrupted, codexResult, codexRequests, codexResponses, codexWritten,
      codexTold, codexPanicked>>
clientVars ==
    <<clientCall, clientReply, clientPending, clientThreads, clientStdout, clientQueue,
      clientTaken, clientSent, clientServer, clientClosing, clientDone,
      clientStdinClosed, clientShutdown>>
sessionVars ==
    <<sessionClient, sessionAlive, sessionOpened, sessionNext, sessionWriter,
      sessionCallbacks, sessionCalls, sessionWire, sessionAnswered, sessionMade,
      sessionFaults>>
feedVars ==
    <<feedLog, feedStream, feedSent, feedWire, feedCursor, feedShown, feedRead,
      feedRefresh, feedAgain, feedStatus, feedBreaks, feedFailures>>
reviewVars ==
    <<reviewRounds, reviewLatest, reviewControl, reviewVisit, reviewAccepted,
      reviewPass, reviewAttempt, reviewWorker, reviewUserRevisions, reviewRestarts>>
vars == <<subject, codexVars, clientVars, sessionVars, feedVars, reviewVars>>

Init ==
    /\ subject \in {"codex", "client", "session", "feed", "review"}
    /\ Codex!Init
    /\ Client!Init
    /\ Session!Init
    /\ Feed!Init
    /\ Review!Init


Next ==
    /\ UNCHANGED subject
    /\ \/ /\ subject = "codex" /\ Codex!Next
          /\ UNCHANGED <<clientVars, sessionVars, feedVars, reviewVars>>
       \/ /\ subject = "client" /\ Client!Next
          /\ UNCHANGED <<codexVars, sessionVars, feedVars, reviewVars>>
       \/ /\ subject = "session" /\ Session!Next
          /\ UNCHANGED <<codexVars, clientVars, feedVars, reviewVars>>
       \/ /\ subject = "feed" /\ Feed!Next
          /\ UNCHANGED <<codexVars, clientVars, sessionVars, reviewVars>>
       \/ /\ subject = "review" /\ Review!Next
          /\ UNCHANGED <<codexVars, clientVars, sessionVars, feedVars>>

\* None of the fair actions is enabled in an initial state, so the fairness of
\* a component says nothing about the behaviours of the others.
Spec == Init /\ [][Next]_vars /\ Codex!Fairness /\ Client!Fairness /\ Session!Fairness /\
     Feed!Fairness /\ Review!Fairness

-----------------------------------------------------------------------------

\* An attempt on the app server (provider/codex/adapter.go).
\* ReportedIsReleased: An attempt reported as succeeded, cancelled or
\* interrupted has no process left, whichever of pump, cancellation and timeout
\* reported it.
\* ResultStays: Whatever the pump and the stop do concurrently, the first
\* result stays.
\* AnsweredOnce: A request of the server is answered at most once.
\* CancelTellsEnd: A caller of CancelAttempt that was told how the attempt
\* ended finds it ended.
\* StopEnds: Cancellation and timeout end with a result although the server may
\* ignore the interruption, die, or survive the kill.
CodexAttemptEnds ==
    /\ [](subject = "codex" =>
          Codex!TypeOK /\ Codex!ReportedIsReleased /\ Codex!AnsweredOnce /\
          Codex!CancelTellsEnd)
    /\ Codex!ResultStays /\ Codex!StopEnds

\* Calls to child processes (appserver_client.go, provider/typescript,
\* plugin/process/session.go).
\* ReleasedBeforeClose: "every owned thread is unsubscribed successfully before
\* stdin is closed", whatever answers, errors and kills come in between.
\* WireOrder: The consumer sees the server's messages in order and without a
\* gap.
\* CallsReturn: A call whose connection ends returns: no caller waits for ever
\* on a server that is gone, in whichever order registration, death and reading
\* happen.
\* ReplyIsMine: A call only ever takes the answer to its own request, whatever
\* answers were late, repeated or out of order.
\* NoLeakedSession: Every plugin process that runs is the adapter's own or in
\* the hands of a caller that will close or install it.
\* CallsEnd: Every call on a session that failed returns.
CallsAreAnswered ==
    /\ [](subject = "client" => Client!TypeOK /\ Client!ReleasedBeforeClose)
    /\ Client!WireOrder /\ Client!CallsReturn
    /\ [](subject = "session" =>
          Session!TypeOK /\ Session!ReplyIsMine /\ Session!NoLeakedSession)
    /\ Session!CallsEnd

\* The event feed and the dashboard (api/server.go,
\* DashboardStateProvider.tsx).
\* ReadyReflectsEvents: A dashboard that says it is synchronised shows, in
\* every collection, the state after the last event it received, wherever its
\* refreshes began and although they are coalesced.
\* CatchesUp: Once nothing more happens, an open dashboard has received every
\* event of the daemon's log and shows its newest state, unless it says that a
\* read failed. (A restored database is noticed when it is shorter than the
\* cursor, or with its next event.)
DashboardCatchesUp ==
    /\ [](subject = "feed" => Feed!TypeOK /\ Feed!ReadyReflectsEvents)
    /\ Feed!CatchesUp

\* Artifact reviews (artifact_reviews.go, artifactcheckpoint/service.go).
\* AcceptedIsApproved: What a node hands on is, output by output, the exact
\* version a person approved last, although newer versions may be registered.
\* OneChain: The rounds of an output are one chain: only the last is open,
\* every earlier one was superseded by the next version, none is opened or
\* closed twice.
\* ApprovedIsFinal: An approved document is never handed back to an agent.
\* AgentTurnEnds: Feedback is answered: every agent turn ends, also when the
\* daemon stops between the attempt's completion and the response.
ReviewsAreFaithful ==
    /\ [](subject = "review" =>
          Review!TypeOK /\ Review!AcceptedIsApproved /\ Review!OneChain)
    /\ Review!ApprovedIsFinal /\ Review!AgentTurnEnds
=============================================================================
