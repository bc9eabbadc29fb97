---------------------------- MODULE Interactions ----------------------------
(***************************************************************************)
(* A provider's question or permission request (core/runexecution/         *)
(* inputs.go and permissions.go): users decide it concurrently, the answer *)
(* is recorded durably, then delivered to the live provider, then the      *)
(* receipt is recorded.  Every step of a call may fail, the daemon may     *)
(* restart between any two, and delivery is retried with the recorded key. *)
(***************************************************************************)
EXTENDS Naturals, FiniteSets

CONSTANTS Users,        \* each has an idempotency key and answer of its own
          MaxRestarts

VARIABLES request,      \* the projection: kind, status, version, recorded answer
          owner,        \* the attempt and its run: active, ended; the work retained
          adapter,      \* the provider session: absent, open, or answered by a user's key
          received,     \* answers the provider got, in any session
          calls,        \* the step each user's call is at, and the projection it read
          restarts

vars == <<request, owner, adapter, received, calls, restarts>>

None == "none"
Idle == [at |-> "idle", read |-> 0]

Init ==
    /\ request \in [kind : {"question", "permission"}, status : {"pending"}, version : {1}, answer : {None}]
    /\ owner = [active |-> TRUE, retained |-> TRUE]
    /\ adapter = "open" /\ received = {}
    /\ calls = [u \in Users |-> Idle]
    /\ restarts = 0

At(u, step) == calls' = [calls EXCEPT ![u] = [at |-> step, read |-> request.version]]
Returns(u) == calls' = [calls EXCEPT ![u] = Idle]

\* A new answer is recorded; the recorded one is delivered again, for its own key.
AnswerOrDeliver(u) ==
    \/ request.status = "pending" /\ At(u, "record")
    \/ request.status = "recorded" /\ request.answer = u /\ At(u, "deliver")

\* AnswerInput up to the append.
AnswerInput(u) ==
    /\ calls[u].at = "idle" /\ request.kind = "question"
    /\ AnswerOrDeliver(u)
    /\ UNCHANGED <<request, owner, adapter, received, restarts>>

\* DecideProviderPermission up to the append: the attempt and its run must
\* still be active.
DecideProviderPermission(u) ==
    /\ calls[u].at = "idle" /\ request.kind = "permission"
    /\ owner.active
    /\ AnswerOrDeliver(u)
    /\ UNCHANGED <<request, owner, adapter, received, restarts>>

\* (A mutant of Record.)
RecordLast(u) ==
    /\ calls[u].at = "record"
    /\ IF owner.retained /\ request.status # "answered"
       THEN /\ request' = [request EXCEPT !.status = "recorded", !.version = @ + 1, !.answer = u]
            /\ calls' = [calls EXCEPT ![u] = [at |-> "deliver", read |-> request.version + 1]]
       ELSE Returns(u) /\ UNCHANGED request
    /\ UNCHANGED <<owner, adapter, received, restarts>>
\* The append of answer_recorded or decision_recorded, at the version read; it
\* is refused while the work is being deleted.
Record(u) ==
    /\ calls[u].at = "record"
    /\ IF calls[u].read = request.version /\ owner.retained
       THEN /\ request' = [request EXCEPT !.status = "recorded", !.version = @ + 1, !.answer = u]
            /\ calls' = [calls EXCEPT ![u] = [at |-> "deliver", read |-> request.version + 1]]
       ELSE Returns(u) /\ UNCHANGED request
    /\ UNCHANGED <<owner, adapter, received, restarts>>

\* Any user may retry the delivery of the recorded answer.
RetryInputDelivery(u) ==
    /\ calls[u].at = "idle" /\ request.kind = "question" /\ request.status = "recorded"
    /\ At(u, "deliver")
    /\ UNCHANGED <<request, owner, adapter, received, restarts>>
RetryProviderPermissionDelivery(u) ==
    /\ calls[u].at = "idle" /\ request.kind = "permission" /\ request.status = "recorded"
    /\ owner.active
    /\ At(u, "deliver")
    /\ UNCHANGED <<request, owner, adapter, received, restarts>>

\* (A mutant of Deliver.)
DeliverAssumed(u) ==
    /\ calls[u].at = "deliver"
    /\ \/ /\ adapter \in {"open", request.answer}
          /\ adapter' = request.answer
          /\ received' = received \cup {request.answer}
       \/ UNCHANGED <<adapter, received>>
    /\ calls' = [calls EXCEPT ![u].at = "receipt"]
    /\ UNCHANGED <<request, owner, restarts>>
\* adapter.Respond with the recorded key: no worker or a session that does not
\* know the request, an error, or a receipt, repeated for a repeated key.
Deliver(u) ==
    /\ calls[u].at = "deliver"
    /\ \/ /\ adapter \in {"open", request.answer}
          /\ adapter' = request.answer
          /\ received' = received \cup {request.answer}
          /\ calls' = [calls EXCEPT ![u].at = "receipt"]
       \/ Returns(u) /\ UNCHANGED <<adapter, received>>
    /\ UNCHANGED <<request, owner, restarts>>

\* The append of answer_delivered or response_delivered at the version read.
Receipt(u) ==
    /\ calls[u].at = "receipt"
    /\ request' = IF calls[u].read = request.version
                  THEN [request EXCEPT !.status = "answered", !.version = @ + 1] ELSE request
    /\ Returns(u)
    /\ UNCHANGED <<owner, adapter, received, restarts>>

-----------------------------------------------------------------------------
\* The attempt ends, or the work is being deleted, at any moment.
OwnerEnds ==
    /\ owner.active /\ owner' = [owner EXCEPT !.active = FALSE] /\ adapter' = "absent"
    /\ UNCHANGED <<request, received, calls, restarts>>
WorkDeleting ==
    /\ owner.retained /\ owner' = [owner EXCEPT !.retained = FALSE]
    /\ UNCHANGED <<request, adapter, received, calls, restarts>>

\* The daemon restarts: calls and the session are gone; a resumed attempt's
\* session may ask again under the same request identity.
Restart ==
    /\ restarts < MaxRestarts /\ restarts' = restarts + 1
    /\ calls' = [u \in Users |-> Idle]
    /\ adapter' = "absent"
    /\ UNCHANGED <<request, owner, received>>
Resume ==
    /\ owner.active /\ adapter = "absent"
    /\ adapter' = "open"
    /\ UNCHANGED <<request, owner, received, calls, restarts>>

Next ==
    \/ \E u \in Users : \/ AnswerInput(u) \/ DecideProviderPermission(u) \/ Record(u)
                       \/ RetryInputDelivery(u) \/ RetryProviderPermissionDelivery(u)
                       \/ Deliver(u) \/ Receipt(u)
    \/ OwnerEnds \/ WorkDeleting \/ Restart \/ Resume

Spec == Init /\ [][Next]_vars

-----------------------------------------------------------------------------
TypeOK ==
    /\ request.status \in {"pending", "recorded", "answered"} /\ request.version \in 1..3
    /\ request.answer \in Users \cup {None}
    /\ adapter \in {"absent", "open"} \cup Users
    /\ received \subseteq Users /\ restarts \in 0..MaxRestarts

\* The provider never receives an answer other than the recorded one, however
\* many users decide at once and however often delivery is retried.
OneAnswer == received \subseteq {request.answer}

\* A request shown as answered was received by the provider.
AnsweredWasReceived == request.status = "answered" => request.answer \in received

-----------------------------------------------------------------------------
(* The inductive invariant that MCWork's proof of AnswersOnce uses.         *)
(* OneAnswer is not inductive: a call holds the version it read while       *)
(* others record, deliver and restart.  What makes a late append harmless   *)
(* is that the version tells how far the request has come.                  *)

\* The version counts the events: requested, recorded, delivered.
Progress ==
    /\ request \in [kind : {"question", "permission"}, status : {"pending", "recorded", "answered"},
                    version : 1 .. 3, answer : Users \cup {None}]
    /\ request.version = 1 <=> request.status = "pending"
    /\ request.version = 3 <=> request.status = "answered"

\* A call that will record read the pending request; one that delivers, or has
\* delivered, read the recorded one.
CallsRead ==
    /\ calls \in [Users -> [at : {"idle", "record", "deliver", "receipt"}, read : 0 .. 3]]
    /\ \A u \in Users :
          /\ calls[u].at = "record" => calls[u].read = 1
          /\ calls[u].at \in {"deliver", "receipt"} => calls[u].read = 2 /\ request.version >= 2
          /\ calls[u].at = "receipt" => request.answer \in received

\* Nothing was received before an answer was recorded, and nothing else after.
Answers ==
    /\ request.status = "pending" => received = {}
    /\ OneAnswer
    /\ AnsweredWasReceived

AnswerInv == Progress /\ CallsRead /\ Answers
=============================================================================
