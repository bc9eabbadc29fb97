--------------------------- MODULE ContextEvidence ---------------------------
(***************************************************************************)
(* The context manifest of an attempt (core/contextmanifest and the SQLite *)
(* store): evidence is selected from the candidates of a request, within a *)
(* budget, and frozen.  Prepare is a package operation that no part of the *)
(* daemon calls yet, so the callers are any two that overlap, for any      *)
(* attempt, with any candidates.                                           *)
(***************************************************************************)
EXTENDS Naturals, Sequences, FiniteSets, SequencesExt, FiniteSetsExt

CONSTANTS Evidence,     \* records [id, required, rank, tokens, eligible], one rank each
          Attempts, Calls, Keys,
          Budget, Reserved, MaxRequests

VARIABLES call,         \* call -> its step, its attempt and key, what it selected
          manifest,     \* context_manifests: attempt -> a manifest or Nothing
          requests

vars == <<call, manifest, requests>>

Nothing == [entries |-> {}, omitted |-> {}, key |-> "none"]
NoCall == [at |-> "idle", attempt |-> CHOOSE a \in Attempts : TRUE, chosen |-> Nothing]

Init ==
    /\ call = [c \in Calls |-> NoCall]
    /\ manifest = [a \in Attempts |-> Nothing]
    /\ requests = 0

-----------------------------------------------------------------------------
(* Selection within the budget.                                              *)

\* The order of selection: required ones first, then by rank.
Ordered(S) == SetToSortSeq(S, LAMBDA a, b : (a.required /\ ~b.required) \/ (a.required = b.required /\ a.rank < b.rank))
\* (A mutant of Fits.)
FitsBelow(used, e) == used + e.tokens < Budget
Fits(used, e) == used + e.tokens <= Budget
\* omissionReason: a candidate that is not eligible, or is withheld, is left out.
Usable(e) == e.eligible
Spent(taken) == Reserved + MapThenSumSet(LAMBDA x : x.tokens, taken)
\* selectEntries: one candidate after the other, each taken if it still fits.
Taken(taken, e) == IF Usable(e) /\ Fits(Spent(taken), e) THEN taken \cup {e} ELSE taken
selectEntries(S) == FoldLeft(Taken, {}, Ordered(S))
\* A required candidate that is left out fails the preparation.
RequiredTaken(S) == \A e \in S : e.required => e \in selectEntries(S)

-----------------------------------------------------------------------------
(* Prepare: select, look for the attempt's manifest, store.                  *)

Begin(c, a, k, S) ==
    /\ call[c].at \in {"idle", "answered", "refused"}
    /\ requests < MaxRequests /\ requests' = requests + 1
    /\ call' = [call EXCEPT ![c] =
                  IF RequiredTaken(S)
                  THEN [at |-> "read", attempt |-> a,
                        chosen |-> [entries |-> selectEntries(S), omitted |-> S \ selectEntries(S), key |-> k]]
                  ELSE [NoCall EXCEPT !.at = "refused", !.attempt = a]]
    /\ UNCHANGED manifest

\* The digest covers what is chosen and what is omitted, not the key.
SameDigest(m, n) == m.entries = n.entries /\ m.omitted = n.omitted

\* ManifestForAttempt: one with the same digest is the answer, another is frozen.
ReadManifest(c) ==
    /\ call[c].at = "read"
    /\ LET m == manifest[call[c].attempt] IN
       call' = [call EXCEPT ![c].at = IF m = Nothing THEN "store"
                                      ELSE IF SameDigest(m, call[c].chosen) THEN "answered" ELSE "refused"]
    /\ UNCHANGED <<manifest, requests>>

\* StoreManifest, in one transaction: a manifest that came in between is answered
\* only under the same key and frozen at the same instant; a key that another
\* attempt has used fails the insert.
StoreManifest(c) ==
    /\ call[c].at = "store"
    /\ LET a == call[c].attempt
           n == call[c].chosen
       IN \/ /\ manifest[a] = Nothing /\ \A b \in Attempts : manifest[b].key # n.key
             /\ manifest' = [manifest EXCEPT ![a] = n]
             /\ call' = [call EXCEPT ![c].at = "answered"]
          \/ /\ manifest[a] = n /\ call' = [call EXCEPT ![c].at = "answered"] /\ UNCHANGED manifest
          \/ /\ \E b \in Attempts : manifest[b].key = n.key \/ (b = a /\ manifest[b] # Nothing)
             /\ call' = [call EXCEPT ![c].at = "refused"] /\ UNCHANGED manifest
    /\ UNCHANGED requests

Next ==
    \E c \in Calls :
        \/ ReadManifest(c) \/ StoreManifest(c)
        \/ \E a \in Attempts, k \in Keys, S \in SUBSET Evidence : Begin(c, a, k, S)
Spec == Init /\ [][Next]_vars

-----------------------------------------------------------------------------
TypeOK ==
    /\ \A c \in Calls : call[c].at \in {"idle", "read", "store", "answered", "refused"}
    /\ \A a \in Attempts : manifest[a].entries \subseteq Evidence
    /\ requests \in 0..MaxRequests

\* A frozen manifest is within its budget and leaves out no required candidate,
\* and optional evidence only where what comes before it had used the budget up;
\* and whoever was answered for an attempt, overlapping or repeating another,
\* selected what that attempt's one manifest holds.
SelectionIsSound ==
    /\ \A a \in Attempts :
           LET m == manifest[a] IN
           /\ Spent(m.entries) <= Budget
           /\ \A e \in m.omitted :
                 /\ ~e.required
                 /\ Usable(e) => Spent({x \in m.entries : x.required \/ x.rank < e.rank}) + e.tokens > Budget
    /\ \A c \in Calls : call[c].at = "answered" => SameDigest(manifest[call[c].attempt], call[c].chosen)
=============================================================================
