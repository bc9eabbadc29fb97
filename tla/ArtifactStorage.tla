-------------------------- MODULE ArtifactStorage --------------------------
(***************************************************************************)
(* Storing and registering artifact content: the folder store              *)
(* (adapters/artifactstore/folder), ingestion (core/artifactingest,        *)
(* core/artifactops), text extraction (core/artifactderive) and their      *)
(* registries (sqlite/artifacts.go, representations.go).  Calls with the   *)
(* same or other keys and contents run concurrently, each in its own       *)
(* commits, and any of them may stop between two commits and be retried.   *)
(***************************************************************************)
EXTENDS Naturals, Sequences

CONSTANTS Calls,        \* concurrent calls
          Keys,         \* idempotency keys
          Documents,    \* what is ingested, by digest
          Unsafe,       \* documents whose header is quarantined
          MaxVersions, MaxRequests   \* bounds

VARIABLES blobs,        \* published blob files
          operations,   \* content of each key's operation record file
          metadata,     \* contents with a metadata record
          versions,     \* the registered versions of the artifact
          texts,        \* registered representations
          audit,        \* keys with an artifact.* event
          call,         \* step and request of each call
          requests      \* calls made, to bound them

vars == <<blobs, operations, metadata, versions, texts, audit, call, requests>>

NoContent == [of |-> "", kind |-> ""]
Idle == [at |-> "idle", key |-> <<>>, content |-> NoContent, base |-> 0, source |-> 0]
OperationKeys == Keys \X {"original", "text"}

Init ==
    /\ blobs = {} /\ operations = [k \in OperationKeys |-> NoContent] /\ metadata = {}
    /\ versions = <<>> /\ texts = {} /\ audit = {}
    /\ call = [c \in Calls |-> Idle] /\ requests = 0

Goes(c, step) == call' = [call EXCEPT ![c].at = step]
Ends(c) == call' = [call EXCEPT ![c] = Idle]
Requests(c, key, content, base, source) ==
    /\ requests < MaxRequests /\ requests' = requests + 1
    /\ call' = [call EXCEPT ![c] = [at |-> "put", key |-> key, content |-> content, base |-> base, source |-> source]]

\* ingest, or Revise of the version its caller saw: the content is hashed into
\* a temporary file.  A key comes with any content.
Ingest(c, k, d, base) ==
    /\ call[c].at = "idle"
    /\ Requests(c, <<k, "original">>, [of |-> d, kind |-> "original"], base, 0)
    /\ UNCHANGED <<blobs, operations, metadata, versions, texts, audit>>

Readable(content) == content \in metadata /\ content \in blobs   \* Stat and Open

\* assessMediaType: by the header, whatever the declared type.
Quarantined(content) == content.of \in Unsafe

\* Extract: not of a quarantined version; the verified original is opened and
\* processed, and the sink stores the text under the key and kind.
Derive(c, k, i) ==
    /\ call[c].at = "idle"
    /\ ~Quarantined(versions[i].content) /\ Readable(versions[i].content)
    /\ Requests(c, <<k, "text">>, [of |-> versions[i].content.of, kind |-> "text"], 0, i)
    /\ UNCHANGED <<blobs, operations, metadata, versions, texts, audit>>

\* Put up to the blob: a key that stored other content is a conflict.
PutBlob(c) ==
    /\ call[c].at = "put"
    /\ IF operations[call[c].key] \in {NoContent, call[c].content}
       THEN blobs' = blobs \cup {call[c].content} /\ Goes(c, "operation")
       ELSE UNCHANGED blobs /\ Ends(c)
    /\ UNCHANGED <<operations, metadata, versions, texts, audit, requests>>

\* (Mutants of EnsureOperation.)
EnsureOperationBlind(c) ==
    /\ call[c].at = "operation"
    /\ operations' = [operations EXCEPT ![call[c].key] = IF @ = NoContent THEN call[c].content ELSE @]
    /\ Goes(c, "metadata")
    /\ UNCHANGED <<blobs, metadata, versions, texts, audit, requests>>
EnsureOperationReturns(c) ==
    /\ call[c].at = "operation"
    /\ IF operations[call[c].key] = NoContent
       THEN operations' = [operations EXCEPT ![call[c].key] = call[c].content] /\ Goes(c, "metadata")
       ELSE /\ UNCHANGED operations
            /\ IF operations[call[c].key] = call[c].content THEN Goes(c, "register") ELSE Ends(c)
    /\ UNCHANGED <<blobs, metadata, versions, texts, audit, requests>>
\* ensureOperation: the record is linked once; who comes second compares.
EnsureOperation(c) ==
    /\ call[c].at = "operation"
    /\ IF operations[call[c].key] = NoContent
       THEN operations' = [operations EXCEPT ![call[c].key] = call[c].content] /\ Goes(c, "metadata")
       ELSE /\ UNCHANGED operations
            /\ IF operations[call[c].key] = call[c].content THEN Goes(c, "metadata") ELSE Ends(c)
    /\ UNCHANGED <<blobs, metadata, versions, texts, audit, requests>>

\* ensureMetadata: the first record, with its time, stays.
EnsureMetadata(c) ==
    /\ call[c].at = "metadata"
    /\ metadata' = metadata \cup {call[c].content}
    /\ Goes(c, "register")
    /\ UNCHANGED <<blobs, operations, versions, texts, audit, requests>>

SameKey(c) == {i \in DOMAIN versions : versions[i].key = call[c].key}
NewVersion(c) == [key |-> call[c].key, content |-> call[c].content, base |-> call[c].base]

\* (A mutant of Register.)
RegisterAnyBase(c) ==
    /\ call[c].at = "register" /\ call[c].source = 0
    /\ IF SameKey(c) = {} /\ Len(versions) < MaxVersions
       THEN versions' = Append(versions, NewVersion(c)) /\ Goes(c, "audit")
       ELSE UNCHANGED versions /\ Ends(c)
    /\ UNCHANGED <<blobs, operations, metadata, texts, audit, requests>>
\* Register, in one transaction: a key seen before returns its version when the
\* registration is the same; a revision must be based on the latest version.
Register(c) ==
    /\ call[c].at = "register" /\ call[c].source = 0
    /\ LET seen == SameKey(c) IN
       CASE seen # {} /\ \A i \in seen : versions[i].content = call[c].content ->
               UNCHANGED versions /\ Goes(c, "audit")
         [] seen = {} /\ call[c].base \in {0, Len(versions)} /\ Len(versions) < MaxVersions ->
               versions' = Append(versions, NewVersion(c)) /\ Goes(c, "audit")
         [] OTHER -> UNCHANGED versions /\ Ends(c)
    /\ UNCHANGED <<blobs, operations, metadata, texts, audit, requests>>

\* RegisterRepresentation, of the exact source version.
RegisterRepresentation(c) ==
    /\ call[c].at = "register" /\ call[c].source # 0
    /\ texts' = texts \cup {[version |-> call[c].source, key |-> call[c].key, content |-> call[c].content]}
    /\ Goes(c, "audit")
    /\ UNCHANGED <<blobs, operations, metadata, versions, audit, requests>>

\* recordAuditEvent: its operation and command are derived from the key.
RecordAudit(c) ==
    /\ call[c].at = "audit"
    /\ audit' = audit \cup {call[c].key}
    /\ Ends(c)
    /\ UNCHANGED <<blobs, operations, metadata, versions, texts, requests>>

\* A call ends between two commits: an error, or the daemon stops.
Stop(c) ==
    /\ call[c].at # "idle"
    /\ Ends(c)
    /\ UNCHANGED <<blobs, operations, metadata, versions, texts, audit, requests>>

Next ==
    \E c \in Calls :
       \/ \E k \in Keys, d \in Documents, base \in {0, Len(versions)} : Ingest(c, k, d, base)
       \/ \E k \in Keys, i \in DOMAIN versions : Derive(c, k, i)
       \/ PutBlob(c) \/ EnsureOperation(c) \/ EnsureMetadata(c)
       \/ Register(c) \/ RegisterRepresentation(c) \/ RecordAudit(c) \/ Stop(c)

Spec == Init /\ [][Next]_vars

-----------------------------------------------------------------------------
TypeOK ==
    /\ audit \subseteq OperationKeys /\ Len(versions) <= MaxVersions /\ requests <= MaxRequests
    /\ \A k \in OperationKeys : operations[k] = NoContent \/ operations[k].of \in Documents
    /\ \A t \in texts : t.version \in DOMAIN versions /\ ~Quarantined(versions[t.version].content)

\* Whatever is registered can be read back: its blob and metadata were
\* published first, also when it was another call, since stopped, that
\* published a part of them.
RegisteredIsReadable ==
    \A x \in {versions[i] : i \in DOMAIN versions} \cup texts : Readable(x.content)

\* An idempotency key stands for one content and one version, in the store and
\* in the registry, although both are written by racing calls and retries.
OneContentPerKey ==
    \A i \in DOMAIN versions :
       /\ operations[versions[i].key] = versions[i].content
       /\ \A j \in DOMAIN versions : versions[i].key = versions[j].key => i = j

\* A revision directly follows the version its author saw.
RevisionsFollowBase == \A i \in DOMAIN versions : versions[i].base \in {0, i - 1}
-----------------------------------------------------------------------------
(* The inductive invariant that MCWork's proof of ArtifactsStored uses.  What *)
(* is registered is readable because of what the call that registers it, or  *)
(* one before it with the same content, left on disk at every step.          *)

Content == [of : Documents, kind : {"original", "text"}]
CallShape ==
    [at : {"idle", "put", "operation", "metadata", "register", "audit"}, key : OperationKeys \cup {<<>>},
     content : Content \cup {NoContent}, base : Nat, source : Nat]
StoreTypes ==
    /\ operations \in [OperationKeys -> Content \cup {NoContent}]
    /\ versions \in Seq([key : OperationKeys, content : Content, base : Nat])
    /\ Len(versions) <= MaxVersions /\ requests \in Nat /\ requests <= MaxRequests
    /\ audit \subseteq OperationKeys /\ call \in [Calls -> CallShape]

\* How far the content of a call has come when the call is at a step.
Published(x) ==
    /\ x.at # "idle" => x.key \in OperationKeys /\ x.content \in Content
    /\ x.at # "idle" /\ x.source # 0 =>
          x.source \in 1 .. Len(versions) /\ ~Quarantined(versions[x.source].content)
    /\ x.at \in {"operation", "metadata", "register", "audit"} => x.content \in blobs
    /\ x.at \in {"metadata", "register", "audit"} => operations[x.key] = x.content
    /\ x.at \in {"register", "audit"} => x.content \in metadata

Registered ==
    /\ \A i \in 1 .. Len(versions) :
          /\ Readable(versions[i].content)
          /\ operations[versions[i].key] = versions[i].content
          /\ versions[i].base \in {0, i - 1}
          /\ \A j \in 1 .. Len(versions) : versions[i].key = versions[j].key => i = j
    /\ \A t \in texts :
          Readable(t.content) /\ t.version \in 1 .. Len(versions) /\ ~Quarantined(versions[t.version].content)

StoreInv == StoreTypes /\ Registered /\ \A c \in Calls : Published(call[c])

\* What is on disk stays, and registered versions stay.
Grows ==
    /\ blobs \subseteq blobs' /\ metadata \subseteq metadata'
    /\ \A k \in OperationKeys : operations[k] # NoContent => operations'[k] = operations[k]
    /\ Len(versions) <= Len(versions') /\ \A i \in 1 .. Len(versions) : versions'[i] = versions[i]
=============================================================================
