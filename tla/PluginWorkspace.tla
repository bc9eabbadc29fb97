-------------------------- MODULE PluginWorkspace --------------------------
(***************************************************************************)
(* The workspace a plugin's tools work in (core/pluginworkspace,           *)
(* adapters/workspace/folder).  Calls of one or several attempts read,     *)
(* create and replace files of granted areas and publish a staged file as  *)
(* an artifact of the work item.  One mutex of the folder makes each file  *)
(* operation a unit for other calls, but not for the daemon stopping in    *)
(* the middle of it, and a tool call may be several file operations.       *)
(*                                                                         *)
(* A file holds a content or is torn: a write that stopped half way.  The  *)
(* digest of a content is the content.  Paths that are refused and links   *)
(* never reach these steps.                                                *)
(***************************************************************************)
EXTENDS Integers, FiniteSets, FiniteSetsExt

CONSTANTS
    Callers, AttemptOf,   \* the calls under way, and the attempt each belongs to
    Names,                \* file names
    Contents, Size,       \* what files hold, and their sizes
    Keys,                 \* publication keys
    AreaBytes, AreaFiles, \* quota of an area
    MaxCalls              \* bound on tool calls and stops

VARIABLES
    files,      \* for each area and name, what the file holds
    temps,      \* for each area, number and bytes of its temporary files
    whole,      \* the files that were completely written at some time
    mu,         \* the caller that holds the folder's mutex
    calls,      \* for each caller, how far its tool call came
    artifacts,  \* for each publication key, the artifact ingested under it
    attached,   \* publication keys whose artifact is attached to the work item
    answers,    \* what the tools answered
    started     \* how many of MaxCalls happened

vars == <<files, temps, whole, mu, calls, artifacts, attached, answers, started>>

Missing == "missing"
Torn == "torn"
Free == "free"
Idle == [pc |-> "idle"]

\* Bind: state is shared by the attempts of a plugin, the staged area is the attempt's own.
Attempts == {AttemptOf[c] : c \in Callers}
Areas == {<<"state", "">>} \cup ({"staged"} \X Attempts)
Bind(c) == {<<"state", "">>, <<"staged", AttemptOf[c]>>}

Init ==
    /\ files = [a \in Areas |-> [n \in Names |-> Missing]]
    /\ temps = [a \in Areas |-> [files |-> 0, bytes |-> 0]]
    /\ whole = {}
    /\ mu = Free
    /\ calls = [c \in Callers |-> Idle]
    /\ artifacts = [k \in Attempts \X Keys |-> Missing]
    /\ attached = {}
    /\ answers = {}
    /\ started = 0

At(c, pc) == calls[c].pc = pc
Count == started < MaxCalls /\ started' = started + 1
Refuse(c) == calls' = [calls EXCEPT ![c] = Idle] /\ UNCHANGED answers
Held(c) == files[calls[c].area][calls[c].name]
Put(c, held) == files' = [files EXCEPT ![calls[c].area][calls[c].name] = held]

-----------------------------------------------------------------------------
(* The quota *)

sizeOf(held) == CASE held = Missing -> 0 [] held = Torn -> 1 [] OTHER -> Size[held]
\* The walk over the area counts every regular file, the temporary ones too.
present(a) == {n \in Names : files[a][n] # Missing}
bytesOf(a) == FoldSet(LAMBDA n, sum : sum + sizeOf(files[a][n]), 0, Names) + temps[a].bytes
filesOf(a) == Cardinality(present(a)) + temps[a].files

fitsNew(a, data) == bytesOf(a) + Size[data] <= AreaBytes /\ filesOf(a) < AreaFiles
fitsInsteadAlone(a, old, data) == Size[data] <= AreaBytes
fitsInstead(a, old, data) == bytesOf(a) - sizeOf(old) + Size[data] <= AreaBytes

-----------------------------------------------------------------------------
(* workspace.write *)

\* Without an expected digest the file must not exist; with one it must hold exactly that.
Write(c, area, n, data, expected) ==
    /\ At(c, "idle") /\ area \in Bind(c) /\ Count
    /\ calls' = [calls EXCEPT ![c] = [pc |-> IF expected = Missing THEN "write" ELSE "replace", area |-> area, name |-> n, data |-> data, expected |-> expected]]
    /\ UNCHANGED <<files, temps, whole, mu, artifacts, attached, answers>>

exclusiveNever(c) == TRUE
\* WriteFile: the file is created exclusively and then filled.
exclusive(c) == Held(c) = Missing
WriteFile(c) ==
    /\ At(c, "write") /\ mu = Free
    /\ IF fitsNew(calls[c].area, calls[c].data) /\ exclusive(c)
       THEN /\ Put(c, Torn)
            /\ mu' = c
            /\ calls' = [calls EXCEPT ![c].pc = "filling"]
       ELSE /\ calls' = [calls EXCEPT ![c].pc = "failed"]
            /\ UNCHANGED <<files, mu>>
    /\ UNCHANGED <<temps, whole, artifacts, attached, answers, started>>

Filled(c) ==
    /\ At(c, "filling")
    /\ Put(c, calls[c].data)
    /\ whole' = whole \cup {<<calls[c].area, calls[c].name>>}
    /\ mu' = Free
    /\ calls' = [calls EXCEPT ![c].pc = "stored"]
    /\ UNCHANGED <<temps, artifacts, attached, answers, started>>

\* A write that fails removes the file it created.
FillFails(c) ==
    /\ At(c, "filling") /\ Count
    /\ Put(c, Missing)
    /\ mu' = Free
    /\ calls' = [calls EXCEPT ![c].pc = "failed"]
    /\ UNCHANGED <<temps, whole, artifacts, attached, answers>>

matchesAny(c) == Held(c) # Missing
\* ReplaceFile: compare the digest and the quota, then fill a temporary file.
matches(c) == Held(c) = calls[c].expected
ReplaceFile(c) ==
    /\ At(c, "replace") /\ mu = Free
    /\ IF Held(c) # Missing /\ matches(c) /\ fitsInstead(calls[c].area, Held(c), calls[c].data)
       THEN /\ temps' = [temps EXCEPT ![calls[c].area] = [files |-> @.files + 1, bytes |-> @.bytes + Size[calls[c].data]]]
            /\ mu' = c
            /\ calls' = [calls EXCEPT ![c].pc = "renaming"]
       ELSE /\ calls' = [calls EXCEPT ![c].pc = "failed"]
            /\ UNCHANGED <<temps, mu>>
    /\ UNCHANGED <<files, whole, artifacts, attached, answers, started>>

dropTemp(c) == temps' = [temps EXCEPT ![calls[c].area] = [files |-> @.files - 1, bytes |-> @.bytes - Size[calls[c].data]]]

\* The temporary file takes the name in one step.
renamed(c) == Put(c, calls[c].data)
RenameFile(c) ==
    /\ At(c, "renaming")
    /\ renamed(c) /\ dropTemp(c)
    /\ whole' = whole \cup {<<calls[c].area, calls[c].name>>}
    /\ mu' = Free
    /\ calls' = [calls EXCEPT ![c].pc = "stored"]
    /\ UNCHANGED <<artifacts, attached, answers, started>>

ReplaceFails(c) ==
    /\ At(c, "renaming") /\ Count
    /\ dropTemp(c)
    /\ mu' = Free
    /\ calls' = [calls EXCEPT ![c].pc = "failed"]
    /\ UNCHANGED <<files, whole, artifacts, attached, answers>>

sameName(c) == Held(c) # Missing
\* After a failure the file is read again: the same bytes are a success of an earlier try.
sameBytes(c) == Held(c) = calls[c].data
ReadBack(c) ==
    /\ At(c, "failed") /\ mu = Free
    /\ IF sameBytes(c) THEN calls' = [calls EXCEPT ![c].pc = "stored"] ELSE calls' = [calls EXCEPT ![c] = Idle]
    /\ UNCHANGED <<files, temps, whole, mu, artifacts, attached, answers, started>>

Stored(c) ==
    /\ At(c, "stored")
    /\ answers' = answers \cup {[tool |-> "write", file |-> <<calls[c].area, calls[c].name>>, data |-> calls[c].data]}
    /\ calls' = [calls EXCEPT ![c] = Idle]
    /\ UNCHANGED <<files, temps, whole, mu, artifacts, attached, started>>

-----------------------------------------------------------------------------
(* workspace.publish_artifact *)

\* The staged file is read, ingested under the key of the attempt, and attached.
Publish(c, n, k) ==
    LET area == <<"staged", AttemptOf[c]>> IN
    /\ At(c, "idle") /\ mu = Free /\ Count
    /\ files[area][n] # Missing
    /\ calls' = [calls EXCEPT ![c] = [pc |-> "ingest", key |-> <<AttemptOf[c], k>>, data |-> files[area][n]]]
    /\ UNCHANGED <<files, temps, whole, mu, artifacts, attached, answers>>

\* Ingest answers a repeated key with its artifact and refuses other content under it.
Ingest(c) ==
    /\ At(c, "ingest")
    /\ IF artifacts[calls[c].key] \in {Missing, calls[c].data}
       THEN /\ artifacts' = [artifacts EXCEPT ![calls[c].key] = calls[c].data]
            /\ calls' = [calls EXCEPT ![c].pc = "attach"]
       ELSE calls' = [calls EXCEPT ![c] = Idle] /\ UNCHANGED artifacts
    /\ UNCHANGED <<files, temps, whole, mu, attached, answers, started>>

publishedUnattached(c) == UNCHANGED attached
published(c) == attached' = attached \cup {calls[c].key}
Attach(c) ==
    /\ At(c, "attach")
    /\ published(c)
    /\ answers' = answers \cup {[tool |-> "publish", key |-> calls[c].key, data |-> calls[c].data]}
    /\ calls' = [calls EXCEPT ![c] = Idle]
    /\ UNCHANGED <<files, temps, whole, mu, artifacts, started>>

\* The daemon stops: what is on disk stays as it is.
Stop ==
    /\ \E c \in Callers : ~At(c, "idle")
    /\ Count
    /\ mu' = Free
    /\ calls' = [c \in Callers |-> Idle]
    /\ UNCHANGED <<files, temps, whole, artifacts, attached, answers>>

Next ==
    \/ \E c \in Callers, a \in Areas, n \in Names, data \in Contents, expected \in Contents \cup {Missing, Torn} : Write(c, a, n, data, expected)
    \/ \E c \in Callers, n \in Names, k \in Keys : Publish(c, n, k)
    \/ \E c \in Callers : WriteFile(c) \/ Filled(c) \/ FillFails(c) \/ ReplaceFile(c) \/ RenameFile(c) \/ ReplaceFails(c)
                          \/ ReadBack(c) \/ Stored(c) \/ Ingest(c) \/ Attach(c)
    \/ Stop

Spec == Init /\ [][Next]_vars

-----------------------------------------------------------------------------
TypeOK ==
    /\ files \in [Areas -> [Names -> Contents \cup {Missing, Torn}]]
    /\ temps \in [Areas -> [files : Nat, bytes : Nat]]
    /\ mu \in Callers \cup {Free}
    /\ attached \subseteq Attempts \X Keys

\* A file that was complete once is never torn again and never disappears, wherever the daemon stops
\* (ReplaceFile fills a temporary file; only a first write can leave a torn one).
WholeStaysWhole == \A f \in whole : files[f[1]][f[2]] \in Contents

\* The files a plugin sees stay within the quota of their area, also when temporary files of interrupted
\* replacements are left behind and when a replacement is larger than what it replaces (WriteFile, ReplaceFile).
QuotaHolds ==
    \A a \in Areas :
        /\ FoldSet(LAMBDA n, sum : sum + sizeOf(files[a][n]), 0, Names) <= AreaBytes
        /\ Cardinality(present(a)) <= AreaFiles

\* A publication that was answered is an artifact with exactly the bytes answered, attached to the
\* work item, whatever became of the staged file since, and retries of its key give the same (Call).
PublishedIsAttached == \A a \in answers : a.tool = "publish" => artifacts[a.key] = a.data /\ a.key \in attached

\* Nobody's bytes are lost: a complete file changes only through a caller that named the bytes it replaces,
\* though the comparison and the write are several operations of the file system (ReplaceFile).
NoLostReplacement ==
    [][\A a \in Areas, n \in Names :
          files[a][n] \in Contents /\ files'[a][n] # files[a][n]
          => \E c \in Callers : At(c, "renaming") /\ calls[c].area = a /\ calls[c].name = n /\ calls[c].expected = files[a][n]]_vars

\* "Stored" is said only when the file holds the bytes at some moment of the call (ReadBack after a failure).
StoredWasThere ==
    [][\A c \in Callers : calls[c].pc \notin {"idle", "stored"} /\ calls'[c].pc = "stored"
          => files'[calls[c].area][calls[c].name] = calls[c].data]_vars

-----------------------------------------------------------------------------
(* The inductive invariant.  The mutex makes the file of a write and the   *)
(* comparison of a replacement hold until the file is filled or renamed,   *)
(* and a key that holds an artifact keeps it.                              *)

\* Files, callers and marks are told apart, and contents have sizes.
FilesApart == /\ Missing \notin Contents /\ Torn \notin Contents /\ Free \notin Callers
              /\ Size \in [Contents -> Nat]

WriteCalls ==
    [pc : {"write", "filling", "replace", "renaming", "failed", "stored"}, area : Areas, name : Names,
     data : Contents, expected : Contents \cup {Missing, Torn}]
PublishCalls == [pc : {"ingest", "attach"}, key : Attempts \X Keys, data : Contents \cup {Torn}]

FileTypes ==
    /\ TypeOK
    /\ whole \subseteq Areas \X Names
    /\ calls \in [Callers -> {Idle} \cup WriteCalls \cup PublishCalls]
    /\ artifacts \in [Attempts \X Keys -> Contents \cup {Missing, Torn}]

\* What a call may rely on between two of its steps.
Relies(c) ==
    /\ At(c, "filling") => mu = c /\ Held(c) = Torn
    /\ At(c, "renaming") => /\ mu = c /\ Held(c) = calls[c].expected
                            /\ temps[calls[c].area].files >= 1
                            /\ temps[calls[c].area].bytes >= Size[calls[c].data]
    /\ At(c, "attach") => artifacts[calls[c].key] = calls[c].data

FilesInv == /\ FileTypes
            /\ \A c \in Callers : Relies(c)
            /\ WholeStaysWhole
            /\ PublishedIsAttached
            /\ \A k \in attached : artifacts[k] # Missing
=============================================================================
