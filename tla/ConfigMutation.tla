-------------------------- MODULE ConfigMutation --------------------------
(***************************************************************************)
(* Changes to the configuration files (core/configmutation over            *)
(* adapters/configurationstore).  A request names the revision its client  *)
(* saw; the command row, the backup, the file, the audit event and the     *)
(* command's answer are written one after the other, the daemon may stop   *)
(* between any two of them, and the client sends the same request again,   *)
(* then or while its first one is still at work.  The files may also be    *)
(* edited by hand.                                                         *)
(***************************************************************************)
EXTENDS Naturals, TLAPS

CONSTANTS Requests,     \* [id, op, file, val], op "set", "unset", "restore" or "secret"
          Files,
          Sends,        \* the deliveries of a request that may be at work at a time
          MaxCrashes, MaxFailures, MaxEdits  \* bounds

VARIABLES file,      \* what every configuration file holds
          backup,    \* <label>.previous.json
          command,   \* the command row of a request and its answer
          event,     \* its audit event
          expected,  \* the revision its client saw
          sent,      \* the requests that were sent
          handler,   \* the handlers at work: [request, send, at, next, again]
          held,      \* (history) requests whose change was in the file while they were open
          made,      \* (history) requests that replaced the file
          byHand,    \* (history) the file was last written by its owner
          resent,    \* (history) requests repeated while their first handler was at work
          replaced,  \* (history) what the last publication of a request replaced
          crashes, failures, edits

vars == <<file, backup, command, event, expected, sent, handler, held, made, byHand, resent, replaced,
     crashes, failures, edits>>
disk == <<file, backup>>
history == <<held, made, byHand, resent, replaced>>
bounds == <<crashes, failures, edits>>

\* A revision is the digest of the bytes: a content and how it is laid out.
Missing == [val |-> "missing", tidy |-> TRUE]
Content(v, tidy) == [val |-> v, tidy |-> tidy]
\* mutate: the encoder lays the whole document out again.
Mutate(r) == Content(IF r.op = "unset" THEN "none" ELSE r.val, TRUE)

Init ==
    /\ file = [f \in Files |-> Missing] /\ backup = [f \in Files |-> Content("no backup", TRUE)]
    /\ command = [r \in Requests |-> "none"] /\ event = [r \in Requests |-> <<"none">>]
    /\ expected = [r \in Requests |-> Missing] /\ sent = {} /\ handler = {}
    /\ held = {} /\ made = {} /\ byHand = [f \in Files |-> FALSE] /\ resent = {} /\
          replaced = [r \in Requests |-> Missing]
    /\ crashes = 0 /\ failures = 0 /\ edits = 0

-----------------------------------------------------------------------------
Holds(r, c) == r.op # "restore" /\ c.val = Mutate(r).val
Begun(r) == command[r] = "pending"
\* The handler of r goes from h to h2 or ends.
Step(h, h2) == handler' = (handler \ {h}) \cup {h2}
End(h) == handler' = handler \ {h}
At(r, n) == [request |-> r, send |-> n, at |-> "begin", next |-> Missing, again |-> FALSE]
To(h, at, next) == [request |-> h.request, send |-> h.send, at |-> at, next |-> next, again |-> h.again]
Repeats(h) == [request |-> h.request, send |-> h.send, at |-> "again", next |-> Missing, again |-> TRUE]
\* The handler that inserted the command row of its request.
First(h) == h.at # "begin" /\ ~h.again

\* State: the client reads the revision it will name, and sends its request.
Send(r, n) ==
    /\ r \notin sent /\ sent' = sent \cup {r}
    /\ expected' = [expected EXCEPT ![r] = file[r.file]]
    /\ handler' = handler \cup {At(r, n)}
    /\ UNCHANGED <<disk, command, event, history, bounds>>
\* The same request again, with the same expected revision: its client gave up
\* waiting (client.go has a timeout) or was answered with an error.
Resend(r, n) ==
    /\ r \in sent /\ \A h \in handler : h.request = r => h.send # n
    /\ handler' = handler \cup {At(r, n)}
    /\ UNCHANGED <<disk, command, event, expected, sent, history, bounds>>

\* BeginCommand: the first insert wins, the others find the row.
Begin(h) ==
    LET r == h.request
    IN  /\ h.at = "begin"
        /\ \/ /\ command[r] = "none" /\ command' = [command EXCEPT ![r] = "pending"] /\
                    Step(h, To(h, "write", Missing))
              /\ held' = IF Holds(r, file[r.file]) THEN held \cup {r} ELSE held
              /\ UNCHANGED resent
           \/ /\ command[r] = "pending" /\ UNCHANGED <<command, held>> /\ Step(h, Repeats(h))
              /\ resent' = IF \E k \in handler : k.request = r /\ First(k) THEN resent \cup {r} ELSE resent
           \/ command[r] \in {"accepted", "rejected"} /\ UNCHANGED <<command, held, resent>> /\ End(h)
        /\ UNCHANGED <<disk, event, expected, sent, made, byHand, replaced, bounds>>

\* (A mutant of Current.)
CurrentAnyway(r) == TRUE
\* The file is the one the client saw.
Current(r) == file[r.file] = expected[r]
\* The store's mutex is held from the backup to the publication.
Unlocked == \A k \in handler : k.at # "publish"
\* writeRecoverable: the old content becomes the backup.
\* A restore reads the backup and has none to write.
Backup(h) ==
    LET r == h.request
    IN  /\ h.at = "write" /\ Unlocked
        /\ Current(r) /\ (r.op = "restore" => backup[r.file].val # "no backup")
        /\ backup' = IF r.op = "restore" THEN backup ELSE [backup EXCEPT ![r.file] = file[r.file]]
        /\ Step(h, To(h, "publish", IF r.op = "restore" THEN backup[r.file] ELSE Mutate(r)))
        /\ UNCHANGED <<file, command, event, expected, sent, history, bounds>>
\* publish: the file is replaced at once.
Publish(h) ==
    LET r == h.request
    IN  /\ h.at = "publish"
        /\ file' = [file EXCEPT ![r.file] = h.next]
        /\ made' = made \cup {r} /\ byHand' = [byHand EXCEPT ![r.file] = FALSE]
        /\ held' = held \cup {q \in Requests : Begun(q) /\ q.file = r.file /\ Holds(q, h.next)}
        /\ replaced' = IF byHand[r.file] THEN replaced ELSE [replaced EXCEPT ![r] = file[r.file]]
        /\ Step(h, To(h, "accept", h.next))
        /\ UNCHANGED <<backup, command, event, expected, sent, resent, bounds>>
\* The revision moved, there is no backup, or a write failed: a first attempt is
\* recorded as rejected, a repeated one only answers with the error.
Refuse(h) ==
    LET r == h.request
    IN  /\ \/ /\ h.at = "write" /\ Unlocked
              /\ ~Current(r) \/ (r.op = "restore" /\ backup[r.file].val = "no backup")
              /\ UNCHANGED failures
           \/ h.at \in {"write", "publish"} /\ failures < MaxFailures /\ failures' = failures + 1
        /\ IF h.again THEN End(h) ELSE Step(h, To(h, "reject", Missing))
        /\ UNCHANGED <<disk, command, event, expected, sent, history, crashes, edits>>

\* (A mutant of Again.)
AgainTrusts(h) ==
    LET r == h.request
    IN  /\ h.at = "again" /\ Unlocked
        /\ IF Current(r) THEN Step(h, To(h, "write", Missing)) ELSE Step(h, To(h, "accept", file[r.file]))
        /\ UNCHANGED <<disk, command, event, expected, sent, history, bounds>>
\* A repeated request whose command has no answer.  The expected revision is
\* still there: the change is made again.  Otherwise Apply compares the file with
\* the result of its change, while Restore and WriteSecret take it for theirs.
Again(h) ==
    LET r == h.request
    IN  /\ h.at = "again" /\ Unlocked
        /\ IF Current(r) THEN Step(h, To(h, "write", Missing))
           ELSE IF r.op \in {"restore", "secret"} \/ file[r.file] = Mutate(r)
              THEN Step(h, To(h, "accept", file[r.file]))
           ELSE End(h)
        /\ UNCHANGED <<disk, command, event, expected, sent, history, bounds>>

\* recordAndComplete and recordRejected: the event has the identity of the
\* command, so an equal one is found again and another one is refused.
Record(h) ==
    LET r == h.request
        e == IF h.at = "accept" THEN <<"accepted", expected[r], h.next>> ELSE <<"rejected">>
    IN  /\ h.at \in {"accept", "reject"}
        /\ IF event[r] \in {<<"none">>, e}
           THEN event' = [event EXCEPT ![r] = e] /\ Step(h, To(h, "complete", h.next))
           ELSE UNCHANGED event /\ End(h)
        /\ UNCHANGED <<disk, command, expected, sent, history, bounds>>
Complete(h) ==
    LET r == h.request
    IN  /\ h.at = "complete" /\ End(h)
        /\ command' = [command EXCEPT ![r] = IF @ = "pending" THEN event[r][1] ELSE @]
        /\ UNCHANGED <<disk, event, expected, sent, history, bounds>>

\* A read or an append fails: the caller gets the error, the command stays open.
Fail(h) ==
    /\ h.at \in {"again", "accept", "reject", "complete"} /\ failures < MaxFailures /\ failures' = failures + 1
    /\ End(h) /\ UNCHANGED <<disk, command, event, expected, sent, history, crashes, edits>>
\* The daemon stops: its handlers are gone, the files and the database stay.
Crash ==
    /\ handler # {} /\ crashes < MaxCrashes /\ crashes' = crashes + 1 /\ handler' = {}
    /\ UNCHANGED <<disk, command, event, expected, sent, history, failures, edits>>
\* The owner edits the file, in a layout of their own.
Edit(f) ==
    /\ edits < MaxEdits /\ edits' = edits + 1
    /\ \E v \in {"none"} \cup {r.val : r \in {q \in Requests : q.file = f}} :
          /\ file' = [file EXCEPT ![f] = Content(v, FALSE)]
          /\ held' = held \cup {q \in Requests : Begun(q) /\ q.file = f /\ Holds(q, Content(v, FALSE))}
    /\ byHand' = [byHand EXCEPT ![f] = TRUE]
    /\ UNCHANGED <<backup, command, event, expected, sent, handler, made, resent, replaced, crashes, failures>>

Next ==
    \/ \E r \in Requests, n \in Sends : Send(r, n) \/ Resend(r, n)
    \/ \E h \in handler : Begin(h) \/ Backup(h) \/ Publish(h) \/ Refuse(h) \/ Again(h) \/ Record(h)
                          \/ Complete(h) \/ Fail(h)
    \/ Crash \/ \E f \in Files : Edit(f)
Spec == Init /\ [][Next]_vars

-----------------------------------------------------------------------------
\* Every variable has its type.
TypeOK ==
    /\ command \in [Requests -> {"none", "pending", "accepted", "rejected"}] /\
          held \subseteq Requests /\ made \subseteq Requests
    /\ \A h \in handler : h.request \in Requests
                          /\ h.at \in {"begin", "write", "again", "publish", "accept", "reject", "complete"}

\* What a client is told is what happened, wherever the daemon stopped, whoever
\* else wrote in between and however often the request was delivered: a change
\* answered with success was in the file while its command was open, and one
\* answered with a failure was made only if a repetition of it, sent while the
\* first handler was at work, made it.  (A repeated restore or secret takes any
\* change of the file for its own.)
AnswersAreTrue ==
    \A r \in Requests : /\ command[r] = "accepted" /\ r.op \in {"set", "unset"} => r \in held
                        /\ command[r] = "rejected" /\ r \in made => r \in resent
\* Between the daemon's clients no change is lost: a publication replaces what
\* its client saw and nothing newer another client wrote, on the first attempt
\* and on every repetition.  (An edit by hand during the write is lost.)
NoLostUpdate == \A r \in Requests : replaced[r] \in {Missing, expected[r]}

-----------------------------------------------------------------------------
(* Proofs.  A handler works on what it read: the revision, the backup, the  *)
(* state of its command.  The invariant says what is still true of it while *)
(* other handlers publish, the owner edits and the daemon stops.            *)

\* Every request names a configuration file and one of the operations.
RequestsKnown ==
    \A r \in Requests : r.file \in Files /\ r.op \in {"set", "unset", "restore", "secret"}

Stages == {"begin", "write", "again", "publish", "accept", "reject", "complete"}
Shaped(h) ==
    /\ h = [request |-> h.request, send |-> h.send, at |-> h.at, next |-> h.next, again |-> h.again]
    /\ h.request \in Requests /\ h.at \in Stages /\ h.again \in BOOLEAN
    /\ (h.at = "begin" => ~h.again) /\ (h.at = "again" => h.again)
Tables ==
    /\ command \in [Requests -> {"none", "pending", "accepted", "rejected"}]
    /\ file = [f \in Files |-> file[f]] /\ byHand \in [Files -> BOOLEAN]
    /\ expected = [r \in Requests |-> expected[r]] /\ replaced = [r \in Requests |-> replaced[r]]
    /\ event = [r \in Requests |-> event[r]]
    /\ \A h \in handler : Shaped(h)
\* A command is completed with what its event says.
CompletesRecorded ==
    /\ \A r \in Requests : event[r][1] \in {"none", "accepted", "rejected"}
    /\ \A h \in handler : h.at = "complete" => event[h.request][1] \in {"accepted", "rejected"}

\* The store's lock covers the backup and the publication of one handler.
OnePublishes == \A h, k \in handler : h.at = "publish" /\ k.at = "publish" => h = k
\* Until its publication nobody but the owner has changed the file it backed up.
PublishesCurrent ==
    \A h \in handler : h.at = "publish" => byHand[h.request.file] \/ Current(h.request)
\* What was not sent has no handler, and what has not begun has replaced nothing.
UnbegunMadeNothing ==
    \A r \in Requests :
       /\ r \notin sent => command[r] = "none" /\ \A h \in handler : h.request # r
       /\ command[r] = "none" =>
             /\ replaced[r] = Missing /\ r \notin made /\ event[r] = <<"none">>
             /\ \A h \in handler : h.request = r => h.at = "begin"

UpdateInv == Tables /\ CompletesRecorded /\ OnePublishes /\ PublishesCurrent /\ UnbegunMadeNothing /\
     NoLostUpdate

\* One handler inserted the command row of a request; a repetition beside it
\* began while it was at work.
OneFirst ==
    \A h, k \in handler : h.request = k.request /\ First(h) =>
       /\ First(k) => h = k
       /\ k.again => h.request \in resent
\* Only the first handler records a failure.
FirstRejects ==
    \A h \in handler : h.at = "reject" \/ (h.at = "complete" /\ event[h.request][1] = "rejected") => ~h.again
\* Before its publication, and when it records a failure, nothing was made but
\* by repetitions beside it.
FirstMadeNothing ==
    \A h \in handler : First(h) /\ h.request \in made
                           /\ (h.at \in {"write", "publish", "reject"} \/
                                 (h.at = "complete" /\ event[h.request][1] = "rejected"))
                         => h.request \in resent
\* An answer is the event's; after a failure only such repetitions are at work.
AnswerRecorded ==
    \A r \in Requests :
       /\ command[r] \in {"accepted", "rejected"} => event[r][1] = command[r]
       /\ command[r] = "rejected" => \A h \in handler : h.request = r /\ h.at # "begin" => r \in resent
\* What is about to be published is the change the request asks for.
PublishesChange == \A h \in handler : h.at = "publish" /\ h.request.op # "restore" => h.next = Mutate(h.request)
\* An open request whose change is in the file has been seen there.
SeenWhileOpen == \A r \in Requests : Begun(r) /\ Holds(r, file[r.file]) => r \in held
\* Acceptance, recorded or about to be, is of a change that was seen.
AcceptedSeen ==
    \A r \in Requests : r.op \in {"set", "unset"} =>
       /\ event[r][1] = "accepted" => r \in held
       /\ \A h \in handler : h.request = r /\ h.at = "accept" => r \in held \/ event[r][1] # "none"

AnswerInv ==
    /\ OneFirst /\ FirstRejects /\ FirstMadeNothing /\ AnswerRecorded /\ PublishesChange /\ SeenWhileOpen
    /\ AcceptedSeen /\ AnswersAreTrue

\* What a handler becomes keeps its request and its shape.
LEMMA Moves ==
    ASSUME NEW h, Shaped(h), NEW at \in Stages \ {"begin", "again"}, NEW next
    PROVE  /\ Shaped(To(h, at, next)) /\ To(h, at, next).request = h.request /\ To(h, at, next).at = at
           /\ To(h, at, next).next = next /\ To(h, at, next).again = h.again
           /\ Shaped(Repeats(h)) /\ Repeats(h).request = h.request /\ Repeats(h).at = "again" /\
                 Repeats(h).again
  BY DEF Shaped, To, Repeats, Stages

\* What is sent is at its beginning.
LEMMA Arrives ==
    ASSUME NEW r \in Requests, NEW n
    PROVE  /\ Shaped(At(r, n)) /\ At(r, n).request = r /\ At(r, n).at = "begin" /\ At(r, n).again = FALSE
  BY DEF Shaped, Stages, At

\* A handler's step keeps what it and the others rely on.
LEMMA HandlerStep ==
    ASSUME UpdateInv, RequestsKnown, NEW h \in handler,
           \/ Begin(h) \/ Backup(h) \/ Publish(h) \/ Refuse(h) \/ Again(h) \/ Record(h) \/ Complete(h)
           \/ Fail(h)
    PROVE  UpdateInv'
  <1>0. Shaped(h) /\ h.request \in Requests /\ h.request.file \in Files
    BY DEF UpdateInv, Tables, Shaped, RequestsKnown
  <1>1. CASE Begin(h)
    <2>1. Tables'
      <3>1. /\ Shaped(To(h, "write", Missing)) /\ Shaped(Repeats(h))
            /\ handler' \subseteq handler \cup {To(h, "write", Missing), Repeats(h)}
        BY <1>0, <1>1, Moves DEF Begin, Step, End, Stages
      <3>2. \A k \in handler' : Shaped(k)
        BY <3>1 DEF UpdateInv, Tables
      <3>3. command' \in [Requests -> {"none", "pending", "accepted", "rejected"}]
        BY <1>0, <1>1 DEF Begin, UpdateInv, Tables
      <3> QED
        BY <1>1, <3>2, <3>3 DEF Begin, UpdateInv, Tables, Shaped, disk
    <2>2. CompletesRecorded'
      BY <1>0, <1>1 DEF Begin, UpdateInv, Tables, CompletesRecorded, Step, End, To, Repeats, Shaped,
         Stages, disk
    <2>3. OnePublishes'
      BY <1>0, <1>1 DEF Begin, UpdateInv, OnePublishes, Step, End, To, Repeats, Shaped, Stages, disk
    <2>4. PublishesCurrent'
      BY <1>0, <1>1 DEF Begin, UpdateInv, Tables, OnePublishes, PublishesCurrent, Current, Step, End,
         To, Repeats, Shaped,
         Stages, disk
    <2>5. UnbegunMadeNothing' /\ NoLostUpdate'
      BY <1>0, <1>1 DEF Begin, UpdateInv, Tables, CompletesRecorded, PublishesCurrent, Current,
         UnbegunMadeNothing,
         NoLostUpdate, Step, End, To, Repeats, Shaped, Stages, disk
    <2> QED
      BY <2>1, <2>2, <2>3, <2>4, <2>5 DEF UpdateInv
  <1>2. CASE Backup(h)
    <2> DEFINE n == IF h.request.op = "restore" THEN backup[h.request.file] ELSE Mutate(h.request)
    <2>0. /\ h.at = "write" /\ Current(h.request) /\ \A k \in handler : k.at # "publish"
          /\ handler' = (handler \ {h}) \cup {To(h, "publish", n)} /\
                UNCHANGED <<file, command, event, expected, sent, held, made, byHand, replaced>>
      BY <1>2 DEF Backup, Unlocked, Step, history
    <2> HIDE DEF n
    <2>1. Tables'
      BY <1>0, <2>0 DEF UpdateInv, Tables, To, Shaped, Stages
    <2>2. CompletesRecorded'
      BY <1>0, <2>0 DEF UpdateInv, CompletesRecorded, To, Shaped, Stages
    <2>3. OnePublishes'
      BY <1>0, <2>0 DEF UpdateInv, OnePublishes, To, Shaped, Stages
    <2>4. PublishesCurrent'
      BY <1>0, <2>0 DEF UpdateInv, Tables, OnePublishes, PublishesCurrent, Current, To, Shaped, Stages
    <2>5. UnbegunMadeNothing' /\ NoLostUpdate'
      BY <1>0, <2>0 DEF UpdateInv, Tables, PublishesCurrent, Current, UnbegunMadeNothing, NoLostUpdate,
         To, Shaped,
         Stages
    <2> QED
      BY <2>1, <2>2, <2>3, <2>4, <2>5 DEF UpdateInv
  <1>3. CASE Publish(h)
    <2>1. Tables'
      BY <1>0, <1>3 DEF Publish, UpdateInv, Tables, CompletesRecorded, Step, End, To, Shaped, Stages
    <2>2. CompletesRecorded'
      BY <1>0, <1>3 DEF Publish, UpdateInv, Tables, CompletesRecorded, Step, End, To, Shaped, Stages
    <2>3. OnePublishes'
      BY <1>0, <1>3 DEF Publish, UpdateInv, OnePublishes, Step, End, To, Shaped, Stages
    <2>4. PublishesCurrent'
      BY <1>0, <1>3 DEF Publish, UpdateInv, Tables, OnePublishes, PublishesCurrent, Current, Step, End,
         To, Shaped,
         Stages
    <2>5. UnbegunMadeNothing' /\ NoLostUpdate'
      BY <1>0, <1>3 DEF Publish, UpdateInv, Tables, CompletesRecorded, PublishesCurrent, Current,
         UnbegunMadeNothing, NoLostUpdate, Step, End, To, Shaped, Stages
    <2> QED
      BY <2>1, <2>2, <2>3, <2>4, <2>5 DEF UpdateInv
  <1>4. CASE Refuse(h)
    <2>0. /\ h.at \in {"write", "publish"} /\ UNCHANGED <<file, command, event, expected, sent, held,
                made, byHand, replaced>>
          /\ (handler' = handler \ {h} \/ handler' = (handler \ {h}) \cup {To(h, "reject", Missing)})
      BY <1>4 DEF Refuse, Step, End, disk, history
    <2>1. Tables'
      BY <1>0, <2>0 DEF UpdateInv, Tables, To, Shaped, Stages
    <2>2. CompletesRecorded'
      BY <1>0, <2>0 DEF UpdateInv, CompletesRecorded, To, Shaped, Stages
    <2>3. OnePublishes'
      BY <1>0, <2>0 DEF UpdateInv, OnePublishes, To, Shaped, Stages
    <2>4. PublishesCurrent'
      BY <1>0, <2>0 DEF UpdateInv, Tables, OnePublishes, PublishesCurrent, Current, To, Shaped, Stages
    <2>5. UnbegunMadeNothing' /\ NoLostUpdate'
      BY <1>0, <2>0 DEF UpdateInv, Tables, PublishesCurrent, Current, UnbegunMadeNothing, NoLostUpdate,
         To, Shaped,
         Stages
    <2> QED
      BY <2>1, <2>2, <2>3, <2>4, <2>5 DEF UpdateInv
  <1>5. CASE Again(h)
    <2>0. /\ h.at = "again" /\ UNCHANGED <<file, command, event, expected, sent, held, made, byHand, replaced>>
          /\ \/ handler' = handler \ {h} \/ handler' = (handler \ {h}) \cup {To(h, "accept",
                   file[h.request.file])}
             \/ handler' = (handler \ {h}) \cup {To(h, "write", Missing)}
      BY <1>5 DEF Again, Step, End, disk, history
    <2>1. Tables'
      <3>1. /\ Shaped(To(h, "accept", file[h.request.file]))
            /\ Shaped(To(h, "write", Missing))
        BY <1>0, Moves DEF Stages
      <3>2. \A k \in handler' : Shaped(k)
        BY <2>0, <3>1 DEF UpdateInv, Tables
      <3> QED
        BY <2>0, <3>2 DEF UpdateInv, Tables, Shaped
    <2>2. CompletesRecorded'
      BY <1>0, <2>0 DEF UpdateInv, CompletesRecorded, To, Shaped, Stages
    <2>3. OnePublishes'
      BY <1>0, <2>0 DEF UpdateInv, OnePublishes, To, Shaped, Stages
    <2>4. PublishesCurrent'
      BY <1>0, <2>0 DEF UpdateInv, Tables, OnePublishes, PublishesCurrent, Current, To, Shaped, Stages
    <2>5. UnbegunMadeNothing' /\ NoLostUpdate'
      BY <1>0, <2>0 DEF UpdateInv, Tables, PublishesCurrent, Current, UnbegunMadeNothing, NoLostUpdate,
         To, Shaped,
         Stages
    <2> QED
      BY <2>1, <2>2, <2>3, <2>4, <2>5 DEF UpdateInv
  <1>6. CASE Record(h)
    <2>1. Tables'
      BY <1>0, <1>6 DEF Record, UpdateInv, Tables, CompletesRecorded, Step, End, To, Shaped, Stages,
         disk, history
    <2>2. CompletesRecorded'
      BY <1>0, <1>6 DEF Record, UpdateInv, Tables, CompletesRecorded, Step, End, To, Shaped, Stages,
         disk, history
    <2>3. OnePublishes'
      BY <1>0, <1>6 DEF Record, UpdateInv, OnePublishes, Step, End, To, Shaped, Stages, disk, history
    <2>4. PublishesCurrent'
      BY <1>0, <1>6 DEF Record, UpdateInv, Tables, OnePublishes, PublishesCurrent, Current, Step, End,
         To, Shaped,
         Stages, disk, history
    <2>5. UnbegunMadeNothing' /\ NoLostUpdate'
      BY <1>0, <1>6 DEF Record, UpdateInv, Tables, CompletesRecorded, PublishesCurrent, Current,
         UnbegunMadeNothing,
         NoLostUpdate, Step, End, To, Shaped, Stages, disk, history
    <2> QED
      BY <2>1, <2>2, <2>3, <2>4, <2>5 DEF UpdateInv
  <1>7. CASE Complete(h)
    <2>1. Tables'
      BY <1>0, <1>7 DEF Complete, UpdateInv, Tables, CompletesRecorded, Step, End, To, Shaped, Stages,
         disk, history
    <2>2. CompletesRecorded'
      BY <1>0, <1>7 DEF Complete, UpdateInv, Tables, CompletesRecorded, Step, End, To, Shaped, Stages,
         disk, history
    <2>3. OnePublishes'
      BY <1>0, <1>7 DEF Complete, UpdateInv, OnePublishes, Step, End, To, Shaped, Stages, disk, history
    <2>4. PublishesCurrent'
      BY <1>0, <1>7 DEF Complete, UpdateInv, Tables, OnePublishes, PublishesCurrent, Current, Step, End,
         To, Shaped,
         Stages, disk, history
    <2>5. UnbegunMadeNothing' /\ NoLostUpdate'
      BY <1>0, <1>7 DEF Complete, UpdateInv, Tables, CompletesRecorded, PublishesCurrent, Current,
         UnbegunMadeNothing, NoLostUpdate, Step, End, To, Shaped, Stages, disk, history
    <2> QED
      BY <2>1, <2>2, <2>3, <2>4, <2>5 DEF UpdateInv
  <1>8. CASE Fail(h)
    <2>0. handler' = handler \ {h} /\ UNCHANGED <<file, command, event, expected, sent, held, made,
             byHand, replaced>>
      BY <1>8 DEF Fail, End, disk, history
    <2>1. Tables'
      BY <2>0 DEF UpdateInv, Tables, Shaped
    <2>2. CompletesRecorded' /\ OnePublishes'
      BY <2>0 DEF UpdateInv, CompletesRecorded, OnePublishes
    <2>3. PublishesCurrent' /\ UnbegunMadeNothing' /\ NoLostUpdate'
      BY <2>0 DEF UpdateInv, PublishesCurrent, Current, UnbegunMadeNothing, NoLostUpdate
    <2> QED
      BY <2>1, <2>2, <2>3 DEF UpdateInv
  <1> QED
    BY <1>1, <1>2, <1>3, <1>4, <1>5, <1>6, <1>7, <1>8

\* Sending, resending, stopping and editing keep it too.
LEMMA UpdateStep == UpdateInv /\ RequestsKnown /\ [Next]_vars => UpdateInv'
  <1> SUFFICES ASSUME UpdateInv, RequestsKnown, [Next]_vars PROVE UpdateInv'
    OBVIOUS
  <1>1. CASE UNCHANGED vars
    BY <1>1 DEF vars, UpdateInv, Tables, CompletesRecorded, OnePublishes, PublishesCurrent, UnbegunMadeNothing,
       NoLostUpdate, Current, Shaped
  <1>2. ASSUME NEW r \in Requests, NEW n \in Sends, Send(r, n) PROVE UpdateInv'
    <2>1. Tables'
      <3>1. Shaped(At(r, n))
        BY Arrives
      <3>2. \A k \in handler' : Shaped(k)
        BY <1>2, <3>1 DEF Send, UpdateInv, Tables
      <3> QED
        BY <1>2, <3>2 DEF Send, UpdateInv, Tables, Shaped, disk, history
    <2>2. CompletesRecorded'
      BY <1>2 DEF Send, UpdateInv, CompletesRecorded, At, disk, history
    <2>3. OnePublishes'
      BY <1>2 DEF Send, UpdateInv, OnePublishes, At, disk, history
    <2>4. PublishesCurrent'
      BY <1>2 DEF Send, UpdateInv, Tables, Shaped, PublishesCurrent, UnbegunMadeNothing, Current, At,
         disk, history
    <2>5. UnbegunMadeNothing' /\ NoLostUpdate'
      BY <1>2 DEF Send, UpdateInv, Tables, UnbegunMadeNothing, NoLostUpdate, At, disk, history
    <2> QED
      BY <2>1, <2>2, <2>3, <2>4, <2>5 DEF UpdateInv
  <1>3. ASSUME NEW r \in Requests, NEW n \in Sends, Resend(r, n) PROVE UpdateInv'
    <2>1. Tables'
      <3>1. Shaped(At(r, n))
        BY Arrives
      <3>2. \A k \in handler' : Shaped(k)
        BY <1>3, <3>1 DEF Resend, UpdateInv, Tables
      <3> QED
        BY <1>3, <3>2 DEF Resend, UpdateInv, Tables, Shaped, disk, history
    <2>2. CompletesRecorded'
      BY <1>3 DEF Resend, UpdateInv, CompletesRecorded, At, disk, history
    <2>3. OnePublishes'
      BY <1>3 DEF Resend, UpdateInv, OnePublishes, At, disk, history
    <2>4. PublishesCurrent'
      BY <1>3 DEF Resend, UpdateInv, Tables, Shaped, PublishesCurrent, UnbegunMadeNothing, Current, At, disk,
         history
    <2>5. UnbegunMadeNothing' /\ NoLostUpdate'
      BY <1>3 DEF Resend, UpdateInv, Tables, UnbegunMadeNothing, NoLostUpdate, At, disk, history
    <2> QED
      BY <2>1, <2>2, <2>3, <2>4, <2>5 DEF UpdateInv
  <1>4. CASE Crash
    BY <1>4 DEF Crash, UpdateInv, Tables, CompletesRecorded, OnePublishes, PublishesCurrent, UnbegunMadeNothing,
       NoLostUpdate, Shaped, disk, history
  <1>5. ASSUME NEW f \in Files, Edit(f) PROVE UpdateInv'
    <2>1. Tables'
      BY <1>5 DEF Edit, UpdateInv, Tables, Shaped, Stages
    <2>2. CompletesRecorded'
      BY <1>5 DEF Edit, UpdateInv, CompletesRecorded
    <2>3. OnePublishes'
      BY <1>5 DEF Edit, UpdateInv, OnePublishes
    <2>4. PublishesCurrent'
      BY <1>5 DEF Edit, UpdateInv, Tables, Shaped, PublishesCurrent, Current, RequestsKnown
    <2>5. UnbegunMadeNothing' /\ NoLostUpdate'
      BY <1>5 DEF Edit, UpdateInv, Tables, UnbegunMadeNothing, NoLostUpdate
    <2> QED
      BY <2>1, <2>2, <2>3, <2>4, <2>5 DEF UpdateInv
  <1> QED
    BY <1>1, <1>2, <1>3, <1>4, <1>5, HandlerStep DEF Next

\* Before the first request.
LEMMA UpdateInit == Init => UpdateInv
  <1> SUFFICES ASSUME Init PROVE UpdateInv
    OBVIOUS
  <1>1. Tables
    BY DEF Init, UpdateInv, Tables, Shaped, Stages
  <1>2. CompletesRecorded
    BY DEF Init, UpdateInv, CompletesRecorded
  <1>3. OnePublishes
    BY DEF Init, UpdateInv, OnePublishes
  <1>4. PublishesCurrent
    BY DEF Init, UpdateInv, Tables, Shaped, PublishesCurrent, UnbegunMadeNothing, Current
  <1>5. UnbegunMadeNothing /\ NoLostUpdate
    BY DEF Init, UpdateInv, Tables, UnbegunMadeNothing, NoLostUpdate
  <1> QED
    BY <1>1, <1>2, <1>3, <1>4, <1>5 DEF UpdateInv

\* However many clients there are and whether or not they resend before an
\* answer: no publication replaces a change its client had not seen, the edits
\* of the owner during a write apart (configurationstore, writeRecoverable).
THEOREM NoUpdateLost == ASSUME RequestsKnown PROVE Spec => []NoLostUpdate
  <1>1. Init => UpdateInv
    BY UpdateInit
  <1>2. UpdateInv /\ [Next]_vars => UpdateInv'
    BY UpdateStep
  <1>3. UpdateInv => NoLostUpdate
    BY DEF UpdateInv
  <1> QED
    BY <1>1, <1>2, <1>3, PTL DEF Spec

\* The answers.  A handler's step keeps AnswerInv.
LEMMA HandlerAnswers ==
    ASSUME UpdateInv, AnswerInv, RequestsKnown, NEW h \in handler,
           \/ Begin(h) \/ Backup(h) \/ Publish(h) \/ Refuse(h) \/ Again(h) \/ Record(h) \/ Complete(h)
           \/ Fail(h)
    PROVE  AnswerInv'
  <1> DEFINE r == h.request
  <1>0. /\ Shaped(h) /\ r \in Requests /\ r.file \in Files /\ r.op \in {"set", "unset", "restore", "secret"}
        /\ \A k \in handler : Shaped(k)
    BY DEF UpdateInv, Tables, Shaped, RequestsKnown
  <1>1. CASE Begin(h)
    <2>0. /\ h.at = "begin" /\ UNCHANGED <<file, event, made>>
          /\ \/ /\ command[r] = "none" /\ command' = [command EXCEPT ![r] = "pending"] /\ resent' = resent
                /\ handler' = (handler \ {h}) \cup {To(h, "write", Missing)}
                /\ held \subseteq held' /\ (Holds(r, file[r.file]) => r \in held')
             \/ /\ command[r] = "pending" /\ UNCHANGED <<command, held>> /\
                      handler' = (handler \ {h}) \cup {Repeats(h)}
                /\ resent \subseteq resent' /\ ((\E k \in handler : k.request = r /\ First(k)) => r \in resent')
             \/ command[r] # "none" /\ UNCHANGED <<command, held, resent>> /\ handler' = handler \ {h}
      BY <1>1 DEF Begin, Step, End, disk
    <2>1. OneFirst'
      BY <1>0, <2>0 DEF UpdateInv, AnswerInv, Tables, Shaped, OneFirst, First, UnbegunMadeNothing, To,
         Repeats, Stages
    <2>2. FirstRejects'
      BY <1>0, <2>0 DEF UpdateInv, AnswerInv, Tables, Shaped, FirstRejects, CompletesRecorded, To,
         Repeats, Stages
    <2>3. FirstMadeNothing'
      BY <1>0, <2>0 DEF UpdateInv, AnswerInv, Tables, Shaped, FirstMadeNothing, OneFirst, FirstRejects,
         First, UnbegunMadeNothing, CompletesRecorded, To, Repeats, Stages
    <2>4. AnswerRecorded'
      BY <1>0, <2>0 DEF UpdateInv, AnswerInv, Tables, Shaped, AnswerRecorded, OneFirst, FirstRejects,
         First, CompletesRecorded, UnbegunMadeNothing, To, Repeats, Stages
    <2>5. PublishesChange'
      BY <1>0, <2>0 DEF UpdateInv, AnswerInv, Tables, Shaped, PublishesChange, To, Repeats, Stages
    <2>6. SeenWhileOpen'
      BY <1>0, <2>0 DEF UpdateInv, AnswerInv, Tables, Shaped, SeenWhileOpen, Begun, To, Repeats, Stages
    <2>7. AcceptedSeen'
      BY <1>0, <2>0 DEF UpdateInv, AnswerInv, Tables, Shaped, AcceptedSeen, SeenWhileOpen,
         PublishesChange, AnswerRecorded, UnbegunMadeNothing, Begun, Holds, To, Repeats, Stages
    <2>8. AnswersAreTrue'
      BY <1>0, <2>0 DEF UpdateInv, AnswerInv, Tables, Shaped, AnswersAreTrue, AcceptedSeen,
         FirstMadeNothing, AnswerRecorded, FirstRejects, CompletesRecorded, UnbegunMadeNothing, First,
            To, Repeats, Stages
    <2> QED
      BY <2>1, <2>2, <2>3, <2>4, <2>5, <2>6, <2>7, <2>8 DEF AnswerInv
  <1>2. CASE Backup(h)
    <2> DEFINE n == IF r.op = "restore" THEN backup[r.file] ELSE Mutate(r)
    <2>0. /\ h.at = "write" /\ handler' = (handler \ {h}) \cup {To(h, "publish", n)}
          /\ UNCHANGED <<file, command, event, held, made, resent>>
          /\ (r.op # "restore" => n = Mutate(r))
      BY <1>2 DEF Backup, Step, history
    <2> HIDE DEF n
    <2>1. OneFirst'
      BY <1>0, <2>0 DEF UpdateInv, AnswerInv, Tables, Shaped, OneFirst, First, UnbegunMadeNothing, To, Stages
    <2>2. FirstRejects'
      BY <1>0, <2>0 DEF UpdateInv, AnswerInv, Tables, Shaped, FirstRejects, CompletesRecorded, To, Stages
    <2>3. FirstMadeNothing'
      BY <1>0, <2>0 DEF UpdateInv, AnswerInv, Tables, Shaped, FirstMadeNothing, OneFirst, FirstRejects,
         First, UnbegunMadeNothing, CompletesRecorded, To, Stages
    <2>4. AnswerRecorded'
      BY <1>0, <2>0 DEF UpdateInv, AnswerInv, Tables, Shaped, AnswerRecorded, OneFirst, FirstRejects,
         First, CompletesRecorded, UnbegunMadeNothing, To, Stages
    <2>5. PublishesChange'
      BY <1>0, <2>0 DEF UpdateInv, AnswerInv, Tables, Shaped, PublishesChange, To, Stages
    <2>6. SeenWhileOpen'
      BY <1>0, <2>0 DEF UpdateInv, AnswerInv, Tables, Shaped, SeenWhileOpen, Begun, To, Stages
    <2>7. AcceptedSeen'
      BY <1>0, <2>0 DEF UpdateInv, AnswerInv, Tables, Shaped, AcceptedSeen, SeenWhileOpen,
         PublishesChange, AnswerRecorded, UnbegunMadeNothing, Begun, Holds, To, Stages
    <2>8. AnswersAreTrue'
      BY <1>0, <2>0 DEF UpdateInv, AnswerInv, Tables, Shaped, AnswersAreTrue, AcceptedSeen,
         FirstMadeNothing, AnswerRecorded, FirstRejects, CompletesRecorded, UnbegunMadeNothing, First,
            To, Stages
    <2> QED
      BY <2>1, <2>2, <2>3, <2>4, <2>5, <2>6, <2>7, <2>8 DEF AnswerInv
  <1>3. CASE Publish(h)
    <2>0. /\ h.at = "publish" /\ handler' = (handler \ {h}) \cup {To(h, "accept", h.next)}
          /\ file' = [file EXCEPT ![r.file] = h.next] /\ made' = made \cup {r}
          /\ held' = held \cup {q \in Requests : Begun(q) /\ q.file = r.file /\ Holds(q, h.next)}
          /\ UNCHANGED <<command, event, resent>>
      BY <1>3 DEF Publish, Step
    <2>1. OneFirst'
      BY <1>0, <2>0 DEF UpdateInv, AnswerInv, Tables, Shaped, OneFirst, First, UnbegunMadeNothing, To, Stages
    <2>2. FirstRejects'
      BY <1>0, <2>0 DEF UpdateInv, AnswerInv, Tables, Shaped, FirstRejects, CompletesRecorded, To, Stages
    <2>3. FirstMadeNothing'
      BY <1>0, <2>0 DEF UpdateInv, AnswerInv, Tables, Shaped, FirstMadeNothing, OneFirst, FirstRejects,
         First, UnbegunMadeNothing, CompletesRecorded, To, Stages
    <2>4. AnswerRecorded'
      BY <1>0, <2>0 DEF UpdateInv, AnswerInv, Tables, Shaped, AnswerRecorded, OneFirst, FirstRejects,
         First, CompletesRecorded, UnbegunMadeNothing, To, Stages
    <2>5. PublishesChange'
      BY <1>0, <2>0 DEF UpdateInv, AnswerInv, Tables, Shaped, PublishesChange, To, Stages
    <2>6. SeenWhileOpen'
      BY <1>0, <2>0 DEF UpdateInv, AnswerInv, Tables, Shaped, SeenWhileOpen, Begun, To, Stages
    <2>7. AcceptedSeen'
      BY <1>0, <2>0 DEF UpdateInv, AnswerInv, Tables, Shaped, AcceptedSeen, SeenWhileOpen,
         PublishesChange, AnswerRecorded, UnbegunMadeNothing, Begun, Holds, To, Stages
    <2>8. AnswersAreTrue'
      BY <1>0, <2>0 DEF UpdateInv, AnswerInv, Tables, Shaped, AnswersAreTrue, AcceptedSeen,
         FirstMadeNothing, AnswerRecorded, FirstRejects, CompletesRecorded, UnbegunMadeNothing, First,
            To, Stages
    <2> QED
      BY <2>1, <2>2, <2>3, <2>4, <2>5, <2>6, <2>7, <2>8 DEF AnswerInv
  <1>4. CASE Refuse(h)
    <2>0. /\ h.at \in {"write", "publish"} /\ UNCHANGED <<file, command, event, held, made, resent>>
          /\ \/ handler' = handler \ {h}
             \/ ~h.again /\ handler' = (handler \ {h}) \cup {To(h, "reject", Missing)}
      BY <1>4 DEF Refuse, Step, End, disk, history
    <2>1. OneFirst'
      BY <1>0, <2>0 DEF UpdateInv, AnswerInv, Tables, Shaped, OneFirst, First, UnbegunMadeNothing, To, Stages
    <2>2. FirstRejects'
      BY <1>0, <2>0 DEF UpdateInv, AnswerInv, Tables, Shaped, FirstRejects, CompletesRecorded, To, Stages
    <2>3. FirstMadeNothing'
      BY <1>0, <2>0 DEF UpdateInv, AnswerInv, Tables, Shaped, FirstMadeNothing, OneFirst, FirstRejects,
         First, UnbegunMadeNothing, CompletesRecorded, To, Stages
    <2>4. AnswerRecorded'
      BY <1>0, <2>0 DEF UpdateInv, AnswerInv, Tables, Shaped, AnswerRecorded, OneFirst, FirstRejects,
         First, CompletesRecorded, UnbegunMadeNothing, To, Stages
    <2>5. PublishesChange'
      BY <1>0, <2>0 DEF UpdateInv, AnswerInv, Tables, Shaped, PublishesChange, To, Stages
    <2>6. SeenWhileOpen'
      BY <1>0, <2>0 DEF UpdateInv, AnswerInv, Tables, Shaped, SeenWhileOpen, Begun, To, Stages
    <2>7. AcceptedSeen'
      BY <1>0, <2>0 DEF UpdateInv, AnswerInv, Tables, Shaped, AcceptedSeen, SeenWhileOpen,
         PublishesChange, AnswerRecorded, UnbegunMadeNothing, Begun, Holds, To, Stages
    <2>8. AnswersAreTrue'
      BY <1>0, <2>0 DEF UpdateInv, AnswerInv, Tables, Shaped, AnswersAreTrue, AcceptedSeen,
         FirstMadeNothing, AnswerRecorded, FirstRejects, CompletesRecorded, UnbegunMadeNothing, First,
            To, Stages
    <2> QED
      BY <2>1, <2>2, <2>3, <2>4, <2>5, <2>6, <2>7, <2>8 DEF AnswerInv
  <1>5. CASE Again(h)
    <2>0. /\ h.at = "again" /\ UNCHANGED <<file, command, event, held, made, resent>>
          /\ \/ handler' = handler \ {h}
             \/ /\ handler' = (handler \ {h}) \cup {To(h, "accept", file[r.file])}
                /\ (r.op \in {"set", "unset"} => file[r.file] = Mutate(r))
             \/ handler' = (handler \ {h}) \cup {To(h, "write", Missing)}
      BY <1>5 DEF Again, Step, End, disk, history
    <2>1. OneFirst'
      BY <1>0, <2>0 DEF UpdateInv, AnswerInv, Tables, Shaped, OneFirst, First, UnbegunMadeNothing, To, Stages
    <2>2. FirstRejects'
      BY <1>0, <2>0 DEF UpdateInv, AnswerInv, Tables, Shaped, FirstRejects, CompletesRecorded, To, Stages
    <2>3. FirstMadeNothing'
      BY <1>0, <2>0 DEF UpdateInv, AnswerInv, Tables, Shaped, FirstMadeNothing, OneFirst, FirstRejects,
         First, UnbegunMadeNothing, CompletesRecorded, To, Stages
    <2>4. AnswerRecorded'
      BY <1>0, <2>0 DEF UpdateInv, AnswerInv, Tables, Shaped, AnswerRecorded, OneFirst, FirstRejects,
         First, CompletesRecorded, UnbegunMadeNothing, To, Stages
    <2>5. PublishesChange'
      BY <1>0, <2>0 DEF UpdateInv, AnswerInv, Tables, Shaped, PublishesChange, To, Stages
    <2>6. SeenWhileOpen'
      BY <1>0, <2>0 DEF UpdateInv, AnswerInv, Tables, Shaped, SeenWhileOpen, Begun, To, Stages
    <2>7. AcceptedSeen'
      BY <1>0, <2>0 DEF UpdateInv, AnswerInv, Tables, Shaped, AcceptedSeen, SeenWhileOpen,
         PublishesChange, AnswerRecorded, UnbegunMadeNothing, Begun, Holds, To, Stages
    <2>8. AnswersAreTrue'
      BY <1>0, <2>0 DEF UpdateInv, AnswerInv, Tables, Shaped, AnswersAreTrue, AcceptedSeen,
         FirstMadeNothing, AnswerRecorded, FirstRejects, CompletesRecorded, UnbegunMadeNothing, First,
            To, Stages
    <2> QED
      BY <2>1, <2>2, <2>3, <2>4, <2>5, <2>6, <2>7, <2>8 DEF AnswerInv
  <1>6. CASE Record(h)
    <2> DEFINE e == IF h.at = "accept" THEN <<"accepted", expected[r], h.next>> ELSE <<"rejected">>
    <2>0. /\ h.at \in {"accept", "reject"} /\ UNCHANGED <<file, command, held, made, resent>>
          /\ \/ /\ event[r] \in {<<"none">>, e} /\ event' = [event EXCEPT ![r] = e]
                /\ handler' = (handler \ {h}) \cup {To(h, "complete", h.next)}
             \/ event' = event /\ handler' = handler \ {h}
          /\ e[1] = IF h.at = "accept" THEN "accepted" ELSE "rejected"
          /\ <<"none">>[1] = "none"
      BY <1>6 DEF Record, Step, End, disk, history
    <2> HIDE DEF e
    <2>1. OneFirst'
      BY <1>0, <2>0 DEF UpdateInv, AnswerInv, Tables, Shaped, OneFirst, First, UnbegunMadeNothing, To, Stages
    <2>2. FirstRejects'
      BY <1>0, <2>0 DEF UpdateInv, AnswerInv, Tables, Shaped, FirstRejects, CompletesRecorded, To, Stages
    <2>3. FirstMadeNothing'
      BY <1>0, <2>0 DEF UpdateInv, AnswerInv, Tables, Shaped, FirstMadeNothing, OneFirst, FirstRejects,
         First, UnbegunMadeNothing, CompletesRecorded, To, Stages
    <2>4. AnswerRecorded'
      BY <1>0, <2>0 DEF UpdateInv, AnswerInv, Tables, Shaped, AnswerRecorded, OneFirst, FirstRejects,
         First, CompletesRecorded, UnbegunMadeNothing, To, Stages
    <2>5. PublishesChange'
      BY <1>0, <2>0 DEF UpdateInv, AnswerInv, Tables, Shaped, PublishesChange, To, Stages
    <2>6. SeenWhileOpen'
      BY <1>0, <2>0 DEF UpdateInv, AnswerInv, Tables, Shaped, SeenWhileOpen, Begun, To, Stages
    <2>7. AcceptedSeen'
      BY <1>0, <2>0 DEF UpdateInv, AnswerInv, Tables, Shaped, AcceptedSeen, SeenWhileOpen,
         PublishesChange, AnswerRecorded, UnbegunMadeNothing, Begun, Holds, To, Stages
    <2>8. AnswersAreTrue'
      BY <1>0, <2>0 DEF UpdateInv, AnswerInv, Tables, Shaped, AnswersAreTrue, AcceptedSeen,
         FirstMadeNothing, AnswerRecorded, FirstRejects, CompletesRecorded, UnbegunMadeNothing, First,
            To, Stages
    <2> QED
      BY <2>1, <2>2, <2>3, <2>4, <2>5, <2>6, <2>7, <2>8 DEF AnswerInv
  <1>7. CASE Complete(h)
    <2>0. /\ h.at = "complete" /\ handler' = handler \ {h} /\ UNCHANGED <<file, event, held, made, resent>>
          /\ \/ command' = command
             \/ command[r] = "pending" /\ command' = [command EXCEPT ![r] = event[r][1]]
      BY <1>0, <1>7 DEF Complete, End, disk, history, UpdateInv, Tables
    <2>1. OneFirst'
      BY <1>0, <2>0 DEF UpdateInv, AnswerInv, Tables, Shaped, OneFirst, First, UnbegunMadeNothing, Stages
    <2>2. FirstRejects'
      BY <1>0, <2>0 DEF UpdateInv, AnswerInv, Tables, Shaped, FirstRejects, CompletesRecorded, Stages
    <2>3. FirstMadeNothing'
      BY <1>0, <2>0 DEF UpdateInv, AnswerInv, Tables, Shaped, FirstMadeNothing, OneFirst, FirstRejects,
         First, UnbegunMadeNothing, CompletesRecorded, Stages
    <2>4. AnswerRecorded'
      BY <1>0, <2>0 DEF UpdateInv, AnswerInv, Tables, Shaped, AnswerRecorded, OneFirst, FirstRejects,
         First, CompletesRecorded, UnbegunMadeNothing, Stages
    <2>5. PublishesChange'
      BY <1>0, <2>0 DEF UpdateInv, AnswerInv, Tables, Shaped, PublishesChange, Stages
    <2>6. SeenWhileOpen'
      BY <1>0, <2>0 DEF UpdateInv, AnswerInv, Tables, Shaped, SeenWhileOpen, Begun, Stages
    <2>7. AcceptedSeen'
      BY <1>0, <2>0 DEF UpdateInv, AnswerInv, Tables, Shaped, AcceptedSeen, SeenWhileOpen,
         PublishesChange, AnswerRecorded, UnbegunMadeNothing, Begun, Holds, Stages
    <2>8. AnswersAreTrue'
      BY <1>0, <2>0 DEF UpdateInv, AnswerInv, Tables, Shaped, AnswersAreTrue, AcceptedSeen,
         FirstMadeNothing, AnswerRecorded, FirstRejects, CompletesRecorded, UnbegunMadeNothing, First,
            Stages
    <2> QED
      BY <2>1, <2>2, <2>3, <2>4, <2>5, <2>6, <2>7, <2>8 DEF AnswerInv
  <1>8. CASE Fail(h)
    <2>0. handler' = handler \ {h} /\ UNCHANGED <<file, command, event, held, made, resent>>
      BY <1>8 DEF Fail, End, disk, history
    <2>1. OneFirst'
      BY <1>0, <2>0 DEF UpdateInv, AnswerInv, Tables, Shaped, OneFirst, First, UnbegunMadeNothing, Stages
    <2>2. FirstRejects'
      BY <1>0, <2>0 DEF UpdateInv, AnswerInv, Tables, Shaped, FirstRejects, CompletesRecorded, Stages
    <2>3. FirstMadeNothing'
      BY <1>0, <2>0 DEF UpdateInv, AnswerInv, Tables, Shaped, FirstMadeNothing, OneFirst, FirstRejects,
         First, UnbegunMadeNothing, CompletesRecorded, Stages
    <2>4. AnswerRecorded'
      BY <1>0, <2>0 DEF UpdateInv, AnswerInv, Tables, Shaped, AnswerRecorded, OneFirst, FirstRejects,
         First, CompletesRecorded, UnbegunMadeNothing, Stages
    <2>5. PublishesChange'
      BY <1>0, <2>0 DEF UpdateInv, AnswerInv, Tables, Shaped, PublishesChange, Stages
    <2>6. SeenWhileOpen'
      BY <1>0, <2>0 DEF UpdateInv, AnswerInv, Tables, Shaped, SeenWhileOpen, Begun, Stages
    <2>7. AcceptedSeen'
      BY <1>0, <2>0 DEF UpdateInv, AnswerInv, Tables, Shaped, AcceptedSeen, SeenWhileOpen,
         PublishesChange, AnswerRecorded, UnbegunMadeNothing, Begun, Holds, Stages
    <2>8. AnswersAreTrue'
      BY <1>0, <2>0 DEF UpdateInv, AnswerInv, Tables, Shaped, AnswersAreTrue, AcceptedSeen,
         FirstMadeNothing, AnswerRecorded, FirstRejects, CompletesRecorded, UnbegunMadeNothing, First,
            Stages
    <2> QED
      BY <2>1, <2>2, <2>3, <2>4, <2>5, <2>6, <2>7, <2>8 DEF AnswerInv
  <1> QED
    BY <1>1, <1>2, <1>3, <1>4, <1>5, <1>6, <1>7, <1>8

\* Requests, stops and edits keep it too.
LEMMA AnswerStep == UpdateInv /\ AnswerInv /\ RequestsKnown /\ [Next]_vars => AnswerInv'
  <1> SUFFICES ASSUME UpdateInv, AnswerInv, RequestsKnown, [Next]_vars PROVE AnswerInv'
    OBVIOUS
  <1>1. CASE UNCHANGED vars
    BY <1>1 DEF vars, AnswerInv, OneFirst, FirstRejects, FirstMadeNothing, AnswerRecorded,
       PublishesChange, SeenWhileOpen, AcceptedSeen, AnswersAreTrue, First, Begun
  <1>2. ASSUME NEW r \in Requests, NEW n \in Sends, Send(r, n) \/ Resend(r, n) PROVE AnswerInv'
    <2>0. /\ handler' = handler \cup {At(r, n)} /\ UNCHANGED <<file, command, event, held, made, resent>>
          /\ At(r, n).request = r /\ At(r, n).at = "begin" /\ At(r, n).again = FALSE
      BY <1>2, Arrives DEF Send, Resend, disk, history
    <2>1. OneFirst'
      BY <2>0 DEF UpdateInv, AnswerInv, Tables, Shaped, OneFirst, First, UnbegunMadeNothing, Begun
    <2>2. FirstRejects'
      BY <2>0 DEF UpdateInv, AnswerInv, Tables, Shaped, FirstRejects, CompletesRecorded, Begun
    <2>3. FirstMadeNothing'
      BY <2>0 DEF UpdateInv, AnswerInv, Tables, Shaped, FirstMadeNothing, OneFirst, FirstRejects, First,
         UnbegunMadeNothing, CompletesRecorded, Begun
    <2>4. AnswerRecorded'
      BY <2>0 DEF UpdateInv, AnswerInv, Tables, Shaped, AnswerRecorded, OneFirst, FirstRejects, First,
         CompletesRecorded, UnbegunMadeNothing, Begun
    <2>5. PublishesChange'
      BY <2>0 DEF UpdateInv, AnswerInv, Tables, Shaped, PublishesChange, Begun
    <2>6. SeenWhileOpen'
      BY <2>0 DEF UpdateInv, AnswerInv, Tables, Shaped, SeenWhileOpen, Begun, Begun
    <2>7. AcceptedSeen'
      BY <2>0 DEF UpdateInv, AnswerInv, Tables, Shaped, AcceptedSeen, SeenWhileOpen, PublishesChange,
         AnswerRecorded, UnbegunMadeNothing, Begun, Holds, Begun
    <2>8. AnswersAreTrue'
      BY <2>0 DEF UpdateInv, AnswerInv, Tables, Shaped, AnswersAreTrue, AcceptedSeen, FirstMadeNothing,
         AnswerRecorded, FirstRejects, CompletesRecorded, UnbegunMadeNothing, First, Begun
    <2> QED
      BY <2>1, <2>2, <2>3, <2>4, <2>5, <2>6, <2>7, <2>8 DEF AnswerInv
  <1>3. CASE Crash
    BY <1>3 DEF Crash, AnswerInv, OneFirst, FirstRejects, FirstMadeNothing, AnswerRecorded,
       PublishesChange, SeenWhileOpen, AcceptedSeen, AnswersAreTrue, First, Begun, disk, history
  <1>4. ASSUME NEW f \in Files, Edit(f) PROVE AnswerInv'
    <2>0. PICK v : /\ file' = [file EXCEPT ![f] = Content(v, FALSE)] /\
                       UNCHANGED <<command, event, made, resent, handler>>
                   /\ held' = held \cup {q \in Requests : Begun(q) /\ q.file = f /\ Holds(q, Content(v, FALSE))}
      BY <1>4 DEF Edit
    <2>1. OneFirst'
      BY <2>0 DEF UpdateInv, AnswerInv, Tables, Shaped, OneFirst, First, UnbegunMadeNothing, RequestsKnown
    <2>2. FirstRejects'
      BY <2>0 DEF UpdateInv, AnswerInv, Tables, Shaped, FirstRejects, CompletesRecorded, RequestsKnown
    <2>3. FirstMadeNothing'
      BY <2>0 DEF UpdateInv, AnswerInv, Tables, Shaped, FirstMadeNothing, OneFirst, FirstRejects, First,
         UnbegunMadeNothing, CompletesRecorded, RequestsKnown
    <2>4. AnswerRecorded'
      BY <2>0 DEF UpdateInv, AnswerInv, Tables, Shaped, AnswerRecorded, OneFirst, FirstRejects, First,
         CompletesRecorded, UnbegunMadeNothing, RequestsKnown
    <2>5. PublishesChange'
      BY <2>0 DEF UpdateInv, AnswerInv, Tables, Shaped, PublishesChange, RequestsKnown
    <2>6. SeenWhileOpen'
      BY <2>0 DEF UpdateInv, AnswerInv, Tables, Shaped, SeenWhileOpen, Begun, RequestsKnown
    <2>7. AcceptedSeen'
      BY <2>0 DEF UpdateInv, AnswerInv, Tables, Shaped, AcceptedSeen, SeenWhileOpen, PublishesChange,
         AnswerRecorded, UnbegunMadeNothing, Begun, Holds, RequestsKnown
    <2>8. AnswersAreTrue'
      BY <2>0 DEF UpdateInv, AnswerInv, Tables, Shaped, AnswersAreTrue, AcceptedSeen, FirstMadeNothing,
         AnswerRecorded, FirstRejects, CompletesRecorded, UnbegunMadeNothing, First, RequestsKnown
    <2> QED
      BY <2>1, <2>2, <2>3, <2>4, <2>5, <2>6, <2>7, <2>8 DEF AnswerInv
  <1> QED
    BY <1>1, <1>2, <1>3, <1>4, HandlerAnswers DEF Next

\* Wherever the daemon stops, whoever else writes and however many deliveries of
\* a request overlap: a change of a key that was answered with success was in the
\* file while its command was open, and one answered with a failure was made by
\* nobody, or by a repetition sent while the first handler was still at work
\* (configmutation, Apply).
THEOREM AnswersTrue == ASSUME RequestsKnown PROVE Spec => []AnswersAreTrue
  <1>1. Init => UpdateInv
    BY UpdateInit
  <1>2. UpdateInv /\ [Next]_vars => UpdateInv'
    BY UpdateStep
  <1>3. Init => AnswerInv
    <2> SUFFICES ASSUME Init PROVE AnswerInv
      OBVIOUS
    <2>1. handler = {} /\ \A r \in Requests : command[r] = "none" /\ event[r][1] = "none"
      BY DEF Init
    <2> QED
      BY <2>1 DEF AnswerInv, OneFirst, FirstRejects, FirstMadeNothing, AnswerRecorded, PublishesChange,
         SeenWhileOpen, AcceptedSeen, AnswersAreTrue, First, Begun
  <1>4. UpdateInv /\ AnswerInv /\ [Next]_vars => AnswerInv'
    BY AnswerStep
  <1>5. AnswerInv => AnswersAreTrue
    BY DEF AnswerInv
  <1> QED
    BY <1>1, <1>2, <1>3, <1>4, <1>5, PTL DEF Spec

\* Handlers work on requests that were made, and what the history counts are
\* requests; with UpdateInv this types every variable.
THEOREM TypeCorrect ==
    ASSUME RequestsKnown
    PROVE  Spec => []TypeOK
  <1> DEFINE Counted == held \subseteq Requests /\ made \subseteq Requests
  <1>1. Init => UpdateInv /\ Counted
    BY UpdateInit DEF Init
  <1>2. UpdateInv /\ Counted /\ [Next]_vars => UpdateInv' /\ Counted'
    <2> SUFFICES ASSUME UpdateInv, Counted, [Next]_vars PROVE UpdateInv' /\ Counted'
      OBVIOUS
    <2>1. \A h \in handler : h.request \in Requests
      BY DEF UpdateInv, Tables, Shaped
    <2>2. ASSUME NEW h \in handler, Begin(h) PROVE Counted'
      BY <2>1, <2>2 DEF Begin
    <2>3. ASSUME NEW h \in handler, Publish(h) PROVE Counted'
      BY <2>1, <2>3 DEF Publish
    <2>4. ASSUME NEW h \in handler, Backup(h) \/ Refuse(h) \/ Again(h) \/ Record(h) \/ Complete(h) \/
                 Fail(h) PROVE Counted'
      BY <2>4 DEF Backup, Refuse, Again, Record, Complete, Fail, history
    <2>5. ASSUME NEW r \in Requests, NEW n \in Sends, Send(r, n) \/ Resend(r, n) PROVE Counted'
      BY <2>5 DEF Send, Resend, history
    <2>6. ASSUME NEW f \in Files, Edit(f) PROVE Counted'
      BY <2>6 DEF Edit
    <2>7. ASSUME Crash \/ UNCHANGED vars PROVE Counted'
      BY <2>7 DEF Crash, history, vars
    <2> QED
      BY <2>2, <2>3, <2>4, <2>5, <2>6, <2>7, UpdateStep DEF Next
  <1>3. UpdateInv /\ Counted => TypeOK
    BY DEF UpdateInv, Tables, Shaped, Stages, TypeOK
  <1> QED
    BY <1>1, <1>2, <1>3, PTL DEF Spec
=============================================================================
