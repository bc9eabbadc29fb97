--------------------------- MODULE AttentionQueue ---------------------------
(***************************************************************************)
(* The operator's queue of open requests (core/attention): it is derived   *)
(* anew for every page from approvals, permissions, questions and waiting  *)
(* preparations, read one after the other while they come and go; a cursor *)
(* names the last item of the page before.  Decide resolves an approval.   *)
(***************************************************************************)
EXTENDS Integers, Sequences, FiniteSets, FiniteSetTheorems, WellFoundedInduction, TLAPS

CONSTANTS Items,        \* 1..n, in the order they are created
          Source,       \* item -> "approval", "permission", "input" or "preparation"
          Work, Priority, \* item -> its work item, and that one's priority
          Limit,        \* items of a page
          Users,        \* who decide
          MaxPages

VARIABLES status,       \* item -> "absent", "pending", "recorded" or "resolved"
          owner,        \* attempts and runs that may still use an answer: a set of items
          kept,         \* work items that are not deleted
          reader,       \* a reader going through the pages: [at, got, cursor, pages]
          shown,        \* what the reader has been shown
          steady,       \* what could be listed at every moment since the first page
          decision,     \* item -> the event that resolved an approval: [user, action] or None
          version,      \* item -> resource version
          call          \* user -> [at, item, action, version, answer]

vars == <<status, owner, kept, reader, shown, steady, decision, version, call>>
requests == <<status, owner, kept, decision, version>>

None == [user |-> "none", action |-> "none"]
NoCall == [at |-> "none", item |-> 0, action |-> "none", version |-> 0, answer |-> None]
AtRest == [at |-> "rest", got |-> {}, cursor |-> 0, pages |-> 0]

Init ==
    /\ status = [i \in Items |-> "absent"] /\ owner = {} /\ kept = {Work[i] : i \in Items}
    /\ reader = AtRest /\ shown = {} /\ steady = {}
    /\ decision = [i \in Items |-> None] /\ version = [i \in Items |-> 1] /\ call = [u \in Users |-> NoCall]

-----------------------------------------------------------------------------
(* What List makes of the sources.                                           *)
Unresolved(i) == status[i] \in {"pending", "recorded"}
\* permissionOwnerActive
OwnerActive(i) == Source[i] = "permission" => i \in owner
Listable == {i \in Items : Unresolved(i) /\ OwnerActive(i) /\ Work[i] \in kept}
Steady == steady' = steady \cap Listable'
\* before: by urgency, then by age.
Before(i, j) == Priority[Work[i]] > Priority[Work[j]] \/ (Priority[Work[i]] = Priority[Work[j]] /\ i < j)
\* (A mutant of After.)
AfterByAge(i, cursor) == cursor = 0 \/ cursor < i
\* after: behind the item the cursor names, which may be gone by now.
After(i, cursor) == cursor = 0 \/ Before(cursor, i)
\* sort, search, cut.
Page(got, cursor) ==
    LET rest == {i \in got : After(i, cursor)}
    IN  {i \in rest : Cardinality({j \in rest : Before(j, i)}) < Limit}
LastOf(page) == CHOOSE i \in page : \A j \in page : i = j \/ Before(j, i)

-----------------------------------------------------------------------------
(* The reader: one source after the other, then a page.                      *)
Sources == <<"approval", "permission/pending", "permission/recorded", "preparation", "input/pending", "input/recorded">>
Reading(k) ==
    {i \in Items :
        CASE Sources[k] = "approval" -> Source[i] = "approval" /\ status[i] = "pending"
          [] Sources[k] = "permission/pending" -> Source[i] = "permission" /\ status[i] = "pending" /\ OwnerActive(i)
          [] Sources[k] = "permission/recorded" -> Source[i] = "permission" /\ status[i] = "recorded" /\ OwnerActive(i)
          [] Sources[k] = "preparation" -> Source[i] = "preparation" /\ status[i] = "pending"
          [] Sources[k] = "input/pending" -> Source[i] = "input" /\ status[i] = "pending"
          [] OTHER -> Source[i] = "input" /\ status[i] = "recorded"}
FirstPage ==
    /\ reader.at = "rest" /\ reader.pages = 0 /\ reader' = [reader EXCEPT !.at = "1"]
    /\ steady' = Listable /\ shown' = {}
    /\ UNCHANGED <<requests, call>>
Stage == [s \in {"1", "2", "3", "4", "5", "6"} |->
             CASE s = "1" -> 1 [] s = "2" -> 2 [] s = "3" -> 3 [] s = "4" -> 4 [] s = "5" -> 5 [] OTHER -> 6]
\* (A mutant of Read: recorded before pending.)
ReadBackwards ==
    /\ reader.at \in DOMAIN Stage
    /\ LET k == Stage[reader.at]
           o == CASE k = 2 -> 3 [] k = 3 -> 2 [] k = 5 -> 6 [] k = 6 -> 5 [] OTHER -> k
       IN reader' = [reader EXCEPT !.got = @ \cup Reading(o),
                                   !.at = IF k = 6 THEN "page" ELSE CHOOSE s \in DOMAIN Stage : Stage[s] = k + 1]
    /\ UNCHANGED <<requests, shown, steady, call>>
Read ==
    /\ reader.at \in DOMAIN Stage
    /\ LET k == Stage[reader.at] IN
       reader' = [reader EXCEPT !.got = @ \cup Reading(k),
                                !.at = IF k = 6 THEN "page" ELSE CHOOSE s \in DOMAIN Stage : Stage[s] = k + 1]
    /\ UNCHANGED <<requests, shown, steady, call>>
\* Items of deleted work are dropped; a full page has a cursor to go on from.
Show ==
    /\ reader.at = "page"
    /\ LET got == {i \in reader.got : Work[i] \in kept}
           page == Page(got, reader.cursor)
           more == {i \in got : After(i, reader.cursor)} # page
       IN /\ shown' = shown \cup page
          /\ reader' = IF more /\ reader.pages + 1 < MaxPages
                       THEN [at |-> "1", got |-> {}, cursor |-> LastOf(page), pages |-> reader.pages + 1]
                       ELSE [AtRest EXCEPT !.at = IF more THEN "left" ELSE "end", !.pages = 1]
    /\ UNCHANGED <<requests, steady, call>>

-----------------------------------------------------------------------------
(* The requests (external): they are made in order, answered, delivered.     *)
Ask(i) ==
    /\ status[i] = "absent" /\ \A j \in Items : j < i => status[j] # "absent"
    /\ status' = [status EXCEPT ![i] = "pending"] /\ owner' = owner \cup {i}
    /\ UNCHANGED <<kept, decision, version, reader, shown, call>> /\ Steady
Progress(i) ==
    /\ \/ Source[i] \in {"permission", "input"} /\ status[i] = "pending" /\ status' = [status EXCEPT ![i] = "recorded"]
       \/ Source[i] \in {"permission", "input"} /\ status[i] = "recorded" /\ status' = [status EXCEPT ![i] = "resolved"]
       \/ Source[i] = "preparation" /\ status[i] = "pending" /\ status' = [status EXCEPT ![i] = "resolved"]
    /\ UNCHANGED <<owner, kept, decision, version, reader, shown, call>> /\ Steady
OwnerStops(i) ==
    /\ Source[i] = "permission" /\ i \in owner /\ owner' = owner \ {i}
    /\ UNCHANGED <<status, kept>> /\ UNCHANGED <<decision, version, reader, shown, call>> /\ Steady
Delete(w) ==
    /\ w \in kept /\ kept' = kept \ {w} /\ UNCHANGED <<status, owner>>
    /\ UNCHANGED <<decision, version, reader, shown, call>> /\ Steady

-----------------------------------------------------------------------------
(* Decide: read, then append with the version that was read.                 *)
Submit(u) ==
    /\ call[u].at = "none"
    /\ \E i \in {x \in Items : Source[x] = "approval" /\ status[x] # "absent"}, a \in {"approve", "cancel"} :
          call' = [call EXCEPT ![u] = [NoCall EXCEPT !.at = "read", !.item = i, !.action = a, !.version = version[i]]]
    /\ UNCHANGED <<requests, reader, shown, steady>>
Mine(u, e) == e.user = u /\ e.action = call[u].action
\* (A mutant of ReadApproval: any decision will do.)
ReadApprovalAnyDecision(u) ==
    /\ call[u].at = "read"
    /\ LET i == call[u].item IN
       call' = [call EXCEPT ![u] =
           IF status[i] # "pending" /\ decision[i].action = @.action THEN [@ EXCEPT !.at = "done", !.answer = [user |-> u, action |-> @.action]]
           ELSE IF status[i] # "pending" \/ version[i] # @.version THEN [@ EXCEPT !.at = "refused"]
           ELSE [@ EXCEPT !.at = "append"]]
    /\ UNCHANGED <<requests, reader, shown, steady>>
\* A decision that was taken is answered again to who took it, and to no other.
ReadApproval(u) ==
    /\ call[u].at = "read"
    /\ LET i == call[u].item IN
       call' = [call EXCEPT ![u] =
           IF status[i] # "pending" /\ Mine(u, decision[i]) THEN [@ EXCEPT !.at = "done", !.answer = decision[i]]
           ELSE IF status[i] # "pending" \/ version[i] # @.version THEN [@ EXCEPT !.at = "refused"]
           ELSE [@ EXCEPT !.at = "append"]]
    /\ UNCHANGED <<requests, reader, shown, steady>>
\* Append: a concurrent decision makes the expected revision wrong.  The answer
\* may be lost, and the user asks again with the same key.
AppendDecision(u) ==
    /\ call[u].at = "append"
    /\ LET i == call[u].item
           event == [user |-> u, action |-> call[u].action]
       IN IF version[i] = call[u].version
          THEN /\ version' = [version EXCEPT ![i] = @ + 1] /\ status' = [status EXCEPT ![i] = "resolved"]
               /\ decision' = [decision EXCEPT ![i] = event]
               /\ \/ call' = [call EXCEPT ![u] = [@ EXCEPT !.at = "done", !.answer = event]]
                  \/ call' = [call EXCEPT ![u].at = "read"]
          ELSE call' = [call EXCEPT ![u].at = "refused"] /\ UNCHANGED <<version, status, decision>>
    /\ UNCHANGED <<owner, kept>> /\ UNCHANGED <<reader, shown>> /\ Steady

Next ==
    \/ FirstPage \/ Read \/ Show
    \/ \E i \in Items : Ask(i) \/ Progress(i) \/ OwnerStops(i)
    \/ \E w \in {Work[i] : i \in Items} : Delete(w)
    \/ \E u \in Users : Submit(u) \/ ReadApproval(u) \/ AppendDecision(u)
Spec == Init /\ [][Next]_vars

-----------------------------------------------------------------------------
TypeOK ==
    /\ status \in [Items -> {"absent", "pending", "recorded", "resolved"}] /\ owner \subseteq Items
    /\ kept \subseteq {Work[i] : i \in Items} /\ shown \subseteq Items /\ steady \subseteq Items
    /\ reader.at \in {"rest", "page", "end", "left"} \cup DOMAIN Stage /\ reader.got \subseteq Items
    /\ reader.cursor \in Items \cup {0} /\ version \in [Items -> 1..2]
    /\ \A u \in Users : call[u].at \in {"none", "read", "append", "done", "refused"}

\* Whoever reads to the last page has seen every request that was open the whole
\* time: a request that moves on, comes or goes between two reads or two pages
\* hides no other.
NothingIsSkipped == reader.at = "end" => steady \subseteq shown

\* One decision resolves an approval, and a decision that is answered as taken
\* is the one that is recorded, under its user's name.
AnswerIsRecorded ==
    \A u \in Users : call[u].at = "done" => decision[call[u].item] = call[u].answer
-----------------------------------------------------------------------------
(* Proofs.  The items of a page are the first of what the cursor leaves, in a *)
(* strict total order; the rest stays behind the last of them, so an item    *)
(* that stays open is read with the next page, wherever others go.           *)

\* Items are numbered as they are created, and a page is not empty
\* (attention/service.go, List: the limit is at least one).
QueueAssumption ==
    /\ IsFiniteSet(Items) /\ Items \subseteq Nat \ {0} /\ Limit \in Nat \ {0}
    /\ \A i \in Items : Priority[Work[i]] \in Int
    /\ Source \in [Items -> {"approval", "permission", "input", "preparation"}]

Reads == {"1", "2", "3", "4", "5", "6", "page"}
Calling == [at : {"none", "read", "append", "done", "refused"}, item : Items \cup {0},
            action : {"none", "approve", "cancel"}, version : 0 .. 2,
            answer : [user : Users \cup {"none"}, action : {"none", "approve", "cancel"}]]
QueueTypes ==
    /\ status \in [Items -> {"absent", "pending", "recorded", "resolved"}] /\ owner \subseteq Items
    /\ kept \subseteq {Work[i] : i \in Items} /\ shown \subseteq Items /\ steady \subseteq Items
    /\ reader \in [at : Reads \cup {"rest", "end", "left"}, got : SUBSET Items,
                   cursor : Items \cup {0}, pages : Nat]
    /\ version \in [Items -> 1 .. 2]
    /\ decision \in [Items -> [user : Users \cup {"none"}, action : {"none", "approve", "cancel"}]]
    /\ call \in [Users -> Calling]

\* An approval is decided with its first version, and only then; a call that will
\* append read that version, and one that was answered found or made the second.
Decided ==
    /\ \A i \in Items : version[i] = 2 => status[i] = "resolved"
    /\ \A i \in Items : version[i] = 1 => decision[i] = None
    /\ \A u \in Users :
          /\ call[u].at # "none" => call[u].item \in Items /\ call[u].action # "none"
          /\ call[u].at = "append" => call[u].version = 1
          /\ call[u].at = "done" => version[call[u].item] = 2 /\ decision[call[u].item] = call[u].answer

\* What the reads so far hold of an item that stays open: a permission or question
\* that was not pending when those were read was recorded by then, and is read next.
Held(i) ==
    /\ Source[i] = "approval" /\ reader.at \in Reads \ {"1"} => i \in reader.got
    /\ Source[i] = "permission" /\ reader.at = "3" => i \in reader.got \/ status[i] = "recorded"
    /\ Source[i] = "permission" /\ reader.at \in {"4", "5", "6", "page"} => i \in reader.got
    /\ Source[i] = "preparation" /\ reader.at \in {"5", "6", "page"} => i \in reader.got
    /\ Source[i] = "input" /\ reader.at = "6" => i \in reader.got \/ status[i] = "recorded"
    /\ Source[i] = "input" /\ reader.at = "page" => i \in reader.got

\* An item that stays open is behind the cursor or was shown.
Ahead(i) == reader.at \in Reads => i \in shown \/ After(i, reader.cursor)

Paged ==
    /\ \A i \in Items : status[i] = "recorded" => Source[i] \in {"permission", "input"}
    /\ steady \subseteq Listable
    /\ reader.at = "rest" => reader.got = {} /\ reader.cursor = 0
    /\ \A i \in steady : Held(i) /\ Ahead(i)
    /\ NothingIsSkipped

QueueInv == QueueTypes /\ Decided /\ Paged

\* Of a set of numbers that is not empty one is the least.
LEMMA LeastNumber ==
    ASSUME NEW T, T \subseteq Nat, T # {}
    PROVE  \E x \in T : \A y \in T : x <= y
  <1> DEFINE R == OpToRel(<, Nat)
  <1>1. IsWellFoundedOn(R, Nat)
    BY NatLessThanWellFounded
  <1>2. R = {ss \in Nat \X Nat : ss[1] < ss[2]}
    BY DEF OpToRel
  <1> HIDE DEF R
  <1>3. PICK x \in T : \A y \in T : ~(<<y, x>> \in R)
    BY <1>1, WFMin
  <1>4. ASSUME NEW y \in T, ~(x <= y) PROVE FALSE
    <2>1. x \in Nat /\ y \in Nat /\ y < x
      BY <1>3, <1>4
    <2>2. <<y, x>> \in R
      BY <1>2, <2>1
    <2> QED
      BY <1>3, <2>2
  <1> QED
    BY <1>3, <1>4

\* before is a strict total order: urgency first, then age.
LEMMA BeforeOrders ==
    ASSUME QueueAssumption
    PROVE  /\ \A i \in Items : ~Before(i, i)
           /\ \A i, j \in Items : i = j \/ Before(i, j) \/ Before(j, i)
           /\ \A i, j, k \in Items : Before(i, j) /\ Before(j, k) => Before(i, k)
  BY DEF QueueAssumption, Before

\* The page of a cursor that leaves something is not empty: nothing is before the
\* first of what is left.
LEMMA FirstIsOnPage ==
    ASSUME QueueAssumption, NEW rest, rest \subseteq Items, rest # {}
    PROVE  \E i \in rest : Cardinality({j \in rest : Before(j, i)}) < Limit
  <1> DEFINE Pre(i) == {j \in rest : Before(j, i)}
             T == {Cardinality(Pre(i)) : i \in rest}
  <1>1. IsFiniteSet(rest)
    BY FS_Subset DEF QueueAssumption
  <1>2. \A i \in rest : IsFiniteSet(Pre(i)) /\ Cardinality(Pre(i)) \in Nat
    BY <1>1, FS_Subset, FS_CardinalityType
  <1>3. T \subseteq Nat /\ T # {}
    BY <1>2
  <1>4. PICK n \in T : \A m \in T : n <= m
    BY <1>3, LeastNumber
  <1>5. PICK i \in rest : n = Cardinality(Pre(i))
    BY <1>4
  <1>6. ASSUME NEW j \in Pre(i) PROVE FALSE
    <2>1. j \in rest /\ Before(j, i)
      BY <1>6
    <2>2. Pre(j) \subseteq Pre(i) /\ j \notin Pre(j)
      BY <2>1, BeforeOrders
    <2>3. Cardinality(Pre(j)) <= Cardinality(Pre(i)) /\ Cardinality(Pre(j)) # Cardinality(Pre(i))
      BY <1>2, <1>6, <2>2, FS_Subset
    <2>4. Cardinality(Pre(i)) <= Cardinality(Pre(j))
      BY <1>4, <1>5, <2>1
    <2>5. Cardinality(Pre(i)) \in Nat /\ Cardinality(Pre(j)) \in Nat
      BY <1>2, <2>1
    <2> HIDE DEF Pre
    <2> QED
      BY <2>3, <2>4, <2>5
  <1>7. Pre(i) = {}
    BY <1>6
  <1>8. Cardinality(Pre(i)) < Limit
    BY <1>7, FS_EmptySet DEF QueueAssumption
  <1> QED
    BY <1>8

\* A page that is not empty has a last item.
LEMMA LastOnPage ==
    ASSUME QueueAssumption, NEW page, page \subseteq Items, page # {}
    PROVE  LastOf(page) \in page /\ \A j \in page : LastOf(page) = j \/ Before(j, LastOf(page))
  <1> DEFINE Post(i) == {j \in page : Before(i, j)}
             T == {Cardinality(Post(i)) : i \in page}
  <1>1. IsFiniteSet(page)
    BY FS_Subset DEF QueueAssumption
  <1>2. \A i \in page : IsFiniteSet(Post(i)) /\ Cardinality(Post(i)) \in Nat
    BY <1>1, FS_Subset, FS_CardinalityType
  <1>3. T \subseteq Nat /\ T # {}
    BY <1>2
  <1>4. PICK n \in T : \A m \in T : n <= m
    BY <1>3, LeastNumber
  <1>5. PICK i \in page : n = Cardinality(Post(i))
    BY <1>4
  <1>6. ASSUME NEW j \in Post(i) PROVE FALSE
    <2>1. j \in page /\ Before(i, j)
      BY <1>6
    <2>2. Post(j) \subseteq Post(i) /\ j \notin Post(j)
      BY <2>1, BeforeOrders
    <2>3. Cardinality(Post(j)) <= Cardinality(Post(i)) /\ Cardinality(Post(j)) # Cardinality(Post(i))
      BY <1>2, <1>6, <2>2, FS_Subset
    <2>4. Cardinality(Post(i)) <= Cardinality(Post(j))
      BY <1>4, <1>5, <2>1
    <2>5. Cardinality(Post(i)) \in Nat /\ Cardinality(Post(j)) \in Nat
      BY <1>2, <2>1
    <2> HIDE DEF Post
    <2> QED
      BY <2>3, <2>4, <2>5
  <1>7. \A j \in page : i = j \/ Before(j, i)
    BY <1>6, BeforeOrders
  <1> QED
    BY <1>7 DEF LastOf

\* sort, search, cut: a page is what is left or the first of it, and everything
\* that is left over stays after its last item.
LEMMA PageIsFirst ==
    ASSUME QueueAssumption, NEW got, got \subseteq Items, NEW cursor
    PROVE  LET rest == {i \in got : After(i, cursor)}
               page == Page(got, cursor)
           IN  /\ page \subseteq rest
               /\ rest # page => LastOf(page) \in page /\ \A i \in rest \ page : Before(LastOf(page), i)
  <1> DEFINE rest == {i \in got : After(i, cursor)}
             page == Page(got, cursor)
             Pre(i) == {j \in rest : Before(j, i)}
  <1>1. rest \subseteq Items
    OBVIOUS
  <1>2. page = {i \in rest : Cardinality(Pre(i)) < Limit}
    BY DEF Page
  <1> HIDE DEF rest, page
  <1>3. ASSUME rest # page
        PROVE  LastOf(page) \in page /\ \A i \in rest \ page : Before(LastOf(page), i)
    <2>1. rest # {} /\ page \subseteq Items
      BY <1>1, <1>2, <1>3
    <2>2. page # {}
      BY <1>1, <1>2, <2>1, FirstIsOnPage
    <2>3. LastOf(page) \in page
      BY <2>1, <2>2, LastOnPage
    <2>4. ASSUME NEW i \in rest \ page, NEW j \in page, Before(i, j) PROVE FALSE
      <3>1. Pre(i) \subseteq Pre(j)
        BY <1>1, <1>2, <2>4, BeforeOrders
      <3>2. IsFiniteSet(rest)
        BY <1>1, FS_Subset DEF QueueAssumption
      <3>3. IsFiniteSet(Pre(j)) /\ Cardinality(Pre(j)) \in Nat
        BY <3>2, FS_Subset, FS_CardinalityType
      <3>4. Cardinality(Pre(i)) <= Cardinality(Pre(j)) /\ Cardinality(Pre(i)) \in Nat
        BY <3>1, <3>3, FS_Subset, FS_CardinalityType
      <3>5. Cardinality(Pre(j)) < Limit /\ ~(Cardinality(Pre(i)) < Limit)
        BY <1>2, <2>4
      <3> QED
        BY <3>3, <3>4, <3>5 DEF QueueAssumption
    <2>5. \A i \in rest \ page : Before(LastOf(page), i)
      BY <1>1, <2>1, <2>3, <2>4, BeforeOrders
    <2> QED
      BY <2>3, <2>5
  <1> QED
    BY <1>2, <1>3 DEF rest, page

\* The stages follow each other, and the last read is followed by the page.
LEMMA StagesInOrder ==
    /\ DOMAIN Stage = {"1", "2", "3", "4", "5", "6"}
    /\ Stage["1"] = 1 /\ Stage["2"] = 2 /\ Stage["3"] = 3 /\ Stage["4"] = 4 /\ Stage["5"] = 5 /\ Stage["6"] = 6
    /\ (CHOOSE s \in DOMAIN Stage : Stage[s] = 2) = "2"
    /\ (CHOOSE s \in DOMAIN Stage : Stage[s] = 3) = "3"
    /\ (CHOOSE s \in DOMAIN Stage : Stage[s] = 4) = "4"
    /\ (CHOOSE s \in DOMAIN Stage : Stage[s] = 5) = "5"
    /\ (CHOOSE s \in DOMAIN Stage : Stage[s] = 6) = "6"
  <1>1. /\ DOMAIN Stage = {"1", "2", "3", "4", "5", "6"}
        /\ Stage["1"] = 1 /\ Stage["2"] = 2 /\ Stage["3"] = 3 /\ Stage["4"] = 4 /\ Stage["5"] = 5 /\ Stage["6"] = 6
    BY DEF Stage
  <1> QED
    BY <1>1

\* What each read takes.
LEMMA WhatIsRead ==
    /\ Reading(1) = {i \in Items : Source[i] = "approval" /\ status[i] = "pending"}
    /\ Reading(2) = {i \in Items : Source[i] = "permission" /\ status[i] = "pending" /\ OwnerActive(i)}
    /\ Reading(3) = {i \in Items : Source[i] = "permission" /\ status[i] = "recorded" /\ OwnerActive(i)}
    /\ Reading(4) = {i \in Items : Source[i] = "preparation" /\ status[i] = "pending"}
    /\ Reading(5) = {i \in Items : Source[i] = "input" /\ status[i] = "pending"}
    /\ Reading(6) = {i \in Items : Source[i] = "input" /\ status[i] = "recorded"}
  BY DEF Reading, Sources

\* A read goes on to the next stage with what it took.
LEMMA ReadGoesOn ==
    ASSUME QueueTypes, Read
    PROVE  \E k \in 1 .. 6, at \in Reads :
              /\ \/ reader.at = "1" /\ k = 1 /\ at = "2"
                 \/ reader.at = "2" /\ k = 2 /\ at = "3"
                 \/ reader.at = "3" /\ k = 3 /\ at = "4"
                 \/ reader.at = "4" /\ k = 4 /\ at = "5"
                 \/ reader.at = "5" /\ k = 5 /\ at = "6"
                 \/ reader.at = "6" /\ k = 6 /\ at = "page"
              /\ reader' = [at |-> at, got |-> reader.got \cup Reading(k),
                            cursor |-> reader.cursor, pages |-> reader.pages]
  <1>1. reader = [at |-> reader.at, got |-> reader.got, cursor |-> reader.cursor, pages |-> reader.pages]
    BY DEF QueueTypes
  <1> DEFINE next(k) == IF k = 6 THEN "page" ELSE CHOOSE s \in DOMAIN Stage : Stage[s] = k + 1
             read(k, at) == [at |-> at, got |-> reader.got \cup Reading(k),
                             cursor |-> reader.cursor, pages |-> reader.pages]
  <1>2. reader' = [reader EXCEPT !.got = @ \cup Reading(Stage[reader.at]), !.at = next(Stage[reader.at])]
    BY DEF Read
  <1>3. reader' = read(Stage[reader.at], next(Stage[reader.at]))
    <2> HIDE DEF next
    <2> QED
      BY <1>1, <1>2
  <1>4. reader.at \in {"1", "2", "3", "4", "5", "6"}
    BY StagesInOrder DEF Read
  <1>5. next(1) = "2" /\ next(2) = "3" /\ next(3) = "4" /\ next(4) = "5" /\ next(5) = "6" /\ next(6) = "page"
    BY StagesInOrder
  <1> HIDE DEF next, read
  <1>6. ASSUME NEW k \in 1 .. 6, NEW at \in Reads, reader' = read(k, at)
        PROVE  reader' = [at |-> at, got |-> reader.got \cup Reading(k),
                          cursor |-> reader.cursor, pages |-> reader.pages]
    BY <1>6 DEF read
  <1>7. CASE reader.at = "1"
    BY <1>3, <1>5, <1>6, <1>7, StagesInOrder DEF Reads
  <1>8. CASE reader.at = "2"
    BY <1>3, <1>5, <1>6, <1>8, StagesInOrder DEF Reads
  <1>9. CASE reader.at = "3"
    BY <1>3, <1>5, <1>6, <1>9, StagesInOrder DEF Reads
  <1>10. CASE reader.at = "4"
    BY <1>3, <1>5, <1>6, <1>10, StagesInOrder DEF Reads
  <1>11. CASE reader.at = "5"
    BY <1>3, <1>5, <1>6, <1>11, StagesInOrder DEF Reads
  <1>12. CASE reader.at = "6"
    BY <1>3, <1>5, <1>6, <1>12, StagesInOrder DEF Reads
  <1> QED
    BY <1>4, <1>7, <1>8, <1>9, <1>10, <1>11, <1>12

\* A read keeps the invariant: what stays open is taken by the read of its state,
\* or by the one after.
LEMMA ReadKeeps == QueueAssumption /\ QueueInv /\ Read => QueueInv'
  <1> SUFFICES ASSUME QueueAssumption, QueueInv, Read PROVE QueueInv'
    OBVIOUS
  <1>1. QueueTypes /\ Decided /\ Paged
    BY DEF QueueInv
  <1>2. PICK k \in 1 .. 6, at \in Reads :
              /\ \/ reader.at = "1" /\ k = 1 /\ at = "2"
                 \/ reader.at = "2" /\ k = 2 /\ at = "3"
                 \/ reader.at = "3" /\ k = 3 /\ at = "4"
                 \/ reader.at = "4" /\ k = 4 /\ at = "5"
                 \/ reader.at = "5" /\ k = 5 /\ at = "6"
                 \/ reader.at = "6" /\ k = 6 /\ at = "page"
              /\ reader' = [at |-> at, got |-> reader.got \cup Reading(k),
                            cursor |-> reader.cursor, pages |-> reader.pages]
    BY <1>1, ReadGoesOn
  <1>3. reader'.at = at /\ reader'.got = reader.got \cup Reading(k) /\ reader'.cursor = reader.cursor
    BY <1>2
  <1>4. UNCHANGED <<status, owner, kept, decision, version, shown, steady, call>>
    BY DEF Read, requests
  <1>5. Reading(k) \subseteq Items
    BY DEF Reading
  <1>6. QueueTypes'
    BY <1>1, <1>2, <1>4, <1>5 DEF QueueTypes, Calling
  <1>7. Decided'
    BY <1>1, <1>4 DEF Decided
  <1>8. ASSUME NEW i \in steady PROVE Held(i)'
    <2>1. /\ status[i] \in {"pending", "recorded"} /\ OwnerActive(i) /\ i \in Items
          /\ Held(i) /\ Source[i] \in {"approval", "permission", "input", "preparation"}
          /\ status[i] = "recorded" => Source[i] \in {"permission", "input"}
      BY <1>1 DEF Paged, Listable, Unresolved, QueueAssumption
    <2>2. SUFFICES
              /\ Source[i] = "approval" /\ at \in Reads \ {"1"} => i \in reader.got \cup Reading(k)
              /\ Source[i] = "permission" /\ at = "3" => i \in reader.got \cup Reading(k) \/ status[i] = "recorded"
              /\ Source[i] = "permission" /\ at \in {"4", "5", "6", "page"} => i \in reader.got \cup Reading(k)
              /\ Source[i] = "preparation" /\ at \in {"5", "6", "page"} => i \in reader.got \cup Reading(k)
              /\ Source[i] = "input" /\ at = "6" => i \in reader.got \cup Reading(k) \/ status[i] = "recorded"
              /\ Source[i] = "input" /\ at = "page" => i \in reader.got \cup Reading(k)
      BY <1>3, <1>4 DEF Held
    <2>3. CASE Source[i] = "approval"
      BY <1>2, <2>1, <2>3, WhatIsRead DEF Held, Reads
    <2>4. CASE Source[i] = "permission"
      BY <1>2, <2>1, <2>4, WhatIsRead DEF Held, Reads
    <2>5. CASE Source[i] = "input"
      BY <1>2, <2>1, <2>5, WhatIsRead DEF Held, Reads
    <2>6. CASE Source[i] = "preparation"
      BY <1>2, <2>1, <2>6, WhatIsRead DEF Held, Reads
    <2> QED
      BY <2>1, <2>3, <2>4, <2>5, <2>6
  <1>9. Paged'
    <2>1. \A i \in Items : status'[i] = "recorded" => Source[i] \in {"permission", "input"}
      BY <1>1, <1>4 DEF Paged
    <2>2. steady' \subseteq Listable'
      BY <1>1, <1>4 DEF Paged, Listable, Unresolved, OwnerActive
    <2>3. reader'.at \notin {"rest", "end"}
      BY <1>3 DEF Reads
    <2>4. ASSUME NEW i \in steady PROVE Ahead(i)'
      <3>1. Ahead(i) /\ reader.at \in Reads
        BY <1>1, <1>2 DEF Paged, Reads
      <3> QED
        BY <1>3, <1>4, <3>1 DEF Ahead, After, Before
    <2> QED
      BY <1>4, <1>8, <2>1, <2>2, <2>3, <2>4 DEF Paged, NothingIsSkipped
  <1> QED
    BY <1>6, <1>7, <1>9 DEF QueueInv

\* Whoever starts to read takes note of what is open.
LEMMA FirstPageKeeps == QueueAssumption /\ QueueInv /\ FirstPage => QueueInv'
  <1> SUFFICES ASSUME QueueAssumption, QueueInv, FirstPage PROVE QueueInv'
    OBVIOUS
  <1>1. QueueTypes /\ Decided /\ Paged
    BY DEF QueueInv
  <1>2. UNCHANGED <<status, owner, kept, decision, version, call>> /\ steady' = Listable /\ shown' = {}
    BY DEF FirstPage, requests
  <1>3. reader' = [at |-> "1", got |-> {}, cursor |-> 0, pages |-> reader.pages]
    BY <1>1 DEF FirstPage, QueueTypes, Paged
  <1>4. QueueTypes'
    BY <1>1, <1>2, <1>3 DEF QueueTypes, Calling, Reads, Listable
  <1>5. Decided'
    BY <1>1, <1>2 DEF Decided
  <1>6. Listable' = Listable
    BY <1>2 DEF Listable, Unresolved, OwnerActive
  <1>7. \A i \in steady' : Held(i)' /\ Ahead(i)'
    BY <1>3 DEF Held, Ahead, After
  <1>8. Paged'
    BY <1>1, <1>2, <1>3, <1>6, <1>7 DEF Paged, NothingIsSkipped
  <1> QED
    BY <1>4, <1>5, <1>8 DEF QueueInv

\* A page shows the first of what is left; what stays open and is not on it is
\* after its last item, and on the last page nothing is.
LEMMA ShowKeeps == QueueAssumption /\ QueueInv /\ Show => QueueInv'
  <1> SUFFICES ASSUME QueueAssumption, QueueInv, Show PROVE QueueInv'
    OBVIOUS
  <1>1. QueueTypes /\ Decided /\ Paged
    BY DEF QueueInv
  <1>2. PICK got \in SUBSET Items : got = {i \in reader.got : Work[i] \in kept}
    BY <1>1 DEF QueueTypes
  <1>3. PICK rest \in SUBSET Items : rest = {i \in got : After(i, reader.cursor)}
    BY <1>2
  <1>4. PICK page : page = Page(got, reader.cursor)
    OBVIOUS
  <1>5. page \subseteq rest
    BY <1>2, <1>3, <1>4, PageIsFirst
  <1>6. rest # page => LastOf(page) \in page /\ \A i \in rest \ page : Before(LastOf(page), i)
    BY <1>2, <1>3, <1>4, PageIsFirst
  <1>7. UNCHANGED <<status, owner, kept, decision, version, steady, call>> /\ reader.at = "page"
    BY DEF Show, requests
  <1>8. shown' = shown \cup page
    BY <1>2, <1>4 DEF Show
  <1>9. \/ /\ rest # page
           /\ reader' = [at |-> "1", got |-> {}, cursor |-> LastOf(page), pages |-> reader.pages + 1]
        \/ /\ rest # page
           /\ reader' = [at |-> "left", got |-> {}, cursor |-> 0, pages |-> 1]
        \/ /\ rest = page
           /\ reader' = [at |-> "end", got |-> {}, cursor |-> 0, pages |-> 1]
    BY <1>2, <1>3, <1>4 DEF Show, AtRest
  <1>10. ASSUME NEW i \in steady PROVE i \in shown \/ i \in rest
    <2>1. Held(i) /\ Ahead(i) /\ i \in Listable
      BY <1>1 DEF Paged
    <2>2. i \in got
      BY <1>2, <1>7, <2>1 DEF Held, Listable, QueueAssumption, Reads
    <2> QED
      BY <1>3, <1>7, <2>1, <2>2 DEF Ahead, Reads
  <1>11. QueueTypes'
    <2>1. reader' \in [at : Reads \cup {"rest", "end", "left"}, got : SUBSET Items,
                       cursor : Items \cup {0}, pages : Nat]
      <3>1. reader.pages + 1 \in Nat /\ (rest # page => LastOf(page) \in Items)
        BY <1>1, <1>3, <1>5, <1>6 DEF QueueTypes
      <3> QED
        BY <1>9, <3>1 DEF Reads
    <2> QED
      BY <1>1, <1>3, <1>5, <1>7, <1>8, <2>1 DEF QueueTypes, Calling
  <1>12. Decided'
    BY <1>1, <1>7 DEF Decided
  <1>13. Paged'
    <2>1. Listable' = Listable
      BY <1>7 DEF Listable, Unresolved, OwnerActive
    <2>2. ASSUME NEW i \in steady PROVE Held(i)' /\ Ahead(i)'
      <3>1. Held(i)'
        BY <1>9 DEF Held, Reads
      <3>2. CASE reader' = [at |-> "1", got |-> {}, cursor |-> LastOf(page), pages |-> reader.pages + 1] /\ rest # page
        <4>1. i \in shown' \/ Before(LastOf(page), i)
          BY <1>6, <1>8, <1>10, <3>2
        <4>2. Ahead(i)'
          BY <3>2, <4>1 DEF Ahead, After, Before
        <4> QED
          BY <3>1, <4>2
      <3>3. CASE reader'.at \in {"left", "end"}
        BY <3>1, <3>3 DEF Ahead, Reads
      <3> QED
        BY <1>9, <3>2, <3>3
    <2>3. NothingIsSkipped'
      BY <1>7, <1>8, <1>9, <1>10 DEF NothingIsSkipped
    <2>4. reader'.at # "rest"
      BY <1>9
    <2> QED
      BY <1>1, <1>7, <2>1, <2>2, <2>3, <2>4 DEF Paged
  <1> QED
    BY <1>11, <1>12, <1>13 DEF QueueInv

\* Requests come, move on and go while the reader is at work: what stays open was
\* open before, and what was recorded is recorded still.
LEMMA RequestsMove ==
    ASSUME QueueInv, QueueTypes', UNCHANGED <<reader, shown>>, Steady,
           \A i \in Items : status[i] = "recorded" => status'[i] \in {"recorded", "resolved"},
           \A i \in Items : status'[i] = "recorded" => Source[i] \in {"permission", "input"}
    PROVE  Paged'
  <1>1. Paged
    BY DEF QueueInv
  <1>2. steady' = steady \cap Listable'
    BY DEF Steady
  <1>3. ASSUME NEW i \in steady' PROVE Held(i)' /\ Ahead(i)'
    <2>1. i \in steady /\ i \in Items /\ status'[i] \in {"pending", "recorded"} /\ Held(i) /\ Ahead(i)
      BY <1>1, <1>2 DEF Paged, Listable, Unresolved
    <2>2. status[i] = "recorded" => status'[i] = "recorded"
      BY <2>1
    <2>3. Held(i)'
      BY <2>1, <2>2 DEF Held
    <2>4. Ahead(i)'
      BY <2>1 DEF Ahead, After, Before
    <2> QED
      BY <2>3, <2>4
  <1>4. NothingIsSkipped'
    BY <1>1, <1>2 DEF Paged, NothingIsSkipped
  <1> QED
    BY <1>1, <1>2, <1>3, <1>4 DEF Paged

\* What Ask, Progress, OwnerStops and Delete may do to the requests.
Moves ==
    /\ owner' \subseteq Items /\ kept' \subseteq {Work[i] : i \in Items}
    /\ \/ status' = status
       \/ \E i \in Items :
             \/ status[i] = "absent" /\ status' = [status EXCEPT ![i] = "pending"]
             \/ /\ Source[i] \in {"permission", "input"} /\ status[i] = "pending"
                /\ status' = [status EXCEPT ![i] = "recorded"]
             \/ status[i] \in {"pending", "recorded"} /\ status' = [status EXCEPT ![i] = "resolved"]

\* A request is made, moves on, loses its owner or its work item.
LEMMA RequestKeeps ==
    ASSUME QueueAssumption, QueueInv,
           \/ \E i \in Items : Ask(i) \/ Progress(i) \/ OwnerStops(i)
           \/ \E w \in {Work[i] : i \in Items} : Delete(w)
    PROVE  QueueInv'
  <1>1. QueueTypes /\ Decided /\ Paged
    BY DEF QueueInv
  <1>2. UNCHANGED <<decision, version, reader, shown, call>> /\ Steady
    BY DEF Ask, Progress, OwnerStops, Delete
  <1>3. Moves
    <2>1. ASSUME NEW i \in Items, Ask(i) PROVE Moves
      BY <1>1, <2>1 DEF Ask, QueueTypes, Moves
    <2>2. ASSUME NEW i \in Items, Progress(i) PROVE Moves
      BY <1>1, <2>2 DEF Progress, QueueTypes, Moves
    <2>3. ASSUME NEW i \in Items, OwnerStops(i) PROVE Moves
      BY <1>1, <2>3 DEF OwnerStops, QueueTypes, Moves
    <2>4. ASSUME NEW w, Delete(w) PROVE Moves
      BY <1>1, <2>4 DEF Delete, QueueTypes, Moves
    <2> QED
      BY <2>1, <2>2, <2>3, <2>4
  <1>4. /\ status' \in [Items -> {"absent", "pending", "recorded", "resolved"}]
        /\ \A i \in Items : status[i] = "resolved" => status'[i] = "resolved"
        /\ \A i \in Items : status[i] = "recorded" => status'[i] \in {"recorded", "resolved"}
        /\ \A i \in Items : status'[i] = "recorded" => Source[i] \in {"permission", "input"}
    BY <1>1, <1>3 DEF Moves, QueueTypes, Paged
  <1>5. QueueTypes'
    BY <1>1, <1>2, <1>3, <1>4 DEF QueueTypes, Calling, Moves, Steady
  <1>6. Decided'
    BY <1>1, <1>2, <1>4 DEF Decided
  <1>7. Paged'
    BY <1>2, <1>4, <1>5, RequestsMove
  <1> QED
    BY <1>5, <1>6, <1>7 DEF QueueInv

\* A call that goes on to c without a decision, where c is as Decided says.
LEMMA CallKeeps ==
    ASSUME QueueInv, NEW u \in Users, NEW c \in Calling, call' = [call EXCEPT ![u] = c],
           UNCHANGED <<requests, reader, shown>>,
           Steady \/ steady' = steady,
           c.item \in Items, c.action # "none",
           c.at = "append" => c.version = 1,
           c.at = "done" => version[c.item] = 2 /\ decision[c.item] = c.answer
    PROVE  QueueInv'
  <1>1. QueueTypes /\ Decided /\ Paged
    BY DEF QueueInv
  <1>2. UNCHANGED <<status, owner, kept, decision, version, reader, shown>>
    BY DEF requests
  <1>3. Listable' = Listable
    BY <1>2 DEF Listable, Unresolved, OwnerActive
  <1>4. steady' = steady
    BY <1>1, <1>3 DEF Steady, Paged
  <1>5. call' \in [Users -> Calling]
    BY <1>1 DEF QueueTypes
  <1>6. QueueTypes'
    BY <1>1, <1>2, <1>4, <1>5 DEF QueueTypes
  <1>7. Decided'
    <2>1. \A v \in Users : call'[v] = IF v = u THEN c ELSE call[v]
      BY <1>1 DEF QueueTypes
    <2> QED
      BY <1>1, <1>2, <2>1 DEF Decided
  <1>8. Paged'
    <2>1. \A i \in steady : Held(i)' /\ Ahead(i)'
      BY <1>1, <1>2 DEF Paged, Held, Ahead, After, Before
    <2> QED
      BY <1>1, <1>2, <1>3, <1>4, <2>1 DEF Paged, NothingIsSkipped
  <1> QED
    BY <1>6, <1>7, <1>8 DEF QueueInv

\* A call as a record: what one of its EXCEPTs leaves alone.
LEMMA CallShape ==
    ASSUME NEW c \in Calling
    PROVE  /\ c = [at |-> c.at, item |-> c.item, action |-> c.action, version |-> c.version, answer |-> c.answer]
           /\ c.item \in Items \cup {0} /\ c.action \in {"none", "approve", "cancel"} /\ c.version \in 0 .. 2
           /\ c.answer \in [user : Users \cup {"none"}, action : {"none", "approve", "cancel"}]
  BY DEF Calling

\* A user decides: the call notes the version that was shown.
LEMMA SubmitKeeps ==
    ASSUME QueueInv, NEW u \in Users, Submit(u)
    PROVE  QueueInv'
  <1>1. QueueTypes /\ Decided /\ Paged
    BY DEF QueueInv
  <1>2. PICK i \in Items, a \in {"approve", "cancel"} :
           call' = [call EXCEPT ![u] = [NoCall EXCEPT !.at = "read", !.item = i, !.action = a, !.version = version[i]]]
    BY DEF Submit
  <1> DEFINE c == [at |-> "read", item |-> i, action |-> a, version |-> version[i], answer |-> None]
  <1>3. [NoCall EXCEPT !.at = "read", !.item = i, !.action = a, !.version = version[i]] = c
    <2> DEFINE c1 == [NoCall EXCEPT !.at = "read"]
               c2 == [c1 EXCEPT !.item = i]
               c3 == [c2 EXCEPT !.action = a]
    <2>1. c1 = [at |-> "read", item |-> 0, action |-> "none", version |-> 0, answer |-> None]
      BY DEF NoCall
    <2>2. [NoCall EXCEPT !.at = "read", !.item = i, !.action = a, !.version = version[i]] = [c3 EXCEPT !.version = version[i]]
      OBVIOUS
    <2> HIDE DEF c1
    <2>3. c2 = [at |-> "read", item |-> i, action |-> "none", version |-> 0, answer |-> None]
      BY <2>1
    <2> HIDE DEF c2
    <2>4. c3 = [at |-> "read", item |-> i, action |-> a, version |-> 0, answer |-> None]
      BY <2>3
    <2> HIDE DEF c3
    <2> QED
      BY <2>2, <2>4
  <1>4. c \in Calling
    BY <1>1 DEF Calling, None, QueueTypes
  <1>5. c.at = "read" /\ c.item \in Items /\ c.action # "none"
    OBVIOUS
  <1>6. call' = [call EXCEPT ![u] = c]
    BY <1>2, <1>3
  <1> HIDE DEF c
  <1> QED
    BY <1>4, <1>5, <1>6, CallKeeps DEF Submit

\* The approval is read: pending with its version it is at its first one; a
\* decision of this user's was taken at the second.
LEMMA ReadApprovalKeeps ==
    ASSUME QueueInv, NEW u \in Users, ReadApproval(u)
    PROVE  QueueInv'
  <1>1. QueueTypes /\ Decided /\ Paged
    BY DEF QueueInv
  <1>2. call[u] \in Calling /\ call[u].at = "read" /\ call[u].item \in Items /\ call[u].action # "none"
    BY <1>1 DEF ReadApproval, QueueTypes, Decided
  <1>3. PICK i \in Items : i = call[u].item
    BY <1>2
  <1>4. version[i] \in 1 .. 2 /\ decision[i] \in [user : Users \cup {"none"}, action : {"none", "approve", "cancel"}]
    BY <1>1 DEF QueueTypes
  <1> DEFINE to(at, answer) == [at |-> at, item |-> i, action |-> call[u].action,
                                version |-> call[u].version, answer |-> answer]
  <1>5. \A at \in {"append", "refused", "done"} :
           /\ to(at, call[u].answer) \in Calling /\ to(at, decision[i]) \in Calling
    BY <1>2, <1>3, <1>4, CallShape DEF Calling
  <1>6. UNCHANGED <<requests, reader, shown>> /\ steady' = steady
    BY DEF ReadApproval
  <1>7. CASE status[i] # "pending" /\ Mine(u, decision[i])
    <2>1. call' = [call EXCEPT ![u] = to("done", decision[i])]
      <3>1. call' = [call EXCEPT ![u] = [call[u] EXCEPT !.at = "done", !.answer = decision[i]]]
        BY <1>1, <1>3, <1>7 DEF ReadApproval, QueueTypes
      <3>2. [call[u] EXCEPT !.at = "done", !.answer = decision[i]] = to("done", decision[i])
        <4> DEFINE c1 == [call[u] EXCEPT !.at = "done"]
        <4>1. [call[u] EXCEPT !.at = "done", !.answer = decision[i]] = [c1 EXCEPT !.answer = decision[i]]
          OBVIOUS
        <4>2. c1 = [at |-> "done", item |-> i, action |-> call[u].action,
                    version |-> call[u].version, answer |-> call[u].answer]
          BY <1>2, <1>3, CallShape
        <4> HIDE DEF c1
        <4> QED
          BY <4>1, <4>2
      <3> QED
        BY <3>1, <3>2
    <2>2. decision[i] # None
      BY <1>2, <1>7 DEF Mine, None
    <2>3. version[i] = 2
      BY <1>1, <1>4, <2>2 DEF Decided
    <2> DEFINE c == to("done", decision[i])
    <2>4. c \in Calling /\ c.item = i /\ c.action # "none" /\ c.at = "done" /\ c.answer = decision[i]
      BY <1>2, <1>5
    <2> HIDE DEF c
    <2> QED
      BY <1>6, <2>1, <2>3, <2>4, CallKeeps DEF c
  <1>8. CASE ~(status[i] # "pending" /\ Mine(u, decision[i])) /\ (status[i] # "pending" \/ version[i] # call[u].version)
    <2>1. call' = [call EXCEPT ![u] = to("refused", call[u].answer)]
      <3>1. call' = [call EXCEPT ![u] = [call[u] EXCEPT !.at = "refused"]]
        BY <1>1, <1>3, <1>8 DEF ReadApproval, QueueTypes
      <3>2. [call[u] EXCEPT !.at = "refused"] = to("refused", call[u].answer)
        BY <1>2, <1>3, CallShape
      <3> QED
        BY <3>1, <3>2
    <2> DEFINE c == to("refused", call[u].answer)
    <2>2. c \in Calling /\ c.item = i /\ c.action # "none" /\ c.at = "refused"
      BY <1>2, <1>5
    <2> HIDE DEF c
    <2> QED
      BY <1>6, <2>1, <2>2, CallKeeps DEF c
  <1>9. CASE status[i] = "pending" /\ version[i] = call[u].version
    <2>1. call' = [call EXCEPT ![u] = to("append", call[u].answer)]
      <3>1. call' = [call EXCEPT ![u] = [call[u] EXCEPT !.at = "append"]]
        BY <1>1, <1>3, <1>9 DEF ReadApproval, QueueTypes
      <3>2. [call[u] EXCEPT !.at = "append"] = to("append", call[u].answer)
        BY <1>2, <1>3, CallShape
      <3> QED
        BY <3>1, <3>2
    <2>2. call[u].version = 1
      BY <1>1, <1>4, <1>9 DEF Decided
    <2> DEFINE c == to("append", call[u].answer)
    <2>3. c \in Calling /\ c.item = i /\ c.action # "none" /\ c.at = "append" /\ c.version = 1
      BY <1>2, <1>5, <2>2
    <2> HIDE DEF c
    <2> QED
      BY <1>6, <2>1, <2>3, CallKeeps DEF c
  <1> QED
    BY <1>7, <1>8, <1>9

\* The decision is appended at the first version, or refused: an approval that
\* somebody was told about is at its second one.
LEMMA AppendKeeps ==
    ASSUME QueueAssumption, QueueInv, NEW u \in Users, AppendDecision(u)
    PROVE  QueueInv'
  <1>1. QueueTypes /\ Decided /\ Paged
    BY DEF QueueInv
  <1>2. /\ call[u] \in Calling /\ call[u].at = "append" /\ call[u].item \in Items
        /\ call[u].action # "none" /\ call[u].version = 1
    BY <1>1 DEF AppendDecision, QueueTypes, Decided
  <1>3. PICK i \in Items : i = call[u].item
    BY <1>2
  <1>4. version[i] \in 1 .. 2 /\ call[u].action \in {"approve", "cancel"}
    BY <1>1, <1>2, CallShape DEF QueueTypes
  <1> DEFINE event == [user |-> u, action |-> call[u].action]
             to(at, answer) == [at |-> at, item |-> i, action |-> call[u].action,
                                version |-> call[u].version, answer |-> answer]
  <1>5. event \in [user : Users \cup {"none"}, action : {"none", "approve", "cancel"}]
    BY <1>4
  <1>6. \A at \in {"read", "refused", "done"} :
           to(at, call[u].answer) \in Calling /\ to(at, event) \in Calling
    <2> HIDE DEF event
    <2> QED
      BY <1>2, <1>3, <1>5, CallShape DEF Calling
  <1>7. UNCHANGED <<owner, kept, reader, shown>> /\ Steady
    BY DEF AppendDecision
  <1>8. CASE version[i] # 1
    <2>1. call' = [call EXCEPT ![u] = to("refused", call[u].answer)]
      <3>1. call' = [call EXCEPT ![u] = [call[u] EXCEPT !.at = "refused"]]
        BY <1>1, <1>2, <1>3, <1>8 DEF AppendDecision, QueueTypes
      <3>2. [call[u] EXCEPT !.at = "refused"] = to("refused", call[u].answer)
        BY <1>2, <1>3, CallShape
      <3> QED
        BY <3>1, <3>2
    <2>2. UNCHANGED requests
      BY <1>2, <1>3, <1>8 DEF AppendDecision, requests
    <2> DEFINE c == to("refused", call[u].answer)
    <2>3. c \in Calling /\ c.item = i /\ c.action # "none" /\ c.at = "refused"
      BY <1>2, <1>6
    <2> HIDE DEF c
    <2> QED
      BY <1>7, <2>1, <2>2, <2>3, CallKeeps DEF c
  <1>9. CASE version[i] = 1
    <2>1. /\ version' = [version EXCEPT ![i] = 2] /\ status' = [status EXCEPT ![i] = "resolved"]
          /\ decision' = [decision EXCEPT ![i] = event]
      BY <1>1, <1>2, <1>3, <1>9 DEF AppendDecision, QueueTypes
    <2>2. PICK c \in Calling :
             /\ call' = [call EXCEPT ![u] = c] /\ c.item = i /\ c.action # "none"
             /\ c.at = "read" \/ (c.at = "done" /\ c.answer = event)
      <3>1. \/ call' = [call EXCEPT ![u] = [call[u] EXCEPT !.at = "done", !.answer = event]]
            \/ call' = [call EXCEPT ![u] = [call[u] EXCEPT !.at = "read"]]
        BY <1>1, <1>2, <1>3, <1>9 DEF AppendDecision, QueueTypes
      <3>2. [call[u] EXCEPT !.at = "read"] = to("read", call[u].answer)
        BY <1>2, <1>3, CallShape
      <3>3. [call[u] EXCEPT !.at = "done", !.answer = event] = to("done", event)
        <4> DEFINE c1 == [call[u] EXCEPT !.at = "done"]
        <4>1. [call[u] EXCEPT !.at = "done", !.answer = event] = [c1 EXCEPT !.answer = event]
          OBVIOUS
        <4>2. c1 = [at |-> "done", item |-> i, action |-> call[u].action,
                    version |-> call[u].version, answer |-> call[u].answer]
          BY <1>2, <1>3, CallShape
        <4> HIDE DEF c1, event
        <4> QED
          BY <4>1, <4>2
      <3>4. to("done", event) \in Calling /\ to("read", call[u].answer) \in Calling
        BY <1>6
      <3>5. /\ to("done", event).at = "done" /\ to("done", event).item = i
            /\ to("done", event).action = call[u].action /\ to("done", event).answer = event
            /\ to("read", call[u].answer).at = "read" /\ to("read", call[u].answer).item = i
            /\ to("read", call[u].answer).action = call[u].action
        OBVIOUS
      <3> HIDE DEF event, to
      <3> QED
        BY <1>2, <3>1, <3>2, <3>3, <3>4, <3>5
    <2> HIDE DEF event, to
    <2>3. status[i] # "resolved" => status[i] \in {"absent", "pending", "recorded"}
      BY <1>1 DEF QueueTypes
    <2>4. QueueTypes'
      <3>1. version' \in [Items -> 1 .. 2]
        BY <1>1, <2>1 DEF QueueTypes
      <3>2. decision' \in [Items -> [user : Users \cup {"none"}, action : {"none", "approve", "cancel"}]]
        BY <1>1, <1>5, <2>1 DEF QueueTypes
      <3>3. status' \in [Items -> {"absent", "pending", "recorded", "resolved"}]
        BY <1>1, <2>1 DEF QueueTypes
      <3>4. call' \in [Users -> Calling]
        BY <1>1, <2>2 DEF QueueTypes
      <3> QED
        BY <1>1, <1>7, <3>1, <3>2, <3>3, <3>4 DEF QueueTypes, Steady
    <2>5. /\ \A j \in Items : status'[j] = IF j = i THEN "resolved" ELSE status[j]
          /\ \A j \in Items : version'[j] = IF j = i THEN 2 ELSE version[j]
          /\ \A j \in Items : decision'[j] = IF j = i THEN event ELSE decision[j]
          /\ \A v \in Users : call'[v] = IF v = u THEN c ELSE call[v]
      BY <1>1, <2>1, <2>2 DEF QueueTypes
    <2>6. Decided'
      <3>1. \A j \in Items : version'[j] = 2 => status'[j] = "resolved"
        BY <1>1, <2>5 DEF Decided
      <3>2. \A j \in Items : version'[j] = 1 => decision'[j] = None
        BY <1>1, <2>5 DEF Decided
      <3>3. ASSUME NEW v \in Users
            PROVE  /\ call'[v].at # "none" => call'[v].item \in Items /\ call'[v].action # "none"
                   /\ call'[v].at = "append" => call'[v].version = 1
                   /\ call'[v].at = "done" => /\ version'[call'[v].item] = 2
                                              /\ decision'[call'[v].item] = call'[v].answer
        <4>1. CASE v = u
          BY <2>2, <2>5, <4>1
        <4>2. CASE v # u
          BY <1>1, <1>9, <2>5, <4>2 DEF Decided
        <4> QED
          BY <4>1, <4>2
      <3> QED
        BY <3>1, <3>2, <3>3 DEF Decided
    <2>7. Paged'
      BY <1>1, <1>7, <2>4, <2>5, RequestsMove DEF Paged
    <2> QED
      BY <2>4, <2>6, <2>7 DEF QueueInv
  <1> QED
    BY <1>8, <1>9

\* Every step of the reader, of the requests and of the users keeps the invariant.
LEMMA QueueStep == QueueAssumption /\ QueueInv /\ [Next]_vars => QueueInv'
  <1> SUFFICES ASSUME QueueAssumption, QueueInv, [Next]_vars PROVE QueueInv'
    OBVIOUS
  <1>1. CASE FirstPage \/ Read \/ Show
    BY <1>1, FirstPageKeeps, ReadKeeps, ShowKeeps
  <1>2. CASE \/ \E i \in Items : Ask(i) \/ Progress(i) \/ OwnerStops(i)
             \/ \E w \in {Work[i] : i \in Items} : Delete(w)
    BY <1>2, RequestKeeps
  <1>3. CASE \E u \in Users : Submit(u) \/ ReadApproval(u) \/ AppendDecision(u)
    BY <1>3, SubmitKeeps, ReadApprovalKeeps, AppendKeeps
  <1>4. CASE UNCHANGED vars
    BY <1>4 DEF vars, QueueInv, QueueTypes, Decided, Paged, Held, Ahead, After, Before, Listable,
                Unresolved, OwnerActive, NothingIsSkipped
  <1> QED
    BY <1>1, <1>2, <1>3, <1>4 DEF Next

\* Nothing was asked, read or decided at first.
LEMMA QueueInit == QueueAssumption /\ Init => QueueInv
  <1> SUFFICES ASSUME QueueAssumption, Init PROVE QueueInv
    OBVIOUS
  <1>1. QueueTypes
    BY DEF Init, QueueTypes, Calling, NoCall, None, AtRest
  <1>2. Decided
    BY DEF Init, Decided, NoCall
  <1>3. Paged
    BY DEF Init, Paged, AtRest, NothingIsSkipped
  <1> QED
    BY <1>1, <1>2, <1>3 DEF QueueInv

\* The queue's requests, pages and calls stay what they are: in particular the
\* cursor always names an item, and an approval is decided once.
THEOREM TypeCorrect ==
    ASSUME QueueAssumption
    PROVE  Spec => []TypeOK
  <1>1. QueueInv => TypeOK
    BY StagesInOrder DEF QueueInv, QueueTypes, Calling, Reads, TypeOK
  <1>2. Init => QueueInv
    BY QueueInit
  <1>3. QueueInv /\ [Next]_vars => QueueInv'
    BY QueueStep
  <1> QED
    BY <1>1, <1>2, <1>3, PTL DEF Spec

\* Whoever reads to the last page has seen every request that was open the whole
\* time (attention/service.go, List), for any number of requests and any limit.
THEOREM NoneSkipped ==
    ASSUME QueueAssumption
    PROVE  Spec => []NothingIsSkipped
  <1>1. QueueInv => NothingIsSkipped
    BY DEF QueueInv, Paged
  <1>2. Init => QueueInv
    BY QueueInit
  <1>3. QueueInv /\ [Next]_vars => QueueInv'
    BY QueueStep
  <1> QED
    BY <1>1, <1>2, <1>3, PTL DEF Spec

\* A decision that is answered as taken is the recorded one, under its user's name
\* (attention/service.go, Decide), for any number of users and lost answers.
THEOREM DecisionsStand ==
    ASSUME QueueAssumption
    PROVE  Spec => []AnswerIsRecorded
  <1>1. QueueInv => AnswerIsRecorded
    BY DEF QueueInv, Decided, AnswerIsRecorded
  <1>2. Init => QueueInv
    BY QueueInit
  <1>3. QueueInv /\ [Next]_vars => QueueInv'
    BY QueueStep
  <1> QED
    BY <1>1, <1>2, <1>3, PTL DEF Spec
=============================================================================
