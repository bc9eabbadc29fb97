---------------------------- MODULE ArtifactDiff ----------------------------
(***************************************************************************)
(* The line diff of two artifact versions and its pages                    *)
(* (core/artifactdiff).  The diff is computed anew for every page: common  *)
(* first and last lines are set apart, the rest is aligned by dynamic      *)
(* programming, long unchanged runs are omitted but for their context, and *)
(* the entries are cut into pages by number and by size.  A reader follows *)
(* the cursors while the compared versions may be exchanged for others.    *)
(* What is compared is a text representation of each version, chosen by    *)
(* what the version may disclose (core/artifactops); every answer is       *)
(* recorded as an audit event.                                             *)
(***************************************************************************)
EXTENDS Integers, Sequences, FiniteSets, SequencesExt, FiniteSetsExt

CONSTANTS
    Pairs,         \* the versions compared: status, sensitivity, representations and lines; and what is asked for of each
    Others,        \* versions a reader may turn to between two pages
    Extracted,     \* the representation extraction adds to a version without one
    Bytes,         \* size of a line in an encoded page
    ContextLines,  \* lines kept at both ends of a long unchanged run
    MaxWorkUnits,  \* bound of the alignment
    HunkSize,      \* entries in a hunk
    Limits,        \* page sizes asked for
    MaxPageBytes,  \* bound of an encoded page
    MaxChanges     \* bound on exchanges of the compared versions

VARIABLES
    left, right,   \* the versions compared
    selected,      \* the representation asked for of each, or Unnamed
    limit,         \* the page size asked for
    cursor,        \* what the reader's last page gave it
    shown,         \* the entries of the pages read so far
    status,        \* "choosing", "reading", "done", "unavailable" or "conflict"
    audit,         \* the answers recorded, each with its request
    changes        \* how many of MaxChanges happened

vars == <<left, right, selected, limit, cursor, shown, status, audit, changes>>

NoCursor == [binding |-> <<>>, offset |-> 0]
Unnamed == "unnamed"
Nothing == [stored |-> FALSE, sensitivity |-> "unknown", reps |-> {}, lines |-> <<>>]

Init ==
    /\ left = Nothing /\ right = Nothing /\ selected = <<Unnamed, Unnamed>> /\ limit = 0
    /\ cursor = NoCursor
    /\ shown = <<>>
    /\ status = "choosing"
    /\ audit = {}
    /\ changes = 0

-----------------------------------------------------------------------------
(* calculate *)

shorter(a, b) == IF Len(a) < Len(b) THEN Len(a) ELSE Len(b)
prefix(a, b) == Max({n \in 0..shorter(a, b) : \A i \in 1..n : a[i] = b[i]})
suffixOverPrefix(a, b) == Max({n \in 0..shorter(a, b) : \A i \in 0..(n - 1) : a[Len(a) - i] = b[Len(b) - i]})
\* The common end is sought in what the common beginning leaves.
suffix(a, b) == Max({n \in 0..(shorter(a, b) - prefix(a, b)) : \A i \in 0..(n - 1) : a[Len(a) - i] = b[Len(b) - i]})
middle(s, p, q) == SubSeq(s, p + 1, Len(s) - q)

\* The common lines still to come from a[i] and b[j] on.
dp(a, b) ==
    LET f[i \in 1..(Len(a) + 1), j \in 1..(Len(b) + 1)] ==
            IF i > Len(a) \/ j > Len(b) THEN 0
            ELSE IF a[i] = b[j] THEN f[i + 1, j + 1] + 1
            ELSE IF f[i + 1, j] >= f[i, j + 1] THEN f[i + 1, j] ELSE f[i, j + 1]
    IN f

Op(kind, text) == [kind |-> kind, text |-> text]
unchanged(lines) == [i \in DOMAIN lines |-> Op("unchanged", lines[i])]

\* The walk through the table; a removal comes before an addition of equal worth.
walk(a, b) ==
    LET best == dp(a, b)
        f[i \in 1..(Len(a) + 1), j \in 1..(Len(b) + 1)] ==
            CASE i > Len(a) /\ j > Len(b) -> <<>>
              [] i <= Len(a) /\ j <= Len(b) /\ a[i] = b[j] -> <<Op("unchanged", a[i])>> \o f[i + 1, j + 1]
              [] i <= Len(a) /\ (j > Len(b) \/ (a[i] # b[j] /\ best[i + 1, j] >= best[i, j + 1])) -> <<Op("removed", a[i])>> \o f[i + 1, j]
              [] OTHER -> <<Op("added", b[j])>> \o f[i, j + 1]
    IN f[1, 1]

withinBudget(a, b) ==
    LET p == prefix(a, b) q == suffix(a, b) IN Len(middle(a, p, q)) * Len(middle(b, p, q)) <= MaxWorkUnits
calculate(a, b) ==
    LET p == prefix(a, b) q == suffix(a, b)
    IN unchanged(SubSeq(a, 1, p)) \o walk(middle(a, p, q), middle(b, p, q)) \o unchanged(SubSeq(a, Len(a) - q + 1, Len(a)))

-----------------------------------------------------------------------------
(* compact *)

inFrom(kind) == kind \in {"unchanged", "removed"}
inTo(kind) == kind \in {"unchanged", "added"}

\* The line numbers of the operation at position i, in each version.
fromLine(ops, i) == 1 + Cardinality({k \in 1..(i - 1) : inFrom(ops[k].kind)})
toLine(ops, i) == 1 + Cardinality({k \in 1..(i - 1) : inTo(ops[k].kind)})

\* The run of one kind around position i.
runStart(ops, i) == Min({s \in 1..i : \A k \in s..i : ops[k].kind = ops[i].kind})
runEnd(ops, i) == Max({e \in i..Len(ops) : \A k \in i..e : ops[k].kind = ops[i].kind})

hiddenTooFar(ops, i) ==
    LET s == runStart(ops, i) e == runEnd(ops, i)
    IN ops[i].kind = "unchanged" /\ e - s + 1 > ContextLines * 2 /\ i >= s + ContextLines /\ i <= e - ContextLines + 1
\* Inside a long unchanged run, away from both of its ends.
hidden(ops, i) ==
    LET s == runStart(ops, i) e == runEnd(ops, i)
    IN ops[i].kind = "unchanged" /\ e - s + 1 > ContextLines * 2 /\ i >= s + ContextLines /\ i <= e - ContextLines

Entry(kind, from, to, text, omitted) == [kind |-> kind, from |-> from, to |-> to, text |-> text, omitted |-> omitted]
lineEntry(ops, i) ==
    Entry(ops[i].kind, IF inFrom(ops[i].kind) THEN fromLine(ops, i) ELSE 0, IF inTo(ops[i].kind) THEN toLine(ops, i) ELSE 0, ops[i].text, 0)
omittedEntry(ops, i) == Entry("omitted", fromLine(ops, i), toLine(ops, i), "", runEnd(ops, i) - runStart(ops, i) + 1 - 2 * ContextLines)

\* A hidden stretch is one entry, in the place of its first line.
compact(ops) ==
    LET kept == SelectSeq([i \in DOMAIN ops |-> i], LAMBDA i : ~hidden(ops, i) \/ i = runStart(ops, i) + ContextLines)
    IN [k \in DOMAIN kept |-> IF hidden(ops, kept[k]) THEN omittedEntry(ops, kept[k]) ELSE lineEntry(ops, kept[k])]

-----------------------------------------------------------------------------
(* Pages *)

\* Entry.MarshalJSON refuses an entry that is not one of its four kinds.
encodable(e) ==
    CASE e.kind = "unchanged" -> e.from # 0 /\ e.to # 0 /\ e.omitted = 0
      [] e.kind = "removed" -> e.from # 0 /\ e.to = 0 /\ e.omitted = 0
      [] e.kind = "added" -> e.from = 0 /\ e.to # 0 /\ e.omitted = 0
      [] OTHER -> e.from # 0 /\ e.to # 0 /\ e.omitted # 0 /\ e.text = ""
\* Entry.UnmarshalJSON: only the fields of the kind are read.
decoded(e) ==
    CASE e.kind = "unchanged" -> Entry(e.kind, e.from, e.to, e.text, 0)
      [] e.kind = "removed" -> Entry(e.kind, e.from, 0, e.text, 0)
      [] e.kind = "added" -> Entry(e.kind, 0, e.to, e.text, 0)
      [] OTHER -> Entry(e.kind, e.from, e.to, "", e.omitted)

pageBytes(entries) == FoldLeft(LAMBDA sum, e : sum + (IF e.kind = "omitted" THEN 1 ELSE Bytes[e.text]), 0, entries)
hunks(entries) == [h \in 1..((Len(entries) + HunkSize - 1) \div HunkSize) |->
                      SubSeq(entries, (h - 1) * HunkSize + 1, IF h * HunkSize < Len(entries) THEN h * HunkSize ELSE Len(entries))]

\* The page ends at the limit, or earlier where its bytes do; at offset itself if not even one entry fits.
pageEnd(entries, offset, size) ==
    LET far == IF offset + size < Len(entries) THEN offset + size ELSE Len(entries)
    IN Max({e \in offset..far : e = offset \/ pageBytes(SubSeq(entries, offset + 1, e)) <= MaxPageBytes})

-----------------------------------------------------------------------------
(* artifactops: what is compared, and the record of it *)

guarded(v) == v.sensitivity \in {"sensitive", "secret"}
\* The text representations considered: the one asked for, or all.
texts(v, name) == {rep \in v.reps : rep.text /\ name \in {Unnamed, rep.name}}
\* The one text representation of the version, or why there is none to show.
selectDiffRepresentation(v, name) ==
    IF ~v.stored \/ v.sensitivity = "unknown" THEN "withheld"
    ELSE IF \E rep \in texts(v, name) : rep.disclosure = "withheld" \/ (rep.disclosure = "raw" /\ guarded(v)) THEN "withheld"
    ELSE IF Cardinality(texts(v, name)) # 1 THEN "unsupported"
    ELSE IF \E rep \in texts(v, name) : rep.size = "large" THEN "too_large" ELSE "ready"
representation(v, name) == CHOOSE rep \in texts(v, name) : TRUE
from == representation(left, selected[1])
to == representation(right, selected[2])
readDiffContent(rep) == IF rep.utf8 THEN "ready" ELSE "unsupported"

sameDisclosureAssumed == TRUE
\* Redacted lines are not compared with raw ones.
sameDisclosure == from.disclosure = to.disclosure

\* The first of the steps before the comparison that refuses it.
unavailable ==
    LET l == selectDiffRepresentation(left, selected[1])
        r == selectDiffRepresentation(right, selected[2])
    IN CASE l # "ready" -> l
         [] l = "ready" /\ r # "ready" -> r
         [] l = "ready" /\ r = "ready" /\ ~sameDisclosure -> "withheld"
         [] OTHER -> IF readDiffContent(from) # "ready" \/ readDiffContent(to) # "ready" THEN "unsupported"
                     ELSE IF ~withinBudget(left.lines, right.lines) THEN "too_large" ELSE "ready"

\* A cursor belongs to the representations and the policy it was made for.
binding == <<from, left.lines, to, right.lines, limit>>
boundAnyhow(c) == TRUE
bound(c) == c.binding = binding
decodeCursor(c, total) ==
    CASE c = NoCursor -> 0
      [] c # NoCursor /\ bound(c) /\ c.offset < total -> c.offset
      [] OTHER -> -1
encodeCursor(offset) == [binding |-> binding, offset |-> offset]

\* finishDiff: a request answered before must be answered alike, or the answer is refused.
request == <<changes, selected, limit, cursor>>
recorded(data) == \A entry \in audit : entry[1] = request => entry[2] = data
finishDiff(data, outcome, page, next) ==
    /\ IF recorded(data)
       THEN /\ audit' = audit \cup {<<request, data>>}
            /\ status' = outcome /\ shown' = page /\ cursor' = next
       ELSE status' = "conflict" /\ UNCHANGED <<audit, shown, cursor>>
    /\ UNCHANGED <<left, right, selected, limit, changes>>

\* Diff and Generate: the whole diff is computed, and one page of it is returned.
Generate ==
    /\ status = "reading" /\ unavailable = "ready"
    /\ LET entries == compact(calculate(left.lines, right.lines))
           offset == decodeCursor(cursor, Len(entries))
           end == pageEnd(entries, offset, limit)
           page == FlattenSeq(hunks(SubSeq(entries, offset + 1, end)))
           more == end < Len(entries)
       IN CASE offset = -1 ->   \* the cursor is refused and the reader starts again
                 cursor' = NoCursor /\ shown' = <<>> /\ UNCHANGED <<left, right, selected, limit, status, audit, changes>>
            [] offset >= 0 /\ (\E i \in DOMAIN page : ~encodable(page[i])) ->
                 UNCHANGED vars   \* the error is returned and nothing is recorded
            [] offset >= 0 /\ end = offset /\ offset < Len(entries) ->
                 finishDiff(<<"unavailable", "too_large">>, "unavailable", shown, cursor)
            [] OTHER ->
                 finishDiff(<<"available", Len(entries), more>>, IF more THEN "reading" ELSE "done",
                            shown \o [i \in DOMAIN page |-> decoded(page[i])], IF more THEN encodeCursor(end) ELSE NoCursor)

Unavailable ==
    /\ status = "reading" /\ unavailable # "ready"
    /\ finishDiff(<<"unavailable", unavailable>>, "unavailable", shown, cursor)

Choose(asked, size) ==
    /\ status = "choosing"
    /\ left' = asked.left /\ right' = asked.right /\ selected' = asked.selected /\ limit' = size
    /\ status' = "reading"
    /\ UNCHANGED <<cursor, shown, audit, changes>>

\* The reader goes on with its cursor after another version or page size was selected.
Reselect(v, size) ==
    /\ status = "reading" /\ cursor # NoCursor /\ changes < MaxChanges
    /\ right' = v /\ limit' = size
    /\ changes' = changes + 1
    /\ UNCHANGED <<left, selected, cursor, shown, status, audit>>

\* The text of a version is extracted after a diff of it was refused, and the reader asks again.
Extract ==
    /\ status = "unavailable" /\ right.reps = {}
    /\ right' = [right EXCEPT !.reps = {Extracted}]
    /\ status' = "reading"
    /\ UNCHANGED <<left, selected, limit, cursor, shown, audit, changes>>

Rest == status \in {"done", "unavailable", "conflict"} /\ UNCHANGED vars

Next ==
    \/ \E asked \in Pairs, size \in Limits : Choose(asked, size)
    \/ \E v \in Others, size \in Limits : Reselect(v, size)
    \/ Generate \/ Unavailable \/ Extract
    \/ Rest

-----------------------------------------------------------------------------
TypeOK ==
    /\ DOMAIN left = DOMAIN Nothing /\ DOMAIN right = DOMAIN Nothing
    /\ limit \in Limits \cup {0}
    /\ status \in {"choosing", "reading", "done", "unavailable", "conflict"}
    /\ changes \in 0..MaxChanges

\* The length of the longest common subsequence, by its definition.
picks(s) == {LET at == SelectSeq([k \in DOMAIN s |-> k], LAMBDA k : k \in I) IN [k \in DOMAIN at |-> s[at[k]]] : I \in SUBSET DOMAIN s}
longestCommon(a, b) == Max({Len(s) : s \in picks(a) \cap picks(b)})

unchangedLines(entries) == FoldLeft(LAMBDA n, e : n + (IF e.kind = "unchanged" THEN 1 ELSE e.omitted), 0, entries)

\* What the reader was shown is a diff of the two versions: in order, every line of the left one is shown as removed,
\* unchanged or omitted, every line of the right one as added, unchanged or omitted, with its number and its text, and
\* what is omitted is the same on both sides.
DiffIsExact ==
    status = "done" =>
        LET spanned(e) == IF e.kind = "omitted" THEN e.omitted ELSE 1
            before(i, side(_)) == FoldLeft(LAMBDA n, e : n + (IF side(e) THEN spanned(e) ELSE 0), 0, SubSeq(shown, 1, i - 1))
            ofLeft(e) == e.kind # "added"
            ofRight(e) == e.kind # "removed"
        IN /\ \A i \in DOMAIN shown :
                LET e == shown[i] IN
                /\ ofLeft(e) => e.from = before(i, ofLeft) + 1
                /\ ofRight(e) => e.to = before(i, ofRight) + 1
                /\ (ofLeft(e) /\ e.kind # "omitted") => e.text = left.lines[e.from]
                /\ (ofRight(e) /\ e.kind # "omitted") => e.text = right.lines[e.to]
                /\ e.kind = "omitted" => \A k \in 0..(e.omitted - 1) : left.lines[e.from + k] = right.lines[e.to + k]
           /\ before(Len(shown) + 1, ofLeft) = Len(left.lines)
           /\ before(Len(shown) + 1, ofRight) = Len(right.lines)

\* No diff of the two versions keeps more lines: setting the common ends apart loses nothing of the longest alignment.
DiffIsMinimal == status = "done" => unchangedLines(shown) = longestCommon(left.lines, right.lines)

\* The pages a reader collected are exactly the diff of one pair of versions under one page size, though the selection
\* changed between two of them.
PagesAreOfOneDiff == status = "done" => shown = compact(calculate(left.lines, right.lines))

\* Lines of a sensitive version are only ever shown redacted, and then beside redacted lines only: a raw line next to
\* them would tell what was redacted.  This holds of a representation the reader names as well.
GuardedIsRedacted ==
    (status = "done" /\ shown # <<>> /\ (guarded(left) \/ guarded(right))) => from.disclosure = "redacted" /\ to.disclosure = "redacted"
=============================================================================
