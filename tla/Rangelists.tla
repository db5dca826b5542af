------------------------------- MODULE Rangelists -------------------------------
(***************************************************************************)
(* Mergeinfo: which revisions of a source have been merged (mergeinfo.c).  *)
(*                                                                         *)
(* A rangelist is a sequence of ranges [start, end, inh] of the revisions  *)
(* start + 1 .. end; inh says whether children inherit the range.  The     *)
(* module follows the rangelist of one source path through a sequence of   *)
(* calls, the result of each being the argument of the next, as the client *)
(* does when it merges, updates and commits svn:mergeinfo.                 *)
(*                                                                         *)
(* What a list means is a function from revisions to 0 (not merged), 1     *)
(* (merged, not inheritable) and 2 (merged, inheritable).                  *)
(*                                                                         *)
(* A loop of the code is a recursive function: turn[k] is the state of its *)
(* variables after k turns, and stays as it is when the loop is over.      *)
(***************************************************************************)
EXTENDS Integers, Sequences

CONSTANTS
  N,        \* bound: the youngest revision
  Lines,    \* the lines of svn:mergeinfo that are read, as qsort leaves their ranges
  Inputs,   \* the lists that calls are given
  Short     \* those that a three-way merge is given

VARIABLES
  list,     \* the rangelist
  call      \* the call that gave it

vars == <<list, call>>

Span(s, e, inh)  == [start |-> s, end |-> e, inh |-> inh]
Ranges           == [start : 0..N, end : 0..N, inh : BOOLEAN]
Spans            == {r \in Ranges : r.start < r.end}
Covers(r, v)     == r.start < v /\ v <= r.end
OneOf(seq)       == {seq[i] : i \in DOMAIN seq}
Last(l)          == l[Len(l)]
SetAt(l, i, r)   == [l EXCEPT ![i] = r]
SetLast(l, r)    == SetAt(l, Len(l), r)
InsertAt(l, i, r) == SubSeq(l, 1, i - 1) \o <<r>> \o SubSeq(l, i, Len(l))

\* svn_sort_compare_ranges: r comes before q.
Before(r, q) == r.start < q.start \/ (r.start = q.start /\ r.end < q.end)

\* What svn_mergeinfo.h calls a rangelist, and the shortest one.
Valid(l)    == \A i \in 1..Len(l) : l[i].start < l[i].end /\ (i < Len(l) => l[i].end <= l[i + 1].start)
Shortest(l) == Valid(l) /\ \A i \in 1..(Len(l) - 1) : l[i].end = l[i + 1].start => l[i].inh # l[i + 1].inh

Meaning(l) ==
  [v \in 1..N |-> LET on == {r \in OneOf(l) : Covers(r, v)}
                  IN  IF on = {} THEN 0 ELSE IF \E r \in on : r.inh THEN 2 ELSE 1]

ASSUME RangelistsAssumption ==
  /\ N \in Nat \ {0}
  /\ \A l \in Lines : l \in Seq(Spans) /\ l # << >> /\ \A i, j \in 1..Len(l) : i < j => ~Before(l[j], l[i])
  /\ \A l \in Inputs \cup Short : l \in Seq(Spans) /\ Shortest(l)

--------------------------------------------------------------------------------

\* combine_ranges
Combines(r, q, consider) == r.start <= q.end /\ q.start <= r.end /\ (consider => r.inh = q.inh)
Combined(r, q) ==
  Span(IF r.start < q.start THEN r.start ELSE q.start, IF r.end > q.end THEN r.end ELSE q.end, r.inh \/ q.inh)

\* combine_with_lastrange.  With inheritance a new range that begins before the end of the last one
\* but is not combined with it would be split, or sorted in; the callers never give it one, which
\* TypeOK shows.
Overlap == Span(N + 1, N + 1, TRUE)
WithLast(out, r, consider) ==
  IF out = << >> THEN <<r>>
  ELSE IF Combines(Last(out), r, consider) THEN SetLast(out, Combined(Last(out), r))
  ELSE IF consider /\ r.start < Last(out).end THEN Append(out, Overlap)
  ELSE Append(out, r)

\* range_contains and range_intersect
Same(r, q, consider)       == consider => r.inh = q.inh
RangeContains(r, q, consider)   == r.start <= q.start /\ q.end <= r.end /\ Same(r, q, consider)
RangeIntersect_Adjoining(r, q, consider) == r.start <= q.end /\ q.start <= r.end /\ Same(r, q, consider)
RangeIntersect_AnyInh(r, q, consider) == r.start < q.end /\ q.start < r.end
RangeIntersect(r, q, consider) == r.start < q.end /\ q.start < r.end /\ Same(r, q, consider)

\* The range of the larger of two starts, the smaller of two ends.
Both(r, q) ==
  Span(IF r.start > q.start THEN r.start ELSE q.start, IF r.end < q.end THEN r.end ELSE q.end, r.inh \/ q.inh)

\* One turn of the loop of rangelist_intersect_or_remove: s.one and s.two are what is left of the two
\* lists, the first element of s.two perhaps cut.
IntersectStep(s, remove, consider) ==
  LET a    == Head(s.one)
      b    == Head(s.two)
      keep == IF remove THEN s.out ELSE WithLast(s.out, Both(a, b), consider)
      left == IF remove /\ b.start < a.start THEN WithLast(s.out, Span(b.start, a.start, b.inh), consider) ELSE keep
  IN  IF RangeContains(a, b, consider)
      THEN [one |-> IF a.start = b.start /\ a.end = b.end THEN Tail(s.one) ELSE s.one,
            two |-> Tail(s.two), out |-> keep]
      ELSE IF RangeIntersect(a, b, consider)
      THEN [one |-> s.one,
            two |-> IF b.end > a.end THEN <<Span(a.end, b.end, b.inh)>> \o Tail(s.two) ELSE Tail(s.two), out |-> left]
      ELSE IF Before(a, b) THEN [one |-> Tail(s.one), two |-> s.two, out |-> s.out]
      ELSE [one |-> s.one, two |-> Tail(s.two),
            out |-> IF ~remove THEN s.out
                    ELSE IF s.out # << >> /\ Combines(Last(s.out), b, consider)
                         THEN SetLast(s.out, Combined(Last(s.out), b)) ELSE Append(s.out, b)]

\* When the first list is used up, what is left of the second is kept by a removal.
IntersectTurn(s, remove, consider) ==
  IF s.two = << >> THEN s
  ELSE IF s.one # << >> THEN IntersectStep(s, remove, consider)
  ELSE [one |-> << >>, two |-> Tail(s.two),
        out |-> IF remove THEN WithLast(s.out, Head(s.two), consider) ELSE s.out]

\* Every turn drops an element, or cuts one of the second list, after which one of the first is dropped.
IntersectOrRemove(one, two, remove, consider) ==
  LET n == 2 * Len(one) + Len(two)
      turn[k \in 0..n] == IF k = 0 THEN [one |-> one, two |-> two, out |-> << >>]
                          ELSE IntersectTurn(turn[k - 1], remove, consider)
  IN  turn[n].out

Intersect(one, two, consider)       == IntersectOrRemove(one, two, FALSE, consider)
Erase(eraser, whiteboard, consider) == IntersectOrRemove(eraser, whiteboard, TRUE, consider)

--------------------------------------------------------------------------------

\* svn_sort__array_delete
Without(l, from, n) ==
  IF from + n > Len(l) + 1 THEN l
  ELSE SubSeq(l, 1, from - 1) \o SubSeq(l, from + n, Len(l))

\* adjust_remaining_ranges: range i has grown at its end.  Those it wholly covers go, and the next
\* one is joined, cut or left.  One turn is one activation; what it deletes (s.dels, the innermost
\* first) is deleted after those within it have returned.
Absorbs_AnyInh(r, q) == r.end > q.start /\ r.end > q.end
Absorbs(r, q) == r.end > q.start /\ r.end > q.end /\ (r.inh \/ ~q.inh)

FirstKept(l, i) ==
  CHOOSE k \in (i + 1)..(Len(l) + 1) : /\ k = Len(l) + 1 \/ ~Absorbs(l[i], l[k])
                                       /\ \A j \in (i + 1)..(k - 1) : Absorbs(l[i], l[j])

Activation(s, k) ==
  LET l    == s.list
      i    == s.i
      m    == l[i]
      q    == l[k]
      gone == k - i - 1
      upTo(rev) == SetAt(l, i, [m EXCEPT !.end = rev])
      \* the list x, the index moved by d, n more elements to delete
      res(x, d, n) == [list |-> x, i |-> i + d, dels |-> <<[from |-> i + 1, n |-> gone + n]>> \o s.dels, more |-> FALSE]
  IN  IF k > Len(l) THEN res(l, 0, 0)
      ELSE CASE m.end < q.start                                  -> res(l, 0, 0)
             [] m.end = q.start /\ m.inh = q.inh                 -> res(upTo(q.end), 0, 1)
             [] m.end = q.start /\ m.inh # q.inh                 -> res(l, 1, 0)
             [] m.end > q.start /\ m.end > q.end                 ->
                  [res(InsertAt(upTo(q.start), i + 2, Span(q.end, m.end, FALSE)), 2, 0) EXCEPT !.more = TRUE]
             [] m.end > q.start /\ m.end = q.end /\ (m.inh \/ ~q.inh) -> res(l, 0, 1)
             [] m.end > q.start /\ m.end = q.end /\ ~m.inh /\ q.inh   -> res(upTo(q.start), 1, 0)
             [] m.end > q.start /\ m.end < q.end /\ m.inh = q.inh     -> res(upTo(q.end), 0, 1)
             [] m.end > q.start /\ m.end < q.end /\ m.inh /\ ~q.inh   -> res(SetAt(l, k, [q EXCEPT !.start = m.end]), 1, 0)
             [] m.end > q.start /\ m.end < q.end /\ ~m.inh /\ q.inh   -> res(upTo(q.start), 1, 0)

AdjustTurn(s) == IF s.more /\ s.i <= Len(s.list) THEN Activation(s, FirstKept(s.list, s.i)) ELSE s

AllDeleted(s) ==
  LET deleted[d \in 0..Len(s.dels)] == IF d = 0 THEN s.list ELSE Without(deleted[d - 1], s.dels[d].from, s.dels[d].n)
  IN  [s EXCEPT !.list = deleted[Len(s.dels)]]

\* Every activation has one element less after its own.
AdjustRemaining(l, i) ==
  LET turn[k \in 0..Len(l)] == IF k = 0 THEN [list |-> l, i |-> i, dels |-> << >>, more |-> TRUE]
                               ELSE AdjustTurn(turn[k - 1])
  IN  AllDeleted(turn[Len(l)])

\* One turn of the loop of svn_rangelist_merge2: s.i is the index into s.list, s.changes what is left
\* of the changes, the first one perhaps cut.
Skip(s)       == [s EXCEPT !.i = s.i + 1]
Next1(s)      == [s EXCEPT !.changes = Tail(s.changes)]
Put(s, r)     == [s EXCEPT !.list = InsertAt(s.list, s.i, r), !.i = s.i + 1]
Become(s, r)  == [s EXCEPT !.list = SetAt(s.list, s.i, r)]
CutTo(s, rev) == [s EXCEPT !.changes = SetAt(s.changes, 1, [Head(s.changes) EXCEPT !.start = rev])]
Moved(s, a)   == [s EXCEPT !.list = a.list, !.i = a.i]
Adjusted(s)   == Moved(s, AdjustRemaining(s.list, s.i))

\* The change is younger than the range.
MergeYounger(s, r, c) ==
  IF r.end < c.start \/ (r.end = c.start /\ r.inh # c.inh) THEN Skip(s)
  ELSE IF r.end = c.start THEN Next1(Adjusted(Become(s, [r EXCEPT !.end = c.end])))
  ELSE IF r.inh \/ ~c.inh THEN IF r.end >= c.end THEN Next1(s) ELSE CutTo(s, r.end)
  ELSE IF r.start < c.start
       THEN Put(Become(s, [r EXCEPT !.start = c.start]), [r EXCEPT !.end = c.start])
       ELSE CutTo(Become(s, [r EXCEPT !.inh = TRUE]), r.end)

\* The change is older than the range.
MergeOlder(s, r, c) ==
  IF c.end < r.start THEN Next1(Put(s, c))
  ELSE IF c.end = r.start
       THEN Next1(IF r.inh = c.inh THEN Become(s, [r EXCEPT !.start = c.start])
                  ELSE [s EXCEPT !.list = InsertAt(s.list, s.i, c)])
  ELSE IF r.inh = c.inh
       THEN Next1(IF r.end < c.end THEN Adjusted(Become(s, c)) ELSE Become(s, [r EXCEPT !.start = c.start]))
  ELSE IF r.inh
       THEN IF c.start < r.start THEN CutTo(Put(s, [c EXCEPT !.end = r.start]), r.start) ELSE Next1(s)
  ELSE IF c.start = r.start THEN Next1(Put(Become(s, [r EXCEPT !.start = c.end]), c))
  ELSE IF c.end > r.end THEN CutTo(Become(s, [c EXCEPT !.end = r.end]), r.end)
  ELSE IF c.end = r.end THEN Next1(Become(s, c))
  ELSE Next1(Skip([s EXCEPT !.list = InsertAt(SetAt(s.list, s.i, c), s.i + 1, [r EXCEPT !.start = c.end])]))

MergeStep(s) ==
  LET r == s.list[s.i]
      c == Head(s.changes)
  IN  IF r.start = c.start /\ r.end = c.end THEN Next1(Skip(Become(s, [r EXCEPT !.inh = r.inh \/ c.inh])))
      ELSE IF Before(r, c) THEN MergeYounger(s, r, c) ELSE MergeOlder(s, r, c)

MergeTurn(s) == IF s.i > Len(s.list) \/ s.changes = << >> THEN s ELSE MergeStep(s)

\* What is left of the changes is appended.
Rest(s) == s.list \o s.changes

\* svn_rangelist_merge2.  A turn moves the start of the first change, or goes on to the next element,
\* or cuts the one at hand in two where the change starts.
Merge(l, changes) ==
  LET n == 4 * N + 2 * Len(l) + 1
      turn[k \in 0..n] == IF k = 0 THEN [list |-> l, i |-> 1, changes |-> changes] ELSE MergeTurn(turn[k - 1])
  IN  Rest(turn[n])

\* svn_rangelist_diff
Deleted(from, to) == Erase(to, from, TRUE)
Added(from, to)   == Erase(from, to, TRUE)

\* combine_forked_mergeinfo_props: what both sides deleted and added, applied to the base.
ForkDeleted_Ours(from, working, to) == Deleted(from, working)
ForkDeleted(from, working, to) == Merge(Deleted(from, working), Deleted(from, to))
ForkAdded(from, working, to)   == Merge(from, Merge(Added(from, working), Added(from, to)))
Fork(from, working, to)        == Erase(ForkDeleted(from, working, to), ForkAdded(from, working, to), TRUE)

\* parse_revision_line, from the ranges of a line: sorted, those that adjoin or overlap combined, and
\* an error when two overlap whose inheritability differs.
Clash_Adjoining(out, r) == out # << >> /\ r.start <= Last(out).end /\ r.inh # Last(out).inh
Clash(out, r) == out # << >> /\ r.start < Last(out).end /\ r.inh # Last(out).inh
ParseStep(p, r) ==
  IF ~p.ok \/ Clash(p.list, r) THEN [list |-> p.list, ok |-> FALSE]
  ELSE IF p.list # << >> /\ Combines(Last(p.list), r, TRUE)
  THEN [list |-> SetLast(p.list, Combined(Last(p.list), r)), ok |-> TRUE]
  ELSE [list |-> Append(p.list, r), ok |-> TRUE]
ParseLine(line) ==
  LET turn[k \in 0..Len(line)] == IF k = 0 THEN [list |-> << >>, ok |-> TRUE] ELSE ParseStep(turn[k - 1], line[k])
  IN  turn[Len(line)]

--------------------------------------------------------------------------------

\* A call: the other list or lists, whether inheritance counts, and the list before.
Call(op, args, consider) == [op |-> op, args |-> args, consider |-> consider, was |-> list]
None                     == [op |-> "none", args |-> << >>, consider |-> FALSE, was |-> << >>]

Init == list = << >> /\ call = None

\* A caller may hand on a list that svn_mergeinfo.h allows; another one fails an assertion of
\* range_contains or range_intersect.
Idle == call = None /\ Valid(list)

\* A property is read.
Parse(line) ==
  LET p == ParseLine(line)
  IN  /\ Idle /\ list = << >>
      /\ list' = IF p.ok THEN p.list ELSE list
      /\ call' = Call(IF p.ok THEN "parse" ELSE "refused", <<line>>, TRUE)

MergeIn(changes) ==
  /\ Idle
  /\ list' = Merge(list, changes)
  /\ call' = Call("merge", <<changes>>, TRUE)

IntersectWith(one, consider) ==
  /\ Idle
  /\ list' = Intersect(one, list, consider)
  /\ call' = Call("intersect", <<one>>, consider)

EraseFrom(eraser, consider) ==
  /\ Idle
  /\ list' = Erase(eraser, list, consider)
  /\ call' = Call("erase", <<eraser>>, consider)

\* The working value meets a change from one value to another: apply_single_mergeinfo_prop_change, in
\* the two branches that do not just take the new value.  Which branch is taken depends on the base
\* value, which is left out: a working value that is the new one already is also merged here.
ForkTo(from, to) ==
  /\ Idle /\ from # to
  /\ Valid(ForkDeleted(from, list, to)) /\ Valid(ForkAdded(from, list, to))
  /\ list' = Fork(from, list, to)
  /\ call' = Call("fork", <<from, to>>, TRUE)

\* The caller goes on with the result, or drops it.
Return ==
  /\ call # None
  /\ list' \in {l \in {list, << >>} : Valid(l)}
  /\ call' = None

Next ==
  \/ \E line \in Lines : Parse(line)
  \/ \E l \in Inputs : MergeIn(l) \/ \E consider \in BOOLEAN : IntersectWith(l, consider) \/ EraseFrom(l, consider)
  \/ \E from, to \in Short : ForkTo(from, to)
  \/ Return

Spec == Init /\ [][Next]_vars

--------------------------------------------------------------------------------
(* Properties *)

Arg        == call.args[1]
Was        == Meaning(call.was)
More(m, n) == [v \in 1..N |-> IF m[v] > n[v] THEN m[v] ELSE n[v]]
Uniform(S) == \A l, k \in S : \A r \in OneOf(l), q \in OneOf(k) : r.inh = q.inh

\* The ranges of a list stay within the revisions there are: combine_with_lastrange is never given a
\* range that it would have to split, so its 150 lines for that case are not reached from here.
TypeOK ==
  /\ \A r \in OneOf(list) : r \in Ranges
  /\ call.op \in {"none", "parse", "refused", "merge", "intersect", "erase", "fork"}

\* Parsing (parse_revision_line) keeps every revision of the line with its inheritability, in the
\* shortest list, and refuses exactly the lines in which two ranges of different inheritability
\* overlap, although each range is only compared with the one before it.
ParseExact ==
  LET clash == \E r, q \in OneOf(Arg) : r.inh # q.inh /\ r.start < q.end /\ q.start < r.end
  IN  /\ call.op = "refused" => clash
      /\ call.op = "parse" => ~clash /\ Shortest(list) /\ Meaning(list) = Meaning(Arg)

\* No range of cs that children do not inherit reaches from such a range of l beyond the next one,
\* which they do inherit: it never has to be split there.
Calm(l, cs) ==
  \A c \in OneOf(cs), k \in 1..(Len(l) - 1) :
    ~c.inh /\ ~l[k].inh /\ l[k + 1].inh => c.start >= l[k].end \/ c.end <= l[k + 1].end

\* Merging (svn_rangelist_merge2) neither loses nor invents a revision, and a revision is inheritable
\* afterwards exactly if it was in one of the two lists, however the ranges are split and absorbed.
\* What adjust_remaining_ranges does when a range that has grown is split around an inheritable one
\* is left aside: revisions can be lost then, though they are not always ({2*,4} and {1-5*} are merged
\* without loss).  Where neither list mixes inheritable and other ranges, the result is the shortest list.
MergeExact ==
  call.op = "merge" =>
    /\ Calm(call.was, Arg) => Meaning(list) = More(Was, Meaning(Arg))
    /\ Shortest(call.was) /\ Uniform({call.was}) /\ Uniform({Arg}) => Shortest(list)

\* Erasing and intersecting (rangelist_intersect_or_remove) with the same list divide the whiteboard:
\* no revision is in both results or in neither.  With consider_inheritance a revision keeps its own
\* inheritability and is only erased by an equal one, but not by every one: {1-3} erases r1 from
\* {1,2*,3} and leaves r3.  Without it, it is never weaker than it was.
SplitExact ==
  call.op = "erase" =>
    LET left == Meaning(list)
        kept == Meaning(Intersect(Arg, call.was, call.consider))
        by   == Meaning(Arg)
    IN  \A v \in 1..N :
          IF call.consider THEN /\ left[v] = 0 \/ kept[v] = 0
                                /\ left[v] + kept[v] = Was[v]
                                /\ left[v] # Was[v] => by[v] = Was[v]
          ELSE /\ (left[v] > 0) = (Was[v] > 0 /\ by[v] = 0)
               /\ (kept[v] > 0) = (Was[v] > 0 /\ by[v] > 0)
               /\ left[v] > 0 => left[v] >= Was[v]
               /\ kept[v] > 0 => kept[v] >= Was[v] /\ kept[v] >= by[v]

\* Erasing and intersecting give the shortest list (rangelist_intersect_or_remove appends with
\* combine_with_lastrange), as svn_mergeinfo.h asks of merging, even of a list that is not; and where no list mixes inheritable and other ranges, intersecting with
\* inheritance finds every revision the two have in common.
ResultsShortest ==
  /\ TypeOK
  /\ call.op \in {"erase", "intersect"} => Shortest(list)
  /\ call.op = "intersect" /\ call.consider /\ Uniform({call.was}) /\ Uniform({Arg})
       => Meaning(list) = [v \in 1..N |-> IF Was[v] = Meaning(Arg)[v] THEN Was[v] ELSE 0]

\* What a three-way merge of one revision gives, where the two sides do not disagree.
Agreed(f, w, t) == f = w \/ f = t \/ w = t
Forked(f, w, t) == IF w = f THEN t ELSE w
ForkRight ==
  LET f == Meaning(Arg)
      t == Meaning(call.args[2])
  IN  \A v \in 1..N : Agreed(f[v], Was[v], t[v]) => Meaning(list)[v] = Forked(f[v], Was[v], t[v])

\* The three-way merge of an update (combine_forked_mergeinfo_props) keeps what one side or both
\* changed, and what neither did, while all three values have the same inheritability, so that no
\* revision is both deleted and added: see ThreeWay for the rest.
ForkPlain ==
  call.op = "fork" /\ Uniform({call.was, Arg, call.args[2]}) => ForkRight

\* The same of any three values: props.c calls it a three-way merge.
ThreeWay == call.op = "fork" => ForkRight
================================================================================
