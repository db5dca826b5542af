---------------------------- MODULE RangelistsProofs ---------------------------
(***************************************************************************)
(* Proofs about Rangelists: what parsing, merging, erasing, intersecting    *)
(* and the three-way merge make of the revisions in a list, for lists of    *)
(* any length over any number of revisions.                                 *)
(***************************************************************************)
EXTENDS Rangelists, SequenceTheorems, WellFoundedInduction, TLAPS

--------------------------------------------------------------------------------
(* Ranges, and the revisions they cover.                                    *)

\* Some range of the list covers v, and has the inheritability b.
Has(l, v, b) == \E i \in 1..Len(l) : Covers(l[i], v) /\ l[i].inh = b
On(l, v)     == \E i \in 1..Len(l) : Covers(l[i], v)

\* A revision is covered by a range that children inherit, or by one that they do not.
Inh(l, v)  == Has(l, v, TRUE)
Bare(l, v) == Has(l, v, FALSE)

\* The ranges of a list that is valid from its i-th element on.
ValidFrom(l, i) ==
  \A j \in i..Len(l) : l[j].start < l[j].end /\ (j < Len(l) => l[j].end <= l[j + 1].start)

\* There is a youngest revision.
LEMMA NType == N \in Nat \ {0}
  BY RangelistsAssumption

USE NType

\* Induction over the naturals, for sets instead of predicates.
LEMMA SetInduction ==
  ASSUME NEW B, 0 \in B, \A n \in Nat : n \in B => n + 1 \in B
  PROVE  \A n \in Nat : n \in B
<1>. DEFINE T == {n \in Nat : n \notin B}
<1>. SUFFICES ASSUME T # {} PROVE FALSE
  OBVIOUS
<1>1. PICK R : R = {ss \in Nat \X Nat : ss[1] < ss[2]}
  OBVIOUS
<1>2. IsWellFoundedOn(R, Nat)
  BY <1>1, NatLessThanWellFounded DEF OpToRel
<1>3. \A x, y \in Nat : x < y => <<x, y>> \in R
  BY <1>1
<1>4. PICK n \in T : \A m \in T : ~(<<m, n>> \in R)
  <2>. HIDE DEF T
  <2>1. T \subseteq Nat
    BY DEF T
  <2>. QED  BY <1>2, <2>1, WFMin
<1>5. n \in Nat /\ n # 0 /\ n - 1 \in Nat /\ n - 1 < n
  BY <1>4
<1>6. n - 1 \notin T
  BY <1>3, <1>4, <1>5
<1>. QED  BY <1>4, <1>5, <1>6

\* What makes a range.
LEMMA RangeFacts ==
  ASSUME NEW r \in Ranges
  PROVE  /\ r.start \in 0..N /\ r.end \in 0..N /\ r.inh \in BOOLEAN
         /\ r.start \in Int /\ r.end \in Int
         /\ r.start < r.end <=> r \in Spans
<1>1. r.start \in 0..N /\ r.end \in 0..N /\ r.inh \in BOOLEAN
  BY DEF Ranges
<1>2. r \in Spans <=> r.start < r.end
  BY DEF Spans
<1>. QED  BY <1>1, <1>2

\* A range that is put together.
LEMMA SpanFacts ==
  ASSUME NEW s \in 0..N, NEW e \in 0..N, NEW b \in BOOLEAN
  PROVE  /\ Span(s, e, b) \in Ranges
         /\ Span(s, e, b).start = s /\ Span(s, e, b).end = e /\ Span(s, e, b).inh = b
  BY DEF Ranges, Span

\* The ranges of a list.
LEMMA Elements ==
  ASSUME NEW l \in Seq(Ranges), NEW i \in 1..Len(l)
  PROVE  /\ l[i] \in Ranges /\ l[i].start \in 0..N /\ l[i].end \in 0..N /\ l[i].inh \in BOOLEAN
         /\ l[i].start \in Int /\ l[i].end \in Int
<1>1. l[i] \in Ranges
  BY ElementOfSeq
<1>. QED  BY <1>1, RangeFacts

\* Lists of ranges that are not empty.
LEMMA SpansRanges ==
  /\ Seq(Spans) \subseteq Seq(Ranges)
  /\ \A l \in Seq(Ranges) : l \in Seq(Spans) <=> \A i \in 1..Len(l) : l[i].start < l[i].end
<1>1. Spans \subseteq Ranges
  BY DEF Spans
<1>2. Seq(Spans) \subseteq Seq(Ranges)
  BY <1>1, SeqMonotonic
<1>3. ASSUME NEW l \in Seq(Ranges), l \in Seq(Spans), NEW i \in 1..Len(l)  PROVE l[i].start < l[i].end
  <2>1. l[i] \in Spans
    BY <1>3, ElementOfSeq
  <2>. QED  BY <2>1, <1>1, RangeFacts
<1>4. ASSUME NEW l \in Seq(Ranges), \A i \in 1..Len(l) : l[i].start < l[i].end  PROVE l \in Seq(Spans)
  <2>1. \A i \in 1..Len(l) : l[i] \in Spans
    BY <1>4, Elements, RangeFacts
  <2>2. Len(l) \in Nat /\ l \in [1..Len(l) -> Ranges]
    BY LenProperties
  <2>3. l \in [1..Len(l) -> Spans]
    BY <2>1, <2>2
  <2>. QED  BY <2>2, <2>3, SeqDef
<1>. QED  BY <1>2, <1>3, <1>4

\* Meaning, by the ranges that cover a revision.
LEMMA MeaningAt ==
  ASSUME NEW l \in Seq(Ranges), NEW v \in 1..N
  PROVE  Meaning(l)[v] = IF Has(l, v, TRUE) THEN 2 ELSE IF On(l, v) THEN 1 ELSE 0
<1>. DEFINE on == {r \in OneOf(l) : Covers(r, v)}
<1>0. DOMAIN l = 1..Len(l)
  OBVIOUS
<1>1. on = {} <=> ~On(l, v)
  BY <1>0 DEF OneOf, On
<1>2. (\E r \in on : r.inh) <=> Has(l, v, TRUE)
  <2>1. \A i \in 1..Len(l) : l[i].inh \in BOOLEAN
    BY Elements
  <2>. QED  BY <1>0, <2>1 DEF OneOf, Has
<1>3. Has(l, v, TRUE) => On(l, v)
  BY DEF Has, On
<1>4. Meaning(l)[v] = IF on = {} THEN 0 ELSE IF \E r \in on : r.inh THEN 2 ELSE 1
  BY DEF Meaning
<1>. HIDE DEF on
<1>. QED  BY <1>1, <1>2, <1>3, <1>4

\* Lists that cover the same revisions in the same way mean the same.
LEMMA SameMeaning ==
  ASSUME NEW l \in Seq(Ranges), NEW k \in Seq(Ranges),
         \A v \in 1..N : (On(l, v) <=> On(k, v)) /\ (Has(l, v, TRUE) <=> Has(k, v, TRUE))
  PROVE  Meaning(l) = Meaning(k)
<1>1. ASSUME NEW v \in 1..N  PROVE Meaning(l)[v] = Meaning(k)[v]
  BY MeaningAt
<1>. QED  BY <1>1 DEF Meaning

\* A range has one inheritability or the other.
LEMMA OnHas ==
  ASSUME NEW l \in Seq(Ranges), NEW v
  PROVE  On(l, v) <=> Has(l, v, TRUE) \/ Has(l, v, FALSE)
<1>1. \A i \in 1..Len(l) : l[i].inh = TRUE \/ l[i].inh = FALSE
  BY Elements
<1>. QED  BY <1>1 DEF On, Has

\* A range covers a revision exactly if it is not empty.
LEMMA CoversFirst ==
  ASSUME NEW r \in Spans
  PROVE  r.start + 1 \in 1..N /\ Covers(r, r.start + 1)
<1>1. r \in Ranges
  BY DEF Spans
<1>. QED  BY <1>1, RangeFacts DEF Covers

\* The ranges of a valid list are in order.
LEMMA ValidOrder ==
  ASSUME NEW l \in Seq(Ranges), Valid(l), NEW i \in 1..Len(l), NEW j \in 1..Len(l), i < j
  PROVE  l[i].end <= l[j].start
<1>n. PICK n \in Nat : n = Len(l)
  OBVIOUS
<1>t. \A k \in 1..n : l[k].start \in Nat /\ l[k].end \in Nat
  BY <1>n, Elements
<1>v. \A k \in 1..n : l[k].start < l[k].end /\ (k < n => l[k].end <= l[k + 1].start)
  BY <1>n DEF Valid
<1>. DEFINE B == {d \in Nat : i + 1 + d <= n => l[i].end <= l[i + 1 + d].start}
<1>1. 0 \in B
  BY <1>n, <1>v
<1>2. ASSUME NEW d \in Nat, d \in B  PROVE d + 1 \in B
  <2>. SUFFICES ASSUME i + 1 + (d + 1) <= n  PROVE l[i].end <= l[i + 1 + (d + 1)].start
    OBVIOUS
  <2>1. l[i].end <= l[i + 1 + d].start
    BY <1>2
  <2>. HIDE DEF B
  <2>2. PICK x \in 1..n : x = i + 1 + d /\ x < n
    BY <1>n
  <2>3. l[x].start < l[x].end /\ l[x].end <= l[x + 1].start
    BY <1>v, <2>2
  <2>4. x + 1 \in 1..n /\ i \in 1..n /\ i + 1 + (d + 1) = x + 1
    BY <1>n, <2>2
  <2>5. l[i].end <= l[x].start
    BY <2>1, <2>2
  <2>6. l[i].end \in Nat /\ l[x].start \in Nat /\ l[x].end \in Nat /\ l[x + 1].start \in Nat
    BY <1>t, <2>2, <2>4
  <2>7. l[i].end <= l[x + 1].start
    <3>1. PICK a \in Nat, b \in Nat, c \in Nat, e \in Nat : a = l[i].end /\ b = l[x].start /\ c = l[x].end /\ e = l[x + 1].start
      BY <2>6
    <3>2. a <= b /\ b < c /\ c <= e
      BY <2>3, <2>5, <3>1
    <3>3. a <= e
      BY <3>2
    <3>. QED  BY <3>1, <3>3
  <2>. QED  BY <2>4, <2>7
<1>. HIDE DEF B
<1>3. j - (i + 1) \in B
  <2>1. \A d \in Nat : d \in B
    BY <1>1, <1>2, SetInduction
  <2>2. j - (i + 1) \in Nat
    BY <1>n
  <2>. QED  BY <2>1, <2>2
<1>4. i + 1 + (j - (i + 1)) = j /\ j <= n
  BY <1>n
<1>. QED  BY <1>3, <1>4 DEF B

\* In a valid list a revision is covered once.
LEMMA OneCovers ==
  ASSUME NEW l \in Seq(Ranges), Valid(l), NEW v \in Int
  PROVE  /\ \A i, j \in 1..Len(l) : Covers(l[i], v) /\ Covers(l[j], v) => i = j
         /\ ~(Has(l, v, TRUE) /\ Has(l, v, FALSE))
<1>t. \A k \in 1..Len(l) : l[k].start \in Nat /\ l[k].end \in Nat
  BY Elements
<1>1. ASSUME NEW i \in 1..Len(l), NEW j \in 1..Len(l), Covers(l[i], v), Covers(l[j], v), i < j  PROVE FALSE
  <2>1. l[i].end <= l[j].start
    BY <1>1, ValidOrder
  <2>. QED  BY <1>t, <1>1, <2>1 DEF Covers
<1>2. \A i, j \in 1..Len(l) : Covers(l[i], v) /\ Covers(l[j], v) => i = j
  BY <1>1
<1>. QED  BY <1>2 DEF Has

--------------------------------------------------------------------------------
(* Lists that grow and shrink.                                              *)

\* A range is added at the end of a list.
LEMMA AppendFacts ==
  ASSUME NEW l \in Seq(Ranges), NEW r \in Ranges
  PROVE  /\ Append(l, r) \in Seq(Ranges) /\ Len(Append(l, r)) = Len(l) + 1
         /\ \A i \in 1..Len(l) : Append(l, r)[i] = l[i]
         /\ Append(l, r)[Len(l) + 1] = r
         /\ \A v : On(Append(l, r), v) <=> On(l, v) \/ Covers(r, v)
         /\ \A v, b : Has(Append(l, r), v, b) <=> Has(l, v, b) \/ (Covers(r, v) /\ r.inh = b)
<1>. DEFINE k == Append(l, r)
<1>1. k \in Seq(Ranges) /\ Len(k) = Len(l) + 1 /\ (\A i \in 1..Len(l) : k[i] = l[i]) /\ k[Len(l) + 1] = r
  BY AppendProperties
<1>2. 1..Len(k) = 1..Len(l) \cup {Len(l) + 1}
  BY <1>1
<1>. HIDE DEF k
<1>3. \A v : On(k, v) <=> On(l, v) \/ Covers(r, v)
  BY <1>1, <1>2 DEF On
<1>4. \A v, b : Has(k, v, b) <=> Has(l, v, b) \/ (Covers(r, v) /\ r.inh = b)
  BY <1>1, <1>2 DEF Has
<1>. QED  BY <1>1, <1>3, <1>4 DEF k

\* The i-th range of a list is replaced.
LEMMA SetAtFacts ==
  ASSUME NEW l \in Seq(Ranges), NEW i \in 1..Len(l), NEW r \in Ranges
  PROVE  /\ SetAt(l, i, r) \in Seq(Ranges) /\ Len(SetAt(l, i, r)) = Len(l)
         /\ SetAt(l, i, r)[i] = r
         /\ \A j \in 1..Len(l) : j # i => SetAt(l, i, r)[j] = l[j]
<1>1. SetAt(l, i, r) \in Seq(Ranges) /\ Len(SetAt(l, i, r)) = Len(l)
  BY ExceptSeq DEF SetAt
<1>2. DOMAIN l = 1..Len(l)
  OBVIOUS
<1>. QED  BY <1>1, <1>2 DEF SetAt

\* The last range is replaced.
LEMMA SetLastFacts ==
  ASSUME NEW l \in Seq(Ranges), l # << >>, NEW r \in Ranges
  PROVE  /\ SetLast(l, r) \in Seq(Ranges) /\ Len(SetLast(l, r)) = Len(l) /\ Len(l) >= 1
         /\ SetLast(l, r)[Len(l)] = r
         /\ \A j \in 1..Len(l) : j # Len(l) => SetLast(l, r)[j] = l[j]
<1>n. PICK n \in Nat : n = Len(l) /\ n >= 1
  OBVIOUS
<1>k. PICK k : k = SetLast(l, r)
  OBVIOUS
<1>0. n \in 1..Len(l)
  BY <1>n
<1>1. k = SetAt(l, n, r)
  BY <1>n, <1>k DEF SetLast
<1>2. SetAt(l, n, r) \in Seq(Ranges) /\ Len(SetAt(l, n, r)) = Len(l) /\ SetAt(l, n, r)[n] = r
  BY <1>0, SetAtFacts
<1>3. \A j \in 1..Len(l) : j # n => SetAt(l, n, r)[j] = l[j]
  BY <1>0, SetAtFacts
<1>4. k \in Seq(Ranges) /\ Len(k) = Len(l) /\ k[n] = r /\ \A j \in 1..Len(l) : j # n => k[j] = l[j]
  BY <1>1, <1>2, <1>3
<1>. QED  BY <1>n, <1>k, <1>4

\* A list is its first range and the rest.
LEMMA TailFacts ==
  ASSUME NEW l \in Seq(Ranges), l # << >>
  PROVE  /\ Head(l) = l[1] /\ Head(l) \in Ranges /\ Len(l) \in Nat /\ Len(l) >= 1
         /\ Tail(l) \in Seq(Ranges) /\ Len(Tail(l)) = Len(l) - 1
         /\ \A i \in 1..(Len(l) - 1) : Tail(l)[i] = l[i + 1]
         /\ \A v : On(l, v) <=> On(Tail(l), v) \/ Covers(Head(l), v)
         /\ \A v, b : Has(l, v, b) <=> Has(Tail(l), v, b) \/ (Covers(Head(l), v) /\ Head(l).inh = b)
<1>n. PICK n \in Nat : n = Len(l) /\ n >= 1
  OBVIOUS
<1>1. /\ Head(l) = l[1] /\ Head(l) \in Ranges
      /\ Tail(l) \in Seq(Ranges) /\ Len(Tail(l)) = n - 1
      /\ \A i \in 1..(n - 1) : Tail(l)[i] = l[i + 1]
  BY <1>n, HeadTailProperties
<1>2. PICK t : t = Tail(l)
  OBVIOUS
<1>3. \A j \in 1..n : j = 1 \/ (j - 1 \in 1..(n - 1) /\ (j - 1) + 1 = j)
  OBVIOUS
<1>4. \A i \in 1..(n - 1) : i + 1 \in 1..n
  OBVIOUS
<1>5. 1 \in 1..n
  BY <1>n
<1>6. \A v : On(l, v) <=> On(t, v) \/ Covers(Head(l), v)
  BY <1>n, <1>1, <1>2, <1>3, <1>4, <1>5 DEF On
<1>7. \A v, b : Has(l, v, b) <=> Has(t, v, b) \/ (Covers(Head(l), v) /\ Head(l).inh = b)
  <2>. TAKE v, b
  <2>1. ASSUME Has(l, v, b)  PROVE Has(t, v, b) \/ (Covers(Head(l), v) /\ Head(l).inh = b)
    <3>1. PICK j \in 1..n : Covers(l[j], v) /\ l[j].inh = b
      BY <1>n, <2>1 DEF Has
    <3>. QED  BY <1>1, <1>2, <1>3, <3>1 DEF Has
  <2>2. ASSUME Has(t, v, b)  PROVE Has(l, v, b)
    <3>1. PICK i \in 1..(n - 1) : Covers(t[i], v) /\ t[i].inh = b
      BY <1>1, <1>2, <2>2 DEF Has
    <3>. QED  BY <1>n, <1>1, <1>2, <1>4, <3>1 DEF Has
  <2>. QED  BY <1>n, <1>1, <1>5, <2>1, <2>2 DEF Has
<1>. QED  BY <1>n, <1>1, <1>2, <1>6, <1>7

\* A range is added at the front of a list.
LEMMA ConsFacts ==
  ASSUME NEW l \in Seq(Ranges), NEW r \in Ranges
  PROVE  /\ <<r>> \o l \in Seq(Ranges) /\ Len(<<r>> \o l) = Len(l) + 1 /\ <<r>> \o l # << >>
         /\ Head(<<r>> \o l) = r /\ (<<r>> \o l)[1] = r
         /\ \A i \in 1..Len(l) : (<<r>> \o l)[i + 1] = l[i]
         /\ Tail(<<r>> \o l) = l
<1>n. PICK n \in Nat : n = Len(l)
  OBVIOUS
<1>0. <<r>> \in Seq(Ranges) /\ Len(<<r>>) = 1 /\ <<r>>[1] = r
  OBVIOUS
<1>k. PICK k : k = <<r>> \o l
  OBVIOUS
<1>1. k \in Seq(Ranges) /\ Len(k) = n + 1 /\ \A i \in 1..(n + 1) : k[i] = IF i <= 1 THEN <<r>>[i] ELSE l[i - 1]
  BY <1>0, <1>n, <1>k, ConcatProperties
<1>2. k[1] = r /\ \A i \in 1..n : k[i + 1] = l[i]
  <2>1. k[1] = <<r>>[1]
    BY <1>1
  <2>2. ASSUME NEW i \in 1..n  PROVE k[i + 1] = l[i]
    <3>1. i + 1 \in 1..(n + 1) /\ ~(i + 1 <= 1) /\ (i + 1) - 1 = i
      OBVIOUS
    <3>. QED  BY <1>1, <3>1
  <2>. QED  BY <1>0, <2>1, <2>2
<1>3. k # << >> /\ Head(k) = r
  BY <1>1, <1>2
<1>4. Tail(k) \in Seq(Ranges) /\ Len(Tail(k)) = n /\ \A i \in 1..n : Tail(k)[i] = k[i + 1]
  BY <1>1, <1>3, HeadTailProperties
<1>5. Tail(k) = l
  BY <1>n, <1>2, <1>4, SeqEqual
<1>. QED  BY <1>n, <1>k, <1>1, <1>2, <1>3, <1>5

\* Two lists, one after the other.
LEMMA ConcatFacts ==
  ASSUME NEW l \in Seq(Ranges), NEW k \in Seq(Ranges)
  PROVE  /\ l \o k \in Seq(Ranges) /\ Len(l \o k) = Len(l) + Len(k)
         /\ \A i \in 1..Len(l) : (l \o k)[i] = l[i]
         /\ \A i \in 1..Len(k) : (l \o k)[Len(l) + i] = k[i]
         /\ \A v : On(l \o k, v) <=> On(l, v) \/ On(k, v)
         /\ \A v, b : Has(l \o k, v, b) <=> Has(l, v, b) \/ Has(k, v, b)
<1>n. PICK n \in Nat, m \in Nat : n = Len(l) /\ m = Len(k)
  OBVIOUS
<1>c. PICK c : c = l \o k
  OBVIOUS
<1>1. c \in Seq(Ranges) /\ Len(c) = n + m /\ \A i \in 1..(n + m) : c[i] = IF i <= n THEN l[i] ELSE k[i - n]
  BY <1>n, <1>c, ConcatProperties
<1>2. \A i \in 1..n : i \in 1..(n + m) /\ c[i] = l[i]
  BY <1>1
<1>3. \A i \in 1..m : n + i \in 1..(n + m) /\ c[n + i] = k[i]
  BY <1>1
<1>4. \A j \in 1..(n + m) : j \in 1..n \/ (j - n \in 1..m /\ n + (j - n) = j)
  OBVIOUS
<1>5. \A v : On(c, v) <=> On(l, v) \/ On(k, v)
  <2>. TAKE v
  <2>1. ASSUME On(c, v)  PROVE On(l, v) \/ On(k, v)
    <3>1. PICK j \in 1..(n + m) : Covers(c[j], v)
      BY <1>1, <2>1 DEF On
    <3>. QED  BY <1>n, <1>2, <1>3, <1>4, <3>1 DEF On
  <2>2. ASSUME On(l, v)  PROVE On(c, v)
    BY <1>n, <1>1, <1>2, <2>2 DEF On
  <2>3. ASSUME On(k, v)  PROVE On(c, v)
    <3>1. PICK j \in 1..m : Covers(k[j], v)
      BY <1>n, <2>3 DEF On
    <3>. QED  BY <1>1, <1>3, <3>1 DEF On
  <2>. QED  BY <2>1, <2>2, <2>3
<1>6. \A v, b : Has(c, v, b) <=> Has(l, v, b) \/ Has(k, v, b)
  <2>. TAKE v, b
  <2>1. ASSUME Has(c, v, b)  PROVE Has(l, v, b) \/ Has(k, v, b)
    <3>1. PICK j \in 1..(n + m) : Covers(c[j], v) /\ c[j].inh = b
      BY <1>1, <2>1 DEF Has
    <3>. QED  BY <1>n, <1>2, <1>3, <1>4, <3>1 DEF Has
  <2>2. ASSUME Has(l, v, b)  PROVE Has(c, v, b)
    BY <1>n, <1>1, <1>2, <2>2 DEF Has
  <2>3. ASSUME Has(k, v, b)  PROVE Has(c, v, b)
    <3>1. PICK j \in 1..m : Covers(k[j], v) /\ k[j].inh = b
      BY <1>n, <2>3 DEF Has
    <3>. QED  BY <1>1, <1>3, <3>1 DEF Has
  <2>. QED  BY <2>1, <2>2, <2>3
<1>. QED  BY <1>n, <1>c, <1>1, <1>2, <1>3, <1>5, <1>6

\* Combining two ranges that touch or overlap gives the range of both.
LEMMA CombinedFacts ==
  ASSUME NEW r \in Ranges, NEW q \in Ranges, NEW consider \in BOOLEAN, Combines(r, q, consider)
  PROVE  /\ Combined(r, q) \in Ranges
         /\ Combined(r, q).start = (IF r.start < q.start THEN r.start ELSE q.start)
         /\ Combined(r, q).end = (IF r.end > q.end THEN r.end ELSE q.end)
         /\ Combined(r, q).inh = (r.inh \/ q.inh)
         /\ r.start <= r.end /\ q.start <= q.end => \A v \in Int : Covers(Combined(r, q), v) <=> Covers(r, v) \/ Covers(q, v)
<1>1. /\ r.start \in 0..N /\ r.end \in 0..N /\ r.inh \in BOOLEAN
      /\ q.start \in 0..N /\ q.end \in 0..N /\ q.inh \in BOOLEAN
  BY RangeFacts
<1>2. /\ Combined(r, q) \in Ranges
      /\ Combined(r, q).start = (IF r.start < q.start THEN r.start ELSE q.start)
      /\ Combined(r, q).end = (IF r.end > q.end THEN r.end ELSE q.end)
      /\ Combined(r, q).inh = (r.inh \/ q.inh)
  <2>1. /\ (IF r.start < q.start THEN r.start ELSE q.start) \in 0..N
        /\ (IF r.end > q.end THEN r.end ELSE q.end) \in 0..N
        /\ (r.inh \/ q.inh) \in BOOLEAN
    BY <1>1
  <2>. QED  BY <1>1, <2>1 DEF Combined, Span, Ranges
<1>3. r.start <= q.end /\ q.start <= r.end
  BY DEF Combines
<1>. QED  BY <1>1, <1>2, <1>3 DEF Covers

\* The shortest list; without inheritance, its ranges do not even touch.
Tight(l, consider) == Shortest(l) /\ (~consider => \A i \in 1..(Len(l) - 1) : l[i].end < l[i + 1].start)

\* A list whose neighbours neither overlap nor touch alike is the shortest.
LEMMA TightFrom ==
  ASSUME NEW l \in Seq(Ranges), NEW consider \in BOOLEAN,
         \A i \in 1..Len(l) : l[i].start < l[i].end,
         \A i \in 1..(Len(l) - 1) : /\ l[i].end <= l[i + 1].start
                                    /\ l[i].end = l[i + 1].start => consider /\ l[i].inh # l[i + 1].inh
  PROVE  Tight(l, consider)
<1>n. PICK n \in Nat : n = Len(l)
  OBVIOUS
<1>1. \A i \in 1..n : i < n => i \in 1..(n - 1)
  OBVIOUS
<1>2. ASSUME NEW i \in 1..(n - 1)  PROVE l[i].end \in Int /\ l[i + 1].start \in Int
  <2>1. i \in 1..Len(l) /\ i + 1 \in 1..Len(l)
    BY <1>n
  <2>. QED  BY <2>1, Elements
<1>3. Valid(l)
  BY <1>n, <1>1 DEF Valid
<1>4. \A i \in 1..(n - 1) : ~consider => l[i].end < l[i + 1].start
  BY <1>n, <1>2
<1>. QED  BY <1>n, <1>3, <1>4 DEF Tight, Shortest

\* The neighbours in such a list.
LEMMA TightSteps ==
  ASSUME NEW l \in Seq(Ranges), NEW consider \in BOOLEAN, Tight(l, consider), NEW i \in 1..(Len(l) - 1)
  PROVE  /\ l[i].end <= l[i + 1].start
         /\ l[i].end = l[i + 1].start => consider /\ l[i].inh # l[i + 1].inh
<1>1. i \in 1..Len(l) /\ i < Len(l)
  OBVIOUS
<1>2. l[i].end <= l[i + 1].start
  BY <1>1 DEF Tight, Shortest, Valid
<1>3. l[i].end = l[i + 1].start => l[i].inh # l[i + 1].inh
  BY DEF Tight, Shortest
<1>4. ~consider => l[i].end < l[i + 1].start
  BY DEF Tight
<1>5. l[i].end \in Int
  BY <1>1, Elements
<1>. QED  BY <1>2, <1>3, <1>4, <1>5

\* A range is combined with the last one of a list.
LEMMA CombineLast ==
  ASSUME NEW out \in Seq(Ranges), NEW consider \in BOOLEAN, Tight(out, consider), NEW r \in Spans,
         out # << >>, Combines(Last(out), r, consider), Last(out).start <= r.start,
         NEW k, k = SetLast(out, Combined(Last(out), r))
  PROVE  /\ k \in Seq(Ranges) /\ Tight(k, consider) /\ k # << >> /\ Last(k).start = Last(out).start
         /\ \A v \in Int : On(k, v) <=> On(out, v) \/ Covers(r, v)
         /\ \A v \in Int : Has(out, v, TRUE) \/ (Covers(r, v) /\ r.inh) => Has(k, v, TRUE)
         /\ consider => \A v \in Int : \A b : Has(k, v, b) <=> Has(out, v, b) \/ (Covers(r, v) /\ r.inh = b)
         /\ Last(out).end <= r.start => \A i \in 1..Len(k) : k[i].end <= r.end
<1>n. PICK n \in Nat : n = Len(out) /\ n >= 1
  OBVIOUS
<1>r. /\ r \in Ranges /\ r.start \in 0..N /\ r.end \in 0..N /\ r.inh \in BOOLEAN /\ r.start < r.end
      /\ r.start \in Int /\ r.end \in Int
  BY RangeFacts DEF Spans
<1>e. \A i \in 1..n : /\ out[i].start \in Int /\ out[i].end \in Int /\ out[i].inh \in BOOLEAN
                      /\ out[i].start < out[i].end
  BY <1>n, Elements DEF Tight, Shortest, Valid
<1>s. \A i \in 1..(n - 1) : /\ out[i].end <= out[i + 1].start
                            /\ out[i].end = out[i + 1].start => consider /\ out[i].inh # out[i + 1].inh
  BY <1>n, TightSteps
<1>2. PICK m : m = out[n]
  OBVIOUS
<1>3. n \in 1..n /\ Last(out) = m /\ m \in Ranges
  BY <1>n, <1>2, Elements DEF Last
<1>4. /\ m.start \in Int /\ m.end \in Int /\ m.inh \in BOOLEAN /\ m.start < m.end /\ m.start <= r.start
  BY <1>e, <1>2, <1>3
<1>5. PICK c : c = Combined(m, r)
  OBVIOUS
<1>6. /\ c \in Ranges /\ c.start = m.start /\ c.end = (IF m.end > r.end THEN m.end ELSE r.end) /\ c.inh = (m.inh \/ r.inh)
      /\ \A v \in Int : Covers(c, v) <=> Covers(m, v) \/ Covers(r, v)
  BY <1>r, <1>3, <1>4, <1>5, CombinedFacts
<1>7. consider => c.inh = m.inh /\ c.inh = r.inh
  BY <1>r, <1>3, <1>4, <1>6 DEF Combines
<1>8. /\ k \in Seq(Ranges) /\ Len(k) = n /\ n >= 1 /\ k[n] = c
      /\ \A j \in 1..(n - 1) : k[j] = out[j]
  <2>1. k = SetLast(out, c) /\ c \in Ranges
    BY <1>3, <1>5, <1>6
  <2>2. k \in Seq(Ranges) /\ Len(k) = Len(out) /\ Len(out) >= 1 /\ k[Len(out)] = c
    BY <2>1, SetLastFacts
  <2>3. \A j \in 1..Len(out) : j # Len(out) => SetLast(out, c)[j] = out[j]
    BY <2>1, SetLastFacts
  <2>. QED  BY <1>n, <2>1, <2>2, <2>3
<1>9. \A j \in 1..n : j = n \/ j \in 1..(n - 1)
  OBVIOUS
<1>10. \A v \in Int : On(k, v) <=> On(out, v) \/ Covers(r, v)
  BY <1>n, <1>2, <1>3, <1>6, <1>8, <1>9 DEF On
<1>11. \A v \in Int : Has(out, v, TRUE) \/ (Covers(r, v) /\ r.inh) => Has(k, v, TRUE)
  BY <1>n, <1>r, <1>2, <1>3, <1>4, <1>6, <1>8, <1>9 DEF Has
<1>12. consider => \A v \in Int : \A b : Has(k, v, b) <=> Has(out, v, b) \/ (Covers(r, v) /\ r.inh = b)
  <2>. SUFFICES ASSUME consider, NEW v \in Int, NEW b  PROVE Has(k, v, b) <=> Has(out, v, b) \/ (Covers(r, v) /\ r.inh = b)
    OBVIOUS
  <2>1. c.inh = m.inh /\ c.inh = r.inh
    BY <1>7
  <2>2. Covers(c, v) <=> Covers(m, v) \/ Covers(r, v)
    BY <1>6
  <2>. QED  BY <1>n, <1>2, <1>3, <1>8, <1>9, <2>1, <2>2 DEF Has
<1>13. \A i \in 1..n : k[i].start < k[i].end /\ (m.end <= r.start => k[i].end <= r.end)
  <2>. TAKE i \in 1..n
  <2>1. CASE i = n
    BY <1>r, <1>4, <1>6, <1>8, <2>1
  <2>2. CASE i \in 1..(n - 1)
    <3>1. out[i].end <= m.start
      <4>1. Valid(out) /\ i \in 1..Len(out) /\ n \in 1..Len(out) /\ i < n
        BY <1>n, <2>2 DEF Tight, Shortest
      <4>. QED  BY <1>2, <4>1, ValidOrder
    <3>2. k[i] = out[i] /\ out[i].end \in Int /\ out[i].start < out[i].end
      BY <1>e, <1>8, <2>2
    <3>3. m.end <= r.start => out[i].end <= r.end
      BY <1>r, <1>4, <3>1, <3>2
    <3>. QED  BY <3>2, <3>3
  <2>. QED  BY <2>1, <2>2
<1>14. ASSUME NEW i \in 1..(n - 1)
       PROVE  k[i].end <= k[i + 1].start /\ (k[i].end = k[i + 1].start => consider /\ k[i].inh # k[i + 1].inh)
  <2>1. CASE i + 1 = n
    <3>1. k[i] = out[i] /\ k[i + 1] = c /\ out[i + 1] = m
      BY <1>2, <1>8, <2>1
    <3>2. out[i].end <= m.start /\ (out[i].end = m.start => consider /\ out[i].inh # m.inh) /\ out[i].end \in Int
      BY <1>e, <1>s, <3>1
    <3>. QED  BY <1>6, <1>7, <3>1, <3>2
  <2>2. CASE i + 1 \in 1..(n - 1)
    BY <1>s, <1>8, <2>2
  <2>. QED  BY <2>1, <2>2
<1>15. Tight(k, consider)
  BY <1>8, <1>13, <1>14, TightFrom
<1>16. k # << >> /\ Last(k) = c
  BY <1>8 DEF Last
<1>17. m.end <= r.start => \A i \in 1..Len(k) : k[i].end <= r.end
  BY <1>8, <1>13
<1>. QED  BY <1>3, <1>6, <1>8, <1>10, <1>11, <1>12, <1>15, <1>16, <1>17

\* A range is appended to a list that ends before it.
LEMMA AppendLast ==
  ASSUME NEW out \in Seq(Ranges), NEW consider \in BOOLEAN, Tight(out, consider), NEW r \in Spans,
         out # << >> => Last(out).end <= r.start /\ ~Combines(Last(out), r, consider),
         NEW k, k = Append(out, r)
  PROVE  /\ k \in Seq(Ranges) /\ Tight(k, consider) /\ k # << >> /\ Last(k) = r
         /\ \A v : On(k, v) <=> On(out, v) \/ Covers(r, v)
         /\ \A v, b : Has(k, v, b) <=> Has(out, v, b) \/ (Covers(r, v) /\ r.inh = b)
         /\ \A i \in 1..Len(k) : k[i].end <= r.end
<1>n. PICK n \in Nat : n = Len(out)
  OBVIOUS
<1>r. /\ r \in Ranges /\ r.start \in 0..N /\ r.end \in 0..N /\ r.inh \in BOOLEAN /\ r.start < r.end
      /\ r.start \in Int /\ r.end \in Int
  BY RangeFacts DEF Spans
<1>e. \A i \in 1..n : /\ out[i].start \in Int /\ out[i].end \in Int /\ out[i].inh \in BOOLEAN
                      /\ out[i].start < out[i].end
  BY <1>n, Elements DEF Tight, Shortest, Valid
<1>s. \A i \in 1..(n - 1) : /\ out[i].end <= out[i + 1].start
                            /\ out[i].end = out[i + 1].start => consider /\ out[i].inh # out[i + 1].inh
  BY <1>n, TightSteps
<1>0. out = << >> <=> n = 0
  BY <1>n
<1>1. \A i \in 1..n : out[i].end <= r.start
  <2>. TAKE i \in 1..n
  <2>1. out # << >> /\ Last(out) = out[n] /\ n \in 1..n /\ out[n].end <= r.start
    BY <1>0, <1>n DEF Last
  <2>2. CASE i < n
    <3>1. out[i].end <= out[n].start
      BY <1>n, <2>1, <2>2, ValidOrder DEF Tight, Shortest
    <3>. QED  BY <1>e, <1>r, <2>1, <3>1
  <2>3. CASE i = n
    BY <2>1, <2>3
  <2>. QED  BY <2>2, <2>3
<1>2. k \in Seq(Ranges) /\ Len(k) = n + 1 /\ k[n + 1] = r /\ \A i \in 1..n : k[i] = out[i]
  BY <1>n, <1>r, AppendFacts
<1>3. /\ \A v : On(k, v) <=> On(out, v) \/ Covers(r, v)
      /\ \A v, b : Has(k, v, b) <=> Has(out, v, b) \/ (Covers(r, v) /\ r.inh = b)
  BY <1>r, AppendFacts
<1>4. \A i \in 1..(n + 1) : k[i].start < k[i].end /\ k[i].end <= r.end
  <2>. TAKE i \in 1..(n + 1)
  <2>1. i = n + 1 \/ i \in 1..n
    OBVIOUS
  <2>. QED  BY <1>1, <1>e, <1>r, <1>2, <2>1
<1>5. ASSUME NEW i \in 1..n
      PROVE  k[i].end <= k[i + 1].start /\ (k[i].end = k[i + 1].start => consider /\ k[i].inh # k[i + 1].inh)
  <2>1. CASE i = n
    <3>1. out # << >> /\ Last(out) = out[n] /\ k[i] = out[n] /\ k[i + 1] = r
      BY <1>0, <1>n, <1>2, <2>1 DEF Last
    <3>2. out[n].end <= r.start /\ out[n].start < out[n].end /\ out[n].start \in Int /\ out[n].end \in Int
      BY <1>1, <1>e, <2>1
    <3>3. out[n].end = r.start => consider /\ out[n].inh # r.inh
      BY <1>r, <3>1, <3>2 DEF Combines
    <3>. QED  BY <3>1, <3>2, <3>3
  <2>2. CASE i \in 1..(n - 1)
    BY <1>s, <1>2, <2>2
  <2>3. i = n \/ i \in 1..(n - 1)
    OBVIOUS
  <2>. QED  BY <2>1, <2>2, <2>3
<1>6. Tight(k, consider)
  <2>1. Len(k) - 1 = n
    BY <1>2
  <2>2. \A i \in 1..(Len(k) - 1) : /\ k[i].end <= k[i + 1].start
                                   /\ k[i].end = k[i + 1].start => consider /\ k[i].inh # k[i + 1].inh
    BY <1>5, <2>1
  <2>. QED  BY <1>2, <1>4, <2>2, TightFrom
<1>7. k # << >> /\ Last(k) = r
  BY <1>2 DEF Last
<1>. QED  BY <1>2, <1>3, <1>4, <1>6, <1>7

\* combine_with_lastrange at the end of a list that ends before the range.
LEMMA WithLastFacts ==
  ASSUME NEW out \in Seq(Ranges), NEW consider \in BOOLEAN, Tight(out, consider), NEW r \in Spans,
         \A i \in 1..Len(out) : out[i].end <= r.start,
         NEW k, k = WithLast(out, r, consider)
  PROVE  /\ k = IF out # << >> /\ Combines(Last(out), r, consider) THEN SetLast(out, Combined(Last(out), r))
                ELSE Append(out, r)
         /\ k \in Seq(Ranges) /\ Tight(k, consider) /\ k # << >>
         /\ \A v \in Int : On(k, v) <=> On(out, v) \/ Covers(r, v)
         /\ \A v \in Int : Has(out, v, TRUE) \/ (Covers(r, v) /\ r.inh) => Has(k, v, TRUE)
         /\ consider => \A v \in Int : \A b : Has(k, v, b) <=> Has(out, v, b) \/ (Covers(r, v) /\ r.inh = b)
         /\ \A i \in 1..Len(k) : k[i].end <= r.end
<1>0. r.start \in Int /\ r.inh \in BOOLEAN
  BY RangeFacts DEF Spans
<1>1. out # << >> => /\ Last(out).start \in Int /\ Last(out).end \in Int
                     /\ Last(out).start < Last(out).end /\ Last(out).end <= r.start
  <2>. SUFFICES ASSUME out # << >>  PROVE /\ Last(out).start \in Int /\ Last(out).end \in Int
                                          /\ Last(out).start < Last(out).end /\ Last(out).end <= r.start
    OBVIOUS
  <2>1. PICK n \in 1..Len(out) : Last(out) = out[n]
    BY DEF Last
  <2>. QED  BY <2>1, Elements DEF Tight, Shortest, Valid
<1>2. CASE out # << >> /\ Combines(Last(out), r, consider)
  <2>1. k = SetLast(out, Combined(Last(out), r))
    BY <1>2 DEF WithLast
  <2>2. Last(out).start <= r.start /\ Last(out).end <= r.start
    BY <1>0, <1>1, <1>2
  <2>3. /\ k \in Seq(Ranges) /\ Tight(k, consider) /\ k # << >> /\ Last(k).start = Last(out).start
        /\ \A v \in Int : On(k, v) <=> On(out, v) \/ Covers(r, v)
        /\ \A v \in Int : Has(out, v, TRUE) \/ (Covers(r, v) /\ r.inh) => Has(k, v, TRUE)
        /\ consider => \A v \in Int : \A b : Has(k, v, b) <=> Has(out, v, b) \/ (Covers(r, v) /\ r.inh = b)
        /\ Last(out).end <= r.start => \A i \in 1..Len(k) : k[i].end <= r.end
    BY <1>2, <2>1, <2>2, CombineLast
  <2>. QED  BY <1>2, <2>1, <2>2, <2>3
<1>3. CASE ~(out # << >> /\ Combines(Last(out), r, consider))
  <2>1. k = Append(out, r)
    <3>1. CASE out = << >>
      BY <3>1 DEF WithLast
    <3>2. CASE out # << >>
      <4>1. ~(r.start < Last(out).end)
        BY <1>0, <1>1, <3>2
      <4>. QED  BY <1>3, <3>2, <4>1 DEF WithLast
    <3>. QED  BY <3>1, <3>2
  <2>2. out # << >> => Last(out).end <= r.start /\ ~Combines(Last(out), r, consider)
    BY <1>1, <1>3
  <2>3. /\ k \in Seq(Ranges) /\ Tight(k, consider) /\ k # << >> /\ Last(k) = r
        /\ \A v : On(k, v) <=> On(out, v) \/ Covers(r, v)
        /\ \A v, b : Has(k, v, b) <=> Has(out, v, b) \/ (Covers(r, v) /\ r.inh = b)
        /\ \A i \in 1..Len(k) : k[i].end <= r.end
    BY <2>1, <2>2, AppendLast
  <2>. QED  BY <1>0, <1>3, <2>1, <2>3
<1>. QED  BY <1>2, <1>3

--------------------------------------------------------------------------------
(* Parsing.                                                                 *)

\* The list after each range of a line.
IsParse(f, line) ==
  /\ f[0] = [list |-> << >>, ok |-> TRUE]
  /\ \A k \in 1..Len(line) : f[k] = ParseStep(f[k - 1], line[k])

\* ParseLine is what the loop ends with.
LEMMA ParseTurns ==
  ASSUME NEW line, Len(line) \in Nat
  PROVE  \E f : IsParse(f, line) /\ ParseLine(line) = f[Len(line)]
<1>n. PICK n \in Nat : n = Len(line)
  OBVIOUS
<1>. DEFINE Start == [list |-> << >>, ok |-> TRUE]
<1>. DEFINE Turns(m, f) == f = [k \in 0..m |-> IF k = 0 THEN Start ELSE ParseStep(f[k - 1], line[k])]
<1>. DEFINE B == {m \in Nat : \E f : Turns(m, f)}
<1>1. 0 \in B
  <2>1. PICK f : f = [k \in 0..0 |-> Start]
    OBVIOUS
  <2>2. Turns(0, f)
    BY <2>1
  <2>. QED  BY <2>2
<1>2. ASSUME NEW m \in Nat, m \in B  PROVE m + 1 \in B
  <2>1. PICK f : Turns(m, f)
    BY <1>2
  <2>2. PICK h : h = [k \in 0..m + 1 |-> IF k <= m THEN f[k] ELSE ParseStep(f[m], line[m + 1])]
    OBVIOUS
  <2>3. ASSUME NEW k \in 0..m + 1  PROVE h[k] = IF k = 0 THEN Start ELSE ParseStep(h[k - 1], line[k])
    <3>1. CASE k = m + 1
      BY <2>2, <3>1
    <3>2. CASE k = 0
      BY <2>1, <2>2, <3>2
    <3>3. CASE k \in 1..m
      <4>1. k \in 0..m /\ k # 0 /\ k - 1 \in 0..m /\ k <= m /\ k - 1 <= m /\ k - 1 \in 0..m + 1
        BY <3>3
      <4>2. h[k] = f[k] /\ h[k - 1] = f[k - 1]
        BY <2>2, <4>1
      <4>3. f[k] = ParseStep(f[k - 1], line[k])
        BY <2>1, <4>1
      <4>. QED  BY <4>1, <4>2, <4>3
    <3>4. k = m + 1 \/ k = 0 \/ k \in 1..m
      OBVIOUS
    <3>. QED  BY <3>1, <3>2, <3>3, <3>4
  <2>4. Turns(m + 1, h)
    BY <2>2, <2>3
  <2>. QED  BY <2>4
<1>. HIDE DEF B
<1>3. n \in B
  BY <1>1, <1>2, SetInduction
<1>. DEFINE G == CHOOSE f : Turns(n, f)
<1>4. Turns(n, G)
  BY <1>3 DEF B
<1>5. ParseLine(line) = G[n]
  BY <1>n DEF ParseLine
<1>. HIDE DEF G
<1>6. IsParse(G, line)
  <2>1. G[0] = Start
    BY <1>4
  <2>2. ASSUME NEW k \in 1..n  PROVE G[k] = ParseStep(G[k - 1], line[k])
    <3>1. k \in 0..n /\ k # 0
      OBVIOUS
    <3>. QED  BY <1>4, <3>1
  <2>. QED  BY <1>n, <2>1, <2>2 DEF IsParse
<1>. QED  BY <1>n, <1>5, <1>6

\* Two ranges overlap, and differ in inheritability.
Clashing(r, q) == r.inh # q.inh /\ r.start < q.end /\ q.start < r.end

\* After k ranges of a line: the list has what they cover, or two of them clash.
ParsedTo(line, k, p) ==
  /\ p.list \in Seq(Ranges) /\ p.ok \in BOOLEAN
  /\ p.ok => /\ Shortest(p.list)
             /\ \A v \in Int, b \in BOOLEAN : Has(p.list, v, b) <=> \E j \in 1..k : Covers(line[j], v) /\ line[j].inh = b
             /\ \A i, j \in 1..k : ~Clashing(line[i], line[j])
             /\ IF k = 0 THEN p.list = << >> ELSE p.list # << >> /\ Last(p.list).start <= line[k].start
  /\ ~p.ok => \E i, j \in 1..k : Clashing(line[i], line[j])

\* One more range.
LEMMA ParseNext ==
  ASSUME NEW line \in Seq(Spans), \A i, j \in 1..Len(line) : i < j => ~Before(line[j], line[i]),
         NEW k \in Nat, k + 1 <= Len(line), NEW p, ParsedTo(line, k, p)
  PROVE  ParsedTo(line, k + 1, ParseStep(p, line[k + 1]))
<1>n. PICK n \in Nat : n = Len(line) /\ k + 1 <= n
  OBVIOUS
<1>l. line \in Seq(Ranges) /\ \A i \in 1..n : /\ line[i] \in Spans /\ line[i] \in Ranges /\ line[i].inh \in BOOLEAN
                                              /\ line[i].start \in Int /\ line[i].end \in Int /\ line[i].start < line[i].end
  <2>1. line \in Seq(Ranges)
    BY SpansRanges
  <2>2. \A i \in 1..n : line[i] \in Spans
    BY <1>n, ElementOfSeq
  <2>. QED  BY <1>n, <2>1, <2>2, Elements, SpansRanges
<1>o. \A i \in 1..k : line[i].start <= line[k + 1].start
  <2>. TAKE i \in 1..k
  <2>1. i \in 1..n /\ k + 1 \in 1..n /\ i < k + 1
    BY <1>n
  <2>2. ~Before(line[k + 1], line[i])
    BY <1>n, <2>1
  <2>. QED  BY <1>l, <2>1, <2>2 DEF Before
<1>r. PICK r : r = line[k + 1]
  OBVIOUS
<1>s. /\ r \in Spans /\ r \in Ranges /\ r.inh \in BOOLEAN /\ r.start \in Int /\ r.end \in Int /\ r.start < r.end
  <2>1. k + 1 \in 1..n
    BY <1>n
  <2>. QED  BY <1>l, <1>r, <2>1
<1>k. \A i \in 1..(k + 1) : i = k + 1 \/ i \in 1..k
  OBVIOUS
<1>p. p.list \in Seq(Ranges) /\ p.ok \in BOOLEAN
  BY DEF ParsedTo
<1>q. PICK q : q = ParseStep(p, r)
  OBVIOUS
<1>1. CASE ~p.ok
  <2>1. q = [list |-> p.list, ok |-> FALSE]
    BY <1>1, <1>q DEF ParseStep
  <2>2. PICK i \in 1..k, j \in 1..k : Clashing(line[i], line[j])
    BY <1>1 DEF ParsedTo
  <2>3. i \in 1..(k + 1) /\ j \in 1..(k + 1)
    OBVIOUS
  <2>4. q.list \in Seq(Ranges) /\ q.ok = FALSE
    BY <1>p, <2>1
  <2>5. \E x, y \in 1..(k + 1) : Clashing(line[x], line[y])
    BY <2>2, <2>3
  <2>6. ParsedTo(line, k + 1, q)
    BY <2>4, <2>5 DEF ParsedTo
  <2>. QED  BY <1>q, <1>r, <2>6
<1>2. CASE p.ok
  <2>0. /\ Shortest(p.list)
        /\ \A v \in Int, b \in BOOLEAN : Has(p.list, v, b) <=> \E j \in 1..k : Covers(line[j], v) /\ line[j].inh = b
        /\ \A i, j \in 1..k : ~Clashing(line[i], line[j])
        /\ IF k = 0 THEN p.list = << >> ELSE p.list # << >> /\ Last(p.list).start <= line[k].start
    BY <1>2 DEF ParsedTo
  <2>o. PICK out : out = p.list
    OBVIOUS
  <2>t. out \in Seq(Ranges) /\ Tight(out, TRUE)
    BY <1>p, <2>0, <2>o DEF Tight
  <2>m. out # << >> => /\ k \in 1..k /\ Last(out) \in Ranges /\ Last(out).start <= r.start /\ Last(out).start < Last(out).end
                       /\ Last(out).start \in Int /\ Last(out).end \in Int /\ Last(out).inh \in BOOLEAN
                       /\ Has(out, r.start + 1, Last(out).inh) <=> r.start < Last(out).end
                       /\ \A b \in BOOLEAN : Has(out, r.start + 1, b) => r.start < Last(out).end /\ Last(out).inh = b
    <3>. SUFFICES ASSUME out # << >>
                  PROVE  /\ k \in 1..k /\ Last(out) \in Ranges /\ Last(out).start <= r.start /\ Last(out).start < Last(out).end
                         /\ Last(out).start \in Int /\ Last(out).end \in Int /\ Last(out).inh \in BOOLEAN
                         /\ Has(out, r.start + 1, Last(out).inh) <=> r.start < Last(out).end
                         /\ \A b \in BOOLEAN : Has(out, r.start + 1, b) => r.start < Last(out).end /\ Last(out).inh = b
      OBVIOUS
    <3>1. k # 0 /\ k \in 1..k /\ Last(out).start <= line[k].start
      BY <2>0, <2>o
    <3>2. PICK x \in 1..Len(out) : x = Len(out) /\ Last(out) = out[x]
      BY <2>t DEF Last
    <3>3. /\ Last(out) \in Ranges /\ Last(out).start \in Int /\ Last(out).end \in Int /\ Last(out).inh \in BOOLEAN
          /\ Last(out).start < Last(out).end
      BY <2>t, <3>2, Elements DEF Tight, Shortest, Valid
    <3>4. line[k].start <= r.start /\ line[k].start \in Int
      BY <1>n, <1>l, <1>o, <1>r, <3>1
    <3>5. Last(out).start <= r.start
      BY <1>s, <3>1, <3>3, <3>4
    <3>6. ASSUME NEW y \in 1..Len(out), Covers(out[y], r.start + 1)  PROVE y = x
      <4>. SUFFICES ASSUME y # x PROVE FALSE
        OBVIOUS
      <4>1. y < x
        BY <3>2
      <4>2. out[y].end <= out[x].start
        BY <2>t, <4>1, ValidOrder DEF Tight, Shortest
      <4>3. out[y].end \in Int
        BY <2>t, Elements
      <4>. QED  BY <1>s, <3>2, <3>3, <3>5, <3>6, <4>2, <4>3 DEF Covers
    <3>7. Covers(out[x], r.start + 1) <=> r.start < Last(out).end
      BY <1>s, <3>2, <3>3, <3>5 DEF Covers
    <3>8. Has(out, r.start + 1, Last(out).inh) <=> r.start < Last(out).end
      BY <3>2, <3>6, <3>7 DEF Has
    <3>9. \A b \in BOOLEAN : Has(out, r.start + 1, b) => r.start < Last(out).end /\ Last(out).inh = b
      BY <3>2, <3>6, <3>7 DEF Has
    <3>. QED  BY <3>1, <3>3, <3>5, <3>8, <3>9
  <2>1. CASE Clash(out, r)
    <3>1. q = [list |-> p.list, ok |-> FALSE]
      BY <1>q, <2>o, <2>1 DEF ParseStep
    <3>2. out # << >> /\ r.start < Last(out).end /\ r.inh # Last(out).inh
      BY <2>1 DEF Clash
    <3>3. Has(out, r.start + 1, Last(out).inh) /\ r.start + 1 \in Int /\ Last(out).inh \in BOOLEAN
      BY <1>s, <2>m, <3>2
    <3>4. PICK j \in 1..k : Covers(line[j], r.start + 1) /\ line[j].inh = Last(out).inh
      BY <2>0, <2>o, <3>3
    <3>5. j \in 1..n
      BY <1>n
    <3>6. Clashing(line[j], r)
      BY <1>l, <1>s, <3>2, <3>4, <3>5 DEF Clashing, Covers
    <3>7. j \in 1..(k + 1) /\ k + 1 \in 1..(k + 1)
      OBVIOUS
    <3>8. q.list \in Seq(Ranges) /\ q.ok = FALSE
      BY <1>p, <3>1
    <3>9. ParsedTo(line, k + 1, q)
      BY <1>r, <3>6, <3>7, <3>8 DEF ParsedTo
    <3>. QED  BY <1>q, <1>r, <3>9
  <2>2. CASE ~Clash(out, r)
    <3>1. ASSUME NEW i \in 1..k  PROVE ~Clashing(line[i], r) /\ ~Clashing(r, line[i])
      <4>. SUFFICES ASSUME line[i].inh # r.inh, r.start < line[i].end  PROVE FALSE
        BY DEF Clashing
      <4>1. i \in 1..n /\ line[i].start <= r.start
        BY <1>n, <1>o, <1>r
      <4>2. Covers(line[i], r.start + 1)
        BY <1>l, <1>s, <4>1 DEF Covers
      <4>3. Has(out, r.start + 1, line[i].inh) /\ line[i].inh \in BOOLEAN
        <5>1. PICK b \in BOOLEAN, v \in Int : b = line[i].inh /\ v = r.start + 1
          BY <1>l, <1>s, <4>1
        <5>2. Has(out, v, b) <=> \E j \in 1..k : Covers(line[j], v) /\ line[j].inh = b
          BY <2>0, <2>o
        <5>. QED  BY <4>2, <5>1, <5>2
      <4>4. out # << >>
        BY <4>3 DEF Has
      <4>. QED  BY <2>2, <2>m, <4>3, <4>4 DEF Clash
    <3>2. ~Clashing(r, r)
      BY DEF Clashing
    <3>3. \A i, j \in 1..(k + 1) : ~Clashing(line[i], line[j])
      BY <1>k, <1>r, <2>0, <3>1, <3>2
    <3>4. /\ q.ok = TRUE /\ q.list \in Seq(Ranges) /\ Shortest(q.list)
          /\ \A v \in Int, b \in BOOLEAN : Has(q.list, v, b) <=> Has(out, v, b) \/ (Covers(r, v) /\ r.inh = b)
          /\ q.list # << >> /\ Last(q.list).start <= r.start
      <4>1. CASE out # << >> /\ Combines(Last(out), r, TRUE)
        <5>1. q = [list |-> SetLast(out, Combined(Last(out), r)), ok |-> TRUE]
          BY <1>q, <1>2, <2>o, <2>2, <4>1 DEF ParseStep
        <5>2. PICK c : c = SetLast(out, Combined(Last(out), r)) /\ q.list = c /\ q.ok = TRUE
          BY <5>1
        <5>3. Last(out).start <= r.start
          BY <2>m, <4>1
        <5>c. PICK consider \in BOOLEAN : consider = TRUE
          OBVIOUS
        <5>d. Tight(out, consider) /\ Combines(Last(out), r, consider)
          BY <2>t, <4>1, <5>c
        <5>4. /\ c \in Seq(Ranges) /\ Tight(c, consider) /\ c # << >> /\ Last(c).start = Last(out).start
              /\ \A v \in Int : On(c, v) <=> On(out, v) \/ Covers(r, v)
              /\ \A v \in Int : Has(out, v, TRUE) \/ (Covers(r, v) /\ r.inh) => Has(c, v, TRUE)
              /\ consider => \A v \in Int : \A b : Has(c, v, b) <=> Has(out, v, b) \/ (Covers(r, v) /\ r.inh = b)
              /\ Last(out).end <= r.start => \A i \in 1..Len(c) : c[i].end <= r.end
          BY <1>s, <2>t, <4>1, <5>2, <5>3, <5>d, CombineLast
        <5>. QED  BY <5>2, <5>3, <5>4, <5>c DEF Tight
      <4>2. CASE ~(out # << >> /\ Combines(Last(out), r, TRUE))
        <5>1. q = [list |-> Append(out, r), ok |-> TRUE]
          BY <1>q, <1>2, <2>o, <2>2, <4>2 DEF ParseStep
        <5>2. PICK c : c = Append(out, r) /\ q.list = c /\ q.ok = TRUE
          BY <5>1
        <5>3. out # << >> => Last(out).end <= r.start /\ ~Combines(Last(out), r, TRUE)
          BY <1>s, <2>2, <2>m, <4>2 DEF Clash, Combines
        <5>4. /\ c \in Seq(Ranges) /\ Tight(c, TRUE) /\ c # << >> /\ Last(c) = r
              /\ \A v, b : Has(c, v, b) <=> Has(out, v, b) \/ (Covers(r, v) /\ r.inh = b)
          BY <1>s, <2>t, <5>2, <5>3, AppendLast
        <5>. QED  BY <1>s, <5>2, <5>4 DEF Tight
      <4>. QED  BY <4>1, <4>2
    <3>5. ASSUME NEW v \in Int, NEW b \in BOOLEAN
          PROVE  Has(q.list, v, b) <=> \E j \in 1..(k + 1) : Covers(line[j], v) /\ line[j].inh = b
      <4>1. Has(out, v, b) <=> \E j \in 1..k : Covers(line[j], v) /\ line[j].inh = b
        BY <2>0, <2>o
      <4>2. 1..(k + 1) = 1..k \cup {k + 1}
        OBVIOUS
      <4>. QED  BY <1>r, <3>4, <4>1, <4>2
    <3>6. k + 1 # 0
      OBVIOUS
    <3>7. ParsedTo(line, k + 1, q)
      BY <1>r, <3>3, <3>4, <3>5, <3>6 DEF ParsedTo
    <3>. QED  BY <1>q, <1>r, <3>7
  <2>. QED  BY <2>1, <2>2
<1>. QED  BY <1>p, <1>1, <1>2

\* parse_revision_line: what the whole line gives.
LEMMA ParseWhole ==
  ASSUME NEW line \in Seq(Spans), \A i, j \in 1..Len(line) : i < j => ~Before(line[j], line[i]),
         NEW p, p = ParseLine(line)
  PROVE  ParsedTo(line, Len(line), p)
<1>n. PICK n \in Nat : n = Len(line)
  OBVIOUS
<1>1. PICK f : IsParse(f, line) /\ p = f[n]
  BY <1>n, ParseTurns
<1>. DEFINE C == {k \in Nat : k <= n => ParsedTo(line, k, f[k])}
<1>2. 0 \in C
  <2>1. f[0] = [list |-> << >>, ok |-> TRUE]
    BY <1>1 DEF IsParse
  <2>2. f[0].list = << >> /\ f[0].ok = TRUE /\ << >> \in Seq(Ranges) /\ Len(<< >>) = 0
    BY <2>1
  <2>3. Shortest(<< >>) /\ \A v, b : ~Has(<< >>, v, b)
    BY <2>2 DEF Shortest, Valid, Has
  <2>4. \A j \in 1..0 : FALSE
    OBVIOUS
  <2>5. ParsedTo(line, 0, f[0])
    BY <2>2, <2>3, <2>4 DEF ParsedTo
  <2>. QED  BY <2>5
<1>3. ASSUME NEW k \in Nat, k \in C  PROVE k + 1 \in C
  <2>. SUFFICES ASSUME k + 1 <= n  PROVE ParsedTo(line, k + 1, f[k + 1])
    OBVIOUS
  <2>1. ParsedTo(line, k, f[k])
    BY <1>3
  <2>. HIDE DEF C
  <2>2. k + 1 \in 1..Len(line) /\ (k + 1) - 1 = k
    BY <1>n
  <2>3. f[k + 1] = ParseStep(f[k], line[k + 1])
    BY <1>1, <2>2 DEF IsParse
  <2>4. k + 1 <= Len(line)
    BY <1>n
  <2>. QED  BY <2>1, <2>3, <2>4, ParseNext
<1>. HIDE DEF C
<1>4. n \in C
  BY <1>2, <1>3, SetInduction
<1>. QED  BY <1>n, <1>1, <1>4 DEF C

--------------------------------------------------------------------------------
(* Erasing and intersecting.                                                *)

\* The list k is out with the revisions s + 1 .. t added, of the inheritability b.
Extended(out, c, s, t, b, k) ==
  /\ k \in Seq(Ranges) /\ Tight(k, c)
  /\ \A v \in Int : On(k, v) <=> On(out, v) \/ (s < v /\ v <= t)
  /\ \A v \in Int : Has(out, v, TRUE) \/ (s < v /\ v <= t /\ b) => Has(k, v, TRUE)
  /\ c => \A v \in Int, d \in BOOLEAN : Has(k, v, d) <=> Has(out, v, d) \/ (s < v /\ v <= t /\ b = d)
  /\ \A i \in 1..Len(k) : k[i].end <= t

\* combine_with_lastrange adds a piece to a list that ends before it.
LEMMA AddPiece ==
  ASSUME NEW out \in Seq(Ranges), NEW c \in BOOLEAN, Tight(out, c), NEW s \in 0..N, NEW t \in 0..N, s <= t, NEW b \in BOOLEAN,
         \A i \in 1..Len(out) : out[i].end <= s,
         NEW k, k = IF s < t THEN WithLast(out, Span(s, t, b), c) ELSE out
  PROVE  Extended(out, c, s, t, b, k)
<1>. USE DEF Extended
<1>1. CASE s < t
  <2>1. PICK r : r = Span(s, t, b)
    OBVIOUS
  <2>2. r \in Ranges /\ r.start = s /\ r.end = t /\ r.inh = b
    BY <2>1, SpanFacts
  <2>3. r \in Spans /\ \A v \in Int : Covers(r, v) <=> s < v /\ v <= t
    BY <1>1, <2>2, RangeFacts DEF Covers
  <2>4. k = WithLast(out, r, c) /\ \A i \in 1..Len(out) : out[i].end <= r.start
    BY <1>1, <2>1, <2>2
  <2>5. /\ k = IF out # << >> /\ Combines(Last(out), r, c) THEN SetLast(out, Combined(Last(out), r))
               ELSE Append(out, r)
        /\ k \in Seq(Ranges) /\ Tight(k, c) /\ k # << >>
        /\ \A v \in Int : On(k, v) <=> On(out, v) \/ Covers(r, v)
        /\ \A v \in Int : Has(out, v, TRUE) \/ (Covers(r, v) /\ r.inh) => Has(k, v, TRUE)
        /\ c => \A v \in Int : \A d : Has(k, v, d) <=> Has(out, v, d) \/ (Covers(r, v) /\ r.inh = d)
        /\ \A i \in 1..Len(k) : k[i].end <= r.end
    BY <2>3, <2>4, WithLastFacts, ZenonT(40)
  <2>. QED  BY <2>2, <2>3, <2>5
<1>2. CASE ~(s < t)
  <2>1. k = out /\ s = t
    BY <1>2
  <2>2. \A v \in Int : ~(s < v /\ v <= t)
    BY <2>1
  <2>3. \A i \in 1..Len(k) : k[i].end <= t
    BY <2>1
  <2>. QED  BY <2>1, <2>2, <2>3
<1>. QED  BY <1>1, <1>2

\* What is left of a list when its first range is cut at y.
CutAt(two, y) == IF y < Head(two).end THEN <<Span(y, Head(two).end, Head(two).inh)>> \o Tail(two) ELSE Tail(two)

\* The list t is two without the revisions up to y.
Cut(two, y, t) ==
  /\ t \in Seq(Ranges) /\ Valid(t)
  /\ \A v \in Int : \A d : Has(t, v, d) <=> Has(two, v, d) /\ y < v
  /\ \A v \in Int : On(t, v) <=> On(two, v) /\ y < v
  /\ \A v \in Int : v <= y => (On(two, v) <=> Head(two).start < v)
  /\ \A v \in Int : \A d : v <= y => (Has(two, v, d) <=> Head(two).start < v /\ Head(two).inh = d)
  /\ t # << >> => y <= t[1].start
  /\ \A j \in 1..Len(t) : \E i \in 1..Len(two) : t[j].inh = two[i].inh

\* A list is cut at a revision that its first range reaches.
LEMMA CutFacts ==
  ASSUME NEW two \in Seq(Ranges), Valid(two), two # << >>, NEW y \in 0..N, Head(two).start <= y, y <= Head(two).end,
         NEW t, t = CutAt(two, y)
  PROVE  Cut(two, y, t)
<1>. USE DEF Cut
<1>b. PICK b : b = Head(two)
  OBVIOUS
<1>u. PICK u : u = Tail(two)
  OBVIOUS
<1>n. PICK n \in Nat : n = Len(two) /\ n >= 1
  OBVIOUS
<1>1. /\ b = two[1] /\ b \in Ranges /\ u \in Seq(Ranges) /\ Len(u) = n - 1
      /\ \A i \in 1..(n - 1) : u[i] = two[i + 1]
  BY <1>b, <1>u, <1>n, TailFacts
<1>2. /\ \A v : On(two, v) <=> On(u, v) \/ Covers(b, v)
      /\ \A v, d : Has(two, v, d) <=> Has(u, v, d) \/ (Covers(b, v) /\ b.inh = d)
  BY <1>b, <1>u, TailFacts
<1>3. /\ b.start \in 0..N /\ b.end \in 0..N /\ b.inh \in BOOLEAN /\ b.start < b.end
  BY <1>n, <1>1, RangeFacts DEF Valid
<1>4. \A i \in 1..n : two[i].start \in Int /\ two[i].end \in Int /\ two[i].start < two[i].end
  BY <1>n, Elements DEF Valid
<1>5. \A i \in 1..(n - 1) : two[i].end <= two[i + 1].start
  BY <1>n DEF Valid
<1>6. \A i \in 1..(n - 1) : b.end <= u[i].start /\ u[i].start < u[i].end /\ u[i].start \in Int /\ u[i].end \in Int
  <2>. TAKE i \in 1..(n - 1)
  <2>1. i + 1 \in 1..n /\ 1 \in 1..n /\ 1 < i + 1
    BY <1>n
  <2>2. two[1].end <= two[i + 1].start
    BY <1>n, <2>1, ValidOrder
  <2>. QED  BY <1>1, <1>4, <2>1, <2>2
<1>7. Valid(u)
  <2>1. ASSUME NEW i \in 1..(n - 1), i < n - 1  PROVE u[i].end <= u[i + 1].start
    <3>1. i + 1 \in 1..(n - 1)
      BY <2>1
    <3>. QED  BY <1>1, <1>5, <3>1
  <2>. QED  BY <1>1, <1>6, <2>1 DEF Valid
<1>8. \A v \in Int : (On(u, v) => b.end < v) /\ \A d : (Has(u, v, d) => b.end < v)
  <2>. TAKE v \in Int
  <2>1. ASSUME NEW i \in 1..(n - 1), Covers(u[i], v)  PROVE b.end < v
    BY <1>3, <1>6, <2>1 DEF Covers
  <2>2. On(u, v) => b.end < v
    BY <1>1, <2>1 DEF On
  <2>3. \A d : Has(u, v, d) => b.end < v
    BY <1>1, <2>1 DEF Has
  <2>. QED  BY <2>2, <2>3
<1>9. \A v \in Int : v <= y => (Covers(b, v) <=> b.start < v)
  BY <1>b, <1>3 DEF Covers
<1>10. /\ \A v \in Int : v <= y => (On(two, v) <=> b.start < v)
       /\ \A v \in Int : \A d : v <= y => (Has(two, v, d) <=> b.start < v /\ b.inh = d)
  <2>1. ASSUME NEW v \in Int, v <= y  PROVE ~On(u, v) /\ \A d : ~Has(u, v, d)
    BY <1>b, <1>3, <1>8, <2>1
  <2>. QED  BY <1>2, <1>9, <2>1
<1>11. CASE y < b.end
  <2>1. PICK q : q = Span(y, b.end, b.inh)
    OBVIOUS
  <2>2. q \in Ranges /\ q.start = y /\ q.end = b.end /\ q.inh = b.inh
    BY <1>3, <2>1, SpanFacts
  <2>3. t = <<q>> \o u
    BY <1>b, <1>u, <1>11, <2>1 DEF CutAt
  <2>4. /\ t \in Seq(Ranges) /\ Len(t) = Len(u) + 1 /\ t # << >>
        /\ Head(t) = q /\ t[1] = q /\ Tail(t) = u
    BY <1>1, <2>2, <2>3, ConsFacts
  <2>5. \A i \in 1..Len(u) : (<<q>> \o u)[i + 1] = u[i]
    BY <1>1, <2>2, ConsFacts
  <2>6. Len(t) = n /\ \A i \in 1..(n - 1) : t[i + 1] = u[i]
    BY <1>1, <2>3, <2>4, <2>5
  <2>7. /\ \A v : On(t, v) <=> On(u, v) \/ Covers(q, v)
        /\ \A v, d : Has(t, v, d) <=> Has(u, v, d) \/ (Covers(q, v) /\ q.inh = d)
    <3>1. /\ \A v : On(t, v) <=> On(Tail(t), v) \/ Covers(Head(t), v)
          /\ \A v, d : Has(t, v, d) <=> Has(Tail(t), v, d) \/ (Covers(Head(t), v) /\ Head(t).inh = d)
      BY <2>4, TailFacts
    <3>. QED  BY <2>4, <3>1
  <2>8. \A v \in Int : Covers(q, v) <=> Covers(b, v) /\ y < v
    BY <1>b, <1>3, <2>2 DEF Covers
  <2>9. \A v \in Int : b.end < v => y < v
    BY <1>3, <1>11
  <2>10. /\ \A v \in Int : On(t, v) <=> On(two, v) /\ y < v
         /\ \A v \in Int : \A d : Has(t, v, d) <=> Has(two, v, d) /\ y < v
    BY <1>2, <1>8, <2>2, <2>7, <2>8, <2>9
  <2>11. \A j \in 1..n : j = 1 \/ (j - 1 \in 1..(n - 1) /\ t[j] = u[j - 1])
    BY <2>6
  <2>12. Valid(t)
    <3>. SUFFICES ASSUME NEW j \in 1..n  PROVE t[j].start < t[j].end /\ (j < n => t[j].end <= t[j + 1].start)
      BY <2>6 DEF Valid
    <3>1. CASE j = 1
      <4>1. 1 < n => t[2] = u[1] /\ 1 \in 1..(n - 1)
        BY <2>6
      <4>. QED  BY <1>3, <1>6, <1>11, <2>2, <2>4, <3>1, <4>1
    <3>2. CASE j # 1
      <4>1. j - 1 \in 1..(n - 1) /\ t[j] = u[j - 1] /\ (j < n => t[j + 1] = u[j] /\ j \in 1..(n - 1) /\ (j - 1) + 1 = j)
        BY <2>6, <2>11, <3>2
      <4>2. j < n => u[j - 1].end <= u[j].start
        BY <1>1, <1>7, <4>1 DEF Valid
      <4>. QED  BY <1>6, <4>1, <4>2
    <3>. QED  BY <3>1, <3>2
  <2>13. \A j \in 1..Len(t) : \E i \in 1..Len(two) : t[j].inh = two[i].inh
    <3>. TAKE j \in 1..Len(t)
    <3>1. CASE j = 1
      BY <1>n, <1>1, <2>2, <2>4, <3>1
    <3>2. CASE j # 1
      <4>1. j \in 1..n /\ j - 1 \in 1..(n - 1) /\ (j - 1) + 1 = j
        BY <2>6, <3>2
      <4>2. t[j] = two[j]
        BY <1>1, <2>11, <3>2, <4>1
      <4>. QED  BY <1>n, <4>1, <4>2
    <3>. QED  BY <3>1, <3>2
  <2>14. y <= t[1].start
    BY <2>2, <2>4
  <2>. QED  BY <1>b, <1>10, <2>4, <2>10, <2>12, <2>13, <2>14
<1>12. CASE ~(y < b.end)
  <2>1. t = u /\ y = b.end
    BY <1>b, <1>u, <1>3, <1>12 DEF CutAt
  <2>2. \A v \in Int : Covers(b, v) => ~(y < v)
    BY <1>3, <2>1 DEF Covers
  <2>3. /\ \A v \in Int : On(t, v) <=> On(two, v) /\ y < v
        /\ \A v \in Int : \A d : Has(t, v, d) <=> Has(two, v, d) /\ y < v
    BY <1>2, <1>8, <2>1, <2>2
  <2>4. \A j \in 1..Len(t) : \E i \in 1..Len(two) : t[j].inh = two[i].inh
    <3>. TAKE j \in 1..Len(t)
    <3>1. j \in 1..(n - 1) /\ j + 1 \in 1..n /\ t[j] = two[j + 1]
      BY <1>1, <2>1
    <3>. QED  BY <1>n, <3>1
  <2>5. t # << >> => y <= t[1].start
    BY <1>1, <1>6, <2>1
  <2>. QED  BY <1>b, <1>1, <1>7, <1>10, <2>1, <2>3, <2>4, <2>5
<1>. QED  BY <1>11, <1>12

\* Every range of one list can be compared with every one of the other.
Alike(l, k, c) == \A i \in 1..Len(l), j \in 1..Len(k) : Same(l[i], k[j], c)

\* The revisions of the whiteboard w are divided: some have been left (e), some kept (x), the rest is still
\* to come (two); by is the eraser, of which one is still to come.
Divided(w, e, x, two) ==
  /\ \A v \in Int : On(w, v) <=> On(e, v) \/ On(x, v) \/ On(two, v)
  /\ \A v \in Int : ~(On(e, v) /\ On(x, v))
  /\ two # << >> => /\ \A i \in 1..Len(e) : e[i].end <= two[1].start
                    /\ \A i \in 1..Len(x) : x[i].end <= two[1].start

\* The inheritability of what was left and kept: the old one where inheritance counts, else at least that.
Inherited(by, w, c, e, x) ==
  /\ c => \A v \in Int, d \in BOOLEAN : /\ Has(e, v, d) => Has(w, v, d)
                                        /\ Has(x, v, d) => Has(w, v, d) /\ Has(by, v, d)
  /\ ~c => \A v \in Int : /\ On(e, v) /\ Has(w, v, TRUE) => Has(e, v, TRUE)
                          /\ On(x, v) /\ (Has(w, v, TRUE) \/ Has(by, v, TRUE)) => Has(x, v, TRUE)

\* What is still to come is a part of the lists; if they do not mix, what was kept is in the eraser, and what
\* was left is not.
Matched(by, w, c, one, two, e, x) ==
  /\ \A v \in Int, d \in BOOLEAN : (Has(two, v, d) => Has(w, v, d)) /\ (Has(one, v, d) => Has(by, v, d))
  /\ Alike(by, w, c) =>
       /\ Alike(one, two, c)
       /\ \A v \in Int : (On(e, v) => ~On(by, v)) /\ (On(x, v) => On(by, v))
       /\ \A v \in Int, d \in BOOLEAN : On(two, v) /\ Has(by, v, d) => Has(one, v, d)

\* The invariant of the loop of rangelist_intersect_or_remove.
SplitInv(by, w, c, one, two, e, x) ==
  /\ one \in Seq(Ranges) /\ two \in Seq(Ranges) /\ e \in Seq(Ranges) /\ x \in Seq(Ranges)
  /\ Valid(one) /\ Valid(two) /\ Tight(e, c) /\ Tight(x, c)
  /\ Divided(w, e, x, two) /\ Inherited(by, w, c, e, x) /\ Matched(by, w, c, one, two, e, x)

\* The list t is one without its first range.
Passed(one, t) ==
  /\ t \in Seq(Ranges) /\ Valid(t)
  /\ \A v, d : Has(one, v, d) <=> Has(t, v, d) \/ (Covers(Head(one), v) /\ Head(one).inh = d)
  /\ \A v, d : Has(t, v, d) => Has(one, v, d)
  /\ \A j \in 1..Len(t) : \E i \in 1..Len(one) : t[j].inh = one[i].inh

\* A range of the eraser is passed.
LEMMA PassRange ==
  ASSUME NEW one \in Seq(Ranges), Valid(one), one # << >>, NEW t, t = Tail(one)
  PROVE  Passed(one, t)
<1>. USE DEF Passed
<1>1. PICK y : y = Head(one).end
  OBVIOUS
<1>2. /\ Head(one) = one[1] /\ Head(one) \in Ranges /\ 1 \in 1..Len(one)
  BY TailFacts
<1>3. Head(one).start < Head(one).end /\ Head(one).start \in 0..N /\ y \in 0..N
  BY <1>1, <1>2, RangeFacts DEF Valid
<1>4. t = CutAt(one, y) /\ Head(one).start <= y /\ y <= Head(one).end
  BY <1>1, <1>3 DEF CutAt
<1>5. /\ t \in Seq(Ranges) /\ Valid(t)
      /\ \A v \in Int : \A d : Has(t, v, d) <=> Has(one, v, d) /\ y < v
      /\ \A v \in Int : On(t, v) <=> On(one, v) /\ y < v
      /\ \A v \in Int : v <= y => (On(one, v) <=> Head(one).start < v)
      /\ \A v \in Int : \A d : v <= y => (Has(one, v, d) <=> Head(one).start < v /\ Head(one).inh = d)
      /\ t # << >> => y <= t[1].start
      /\ \A j \in 1..Len(t) : \E i \in 1..Len(one) : t[j].inh = one[i].inh
  <2>1. Cut(one, y, t)
    BY <1>3, <1>4, CutFacts
  <2>. QED  BY <2>1 DEF Cut
<1>6. \A v, d : Has(one, v, d) <=> Has(t, v, d) \/ (Covers(Head(one), v) /\ Head(one).inh = d)
  BY TailFacts
<1>. QED  BY <1>5, <1>6

\* The part up to y of the first range of two is consumed: up to u it is left, from there on it is kept.
Consumes(c, one, two, e, x, u, y, b, one2, two2, e2, x2) ==
  /\ two # << >> /\ Head(two).start <= u /\ u <= y /\ y <= Head(two).end
  /\ e2 = IF Head(two).start < u THEN WithLast(e, Span(Head(two).start, u, Head(two).inh), c) ELSE e
  /\ x2 = IF u < y THEN WithLast(x, Span(u, y, b), c) ELSE x
  /\ u < y => /\ one # << >> /\ Head(one).start <= u /\ y <= Head(one).end /\ Same(Head(one), Head(two), c)
              /\ b = (Head(one).inh \/ Head(two).inh)
  /\ Alike(one, two, c) => \A v \in Int : Head(two).start < v /\ v <= u => ~On(one, v)
  /\ one2 = one \/ (one # << >> /\ Head(one).end <= y /\ one2 = Tail(one))
  /\ two2 = CutAt(two, y)

\* The first range b of the whiteboard is consumed up to y: what is before u is left, what is between
\* u and y is kept because of the first range a of the eraser.
LEMMA Consume ==
  ASSUME NEW by \in Seq(Ranges), Valid(by), NEW w \in Seq(Ranges), Valid(w), NEW c \in BOOLEAN,
         NEW one, NEW two, NEW e, NEW x, SplitInv(by, w, c, one, two, e, x),
         NEW u \in 0..N, NEW y \in 0..N, NEW b \in BOOLEAN, NEW one2, NEW two2, NEW e2, NEW x2,
         Consumes(c, one, two, e, x, u, y, b, one2, two2, e2, x2)
  PROVE  SplitInv(by, w, c, one2, two2, e2, x2)
<1>. SUFFICES
       ASSUME two # << >>, Head(two).start <= u, u <= y, y <= Head(two).end,
              e2 = IF Head(two).start < u THEN WithLast(e, Span(Head(two).start, u, Head(two).inh), c) ELSE e,
              x2 = IF u < y THEN WithLast(x, Span(u, y, b), c) ELSE x,
              u < y => /\ one # << >> /\ Head(one).start <= u /\ y <= Head(one).end /\ Same(Head(one), Head(two), c)
                       /\ b = (Head(one).inh \/ Head(two).inh),
              Alike(one, two, c) => \A v \in Int : Head(two).start < v /\ v <= u => ~On(one, v),
              one2 = one \/ (one # << >> /\ Head(one).end <= y /\ one2 = Tail(one)),
              two2 = CutAt(two, y)
       PROVE  SplitInv(by, w, c, one2, two2, e2, x2)
  BY DEF Consumes
<1>i. /\ one \in Seq(Ranges) /\ two \in Seq(Ranges) /\ e \in Seq(Ranges) /\ x \in Seq(Ranges)
      /\ Valid(one) /\ Valid(two) /\ Tight(e, c) /\ Tight(x, c)
  BY DEF SplitInv
<1>d. Divided(w, e, x, two) /\ Inherited(by, w, c, e, x) /\ Matched(by, w, c, one, two, e, x)
  BY DEF SplitInv
<1>b. PICK h : h = Head(two)
  OBVIOUS
<1>h. /\ h = two[1] /\ h \in Ranges /\ h.start \in 0..N /\ h.end \in 0..N /\ h.inh \in BOOLEAN /\ h.start < h.end
      /\ h.start <= u /\ y <= h.end
  <2>1. h = two[1] /\ h \in Ranges /\ 1 \in 1..Len(two)
    BY <1>b, <1>i, TailFacts
  <2>. QED  BY <1>b, <1>i, <2>1, RangeFacts DEF Valid
<1>1. /\ two2 \in Seq(Ranges) /\ Valid(two2)
      /\ \A v \in Int : \A d : Has(two2, v, d) <=> Has(two, v, d) /\ y < v
      /\ \A v \in Int : On(two2, v) <=> On(two, v) /\ y < v
      /\ \A v \in Int : v <= y => (On(two, v) <=> h.start < v)
      /\ \A v \in Int : \A d : v <= y => (Has(two, v, d) <=> h.start < v /\ h.inh = d)
      /\ two2 # << >> => y <= two2[1].start
      /\ \A j \in 1..Len(two2) : \E i \in 1..Len(two) : two2[j].inh = two[i].inh
  <2>1. two \in Seq(Ranges) /\ Valid(two) /\ Head(two).start <= y
    BY <1>b, <1>h, <1>i
  <2>2. Cut(two, y, two2)
    BY <2>1, CutFacts
  <2>. QED  BY <1>b, <2>2 DEF Cut
<1>2. /\ \A i \in 1..Len(e) : e[i].end <= h.start
      /\ \A i \in 1..Len(x) : x[i].end <= u
  <2>1. /\ \A i \in 1..Len(e) : e[i].end <= h.start
        /\ \A i \in 1..Len(x) : x[i].end <= h.start
    BY <1>d, <1>h DEF Divided
  <2>. QED  BY <1>i, <1>h, <2>1, Elements
<1>3. /\ e2 \in Seq(Ranges) /\ Tight(e2, c)
      /\ \A v \in Int : On(e2, v) <=> On(e, v) \/ (h.start < v /\ v <= u)
      /\ \A v \in Int : Has(e, v, TRUE) \/ (h.start < v /\ v <= u /\ h.inh) => Has(e2, v, TRUE)
      /\ c => \A v \in Int, d \in BOOLEAN : Has(e2, v, d) <=> Has(e, v, d) \/ (h.start < v /\ v <= u /\ h.inh = d)
      /\ \A i \in 1..Len(e2) : e2[i].end <= u
  <2>1. e2 = IF h.start < u THEN WithLast(e, Span(h.start, u, h.inh), c) ELSE e
    BY <1>b
  <2>2. PICK s \in 0..N, d \in BOOLEAN : s = h.start /\ d = h.inh
    BY <1>h
  <2>3. e \in Seq(Ranges) /\ Tight(e, c) /\ s <= u /\ \A i \in 1..Len(e) : e[i].end <= s
    BY <1>i, <1>h, <1>2, <2>2
  <2>4. e2 = IF s < u THEN WithLast(e, Span(s, u, d), c) ELSE e
    BY <2>1, <2>2
  <2>5. Extended(e, c, s, u, d, e2)
    BY <2>3, <2>4, AddPiece
  <2>. QED  BY <2>2, <2>5 DEF Extended
<1>4. /\ x2 \in Seq(Ranges) /\ Tight(x2, c)
      /\ \A v \in Int : On(x2, v) <=> On(x, v) \/ (u < v /\ v <= y)
      /\ \A v \in Int : Has(x, v, TRUE) \/ (u < v /\ v <= y /\ b) => Has(x2, v, TRUE)
      /\ c => \A v \in Int, d \in BOOLEAN : Has(x2, v, d) <=> Has(x, v, d) \/ (u < v /\ v <= y /\ b = d)
      /\ \A i \in 1..Len(x2) : x2[i].end <= y
  <2>1. x \in Seq(Ranges) /\ Tight(x, c) /\ \A i \in 1..Len(x) : x[i].end <= u
    BY <1>i, <1>2
  <2>2. Extended(x, c, u, y, b, x2)
    BY <2>1, AddPiece
  <2>. QED  BY <2>2 DEF Extended
<1>5. /\ one2 \in Seq(Ranges) /\ Valid(one2)
      /\ \A v \in Int, d \in BOOLEAN : Has(one2, v, d) => Has(one, v, d)
      /\ \A v \in Int, d \in BOOLEAN : y < v /\ Has(one, v, d) => Has(one2, v, d)
      /\ \A j \in 1..Len(one2) : \E i \in 1..Len(one) : one2[j].inh = one[i].inh
  <2>1. CASE one2 = one
    BY <1>i, <2>1
  <2>2. CASE one # << >> /\ Head(one).end <= y /\ one2 = Tail(one)
    <3>0. one \in Seq(Ranges) /\ Valid(one) /\ one # << >> /\ one2 = Tail(one)
      BY <1>i, <2>2
    <3>1. Passed(one, one2)
      BY <3>0, PassRange
    <3>2. Head(one).end \in Int
      BY <1>i, <2>2, TailFacts, RangeFacts
    <3>3. \A v \in Int : y < v => ~Covers(Head(one), v)
      BY <2>2, <3>2 DEF Covers
    <3>. QED  BY <3>1, <3>3 DEF Passed
  <2>. QED  BY <2>1, <2>2
<1>t. \A v \in Int : (h.start < v /\ v <= y) <=> (h.start < v /\ v <= u) \/ (u < v /\ v <= y)
  BY <1>h
<1>6. \A v \in Int : On(w, v) <=> On(e2, v) \/ On(x2, v) \/ On(two2, v)
  <2>. TAKE v \in Int
  <2>1. On(w, v) <=> On(e, v) \/ On(x, v) \/ On(two, v)
    BY <1>d DEF Divided
  <2>2. On(two, v) <=> (h.start < v /\ v <= y) \/ On(two2, v)
    <3>1. CASE v <= y
      BY <1>1, <3>1
    <3>2. CASE y < v
      BY <1>1, <3>2
    <3>. QED  BY <3>1, <3>2
  <2>. QED  BY <1>t, <1>3, <1>4, <2>1, <2>2
<1>7. ASSUME NEW v \in Int, On(e, v) \/ On(x, v)  PROVE v <= h.start
  <2>1. ASSUME NEW i \in 1..Len(e), Covers(e[i], v)  PROVE v <= h.start
    <3>1. e[i].end <= h.start /\ e[i].end \in Int
      BY <1>i, <1>2, Elements
    <3>. QED  BY <1>h, <2>1, <3>1 DEF Covers
  <2>2. ASSUME NEW i \in 1..Len(x), Covers(x[i], v)  PROVE v <= h.start
    <3>1. x[i].end <= h.start /\ x[i].end \in Int
      BY <1>d, <1>h, <1>i, Elements DEF Divided
    <3>. QED  BY <1>h, <2>2, <3>1 DEF Covers
  <2>. QED  BY <1>7, <2>1, <2>2 DEF On
<1>8. \A v \in Int : ~(On(e2, v) /\ On(x2, v))
  <2>. SUFFICES ASSUME NEW v \in Int, On(e2, v), On(x2, v)  PROVE FALSE
    OBVIOUS
  <2>1. On(e, v) \/ (h.start < v /\ v <= u)
    BY <1>3
  <2>2. On(x, v) \/ (u < v /\ v <= y)
    BY <1>4
  <2>3. ~(On(e, v) /\ On(x, v))
    BY <1>d DEF Divided
  <2>4. On(e, v) \/ On(x, v) => v <= h.start
    BY <1>7
  <2>. QED  BY <1>h, <2>1, <2>2, <2>3, <2>4
<1>9. Divided(w, e2, x2, two2)
  <2>. SUFFICES ASSUME two2 # << >>
                PROVE  /\ \A i \in 1..Len(e2) : e2[i].end <= two2[1].start
                       /\ \A i \in 1..Len(x2) : x2[i].end <= two2[1].start
    BY <1>6, <1>8 DEF Divided
  <2>1. y <= two2[1].start /\ two2[1].start \in Int
    BY <1>1, Elements
  <2>2. ASSUME NEW i \in 1..Len(e2)  PROVE e2[i].end <= two2[1].start
    <3>1. e2[i].end \in Int /\ e2[i].end <= u
      BY <1>3, Elements
    <3>. QED  BY <2>1, <3>1
  <2>3. ASSUME NEW i \in 1..Len(x2)  PROVE x2[i].end <= two2[1].start
    <3>1. x2[i].end \in Int /\ x2[i].end <= y
      BY <1>4, Elements
    <3>. QED  BY <2>1, <3>1
  <2>. QED  BY <2>2, <2>3
<1>10. Inherited(by, w, c, e2, x2)
  <2>1. ASSUME c, NEW v \in Int, NEW d \in BOOLEAN
        PROVE  /\ Has(e2, v, d) => Has(w, v, d)
               /\ Has(x2, v, d) => Has(w, v, d) /\ Has(by, v, d)
    <3>1. /\ Has(e, v, d) => Has(w, v, d)
          /\ Has(x, v, d) => Has(w, v, d) /\ Has(by, v, d)
          /\ Has(two, v, d) => Has(w, v, d)
          /\ Has(one, v, d) => Has(by, v, d)
      BY <1>d, <2>1 DEF Inherited, Matched
    <3>2. h.start < v /\ v <= y /\ h.inh = d => Has(two, v, d)
      BY <1>1
    <3>3. Has(e2, v, d) => Has(w, v, d)
      <4>1. Has(e2, v, d) => Has(e, v, d) \/ (h.start < v /\ v <= u /\ h.inh = d)
        BY <1>3, <2>1
      <4>2. v <= u => v <= y
        OBVIOUS
      <4>. QED  BY <3>1, <3>2, <4>1, <4>2
    <3>4. ASSUME u < v, v <= y, b = d  PROVE Has(w, v, d) /\ Has(by, v, d)
      <4>1. PICK a : a = Head(one)
        OBVIOUS
      <4>2. /\ one # << >> /\ a.start <= u /\ y <= a.end /\ Same(a, h, c) /\ b = (a.inh \/ h.inh)
        BY <1>b, <3>4, <4>1
      <4>3. a \in Ranges /\ a.start \in Int /\ a.end \in Int /\ a.inh \in BOOLEAN
        BY <1>i, <4>1, <4>2, TailFacts, RangeFacts
      <4>4. a.inh = h.inh /\ a.inh = d
        BY <1>h, <2>1, <3>4, <4>2, <4>3 DEF Same
      <4>5. Covers(a, v)
        BY <3>4, <4>2, <4>3 DEF Covers
      <4>6. Has(one, v, d)
        BY <1>i, <4>1, <4>2, <4>4, <4>5, TailFacts
      <4>7. Has(two, v, d)
        BY <1>h, <3>2, <3>4, <4>4
      <4>. QED  BY <3>1, <4>6, <4>7
    <3>. QED  BY <1>4, <2>1, <3>1, <3>3, <3>4
  <2>2. ASSUME ~c, NEW v \in Int
        PROVE  /\ On(e2, v) /\ Has(w, v, TRUE) => Has(e2, v, TRUE)
               /\ On(x2, v) /\ (Has(w, v, TRUE) \/ Has(by, v, TRUE)) => Has(x2, v, TRUE)
    <3>1. /\ On(e, v) /\ Has(w, v, TRUE) => Has(e, v, TRUE)
          /\ On(x, v) /\ (Has(w, v, TRUE) \/ Has(by, v, TRUE)) => Has(x, v, TRUE)
      BY <1>d, <2>2 DEF Inherited
    <3>2. ASSUME h.start < v, v <= y, Has(w, v, TRUE)  PROVE h.inh
      <4>1. CASE h.inh = FALSE
        <5>1. Has(two, v, FALSE)
          BY <1>1, <3>2, <4>1
        <5>2. Has(w, v, FALSE)
          BY <1>d, <5>1 DEF Matched
        <5>. QED  BY <3>2, <5>2, OneCovers
      <4>. QED  BY <1>h, <4>1
    <3>3. ASSUME u < v, v <= y, Has(by, v, TRUE)  PROVE b
      <4>1. PICK a : a = Head(one)
        OBVIOUS
      <4>2. /\ one # << >> /\ a.start <= u /\ y <= a.end /\ b = (a.inh \/ h.inh)
        BY <1>b, <3>3, <4>1
      <4>3. a \in Ranges /\ a.start \in Int /\ a.end \in Int /\ a.inh \in BOOLEAN
        BY <1>i, <4>1, <4>2, TailFacts, RangeFacts
      <4>4. Covers(a, v)
        BY <3>3, <4>2, <4>3 DEF Covers
      <4>5. CASE a.inh = FALSE
        <5>1. Has(one, v, FALSE)
          BY <1>i, <4>1, <4>2, <4>4, <4>5, TailFacts
        <5>2. Has(by, v, FALSE)
          BY <1>d, <5>1 DEF Matched
        <5>. QED  BY <3>3, <5>2, OneCovers
      <4>. QED  BY <1>h, <4>2, <4>3, <4>5
    <3>4. ASSUME u < v, v <= y, Has(w, v, TRUE)  PROVE b
      <4>1. h.inh
        BY <1>h, <3>2, <3>4
      <4>. QED  BY <1>b, <3>4, <4>1
    <3>5. On(e2, v) /\ Has(w, v, TRUE) => Has(e2, v, TRUE)
      <4>1. On(e2, v) => On(e, v) \/ (h.start < v /\ v <= u)
        BY <1>3
      <4>2. Has(e, v, TRUE) \/ (h.start < v /\ v <= u /\ h.inh) => Has(e2, v, TRUE)
        BY <1>3
      <4>3. v <= u => v <= y
        OBVIOUS
      <4>. QED  BY <3>1, <3>2, <4>1, <4>2, <4>3
    <3>6. On(x2, v) /\ (Has(w, v, TRUE) \/ Has(by, v, TRUE)) => Has(x2, v, TRUE)
      BY <1>4, <3>1, <3>3, <3>4
    <3>. QED  BY <3>5, <3>6
  <2>. QED  BY <2>1, <2>2 DEF Inherited
<1>11. Matched(by, w, c, one2, two2, e2, x2)
  <2>1. \A v \in Int, d \in BOOLEAN : (Has(two2, v, d) => Has(w, v, d)) /\ (Has(one2, v, d) => Has(by, v, d))
    BY <1>d, <1>1, <1>5 DEF Matched
  <2>2. ASSUME Alike(by, w, c)
        PROVE  /\ Alike(one2, two2, c)
               /\ \A v \in Int : (On(e2, v) => ~On(by, v)) /\ (On(x2, v) => On(by, v))
               /\ \A v \in Int, d \in BOOLEAN : On(two2, v) /\ Has(by, v, d) => Has(one2, v, d)
    <3>1. /\ Alike(one, two, c)
          /\ \A v \in Int : (On(e, v) => ~On(by, v)) /\ (On(x, v) => On(by, v))
          /\ \A v \in Int, d \in BOOLEAN : On(two, v) /\ Has(by, v, d) => Has(one, v, d)
      BY <1>d, <2>2 DEF Matched
    <3>2. Alike(one2, two2, c)
      <4>. SUFFICES ASSUME NEW i \in 1..Len(one2), NEW j \in 1..Len(two2)  PROVE Same(one2[i], two2[j], c)
        BY DEF Alike
      <4>1. PICK k \in 1..Len(one) : one2[i].inh = one[k].inh
        BY <1>5
      <4>2. PICK m \in 1..Len(two) : two2[j].inh = two[m].inh
        BY <1>1
      <4>3. Same(one[k], two[m], c)
        BY <3>1 DEF Alike
      <4>. QED  BY <4>1, <4>2, <4>3 DEF Same
    <3>3. ASSUME NEW v \in Int, h.start < v, v <= u  PROVE ~On(by, v)
      <4>1. ~On(one, v) /\ On(two, v)
        BY <1>b, <1>h, <1>1, <3>1, <3>3
      <4>2. ~Has(by, v, TRUE) /\ ~Has(by, v, FALSE)
        BY <1>i, <3>1, <4>1, OnHas
      <4>. QED  BY <4>2, OnHas
    <3>4. ASSUME NEW v \in Int, u < v, v <= y  PROVE On(by, v)
      <4>1. PICK a : a = Head(one)
        OBVIOUS
      <4>2. one # << >> /\ a.start <= u /\ y <= a.end
        BY <3>4, <4>1
      <4>3. a \in Ranges /\ a.start \in Int /\ a.end \in Int
        BY <1>i, <4>1, <4>2, TailFacts, RangeFacts
      <4>4. On(one, v)
        <5>1. Covers(a, v)
          BY <3>4, <4>2, <4>3 DEF Covers
        <5>. QED  BY <1>i, <4>1, <4>2, <5>1, TailFacts
      <4>5. Has(by, v, TRUE) \/ Has(by, v, FALSE)
        BY <1>d, <1>i, <4>4, OnHas DEF Matched
      <4>. QED  BY <4>5, OnHas
    <3>5. \A v \in Int : (On(e2, v) => ~On(by, v)) /\ (On(x2, v) => On(by, v))
      BY <1>3, <1>4, <3>1, <3>3, <3>4
    <3>6. \A v \in Int, d \in BOOLEAN : On(two2, v) /\ Has(by, v, d) => Has(one2, v, d)
      BY <1>1, <1>5, <3>1
    <3>. QED  BY <3>2, <3>5, <3>6
  <2>. QED  BY <2>1, <2>2 DEF Matched
<1>. QED  BY <1>1, <1>3, <1>4, <1>5, <1>9, <1>10, <1>11 DEF SplitInv

\* A range of the eraser that ends before the whiteboard goes on is passed.
LEMMA DropRange ==
  ASSUME NEW by \in Seq(Ranges), NEW w \in Seq(Ranges), NEW c \in BOOLEAN,
         NEW one, NEW two, NEW e, NEW x, SplitInv(by, w, c, one, two, e, x), two # << >>, one # << >>,
         Alike(one, two, c) => Head(one).end <= Head(two).start,
         NEW one2, one2 = Tail(one)
  PROVE  SplitInv(by, w, c, one2, two, e, x)
<1>i. /\ one \in Seq(Ranges) /\ two \in Seq(Ranges) /\ e \in Seq(Ranges) /\ x \in Seq(Ranges)
      /\ Valid(one) /\ Valid(two) /\ Tight(e, c) /\ Tight(x, c)
  BY DEF SplitInv
<1>d. Divided(w, e, x, two) /\ Inherited(by, w, c, e, x) /\ Matched(by, w, c, one, two, e, x)
  BY DEF SplitInv
<1>1. Passed(one, one2)
  BY <1>i, PassRange
<1>2. /\ one2 \in Seq(Ranges) /\ Valid(one2)
      /\ \A v, d : Has(one, v, d) <=> Has(one2, v, d) \/ (Covers(Head(one), v) /\ Head(one).inh = d)
      /\ \A v, d : Has(one2, v, d) => Has(one, v, d)
      /\ \A j \in 1..Len(one2) : \E i \in 1..Len(one) : one2[j].inh = one[i].inh
  BY <1>1 DEF Passed
<1>3. \A v \in Int, d \in BOOLEAN : (Has(two, v, d) => Has(w, v, d)) /\ (Has(one2, v, d) => Has(by, v, d))
  BY <1>d, <1>2 DEF Matched
<1>4. ASSUME Alike(by, w, c)
      PROVE  /\ Alike(one2, two, c)
             /\ \A v \in Int : (On(e, v) => ~On(by, v)) /\ (On(x, v) => On(by, v))
             /\ \A v \in Int, d \in BOOLEAN : On(two, v) /\ Has(by, v, d) => Has(one2, v, d)
  <2>1. /\ Alike(one, two, c)
        /\ \A v \in Int : (On(e, v) => ~On(by, v)) /\ (On(x, v) => On(by, v))
        /\ \A v \in Int, d \in BOOLEAN : On(two, v) /\ Has(by, v, d) => Has(one, v, d)
    BY <1>d, <1>4 DEF Matched
  <2>2. Alike(one2, two, c)
    <3>. SUFFICES ASSUME NEW i \in 1..Len(one2), NEW j \in 1..Len(two)  PROVE Same(one2[i], two[j], c)
      BY DEF Alike
    <3>1. PICK k \in 1..Len(one) : one2[i].inh = one[k].inh
      BY <1>2
    <3>2. Same(one[k], two[j], c)
      BY <2>1 DEF Alike
    <3>. QED  BY <3>1, <3>2 DEF Same
  <2>3. PICK a, h : a = Head(one) /\ h = Head(two)
    OBVIOUS
  <2>4. /\ a \in Ranges /\ a.end \in Int /\ h = two[1] /\ h \in Ranges /\ h.start \in 0..N /\ h.end \in 0..N
        /\ h.start < h.end /\ a.end <= h.start
    <3>1. a \in Ranges /\ h = two[1] /\ h \in Ranges /\ 1 \in 1..Len(two)
      BY <1>i, <2>3, TailFacts
    <3>2. h.start < h.end
      BY <1>i, <3>1 DEF Valid
    <3>. QED  BY <2>1, <2>3, <3>1, <3>2, RangeFacts
  <2>5. ASSUME NEW v \in Int, On(two, v)  PROVE h.start < v
    <3>1. PICK j \in 1..Len(two) : Covers(two[j], v)
      BY <2>5 DEF On
    <3>2. CASE j = 1
      BY <2>4, <3>1, <3>2 DEF Covers
    <3>3. CASE j # 1
      <4>1. 1 \in 1..Len(two) /\ 1 < j
        BY <1>i, <3>3
      <4>2. two[1].end <= two[j].start
        BY <1>i, <4>1, ValidOrder
      <4>3. two[j].start \in Int
        BY <1>i, Elements
      <4>. QED  BY <2>4, <3>1, <4>2, <4>3 DEF Covers
    <3>. QED  BY <3>2, <3>3
  <2>6. ASSUME NEW v \in Int, NEW d \in BOOLEAN, On(two, v), Has(by, v, d)  PROVE Has(one2, v, d)
    <3>1. Has(one, v, d)
      BY <2>1, <2>6
    <3>2. ~Covers(a, v)
      BY <2>4, <2>5, <2>6 DEF Covers
    <3>. QED  BY <1>2, <2>3, <3>1, <3>2
  <2>. QED  BY <2>1, <2>2, <2>6
<1>5. Matched(by, w, c, one2, two, e, x)
  BY <1>3, <1>4 DEF Matched
<1>. QED  BY <1>i, <1>d, <1>2, <1>5 DEF SplitInv

\* What erasing (s) and intersecting (t) have done after the same number of turns.
SplitState(by, w, c, s, t) ==
  t.one = s.one /\ t.two = s.two /\ SplitInv(by, w, c, s.one, s.two, s.out, t.out)

\* A bound on the turns that are left.
Passing(one, two)  == one # << >> /\ two # << >> /\ Head(one).end <= Head(two).start
TurnsLeft(one, two) == 2 * Len(one) + Len(two) - IF Passing(one, two) THEN 1 ELSE 0

\* The first ranges of the two lists, and where the eraser begins.
LEMMA FirstRanges ==
  ASSUME NEW one \in Seq(Ranges), Valid(one), one # << >>
  PROVE  /\ Head(one) = one[1] /\ Head(one) \in Ranges /\ Head(one).start \in 0..N /\ Head(one).end \in 0..N
         /\ Head(one).start \in Int /\ Head(one).end \in Int
         /\ Head(one).inh \in BOOLEAN /\ Head(one).start < Head(one).end
         /\ Head(one) = Span(Head(one).start, Head(one).end, Head(one).inh)
         /\ \A v \in Int : On(one, v) => Head(one).start < v
         /\ Len(one) \in Nat /\ Len(one) >= 1 /\ Tail(one) \in Seq(Ranges) /\ Len(Tail(one)) = Len(one) - 1
<1>n. PICK n \in Nat : n = Len(one) /\ n >= 1
  OBVIOUS
<1>a. PICK a : a = Head(one)
  OBVIOUS
<1>1. a = one[1] /\ a \in Ranges /\ 1 \in 1..n /\ Tail(one) \in Seq(Ranges) /\ Len(Tail(one)) = n - 1
  BY <1>n, <1>a, TailFacts
<1>2. a.start \in 0..N /\ a.end \in 0..N /\ a.inh \in BOOLEAN /\ a.start \in Int /\ a.end \in Int
  BY <1>1, RangeFacts
<1>3. a.start < a.end
  BY <1>n, <1>1 DEF Valid
<1>4. a = Span(a.start, a.end, a.inh)
  BY <1>1 DEF Ranges, Span
<1>5. ASSUME NEW v \in Int, On(one, v)  PROVE a.start < v
  <2>1. PICK j \in 1..n : Covers(one[j], v)
    BY <1>n, <1>5 DEF On
  <2>2. CASE j = 1
    BY <1>1, <1>2, <2>1, <2>2 DEF Covers
  <2>3. CASE j # 1
    <3>1. 1 \in 1..Len(one) /\ j \in 1..Len(one) /\ 1 < j
      BY <1>n, <2>3
    <3>2. one[1].end <= one[j].start
      BY <3>1, ValidOrder
    <3>3. one[j].start \in Int
      BY <3>1, Elements
    <3>. QED  BY <1>1, <1>2, <1>3, <2>1, <3>2, <3>3 DEF Covers
  <2>. QED  BY <2>2, <2>3
<1>. QED  BY <1>n, <1>a, <1>1, <1>2, <1>3, <1>4, <1>5

\* The loop takes a turn in each of them.
BothTurn(s, t, s2, t2, c) == s2 = IntersectTurn(s, TRUE, c) /\ t2 = IntersectTurn(t, FALSE, c)

\* The bound, by what it counts.
LEMMA TurnsLeftIs ==
  ASSUME NEW one, NEW two, NEW m \in Nat, NEW n \in Nat, m = Len(one), n = Len(two)
  PROVE  /\ Passing(one, two) => TurnsLeft(one, two) = 2 * m + n - 1
         /\ ~Passing(one, two) => TurnsLeft(one, two) = 2 * m + n
<1>1. CASE Passing(one, two)
  BY <1>1 DEF TurnsLeft
<1>2. CASE ~Passing(one, two)
  <2>1. TurnsLeft(one, two) = 2 * m + n - 0
    BY <1>2 DEF TurnsLeft
  <2>. QED  BY <1>2, <2>1
<1>. QED  BY <1>1, <1>2

\* What makes it smaller.
LEMMA FewerTurns ==
  ASSUME NEW one, NEW two, NEW one2, NEW two2, NEW m \in Nat, NEW n \in Nat, NEW i \in Nat, NEW j \in Nat,
         m = Len(one), n = Len(two), i = Len(one2), j = Len(two2),
         \/ ~Passing(one, two) /\ 2 * i + j < 2 * m + n
         \/ ~Passing(one, two) /\ Passing(one2, two2) /\ 2 * i + j <= 2 * m + n
         \/ 2 * i + j + 2 <= 2 * m + n
  PROVE  TurnsLeft(one2, two2) < TurnsLeft(one, two)
<1>a. /\ Passing(one, two) => TurnsLeft(one, two) = 2 * m + n - 1
      /\ ~Passing(one, two) => TurnsLeft(one, two) = 2 * m + n
  BY TurnsLeftIs, Z3
<1>b. /\ Passing(one2, two2) => TurnsLeft(one2, two2) = 2 * i + j - 1
      /\ ~Passing(one2, two2) => TurnsLeft(one2, two2) = 2 * i + j
  BY TurnsLeftIs, Z3
<1>1. PICK p, q : p = TurnsLeft(one2, two2) /\ q = TurnsLeft(one, two)
  OBVIOUS
<1>2. (Passing(one, two) => q = 2 * m + n - 1) /\ (~Passing(one, two) => q = 2 * m + n)
  BY <1>1, <1>a
<1>3. (Passing(one2, two2) => p = 2 * i + j - 1) /\ (~Passing(one2, two2) => p = 2 * i + j)
  BY <1>1, <1>b
<1>4. p < q
  BY <1>2, <1>3
<1>. QED  BY <1>1, <1>4

\* One turn of the loop of rangelist_intersect_or_remove, for both of its uses.
LEMMA SplitTurn ==
  ASSUME NEW by \in Seq(Ranges), Valid(by), NEW w \in Seq(Ranges), Valid(w), NEW c \in BOOLEAN,
         NEW s, NEW t, SplitState(by, w, c, s, t), s.two # << >>,
         NEW s2, NEW t2, BothTurn(s, t, s2, t2, c)
  PROVE  SplitState(by, w, c, s2, t2) /\ TurnsLeft(s2.one, s2.two) < TurnsLeft(s.one, s.two)
<1>s. PICK one, two, e, x : one = s.one /\ two = s.two /\ e = s.out /\ x = t.out
  OBVIOUS
<1>i. /\ SplitInv(by, w, c, one, two, e, x) /\ two # << >>
      /\ t.one = one /\ t.two = two
  BY <1>s DEF SplitState
<1>j. /\ one \in Seq(Ranges) /\ two \in Seq(Ranges) /\ Valid(one) /\ Valid(two) /\ e \in Seq(Ranges) /\ x \in Seq(Ranges)
      /\ Tight(e, c) /\ Divided(w, e, x, two)
  BY <1>i DEF SplitInv
<1>b. PICK b : b = Head(two)
  OBVIOUS
<1>u. PICK tt : tt = Tail(two)
  OBVIOUS
<1>1. /\ b = two[1] /\ b \in Ranges /\ b.start \in 0..N /\ b.end \in 0..N /\ b.inh \in BOOLEAN /\ b.start < b.end
      /\ b = Span(b.start, b.end, b.inh)
      /\ Len(two) \in Nat /\ Len(two) >= 1 /\ tt \in Seq(Ranges) /\ Len(tt) = Len(two) - 1
  BY <1>i, <1>j, <1>b, <1>u, FirstRanges
<1>c. CutAt(two, b.end) = tt
  <2>1. ~(b.end < Head(two).end)
    BY <1>b, <1>1
  <2>. QED  BY <1>u, <2>1 DEF CutAt
<1>l. Len(one) \in Nat
  BY <1>j
<1>m. PICK m \in Nat, n \in Nat : m = Len(one) /\ n = Len(two) /\ n >= 1 /\ n - 1 \in Nat /\ n - 1 = Len(tt)
  <2>1. PICK n \in Nat : n = Len(two)
    BY <1>1
  <2>2. PICK m \in Nat : m = Len(one)
    BY <1>l
  <2>3. n >= 1 /\ n - 1 \in Nat /\ n - 1 = Len(tt)
    BY <1>1, <2>1
  <2>. QED  BY <2>1, <2>2, <2>3
<1>e. (IF e # << >> /\ Combines(Last(e), b, c) THEN SetLast(e, Combined(Last(e), b)) ELSE Append(e, b))
        = WithLast(e, b, c)
  <2>1. b \in Spans /\ \A i \in 1..Len(e) : e[i].end <= b.start
    BY <1>i, <1>j, <1>1, RangeFacts DEF Divided
  <2>2. ASSUME e # << >>  PROVE ~(b.start < Last(e).end)
    <3>1. PICK z \in 1..Len(e) : Last(e) = e[z]
      BY <1>j, <2>2 DEF Last
    <3>. QED  BY <1>j, <1>1, <2>1, <3>1, Elements
  <2>3. CASE e = << >>
    BY <2>3 DEF WithLast
  <2>4. CASE e # << >>
    BY <2>2, <2>4 DEF WithLast
  <2>. QED  BY <2>3, <2>4
\* The whole of b is left.
<1>k. ASSUME Alike(one, two, c) => \A v \in Int : b.start < v /\ v <= b.end => ~On(one, v)
      PROVE  SplitInv(by, w, c, one, tt, WithLast(e, b, c), x)
  <2>1. PICK u \in 0..N : u = b.end
    BY <1>1
  <2>2. /\ Head(two).start <= u /\ u <= u /\ u <= Head(two).end
        /\ ~(u < u) /\ TRUE \in BOOLEAN
    BY <1>b, <1>1, <2>1
  <2>3. PICK e2 : e2 = WithLast(e, b, c)
    OBVIOUS
  <2>4. e2 = IF Head(two).start < u THEN WithLast(e, Span(Head(two).start, u, Head(two).inh), c) ELSE e
    BY <1>b, <1>1, <2>1, <2>3
  <2>5. x = IF u < u THEN WithLast(x, Span(u, u, TRUE), c) ELSE x
    BY <2>2
  <2>6. Alike(one, two, c) => \A v \in Int : Head(two).start < v /\ v <= u => ~On(one, v)
    BY <1>b, <1>k, <2>1
  <2>7. PICK two2 : two2 = CutAt(two, u) /\ two2 = tt
    BY <1>c, <2>1
  <2>8. u < u => /\ one # << >> /\ Head(one).start <= u /\ u <= Head(one).end /\ Same(Head(one), Head(two), c)
                 /\ TRUE = (Head(one).inh \/ Head(two).inh)
    BY <2>2
  <2>9. one = one \/ (one # << >> /\ Head(one).end <= u /\ one = Tail(one))
    OBVIOUS
  <2>10. PICK d \in BOOLEAN : d = TRUE
    OBVIOUS
  <2>11. Consumes(c, one, two, e, x, u, u, d, one, two2, e2, x)
    BY <1>i, <2>2, <2>4, <2>5, <2>6, <2>7, <2>8, <2>9, <2>10 DEF Consumes
  <2>12. SplitInv(by, w, c, one, two2, e2, x)
    BY <1>i, <2>1, <2>10, <2>11, Consume
  <2>. QED  BY <2>3, <2>7, <2>12
<1>2. CASE one = << >>
  <2>1. s2 = [one |-> << >>, two |-> tt, out |-> WithLast(e, b, c)]
    BY <1>s, <1>i, <1>b, <1>u, <1>2 DEF BothTurn, IntersectTurn
  <2>2. t2 = [one |-> << >>, two |-> tt, out |-> x]
    BY <1>s, <1>i, <1>b, <1>u, <1>2 DEF BothTurn, IntersectTurn
  <2>3. \A v \in Int : ~On(one, v)
    BY <1>2 DEF On
  <2>4. SplitInv(by, w, c, one, tt, WithLast(e, b, c), x)
    BY <1>k, <2>3
  <2>5. SplitState(by, w, c, s2, t2)
    BY <1>2, <2>1, <2>2, <2>4 DEF SplitState
  <2>6. TurnsLeft(s2.one, s2.two) < TurnsLeft(s.one, s.two)
    <3>1. s2.one = one /\ s2.two = tt /\ ~Passing(one, two) /\ ~Passing(one, tt)
      BY <1>2, <2>1 DEF Passing
    <3>2. 2 * m + (n - 1) < 2 * m + n
      BY <1>m
    <3>3. TurnsLeft(one, tt) < TurnsLeft(one, two)
      BY <1>m, <3>1, <3>2, FewerTurns
    <3>. QED  BY <1>s, <3>1, <3>3
  <2>. QED  BY <2>5, <2>6
<1>3. CASE one # << >>
  <2>a. PICK a : a = Head(one)
    OBVIOUS
  <2>o. PICK oo : oo = Tail(one)
    OBVIOUS
  <2>1. /\ a \in Ranges /\ a.start \in 0..N /\ a.end \in 0..N /\ a.inh \in BOOLEAN /\ a.start < a.end
        /\ \A v \in Int : On(one, v) => a.start < v
        /\ Len(one) >= 1 /\ oo \in Seq(Ranges) /\ Len(oo) = Len(one) - 1
    BY <1>j, <1>3, <2>a, <2>o, FirstRanges
  <2>2. s2 = IntersectStep(s, TRUE, c) /\ t2 = IntersectStep(t, FALSE, c)
    BY <1>s, <1>i, <1>3 DEF BothTurn, IntersectTurn
  <2>3. Same(a, b, c) \in BOOLEAN /\ (Same(a, b, c) => Same(Head(one), Head(two), c))
    BY <1>b, <2>a DEF Same
  <2>al. Alike(one, two, c) => Same(a, b, c)
    <3>1. 1 \in 1..Len(one) /\ 1 \in 1..Len(two) /\ a = one[1]
      BY <1>j, <1>l, <1>1, <2>1, <2>a, <1>3, FirstRanges
    <3>. QED  BY <1>1, <3>1 DEF Alike
  <2>ps. Passing(one, two) <=> a.end <= b.start
    BY <1>b, <1>i, <1>3, <2>a DEF Passing
  <2>4. CASE RangeContains(a, b, c)
    <3>0. a.start <= b.start /\ b.end <= a.end /\ Same(a, b, c)
      BY <2>4 DEF RangeContains
    <3>1. PICK one2 : one2 = IF a.start = b.start /\ a.end = b.end THEN oo ELSE one
      OBVIOUS
    <3>t. a.start \in Int /\ b.start \in Int /\ a.end \in Int /\ b.end \in Int
      BY <1>1, <2>1
    <3>m. (IF a.start > b.start THEN a.start ELSE b.start) = b.start /\ (IF a.end < b.end THEN a.end ELSE b.end) = b.end
      BY <3>0, <3>t
    <3>2. Both(a, b) = Span(b.start, b.end, a.inh \/ b.inh)
      BY <3>m, Zenon DEF Both
    <3>3. PICK d \in BOOLEAN : d = (a.inh \/ b.inh)
      BY <1>1, <2>1
    <3>4. PICK x2 : x2 = WithLast(x, Span(b.start, b.end, d), c)
      OBVIOUS
    <3>5. s2 = [one |-> one2, two |-> tt, out |-> e]
      BY <1>s, <1>i, <1>b, <1>u, <2>a, <2>o, <2>2, <2>4, <3>1 DEF IntersectStep
    <3>6. t2 = [one |-> one2, two |-> tt, out |-> x2]
      BY <1>s, <1>i, <1>b, <1>u, <2>a, <2>o, <2>2, <2>4, <3>1, <3>2, <3>3, <3>4 DEF IntersectStep
    <3>7. PICK u \in 0..N, y \in 0..N : u = b.start /\ y = b.end
      BY <1>1
    <3>8. Head(two).start <= u /\ u <= y /\ y <= Head(two).end /\ u < y /\ ~(Head(two).start < u)
      BY <1>b, <1>1, <3>7
    <3>9. e = IF Head(two).start < u THEN WithLast(e, Span(Head(two).start, u, Head(two).inh), c) ELSE e
      BY <3>8
    <3>10. x2 = IF u < y THEN WithLast(x, Span(u, y, d), c) ELSE x
      BY <3>4, <3>7, <3>8
    <3>11. u < y => /\ one # << >> /\ Head(one).start <= u /\ y <= Head(one).end /\ Same(Head(one), Head(two), c)
                    /\ d = (Head(one).inh \/ Head(two).inh)
      BY <1>b, <1>3, <2>a, <3>0, <3>3, <3>7
    <3>12. Alike(one, two, c) => \A v \in Int : Head(two).start < v /\ v <= u => ~On(one, v)
      BY <1>b, <1>1, <3>7
    <3>13. one2 = one \/ (one # << >> /\ Head(one).end <= y /\ one2 = Tail(one))
      <4>1. CASE a.start = b.start /\ a.end = b.end
        <5>1. one2 = Tail(one)
          BY <2>o, <3>1, <4>1
        <5>2. Head(one).end <= y
          BY <1>1, <2>a, <3>7, <4>1
        <5>. QED  BY <1>3, <5>1, <5>2
      <4>2. CASE ~(a.start = b.start /\ a.end = b.end)
        BY <3>1, <4>2
      <4>. QED  BY <4>1, <4>2
    <3>14. PICK two2 : two2 = CutAt(two, y) /\ two2 = tt
      BY <1>c, <3>7
    <3>15. SplitInv(by, w, c, one2, two2, e, x2)
      <4>1. Consumes(c, one, two, e, x, u, y, d, one2, two2, e, x2)
        BY <1>i, <3>8, <3>9, <3>10, <3>11, <3>12, <3>13, <3>14 DEF Consumes
      <4>. QED  BY <1>i, <3>3, <3>7, <4>1, Consume
    <3>16. SplitState(by, w, c, s2, t2)
      BY <3>5, <3>6, <3>14, <3>15 DEF SplitState
    <3>17. TurnsLeft(s2.one, s2.two) < TurnsLeft(s.one, s.two)
      <4>1. s2.one = one2 /\ s2.two = tt /\ ~Passing(one, two)
        BY <1>1, <2>1, <2>ps, <3>0, <3>5
      <4>2. Len(one2) \in Nat /\ Len(one2) <= Len(one)
        BY <1>l, <2>1, <3>1
      <4>3. PICK i \in Nat : i = Len(one2) /\ i <= m
        BY <1>m, <4>2
      <4>4. 2 * i + (n - 1) < 2 * m + n
        BY <4>3
      <4>5. TurnsLeft(one2, tt) < TurnsLeft(one, two)
        BY <1>m, <4>1, <4>3, <4>4, FewerTurns
      <4>. QED  BY <1>s, <4>1, <4>5
    <3>. QED  BY <3>16, <3>17
  <2>5. CASE ~RangeContains(a, b, c) /\ RangeIntersect(a, b, c)
    <3>0. a.start < b.end /\ b.start < a.end /\ Same(a, b, c)
      BY <2>5 DEF RangeIntersect
    <3>1. PICK u \in 0..N, y \in 0..N : /\ u = (IF a.start > b.start THEN a.start ELSE b.start)
                                       /\ y = (IF a.end < b.end THEN a.end ELSE b.end)
      BY <1>1, <2>1
    <3>2. Both(a, b) = Span(u, y, a.inh \/ b.inh)
      BY <3>1 DEF Both
    <3>3. PICK d \in BOOLEAN : d = (a.inh \/ b.inh)
      BY <1>1, <2>1
    <3>4. PICK x2 : x2 = WithLast(x, Span(u, y, d), c)
      OBVIOUS
    <3>5. PICK e2 : e2 = IF b.start < a.start THEN WithLast(e, Span(b.start, a.start, b.inh), c) ELSE e
      OBVIOUS
    <3>6. PICK two2 : two2 = IF b.end > a.end THEN <<Span(a.end, b.end, b.inh)>> \o tt ELSE tt
      OBVIOUS
    <3>7. s2 = [one |-> one, two |-> two2, out |-> e2]
      BY <1>s, <1>i, <1>b, <1>u, <2>a, <2>o, <2>2, <2>5, <3>5, <3>6 DEF IntersectStep
    <3>8. t2 = [one |-> one, two |-> two2, out |-> x2]
      BY <1>s, <1>i, <1>b, <1>u, <2>a, <2>o, <2>2, <2>5, <3>2, <3>3, <3>4, <3>6 DEF IntersectStep
    <3>9. /\ Head(two).start <= u /\ u <= y /\ y <= Head(two).end /\ u < y
          /\ a.start <= u /\ y <= a.end
      <4>2. b.start \in Int /\ b.end \in Int /\ a.start \in Int /\ a.end \in Int /\ a.start < a.end /\ b.start < b.end
        BY <1>1, <2>1
      <4>a. u >= b.start /\ u >= a.start /\ (u = a.start \/ u = b.start)
        BY <3>1, <4>2
      <4>b. y <= a.end /\ y <= b.end /\ (y = a.end \/ y = b.end)
        BY <3>1, <4>2
      <4>1. u >= b.start /\ u >= a.start /\ y <= a.end /\ y <= b.end /\ (u = a.start \/ u = b.start) /\ (y = a.end \/ y = b.end)
        BY <4>a, <4>b
      <4>3. u < y
        <5>1. CASE u = a.start
          BY <3>0, <4>1, <4>2, <5>1
        <5>2. CASE u = b.start
          BY <3>0, <4>1, <4>2, <5>2
        <5>. QED  BY <4>1, <5>1, <5>2
      <4>4. u <= y
        BY <4>3
      <4>. QED  BY <1>b, <4>1, <4>3, <4>4
    <3>10. e2 = IF Head(two).start < u THEN WithLast(e, Span(Head(two).start, u, Head(two).inh), c) ELSE e
      <4>1. a.start \in Int /\ b.start \in Int
        BY <1>1, <2>1
      <4>2. (b.start < a.start <=> b.start < u) /\ (b.start < a.start => u = a.start)
        BY <3>1, <4>1
      <4>. QED  BY <1>b, <3>5, <4>2
    <3>11. x2 = IF u < y THEN WithLast(x, Span(u, y, d), c) ELSE x
      BY <3>4, <3>9
    <3>12. u < y => /\ one # << >> /\ Head(one).start <= u /\ y <= Head(one).end /\ Same(Head(one), Head(two), c)
                    /\ d = (Head(one).inh \/ Head(two).inh)
      BY <1>b, <1>3, <2>a, <3>0, <3>3, <3>9
    <3>13. Alike(one, two, c) => \A v \in Int : Head(two).start < v /\ v <= u => ~On(one, v)
      <4>. SUFFICES ASSUME NEW v \in Int, b.start < v, v <= u  PROVE ~On(one, v)
        BY <1>b
      <4>1. a.start \in Int /\ b.start \in Int /\ (u = a.start \/ u = b.start)
        BY <1>1, <2>1, <3>1
      <4>2. v <= a.start /\ ~(a.start < v)
        BY <4>1
      <4>3. \A z \in Int : On(one, z) => a.start < z
        BY <2>1
      <4>. QED  BY <4>2, <4>3
    <3>14. one = one \/ (one # << >> /\ Head(one).end <= y /\ one = Tail(one))
      OBVIOUS
    <3>15. two2 = CutAt(two, y)
      <4>0. a.end \in Int /\ b.end \in Int
        BY <1>1, <2>1
      <4>1. Head(two) = b /\ (y < b.end <=> b.end > a.end) /\ (y < b.end => y = a.end)
        BY <1>b, <3>1, <4>0
      <4>2. two2 = IF y < Head(two).end THEN <<Span(y, Head(two).end, Head(two).inh)>> \o Tail(two) ELSE Tail(two)
        BY <1>u, <3>6, <4>1
      <4>. QED  BY <4>2 DEF CutAt
    <3>16. SplitInv(by, w, c, one, two2, e2, x2)
      <4>1. Consumes(c, one, two, e, x, u, y, d, one, two2, e2, x2)
        BY <1>i, <3>9, <3>10, <3>11, <3>12, <3>13, <3>14, <3>15 DEF Consumes
      <4>. QED  BY <1>i, <3>1, <3>3, <4>1, Consume
    <3>17. SplitState(by, w, c, s2, t2)
      BY <3>7, <3>8, <3>16 DEF SplitState
    <3>18. TurnsLeft(s2.one, s2.two) < TurnsLeft(s.one, s.two)
      <4>1. s2.one = one /\ s2.two = two2 /\ ~Passing(one, two)
        BY <1>1, <2>1, <2>ps, <3>0, <3>7
      <4>2. CASE b.end > a.end
        <5>1. Span(a.end, b.end, b.inh) \in Ranges /\ Span(a.end, b.end, b.inh).start = a.end
          <6>1. PICK z \in 0..N, o \in 0..N, g \in BOOLEAN : z = a.end /\ o = b.end /\ g = b.inh
            BY <1>1, <2>1
          <6>2. Span(z, o, g) \in Ranges /\ Span(z, o, g).start = z
            BY SpanFacts
          <6>. QED  BY <6>1, <6>2
        <5>2. Len(two2) = Len(two) /\ two2 # << >> /\ Head(two2).start = a.end
          BY <1>1, <3>6, <4>2, <5>1, ConsFacts
        <5>3. Passing(one, two2)
          BY <1>3, <2>a, <2>1, <5>2 DEF Passing
        <5>4. n = Len(two2) /\ 2 * m + n <= 2 * m + n
          BY <1>m, <5>2
        <5>5. TurnsLeft(one, two2) < TurnsLeft(one, two)
          BY <1>m, <4>1, <5>3, <5>4, FewerTurns
        <5>. QED  BY <1>s, <4>1, <5>5
      <4>3. CASE ~(b.end > a.end)
        <5>1. Len(two2) = Len(two) - 1
          BY <1>1, <3>6, <4>3
        <5>2. n - 1 = Len(two2) /\ 2 * m + (n - 1) < 2 * m + n
          BY <1>m, <5>1
        <5>3. TurnsLeft(one, two2) < TurnsLeft(one, two)
          BY <1>m, <4>1, <5>2, FewerTurns
        <5>. QED  BY <1>s, <4>1, <5>3
      <4>. QED  BY <4>2, <4>3
    <3>. QED  BY <3>17, <3>18
  <2>6. CASE ~RangeContains(a, b, c) /\ ~RangeIntersect(a, b, c) /\ Before(a, b)
    <3>1. s2 = [one |-> oo, two |-> two, out |-> e]
      BY <1>s, <1>i, <1>b, <1>u, <2>a, <2>o, <2>2, <2>6 DEF IntersectStep
    <3>2. t2 = [one |-> oo, two |-> two, out |-> x]
      BY <1>s, <1>i, <1>b, <1>u, <2>a, <2>o, <2>2, <2>6 DEF IntersectStep
    <3>3. Alike(one, two, c) => Head(one).end <= Head(two).start
      BY <1>b, <1>1, <2>a, <2>1, <2>al, <2>6 DEF RangeIntersect, Before
    <3>4. PICK one2 : one2 = Tail(one) /\ one2 = oo
      BY <2>o
    <3>5. SplitInv(by, w, c, one2, two, e, x)
      BY <1>i, <1>3, <3>3, <3>4, DropRange
    <3>6. SplitState(by, w, c, s2, t2)
      BY <3>1, <3>2, <3>4, <3>5 DEF SplitState
    <3>7. TurnsLeft(s2.one, s2.two) < TurnsLeft(s.one, s.two)
      <4>1. s2.one = oo /\ s2.two = two
        BY <3>1
      <4>2. m - 1 \in Nat /\ m - 1 = Len(oo) /\ 2 * (m - 1) + n + 2 <= 2 * m + n
        BY <1>m, <2>1
      <4>3. TurnsLeft(oo, two) < TurnsLeft(one, two)
        BY <1>m, <4>2, FewerTurns
      <4>. QED  BY <1>s, <4>1, <4>3
    <3>. QED  BY <3>6, <3>7
  <2>7. CASE ~RangeContains(a, b, c) /\ ~RangeIntersect(a, b, c) /\ ~Before(a, b)
    <3>1. s2 = [one |-> one, two |-> tt,
                out |-> IF e # << >> /\ Combines(Last(e), b, c) THEN SetLast(e, Combined(Last(e), b)) ELSE Append(e, b)]
      BY <1>s, <1>i, <1>b, <1>u, <2>a, <2>o, <2>2, <2>7 DEF IntersectStep
    <3>2. t2 = [one |-> one, two |-> tt, out |-> x]
      BY <1>s, <1>i, <1>b, <1>u, <2>a, <2>o, <2>2, <2>7 DEF IntersectStep
    <3>3. Alike(one, two, c) => b.end <= a.start
      BY <1>1, <2>1, <2>al, <2>7 DEF RangeIntersect, Before
    <3>4. Alike(one, two, c) => \A v \in Int : b.start < v /\ v <= b.end => ~On(one, v)
      <4>. SUFFICES ASSUME Alike(one, two, c), NEW v \in Int, b.start < v, v <= b.end  PROVE ~On(one, v)
        OBVIOUS
      <4>1. a.start \in Int /\ b.end \in Int /\ b.end <= a.start
        BY <1>1, <2>1, <3>3
      <4>2. ~(a.start < v)
        BY <4>1
      <4>3. \A z \in Int : On(one, z) => a.start < z
        BY <2>1
      <4>. QED  BY <4>2, <4>3
    <3>5. SplitInv(by, w, c, one, tt, WithLast(e, b, c), x)
      BY <1>k, <3>4
    <3>6. s2 = [one |-> one, two |-> tt, out |-> WithLast(e, b, c)]
      BY <1>e, <3>1
    <3>7. SplitState(by, w, c, s2, t2)
      BY <3>2, <3>5, <3>6 DEF SplitState
    <3>8. TurnsLeft(s2.one, s2.two) < TurnsLeft(s.one, s.two)
      <4>1. s2.one = one /\ s2.two = tt /\ ~Passing(one, two)
        BY <1>1, <2>1, <2>ps, <2>7, <3>1 DEF Before
      <4>2. 2 * m + (n - 1) < 2 * m + n
        BY <1>m
      <4>3. TurnsLeft(one, tt) < TurnsLeft(one, two)
        BY <1>m, <4>1, <4>2, FewerTurns
      <4>. QED  BY <1>s, <4>1, <4>3
    <3>. QED  BY <3>7, <3>8
  <2>. QED  BY <2>4, <2>5, <2>6, <2>7
<1>. QED  BY <1>2, <1>3

\* What the loop of rangelist_intersect_or_remove has done after each turn.
IsSplit(f, one, two, remove, consider) ==
  /\ f[0] = [one |-> one, two |-> two, out |-> << >>]
  /\ \A k \in 1..(2 * Len(one) + Len(two)) : f[k] = IntersectTurn(f[k - 1], remove, consider)

\* rangelist_intersect_or_remove is what the loop ends with.
LEMMA SplitTurns ==
  ASSUME NEW one, NEW two, Len(one) \in Nat, Len(two) \in Nat, NEW remove, NEW consider
  PROVE  \E f : IsSplit(f, one, two, remove, consider) /\ IntersectOrRemove(one, two, remove, consider) = f[2 * Len(one) + Len(two)].out
<1>n. PICK n \in Nat : n = 2 * Len(one) + Len(two)
  OBVIOUS
<1>. DEFINE Start == [one |-> one, two |-> two, out |-> << >>]
<1>. DEFINE Turns(m, f) == f = [k \in 0..m |-> IF k = 0 THEN Start ELSE IntersectTurn(f[k - 1], remove, consider)]
<1>. DEFINE B == {m \in Nat : \E f : Turns(m, f)}
<1>1. 0 \in B
  <2>1. PICK f : f = [k \in 0..0 |-> Start]
    OBVIOUS
  <2>2. Turns(0, f)
    BY <2>1
  <2>. QED  BY <2>2
<1>2. ASSUME NEW m \in Nat, m \in B  PROVE m + 1 \in B
  <2>1. PICK f : Turns(m, f)
    BY <1>2
  <2>2. PICK h : h = [k \in 0..m + 1 |-> IF k <= m THEN f[k] ELSE IntersectTurn(f[m], remove, consider)]
    OBVIOUS
  <2>3. ASSUME NEW k \in 0..m + 1  PROVE h[k] = IF k = 0 THEN Start ELSE IntersectTurn(h[k - 1], remove, consider)
    <3>1. CASE k = m + 1
      BY <2>2, <3>1
    <3>2. CASE k = 0
      BY <2>1, <2>2, <3>2
    <3>3. CASE k \in 1..m
      <4>1. k \in 0..m /\ k # 0 /\ k - 1 \in 0..m /\ k <= m /\ k - 1 <= m /\ k - 1 \in 0..m + 1
        BY <3>3
      <4>2. h[k] = f[k] /\ h[k - 1] = f[k - 1]
        BY <2>2, <4>1
      <4>3. f[k] = IntersectTurn(f[k - 1], remove, consider)
        BY <2>1, <4>1
      <4>. QED  BY <4>1, <4>2, <4>3
    <3>4. k = m + 1 \/ k = 0 \/ k \in 1..m
      OBVIOUS
    <3>. QED  BY <3>1, <3>2, <3>3, <3>4
  <2>4. Turns(m + 1, h)
    BY <2>2, <2>3
  <2>. QED  BY <2>4
<1>. HIDE DEF B
<1>3. n \in B
  BY <1>1, <1>2, SetInduction
<1>. DEFINE G == CHOOSE f : Turns(n, f)
<1>4. Turns(n, G)
  BY <1>3 DEF B
<1>5. IntersectOrRemove(one, two, remove, consider) = G[n].out
  BY <1>n DEF IntersectOrRemove
<1>. HIDE DEF G
<1>6. IsSplit(G, one, two, remove, consider)
  <2>1. G[0] = Start
    BY <1>4
  <2>2. ASSUME NEW k \in 1..n  PROVE G[k] = IntersectTurn(G[k - 1], remove, consider)
    <3>1. k \in 0..n /\ k # 0
      OBVIOUS
    <3>. QED  BY <1>4, <3>1
  <2>. QED  BY <1>n, <2>1, <2>2 DEF IsSplit
<1>. QED  BY <1>n, <1>5, <1>6

\* The bound is positive as long as there is something to do.
LEMMA TurnsLeftFacts ==
  ASSUME NEW one \in Seq(Ranges), NEW two \in Seq(Ranges)
  PROVE  /\ TurnsLeft(one, two) \in Int
         /\ TurnsLeft(one, two) <= 2 * Len(one) + Len(two)
         /\ two # << >> => TurnsLeft(one, two) >= 1
<1>1. PICK m \in Nat, n \in Nat : m = Len(one) /\ n = Len(two)
  OBVIOUS
<1>2. PICK p : p = TurnsLeft(one, two)
  OBVIOUS
<1>3. (Passing(one, two) => p = 2 * m + n - 1) /\ (~Passing(one, two) => p = 2 * m + n)
  BY <1>1, <1>2, TurnsLeftIs
<1>4. (Passing(one, two) => m >= 1 /\ n >= 1) /\ (two # << >> => n >= 1)
  BY <1>1 DEF Passing
<1>5. p \in Int /\ p <= 2 * m + n /\ (two # << >> => p >= 1)
  BY <1>3, <1>4
<1>. QED  BY <1>1, <1>2, <1>5

\* What erasing (e) and intersecting (x) give.
Splits(by, w, c, e, x) == e = Erase(by, w, c) /\ x = Intersect(by, w, c)

\* Both loops have consumed the whole of the second list when they end.
LEMMA SplitWhole ==
  ASSUME NEW by \in Seq(Ranges), Valid(by), NEW w \in Seq(Ranges), Valid(w), NEW c \in BOOLEAN,
         NEW e, NEW x, Splits(by, w, c, e, x)
  PROVE  \E one : SplitInv(by, w, c, one, << >>, e, x)
<1>n. PICK n \in Nat : n = 2 * Len(by) + Len(w)
  OBVIOUS
<1>l. Len(by) \in Nat /\ Len(w) \in Nat
  OBVIOUS
<1>1. PICK f : IsSplit(f, by, w, TRUE, c) /\ IntersectOrRemove(by, w, TRUE, c) = f[2 * Len(by) + Len(w)].out
  BY <1>l, SplitTurns
<1>2. PICK g : IsSplit(g, by, w, FALSE, c) /\ IntersectOrRemove(by, w, FALSE, c) = g[2 * Len(by) + Len(w)].out
  BY <1>l, SplitTurns
<1>3. e = f[n].out /\ x = g[n].out
  BY <1>n, <1>1, <1>2 DEF Splits, Erase, Intersect
<1>4. /\ f[0] = [one |-> by, two |-> w, out |-> << >>] /\ g[0] = [one |-> by, two |-> w, out |-> << >>]
  BY <1>1, <1>2 DEF IsSplit
<1>5. ASSUME NEW k \in Nat, k + 1 <= n  PROVE BothTurn(f[k], g[k], f[k + 1], g[k + 1], c)
  <2>1. k + 1 \in 1..(2 * Len(by) + Len(w)) /\ (k + 1) - 1 = k
    BY <1>n, <1>5
  <2>2. f[k + 1] = IntersectTurn(f[k], TRUE, c)
    BY <1>1, <2>1 DEF IsSplit
  <2>3. g[k + 1] = IntersectTurn(g[k], FALSE, c)
    BY <1>2, <2>1 DEF IsSplit
  <2>. QED  BY <2>2, <2>3 DEF BothTurn
<1>. DEFINE At(k) == /\ SplitState(by, w, c, f[k], g[k])
                     /\ f[k].two # << >> => TurnsLeft(f[k].one, f[k].two) <= n - k
<1>6. At(0)
  <2>1. /\ f[0].one = by /\ f[0].two = w /\ f[0].out = << >> /\ g[0].one = by /\ g[0].two = w /\ g[0].out = << >>
    BY <1>4
  <2>2. << >> \in Seq(Ranges) /\ Tight(<< >>, c)
    BY DEF Tight, Shortest, Valid
  <2>3. \A v : ~On(<< >>, v) /\ \A d : ~Has(<< >>, v, d)
    BY DEF On, Has
  <2>4. Divided(w, << >>, << >>, w)
    BY <2>3 DEF Divided
  <2>5. Inherited(by, w, c, << >>, << >>)
    BY <2>3 DEF Inherited
  <2>6. Matched(by, w, c, by, w, << >>, << >>)
    BY <2>3 DEF Matched
  <2>7. SplitInv(by, w, c, by, w, << >>, << >>)
    BY <2>2, <2>4, <2>5, <2>6 DEF SplitInv
  <2>8. TurnsLeft(by, w) <= n - 0
    BY <1>n, TurnsLeftFacts
  <2>. QED  BY <2>1, <2>7, <2>8 DEF SplitState
<1>7. ASSUME NEW k \in Nat, k + 1 <= n, At(k)  PROVE At(k + 1)
  <2>1. PICK s, t, s2, t2 : s = f[k] /\ t = g[k] /\ s2 = f[k + 1] /\ t2 = g[k + 1]
    OBVIOUS
  <2>2. SplitState(by, w, c, s, t) /\ BothTurn(s, t, s2, t2, c) /\ (s.two # << >> => TurnsLeft(s.one, s.two) <= n - k)
    BY <1>5, <1>7, <2>1
  <2>. HIDE DEF At
  <2>. SUFFICES SplitState(by, w, c, s2, t2) /\ (s2.two # << >> => TurnsLeft(s2.one, s2.two) <= n - (k + 1))
    BY <2>1 DEF At
  <2>3. CASE s.two = << >>
    <3>1. t.two = << >>
      BY <2>2, <2>3 DEF SplitState
    <3>2. s2 = s /\ t2 = t
      BY <2>2, <2>3, <3>1 DEF BothTurn, IntersectTurn
    <3>. QED  BY <2>2, <2>3, <3>2
  <2>4. CASE s.two # << >>
    <3>1. SplitState(by, w, c, s2, t2) /\ TurnsLeft(s2.one, s2.two) < TurnsLeft(s.one, s.two)
      BY <2>2, <2>4, SplitTurn
    <3>2. s.one \in Seq(Ranges) /\ s.two \in Seq(Ranges) /\ s2.one \in Seq(Ranges) /\ s2.two \in Seq(Ranges)
      BY <2>2, <3>1 DEF SplitState, SplitInv
    <3>3. TurnsLeft(s2.one, s2.two) \in Int /\ TurnsLeft(s.one, s.two) \in Int
      BY <3>2, TurnsLeftFacts
    <3>4. PICK p \in Int, q \in Int : p = TurnsLeft(s2.one, s2.two) /\ q = TurnsLeft(s.one, s.two)
      BY <3>3
    <3>5. p < q /\ q <= n - k
      BY <2>2, <2>4, <3>1, <3>4
    <3>6. p <= n - (k + 1)
      BY <3>5
    <3>. QED  BY <3>1, <3>4, <3>6
  <2>. QED  BY <2>3, <2>4
<1>. HIDE DEF At
<1>. DEFINE C == {k \in Nat : k <= n => At(k)}
<1>8. 0 \in C
  BY <1>6
<1>9. ASSUME NEW k \in Nat, k \in C  PROVE k + 1 \in C
  BY <1>7, <1>9
<1>. HIDE DEF C
<1>10. n \in C
  BY <1>8, <1>9, SetInduction
<1>11. At(n)
  BY <1>10 DEF C
<1>12. PICK s, t : s = f[n] /\ t = g[n]
  OBVIOUS
<1>13. /\ SplitInv(by, w, c, s.one, s.two, s.out, t.out)
       /\ s.two # << >> => TurnsLeft(s.one, s.two) <= n - n
  BY <1>11, <1>12 DEF At, SplitState
<1>14. s.two = << >>
  <2>1. s.one \in Seq(Ranges) /\ s.two \in Seq(Ranges)
    BY <1>13 DEF SplitInv
  <2>2. PICK p \in Int : p = TurnsLeft(s.one, s.two) /\ (s.two # << >> => p >= 1)
    BY <2>1, TurnsLeftFacts
  <2>. QED  BY <1>13, <2>2
<1>15. SplitInv(by, w, c, s.one, << >>, e, x)
  BY <1>3, <1>12, <1>13, <1>14
<1>. QED  BY <1>15

\* The revisions that are left and kept, in the terms of SplitExact.
SplitAt(c, left, kept, was, by) ==
  IF c THEN (left = 0 \/ kept = 0) /\ left + kept = was /\ (left # was => by = was)
  ELSE /\ (left > 0) = (was > 0 /\ by = 0)
       /\ (kept > 0) = (was > 0 /\ by > 0)
       /\ left > 0 => left >= was
       /\ kept > 0 => kept >= was /\ kept >= by

\* What is to be shown of what erasing (e) and intersecting (x) give.
SplitGives(by, w, c, e, x) ==
  /\ e \in Seq(Ranges) /\ Shortest(e) /\ x \in Seq(Ranges) /\ Shortest(x)
  /\ \A v \in 1..N : SplitAt(c, Meaning(e)[v], Meaning(x)[v], Meaning(w)[v], Meaning(by)[v])
  /\ c /\ Uniform({w}) /\ Uniform({by})
       => \A v \in 1..N : Meaning(x)[v] = IF Meaning(w)[v] = Meaning(by)[v] THEN Meaning(w)[v] ELSE 0

\* Erasing and intersecting divide the second list, and give shortest lists.
LEMMA SplitResult ==
  ASSUME NEW by \in Seq(Ranges), Valid(by), NEW w \in Seq(Ranges), Valid(w), NEW c \in BOOLEAN,
         NEW e, NEW x, Splits(by, w, c, e, x)
  PROVE  SplitGives(by, w, c, e, x)
<1>1. PICK one : SplitInv(by, w, c, one, << >>, e, x)
  BY SplitWhole
<1>2. e \in Seq(Ranges) /\ Shortest(e) /\ x \in Seq(Ranges) /\ Shortest(x) /\ Valid(e) /\ Valid(x)
  BY <1>1 DEF SplitInv, Tight, Shortest
<1>3. Divided(w, e, x, << >>) /\ Inherited(by, w, c, e, x) /\ Matched(by, w, c, one, << >>, e, x)
  BY <1>1 DEF SplitInv
<1>4. ASSUME NEW v \in 1..N
      PROVE  /\ On(w, v) <=> On(e, v) \/ On(x, v)
             /\ ~(On(e, v) /\ On(x, v))
             /\ c => /\ (Inh(e, v) => Inh(w, v)) /\ (Bare(e, v) => Bare(w, v))
                     /\ Inh(x, v) => Inh(w, v) /\ Inh(by, v)
                     /\ Bare(x, v) => Bare(w, v) /\ Bare(by, v)
             /\ ~c => /\ On(e, v) /\ Inh(w, v) => Inh(e, v)
                      /\ On(x, v) /\ (Inh(w, v) \/ Inh(by, v)) => Inh(x, v)
             /\ Alike(by, w, c) => (On(e, v) => ~On(by, v)) /\ (On(x, v) => On(by, v))
  <2>0. v \in Int /\ TRUE \in BOOLEAN /\ FALSE \in BOOLEAN
    OBVIOUS
  <2>1. ~On(<< >>, v)
    BY DEF On
  <2>2. (On(w, v) <=> On(e, v) \/ On(x, v)) /\ ~(On(e, v) /\ On(x, v))
    BY <1>3, <2>0, <2>1 DEF Divided
  <2>3. c => /\ (Inh(e, v) => Inh(w, v)) /\ (Bare(e, v) => Bare(w, v))
             /\ Inh(x, v) => Inh(w, v) /\ Inh(by, v)
             /\ Bare(x, v) => Bare(w, v) /\ Bare(by, v)
    BY <1>3, <2>0 DEF Inherited, Inh, Bare
  <2>4. ~c => /\ On(e, v) /\ Inh(w, v) => Inh(e, v)
              /\ On(x, v) /\ (Inh(w, v) \/ Inh(by, v)) => Inh(x, v)
    BY <1>3, <2>0 DEF Inherited, Inh, Bare
  <2>5. Alike(by, w, c) => (On(e, v) => ~On(by, v)) /\ (On(x, v) => On(by, v))
    BY <1>3, <2>0 DEF Matched
  <2>. QED  BY <2>2, <2>3, <2>4, <2>5
<1>5. ASSUME NEW l \in Seq(Ranges), Valid(l), NEW v \in 1..N
      PROVE  /\ On(l, v) <=> Inh(l, v) \/ Bare(l, v)
             /\ ~(Inh(l, v) /\ Bare(l, v))
             /\ Meaning(l)[v] = IF Inh(l, v) THEN 2 ELSE IF On(l, v) THEN 1 ELSE 0
  <2>1. v \in Int
    OBVIOUS
  <2>. QED  BY <1>5, <2>1, OnHas, OneCovers, MeaningAt DEF Inh, Bare
<1>6. ~c => Alike(by, w, c)
  BY DEF Alike, Same
<1>7. ASSUME NEW v \in 1..N  PROVE SplitAt(c, Meaning(e)[v], Meaning(x)[v], Meaning(w)[v], Meaning(by)[v])
  <2>1. PICK le, lx, lw, lb : le = Meaning(e)[v] /\ lx = Meaning(x)[v] /\ lw = Meaning(w)[v] /\ lb = Meaning(by)[v]
    OBVIOUS
  <2>f. /\ On(w, v) <=> On(e, v) \/ On(x, v)
        /\ ~(On(e, v) /\ On(x, v))
        /\ c => /\ (Inh(e, v) => Inh(w, v)) /\ (Bare(e, v) => Bare(w, v))
                /\ Inh(x, v) => Inh(w, v) /\ Inh(by, v)
                /\ Bare(x, v) => Bare(w, v) /\ Bare(by, v)
        /\ ~c => /\ On(e, v) /\ Inh(w, v) => Inh(e, v)
                 /\ On(x, v) /\ (Inh(w, v) \/ Inh(by, v)) => Inh(x, v)
        /\ Alike(by, w, c) => (On(e, v) => ~On(by, v)) /\ (On(x, v) => On(by, v))
    BY <1>4
  <2>2. /\ On(e, v) <=> Inh(e, v) \/ Bare(e, v)
        /\ ~(Inh(e, v) /\ Bare(e, v))
        /\ le = IF Inh(e, v) THEN 2 ELSE IF On(e, v) THEN 1 ELSE 0
    BY <1>2, <1>5, <2>1
  <2>3. /\ On(x, v) <=> Inh(x, v) \/ Bare(x, v)
        /\ ~(Inh(x, v) /\ Bare(x, v))
        /\ lx = IF Inh(x, v) THEN 2 ELSE IF On(x, v) THEN 1 ELSE 0
    BY <1>2, <1>5, <2>1
  <2>4. /\ On(w, v) <=> Inh(w, v) \/ Bare(w, v)
        /\ ~(Inh(w, v) /\ Bare(w, v))
        /\ lw = IF Inh(w, v) THEN 2 ELSE IF On(w, v) THEN 1 ELSE 0
    BY <1>5, <2>1
  <2>5. /\ On(by, v) <=> Inh(by, v) \/ Bare(by, v)
        /\ ~(Inh(by, v) /\ Bare(by, v))
        /\ lb = IF Inh(by, v) THEN 2 ELSE IF On(by, v) THEN 1 ELSE 0
    BY <1>5, <2>1
  <2>6. CASE c
    <3>1. (le = 0 \/ lx = 0) /\ le + lx = lw /\ (le # lw => lb = lw)
      BY <2>f, <2>2, <2>3, <2>4, <2>5, <2>6
    <3>. QED  BY <2>1, <2>6, <3>1 DEF SplitAt
  <2>7. CASE ~c
    <3>1. /\ (le > 0) = (lw > 0 /\ lb = 0)
          /\ (lx > 0) = (lw > 0 /\ lb > 0)
          /\ le > 0 => le >= lw
          /\ lx > 0 => lx >= lw /\ lx >= lb
      <4>1. (On(e, v) => ~On(by, v)) /\ (On(x, v) => On(by, v))
        BY <1>6, <2>f, <2>7
      <4>2. (le > 0 <=> On(e, v)) /\ (lx > 0 <=> On(x, v)) /\ (lw > 0 <=> On(w, v)) /\ (lb > 0 <=> On(by, v)) /\ (lb = 0 <=> ~On(by, v))
        BY <2>2, <2>3, <2>4, <2>5
      <4>3. (le > 0 <=> (lw > 0 /\ lb = 0)) /\ (lx > 0 <=> (lw > 0 /\ lb > 0))
        BY <2>f, <4>1, <4>2
      <4>4. le > 0 => le >= lw
        BY <2>f, <2>2, <2>4, <2>7
      <4>5. lx > 0 => lx >= lw /\ lx >= lb
        BY <2>f, <2>3, <2>4, <2>5, <2>7
      <4>. QED  BY <4>3, <4>4, <4>5
    <3>. QED  BY <2>1, <2>7, <3>1 DEF SplitAt
  <2>. QED  BY <2>6, <2>7
<1>8. ASSUME c, Uniform({w}), Uniform({by}), NEW v \in 1..N
      PROVE  Meaning(x)[v] = IF Meaning(w)[v] = Meaning(by)[v] THEN Meaning(w)[v] ELSE 0
  <2>1. PICK lx, lw, lb : lx = Meaning(x)[v] /\ lw = Meaning(w)[v] /\ lb = Meaning(by)[v]
    OBVIOUS
  <2>f. /\ On(w, v) <=> On(e, v) \/ On(x, v)
        /\ ~(On(e, v) /\ On(x, v))
        /\ c => /\ (Inh(e, v) => Inh(w, v)) /\ (Bare(e, v) => Bare(w, v))
                /\ Inh(x, v) => Inh(w, v) /\ Inh(by, v)
                /\ Bare(x, v) => Bare(w, v) /\ Bare(by, v)
        /\ ~c => /\ On(e, v) /\ Inh(w, v) => Inh(e, v)
                 /\ On(x, v) /\ (Inh(w, v) \/ Inh(by, v)) => Inh(x, v)
        /\ Alike(by, w, c) => (On(e, v) => ~On(by, v)) /\ (On(x, v) => On(by, v))
    BY <1>4
  <2>3. /\ On(x, v) <=> Inh(x, v) \/ Bare(x, v)
        /\ ~(Inh(x, v) /\ Bare(x, v))
        /\ lx = IF Inh(x, v) THEN 2 ELSE IF On(x, v) THEN 1 ELSE 0
    BY <1>2, <1>5, <2>1
  <2>4. /\ On(w, v) <=> Inh(w, v) \/ Bare(w, v)
        /\ ~(Inh(w, v) /\ Bare(w, v))
        /\ lw = IF Inh(w, v) THEN 2 ELSE IF On(w, v) THEN 1 ELSE 0
    BY <1>5, <2>1
  <2>5. /\ On(by, v) <=> Inh(by, v) \/ Bare(by, v)
        /\ ~(Inh(by, v) /\ Bare(by, v))
        /\ lb = IF Inh(by, v) THEN 2 ELSE IF On(by, v) THEN 1 ELSE 0
    BY <1>5, <2>1
  <2>u. /\ \A i, j \in 1..Len(w) : w[i].inh = w[j].inh
        /\ \A i, j \in 1..Len(by) : by[i].inh = by[j].inh
    <3>1. DOMAIN w = 1..Len(w) /\ DOMAIN by = 1..Len(by)
      OBVIOUS
    <3>. QED  BY <1>8, <3>1 DEF Uniform, OneOf
  <2>6. CASE Alike(by, w, c)
    <3>1. Inh(w, v) /\ Bare(by, v) => FALSE
      BY <1>8, <2>6 DEF Alike, Same, Inh, Bare, Has
    <3>2. Bare(w, v) /\ Inh(by, v) => FALSE
      BY <1>8, <2>6 DEF Alike, Same, Inh, Bare, Has
    <3>3. lx = IF lw = lb THEN lw ELSE 0
      BY <2>f, <1>8, <2>3, <2>4, <2>5, <2>6, <3>1, <3>2
    <3>. QED  BY <2>1, <3>3
  <2>7. CASE ~Alike(by, w, c)
    <3>1. PICK i \in 1..Len(by), j \in 1..Len(w) : by[i].inh # w[j].inh
      BY <2>7 DEF Alike, Same
    <3>2. \A k \in 1..Len(by), m \in 1..Len(w) : by[k].inh # w[m].inh
      <4>. TAKE k \in 1..Len(by), m \in 1..Len(w)
      <4>1. by[k].inh = by[i].inh /\ w[m].inh = w[j].inh
        BY <2>u
      <4>. QED  BY <3>1, <4>1
    <3>3. \A d : ~(Has(w, v, d) /\ Has(by, v, d))
      BY <3>2 DEF Has
    <3>4. ~(Inh(w, v) /\ Inh(by, v)) /\ ~(Bare(w, v) /\ Bare(by, v))
      BY <3>3 DEF Inh, Bare
    <3>5. lx = IF lw = lb THEN lw ELSE 0
      BY <2>f, <1>8, <2>3, <2>4, <2>5, <3>4
    <3>. QED  BY <2>1, <3>5
  <2>. QED  BY <2>6, <2>7
<1>. QED  BY <1>2, <1>7, <1>8 DEF SplitGives

--------------------------------------------------------------------------------
(* Lists that are edited in the middle.                                     *)

\* Some range but the i-th covers v; and children inherit it.
OnBut(l, i, v)  == \E j \in 1..Len(l) : j # i /\ Covers(l[j], v)
InhBut(l, i, v) == \E j \in 1..Len(l) : j # i /\ Covers(l[j], v) /\ l[j].inh

\* The list k is l with r in place of its i-th range.
Replaced(l, i, r, k) ==
  /\ k \in Seq(Ranges) /\ Len(k) = Len(l) /\ k[i] = r
  /\ \A j \in 1..Len(l) : j # i => k[j] = l[j]
  /\ \A v : On(k, v) <=> OnBut(l, i, v) \/ Covers(r, v)
  /\ \A v : Inh(k, v) <=> InhBut(l, i, v) \/ (Covers(r, v) /\ r.inh)

\* What a list covers, by its ranges.
LEMMA InhAt ==
  ASSUME NEW l \in Seq(Ranges), NEW v
  PROVE  Inh(l, v) <=> \E j \in 1..Len(l) : Covers(l[j], v) /\ l[j].inh
<1>1. \A j \in 1..Len(l) : l[j].inh \in BOOLEAN
  BY Elements
<1>. QED  BY <1>1 DEF Inh, Has

\* What a list covers, by one range and the others.
LEMMA ButOne ==
  ASSUME NEW l \in Seq(Ranges), NEW i \in 1..Len(l), NEW v
  PROVE  /\ On(l, v) <=> OnBut(l, i, v) \/ Covers(l[i], v)
         /\ Inh(l, v) <=> InhBut(l, i, v) \/ (Covers(l[i], v) /\ l[i].inh)
<1>1. On(l, v) <=> OnBut(l, i, v) \/ Covers(l[i], v)
  BY DEF On, OnBut
<1>2. Inh(l, v) <=> \E j \in 1..Len(l) : Covers(l[j], v) /\ l[j].inh
  BY InhAt
<1>3. Inh(l, v) <=> InhBut(l, i, v) \/ (Covers(l[i], v) /\ l[i].inh)
  BY <1>2 DEF InhBut
<1>. QED  BY <1>1, <1>3

\* The revisions of a list whose i-th range is replaced are those of the new range and of the others.
LEMMA SetAtReplaces ==
  ASSUME NEW l \in Seq(Ranges), NEW i \in 1..Len(l), NEW r \in Ranges
  PROVE  Replaced(l, i, r, SetAt(l, i, r))
<1>0. /\ SetAt(l, i, r) \in Seq(Ranges) /\ Len(SetAt(l, i, r)) = Len(l) /\ SetAt(l, i, r)[i] = r
      /\ \A j \in 1..Len(l) : j # i => SetAt(l, i, r)[j] = l[j]
  BY SetAtFacts
<1>k. PICK k : k = SetAt(l, i, r)
  OBVIOUS
<1>1. k \in Seq(Ranges) /\ Len(k) = Len(l) /\ k[i] = r /\ \A j \in 1..Len(l) : j # i => k[j] = l[j]
  BY <1>0, <1>k
<1>2. ASSUME NEW v  PROVE On(k, v) <=> OnBut(l, i, v) \/ Covers(r, v)
  BY <1>1 DEF On, OnBut
<1>3. ASSUME NEW v  PROVE Inh(k, v) <=> InhBut(l, i, v) \/ (Covers(r, v) /\ r.inh)
  <2>1. Inh(k, v) <=> \E j \in 1..Len(k) : Covers(k[j], v) /\ k[j].inh
    BY <1>1, InhAt
  <2>. QED  BY <1>1, <2>1 DEF InhBut
<1>4. Replaced(l, i, r, k)
  BY <1>1, <1>2, <1>3 DEF Replaced
<1>. QED  BY <1>k, <1>4

\* The same of a list that has a name.
LEMMA SetAtMeans ==
  ASSUME NEW l \in Seq(Ranges), NEW i \in 1..Len(l), NEW r \in Ranges, NEW k, k = SetAt(l, i, r)
  PROVE  Replaced(l, i, r, k)
<1>1. Replaced(l, i, r, SetAt(l, i, r))
  BY SetAtReplaces
<1>. QED  BY <1>1

\* The list k is l with r inserted before its i-th range.
Inserted(l, i, r, k) ==
  /\ k \in Seq(Ranges) /\ Len(k) = Len(l) + 1 /\ k[i] = r
  /\ \A j \in 1..Len(l) : (j < i => k[j] = l[j]) /\ (i <= j => k[j + 1] = l[j])
  /\ \A v : On(k, v) <=> On(l, v) \/ Covers(r, v)
  /\ \A v : Inh(k, v) <=> Inh(l, v) \/ (Covers(r, v) /\ r.inh)

\* svn_sort__array_insert
LEMMA InsertAtMeans ==
  ASSUME NEW l \in Seq(Ranges), NEW i \in 1..(Len(l) + 1), NEW r \in Ranges, NEW k, k = InsertAt(l, i, r)
  PROVE  Inserted(l, i, r, k)
<1>n. PICK n \in Nat : n = Len(l)
  OBVIOUS
<1>i. i \in 1..(n + 1)
  BY <1>n
<1>1. PICK a, b, c : a = SubSeq(l, 1, i - 1) /\ b = SubSeq(l, i, n) /\ c = a \o <<r>> /\ k = c \o b
  BY <1>n DEF InsertAt
<1>2. \A j \in 1..n : l[j] \in Ranges
  BY <1>n, Elements
<1>3. /\ a \in Seq(Ranges) /\ Len(a) = i - 1
      /\ \A j \in 1..(i - 1) : a[j] = l[j]
  <2>1. 1 \in Int /\ i - 1 \in Int /\ \A j \in 1..(i - 1) : l[j] \in Ranges
    BY <1>i, <1>2
  <2>2. /\ SubSeq(l, 1, i - 1) \in Seq(Ranges)
        /\ Len(SubSeq(l, 1, i - 1)) = IF 1 <= i - 1 THEN (i - 1) - 1 + 1 ELSE 0
        /\ \A j \in 1..((i - 1) - 1 + 1) : SubSeq(l, 1, i - 1)[j] = l[1 + j - 1]
    BY <2>1, SubSeqProperties
  <2>3. \A j \in 1..(i - 1) : j \in 1..((i - 1) - 1 + 1) /\ 1 + j - 1 = j
    BY <1>i
  <2>4. Len(a) = i - 1
    BY <1>i, <1>1, <2>2
  <2>. QED  BY <1>1, <2>2, <2>3, <2>4
<1>4. /\ b \in Seq(Ranges) /\ Len(b) = n - i + 1
      /\ \A j \in 1..(n - i + 1) : b[j] = l[i + j - 1]
  <2>1. i \in Int /\ n \in Int /\ \A j \in i..n : l[j] \in Ranges
    BY <1>i, <1>2
  <2>2. /\ SubSeq(l, i, n) \in Seq(Ranges)
        /\ Len(SubSeq(l, i, n)) = IF i <= n THEN n - i + 1 ELSE 0
        /\ \A j \in 1..(n - i + 1) : SubSeq(l, i, n)[j] = l[i + j - 1]
    BY <2>1, SubSeqProperties
  <2>4. Len(b) = n - i + 1
    BY <1>i, <1>1, <2>2
  <2>. QED  BY <1>1, <2>2, <2>4
<1>5. /\ c \in Seq(Ranges) /\ Len(c) = i
      /\ (\A j \in 1..(i - 1) : c[j] = l[j]) /\ c[i] = r
  <2>1. c = Append(a, r)
    BY <1>1, <1>3, AppendIsConcat
  <2>2. /\ Append(a, r) \in Seq(Ranges) /\ Len(Append(a, r)) = Len(a) + 1
        /\ \A j \in 1..Len(a) : Append(a, r)[j] = a[j]
        /\ Append(a, r)[Len(a) + 1] = r
    BY <1>3, AppendFacts
  <2>3. Len(a) + 1 = i
    BY <1>i, <1>3
  <2>. QED  BY <1>3, <2>1, <2>2, <2>3
<1>6. /\ k \in Seq(Ranges) /\ Len(k) = n + 1
      /\ \A j \in 1..i : k[j] = c[j]
      /\ \A j \in 1..(n - i + 1) : k[i + j] = b[j]
  <2>1. /\ c \o b \in Seq(Ranges) /\ Len(c \o b) = Len(c) + Len(b)
        /\ \A j \in 1..Len(c) : (c \o b)[j] = c[j]
        /\ \A j \in 1..Len(b) : (c \o b)[Len(c) + j] = b[j]
    BY <1>4, <1>5, ConcatFacts
  <2>2. i + (n - i + 1) = n + 1
    BY <1>i
  <2>. QED  BY <1>1, <1>4, <1>5, <2>1, <2>2
<1>7. k[i] = r
  BY <1>i, <1>5, <1>6
<1>8. ASSUME NEW j \in 1..n, j < i  PROVE k[j] = l[j]
  <2>1. j \in 1..(i - 1) /\ j \in 1..i
    BY <1>i, <1>8
  <2>. QED  BY <1>5, <1>6, <2>1
<1>9. ASSUME NEW j \in 1..n, i <= j  PROVE k[j + 1] = l[j]
  <2>1. PICK d : d = j - i + 1
    OBVIOUS
  <2>2. d \in 1..(n - i + 1) /\ i + d = j + 1 /\ i + d - 1 = j
    BY <1>i, <1>9, <2>1
  <2>. QED  BY <1>4, <1>6, <2>2
<1>10. \A j \in 1..(n + 1) : j = i \/ (j < i /\ j \in 1..n) \/ (j - 1 \in 1..n /\ i <= j - 1 /\ (j - 1) + 1 = j)
  BY <1>i
<1>11. \A j \in 1..n : j \in 1..(n + 1) /\ j + 1 \in 1..(n + 1) /\ (j < i \/ i <= j)
  BY <1>i
<1>12. ASSUME NEW v  PROVE On(k, v) <=> On(l, v) \/ Covers(r, v)
  <2>1. ASSUME NEW j \in 1..(n + 1), Covers(k[j], v)  PROVE On(l, v) \/ Covers(r, v)
    BY <1>n, <1>7, <1>8, <1>9, <1>10, <2>1 DEF On
  <2>2. ASSUME NEW j \in 1..n, Covers(l[j], v)  PROVE On(k, v)
    BY <1>6, <1>8, <1>9, <1>11, <2>2 DEF On
  <2>3. Covers(r, v) => On(k, v)
    BY <1>i, <1>6, <1>7 DEF On
  <2>4. On(k, v) => On(l, v) \/ Covers(r, v)
    BY <1>6, <2>1 DEF On
  <2>5. On(l, v) => On(k, v)
    BY <1>n, <2>2 DEF On
  <2>. QED  BY <2>3, <2>4, <2>5
<1>13. ASSUME NEW v  PROVE Inh(k, v) <=> Inh(l, v) \/ (Covers(r, v) /\ r.inh)
  <2>k. Inh(k, v) <=> \E j \in 1..(n + 1) : Covers(k[j], v) /\ k[j].inh
    BY <1>6, InhAt
  <2>l. Inh(l, v) <=> \E j \in 1..n : Covers(l[j], v) /\ l[j].inh
    BY <1>n, InhAt
  <2>1. ASSUME NEW j \in 1..(n + 1), Covers(k[j], v), k[j].inh  PROVE Inh(l, v) \/ (Covers(r, v) /\ r.inh)
    <3>1. CASE j = i
      BY <1>7, <2>1, <3>1
    <3>2. CASE j < i /\ j \in 1..n
      <4>1. k[j] = l[j]
        BY <1>8, <3>2
      <4>. QED  BY <2>1, <2>l, <3>2, <4>1
    <3>3. CASE j - 1 \in 1..n /\ i <= j - 1 /\ (j - 1) + 1 = j
      <4>1. PICK d \in 1..n : d = j - 1 /\ i <= d /\ d + 1 = j
        BY <3>3
      <4>2. k[j] = l[d]
        BY <1>9, <4>1
      <4>. QED  BY <2>1, <2>l, <4>2
    <3>. QED  BY <1>10, <3>1, <3>2, <3>3
  <2>2. ASSUME NEW j \in 1..n, Covers(l[j], v), l[j].inh  PROVE Inh(k, v)
    BY <1>8, <1>9, <1>11, <2>2, <2>k
  <2>3. Covers(r, v) /\ r.inh => Inh(k, v)
    BY <1>i, <1>7, <2>k
  <2>. QED  BY <2>1, <2>2, <2>3, <2>k, <2>l
<1>14. \A j \in 1..Len(l) : (j < i => k[j] = l[j]) /\ (i <= j => k[j + 1] = l[j])
  BY <1>n, <1>8, <1>9
<1>. QED  BY <1>n, <1>6, <1>7, <1>12, <1>13, <1>14 DEF Inserted

\* The list k is l without the n ranges that begin with the from-th.
Removed(l, from, n, k) ==
  /\ k \in Seq(Ranges) /\ Len(k) = Len(l) - n
  /\ \A j \in 1..(from - 1) : k[j] = l[j]
  /\ \A j \in from..(Len(l) - n) : k[j] = l[j + n]

\* svn_sort__array_delete
LEMMA WithoutMeans ==
  ASSUME NEW l \in Seq(Ranges), NEW from \in Nat \ {0}, NEW n \in Nat, from + n <= Len(l) + 1,
         NEW k, k = Without(l, from, n)
  PROVE  Removed(l, from, n, k)
<1>m. PICK m \in Nat : m = Len(l)
  OBVIOUS
<1>i. from + n <= m + 1 /\ ~(from + n > m + 1)
  BY <1>m
<1>1. PICK a, b : a = SubSeq(l, 1, from - 1) /\ b = SubSeq(l, from + n, m) /\ k = a \o b
  BY <1>m, <1>i DEF Without
<1>2. \A j \in 1..m : l[j] \in Ranges
  BY <1>m, Elements
<1>3. /\ a \in Seq(Ranges) /\ Len(a) = from - 1
      /\ \A j \in 1..(from - 1) : a[j] = l[j]
  <2>1. 1 \in Int /\ from - 1 \in Int /\ \A j \in 1..(from - 1) : l[j] \in Ranges
    BY <1>i, <1>2
  <2>2. /\ SubSeq(l, 1, from - 1) \in Seq(Ranges)
        /\ Len(SubSeq(l, 1, from - 1)) = IF 1 <= from - 1 THEN (from - 1) - 1 + 1 ELSE 0
        /\ \A j \in 1..((from - 1) - 1 + 1) : SubSeq(l, 1, from - 1)[j] = l[1 + j - 1]
    BY <2>1, SubSeqProperties
  <2>3. \A j \in 1..(from - 1) : j \in 1..((from - 1) - 1 + 1) /\ 1 + j - 1 = j
    BY <1>i
  <2>4. Len(a) = from - 1
    BY <1>i, <1>1, <2>2
  <2>. QED  BY <1>1, <2>2, <2>3, <2>4
<1>4. /\ b \in Seq(Ranges) /\ Len(b) = m - (from + n) + 1
      /\ \A j \in 1..(m - (from + n) + 1) : b[j] = l[(from + n) + j - 1]
  <2>1. from + n \in Int /\ m \in Int /\ \A j \in (from + n)..m : l[j] \in Ranges
    BY <1>i, <1>2
  <2>2. /\ SubSeq(l, from + n, m) \in Seq(Ranges)
        /\ Len(SubSeq(l, from + n, m)) = IF from + n <= m THEN m - (from + n) + 1 ELSE 0
        /\ \A j \in 1..(m - (from + n) + 1) : SubSeq(l, from + n, m)[j] = l[(from + n) + j - 1]
    BY <2>1, SubSeqProperties
  <2>4. Len(b) = m - (from + n) + 1
    BY <1>i, <1>1, <2>2
  <2>. QED  BY <1>1, <2>2, <2>4
<1>5. /\ k \in Seq(Ranges) /\ Len(k) = m - n
      /\ \A j \in 1..(from - 1) : k[j] = a[j]
      /\ \A j \in 1..(m - (from + n) + 1) : k[(from - 1) + j] = b[j]
  <2>1. /\ a \o b \in Seq(Ranges) /\ Len(a \o b) = Len(a) + Len(b)
        /\ \A j \in 1..Len(a) : (a \o b)[j] = a[j]
        /\ \A j \in 1..Len(b) : (a \o b)[Len(a) + j] = b[j]
    BY <1>3, <1>4, ConcatFacts
  <2>2. (from - 1) + (m - (from + n) + 1) = m - n
    BY <1>i
  <2>. QED  BY <1>1, <1>3, <1>4, <2>1, <2>2
<1>6. ASSUME NEW j \in from..(m - n)  PROVE k[j] = l[j + n]
  <2>1. PICK d : d = j - from + 1
    OBVIOUS
  <2>2. d \in 1..(m - (from + n) + 1) /\ (from - 1) + d = j /\ (from + n) + d - 1 = j + n
    BY <1>i, <1>6, <2>1
  <2>. QED  BY <1>4, <1>5, <2>2
<1>. QED  BY <1>m, <1>3, <1>5, <1>6 DEF Removed

\* Nothing is removed.
LEMMA WithoutNone ==
  ASSUME NEW l \in Seq(Ranges), NEW from \in Nat \ {0}
  PROVE  Without(l, from, 0) = l
<1>m. PICK m \in Nat : m = Len(l)
  OBVIOUS
<1>1. CASE from + 0 > m + 1
  BY <1>m, <1>1 DEF Without
<1>2. CASE ~(from + 0 > m + 1)
  <2>1. PICK k : k = Without(l, from, 0)
    OBVIOUS
  <2>2. 0 \in Nat /\ from + 0 <= Len(l) + 1
    BY <1>m, <1>2
  <2>3. Removed(l, from, 0, k)
    BY <2>1, <2>2, WithoutMeans
  <2>4. k \in Seq(Ranges) /\ Len(k) = Len(l)
    BY <1>m, <2>3 DEF Removed
  <2>5. ASSUME NEW j \in 1..m  PROVE k[j] = l[j]
    <3>1. j \in 1..(from - 1) \/ (j \in from..(Len(l) - 0) /\ j + 0 = j)
      BY <1>m
    <3>. QED  BY <2>3, <3>1 DEF Removed
  <2>6. k = l
    BY <1>m, <2>4, <2>5, SeqEqual
  <2>. QED  BY <2>1, <2>6
<1>. QED  BY <1>1, <1>2

--------------------------------------------------------------------------------
(* adjust_remaining_ranges.                                                 *)

\* The first range that is not absorbed.
LEMMA FirstKeptFacts ==
  ASSUME NEW l, NEW i \in Nat, NEW n \in Nat, n = Len(l), i <= n, NEW k, k = FirstKept(l, i)
  PROVE  /\ k \in (i + 1)..(n + 1)
         /\ k = n + 1 \/ ~Absorbs(l[i], l[k])
         /\ \A j \in (i + 1)..(k - 1) : Absorbs(l[i], l[j])
<1>. DEFINE P(x) == /\ x = n + 1 \/ ~Absorbs(l[i], l[x])
                    /\ \A j \in (i + 1)..(x - 1) : Absorbs(l[i], l[j])
<1>1. \E x \in (i + 1)..(n + 1) : P(x)
  <2>. SUFFICES ASSUME \A x \in (i + 1)..(n + 1) : ~P(x)  PROVE FALSE
    OBVIOUS
  <2>. DEFINE B == {d \in Nat : i + 1 + d <= n + 1 => \A j \in (i + 1)..(i + d) : Absorbs(l[i], l[j])}
  <2>1. 0 \in B
    OBVIOUS
  <2>2. ASSUME NEW d \in Nat, d \in B  PROVE d + 1 \in B
    <3>. SUFFICES ASSUME i + 1 + (d + 1) <= n + 1, NEW j \in (i + 1)..(i + (d + 1))  PROVE Absorbs(l[i], l[j])
      OBVIOUS
    <3>1. \A y \in (i + 1)..(i + d) : Absorbs(l[i], l[y])
      BY <2>2
    <3>2. CASE j \in (i + 1)..(i + d)
      BY <3>1, <3>2
    <3>3. CASE j = i + 1 + d
      <4>1. j \in (i + 1)..(n + 1) /\ j # n + 1 /\ j - 1 = i + d
        BY <3>3
      <4>2. \A y \in (i + 1)..(j - 1) : Absorbs(l[i], l[y])
        BY <3>1, <4>1
      <4>. QED  BY <4>1, <4>2
    <3>. QED  BY <3>2, <3>3
  <2>. HIDE DEF B
  <2>3. n - i \in B
    <3>1. \A d \in Nat : d \in B
      BY <2>1, <2>2, SetInduction
    <3>. QED  BY <3>1
  <2>4. \A j \in (i + 1)..((n + 1) - 1) : Absorbs(l[i], l[j])
    <3>1. i + 1 + (n - i) <= n + 1 /\ i + (n - i) = (n + 1) - 1
      OBVIOUS
    <3>. QED  BY <2>3, <3>1 DEF B
  <2>5. P(n + 1) /\ n + 1 \in (i + 1)..(n + 1)
    BY <2>4
  <2>. QED  BY <2>5
<1>2. k = CHOOSE x \in (i + 1)..(n + 1) : P(x)
  BY DEF FirstKept
<1>. HIDE DEF P
<1>3. k \in (i + 1)..(n + 1) /\ P(k)
  BY <1>1, <1>2
<1>. QED  BY <1>3 DEF P

\* What an activation leaves: the list x, the index moved by d, n more ranges to delete.
Left(s, k, x, d, n, more) ==
  [list |-> x, i |-> s.i + d, dels |-> <<[from |-> s.i + 1, n |-> k - s.i - 1 + n]>> \o s.dels, more |-> more]

\* The range m grown, its end moved to rev.
Upto(l, i, rev) == SetAt(l, i, [l[i] EXCEPT !.end = rev])

\* The outcomes of an activation.
Outcomes(s, k, l, i, m, q) ==
  /\ k > Len(l) => Activation(s, k) = Left(s, k, l, 0, 0, FALSE)
  /\ k <= Len(l) =>
       /\ m.end < q.start => Activation(s, k) = Left(s, k, l, 0, 0, FALSE)
       /\ m.end = q.start /\ m.inh = q.inh => Activation(s, k) = Left(s, k, Upto(l, i, q.end), 0, 1, FALSE)
       /\ m.end = q.start /\ m.inh # q.inh => Activation(s, k) = Left(s, k, l, 1, 0, FALSE)
       /\ m.end > q.start /\ m.end > q.end =>
            Activation(s, k) = Left(s, k, InsertAt(Upto(l, i, q.start), i + 2, Span(q.end, m.end, FALSE)), 2, 0, TRUE)
       /\ m.end > q.start /\ m.end = q.end /\ (m.inh \/ ~q.inh) => Activation(s, k) = Left(s, k, l, 0, 1, FALSE)
       /\ m.end > q.start /\ m.end <= q.end /\ ~m.inh /\ q.inh =>
            Activation(s, k) = Left(s, k, Upto(l, i, q.start), 1, 0, FALSE)
       /\ m.end > q.start /\ m.end < q.end /\ m.inh = q.inh =>
            Activation(s, k) = Left(s, k, Upto(l, i, q.end), 0, 1, FALSE)
       /\ m.end > q.start /\ m.end < q.end /\ m.inh /\ ~q.inh =>
            Activation(s, k) = Left(s, k, SetAt(l, k, [q EXCEPT !.start = m.end]), 1, 0, FALSE)

\* How two numbers compare.
Trich(a, b) ==
  /\ a < b \/ a = b \/ a > b
  /\ ~(a < b /\ a = b) /\ ~(a < b /\ a > b) /\ ~(a = b /\ a > b)
  /\ (a >= b <=> ~(a < b)) /\ (a <= b <=> ~(a > b)) /\ (a > b <=> b < a)

\* Just one of the three.
LEMMA Trichotomy ==
  ASSUME NEW a \in Int, NEW b \in Int
  PROVE  Trich(a, b)
  BY DEF Trich

\* An activation ends in the case that the two ranges decide.
LEMMA ActivationIs ==
  ASSUME NEW s, NEW k \in Nat, NEW l \in Seq(Ranges), NEW i \in 1..Len(l), l = s.list, i = s.i, i < k,
         NEW m, NEW q, m = l[i], q = l[k]
  PROVE  Outcomes(s, k, l, i, m, q)
<1>0. m.start \in Int /\ m.end \in Int /\ m.inh \in BOOLEAN
  BY Elements
<1>1. ASSUME k > Len(l)  PROVE Activation(s, k) = Left(s, k, l, 0, 0, FALSE)
  BY <1>1, Zenon DEF Activation, Left
<1>2. ASSUME k <= Len(l)  PROVE q.start \in Int /\ q.end \in Int /\ q.inh \in BOOLEAN
  <2>1. k \in 1..Len(l)
    BY <1>2
  <2>. QED  BY <2>1, Elements
<1>c. ASSUME k <= Len(l)
      PROVE  Trich(m.end, q.start) /\ Trich(m.end, q.end) /\ ~(k > Len(l)) /\ m.inh \in BOOLEAN /\ q.inh \in BOOLEAN
  <2>1. Trich(m.end, q.start)
    BY <1>0, <1>2, <1>c, Trichotomy, Zenon
  <2>2. Trich(m.end, q.end)
    BY <1>0, <1>2, <1>c, Trichotomy, Zenon
  <2>3. ~(k > Len(l))
    BY <1>c
  <2>. QED  BY <1>0, <1>2, <1>c, <2>1, <2>2, <2>3
<1>3. ASSUME k <= Len(l), m.end < q.start  PROVE Activation(s, k) = Left(s, k, l, 0, 0, FALSE)
  BY <1>c, <1>3, Zenon DEF Trich, Activation, Left
<1>4. ASSUME k <= Len(l), m.end = q.start, m.inh = q.inh  PROVE Activation(s, k) = Left(s, k, Upto(l, i, q.end), 0, 1, FALSE)
  BY <1>c, <1>4, Zenon DEF Trich, Activation, Left, Upto
<1>5. ASSUME k <= Len(l), m.end = q.start, m.inh # q.inh  PROVE Activation(s, k) = Left(s, k, l, 1, 0, FALSE)
  BY <1>c, <1>5, Zenon DEF Trich, Activation, Left
<1>6. ASSUME k <= Len(l), m.end > q.start, m.end > q.end
      PROVE  Activation(s, k) = Left(s, k, InsertAt(Upto(l, i, q.start), i + 2, Span(q.end, m.end, FALSE)), 2, 0, TRUE)
  BY <1>c, <1>6, Zenon DEF Trich, Activation, Left, Upto
<1>7. ASSUME k <= Len(l), m.end > q.start, m.end = q.end, m.inh \/ ~q.inh
      PROVE  Activation(s, k) = Left(s, k, l, 0, 1, FALSE)
  BY <1>c, <1>7, Zenon DEF Trich, Activation, Left
<1>8. ASSUME k <= Len(l), m.end > q.start, m.end <= q.end, ~m.inh, q.inh
      PROVE  Activation(s, k) = Left(s, k, Upto(l, i, q.start), 1, 0, FALSE)
  <2>0. m.inh # q.inh
    <3>1. m.inh = FALSE /\ q.inh = TRUE
      BY <1>0, <1>2, <1>8
    <3>. QED  BY <3>1
  <2>1. CASE m.end = q.end
    BY <1>c, <1>8, <2>0, <2>1, Zenon DEF Trich, Activation, Left, Upto
  <2>2. CASE m.end < q.end
    BY <1>c, <1>8, <2>0, <2>2, Zenon DEF Trich, Activation, Left, Upto
  <2>3. m.end = q.end \/ m.end < q.end
    <3>1. m.end \in Int /\ q.end \in Int /\ m.end <= q.end
      BY <1>0, <1>2, <1>8
    <3>. QED  BY <3>1
  <2>. QED  BY <2>1, <2>2, <2>3
<1>9. ASSUME k <= Len(l), m.end > q.start, m.end < q.end, m.inh = q.inh
      PROVE  Activation(s, k) = Left(s, k, Upto(l, i, q.end), 0, 1, FALSE)
  BY <1>c, <1>9, Zenon DEF Trich, Activation, Left, Upto
<1>10. ASSUME k <= Len(l), m.end > q.start, m.end < q.end, m.inh, ~q.inh
       PROVE  Activation(s, k) = Left(s, k, SetAt(l, k, [q EXCEPT !.start = m.end]), 1, 0, FALSE)
  <2>1. /\ ~(k > Len(l)) /\ (m.end > q.start /\ m.end < q.end /\ m.inh /\ ~q.inh)
        /\ ~(m.end < q.start)
        /\ ~(m.end = q.start /\ m.inh = q.inh)
        /\ ~(m.end = q.start /\ m.inh # q.inh)
        /\ ~(m.end > q.start /\ m.end > q.end)
        /\ ~(m.end > q.start /\ m.end = q.end /\ (m.inh \/ ~q.inh))
        /\ ~(m.end > q.start /\ m.end = q.end /\ ~m.inh /\ q.inh)
        /\ ~(m.end > q.start /\ m.end < q.end /\ m.inh = q.inh)
        /\ ~(m.end > q.start /\ m.end < q.end /\ ~m.inh /\ q.inh)
    <3>1. m.inh = TRUE /\ q.inh = FALSE
      BY <1>0, <1>2, <1>10
    <3>2. m.inh # q.inh
      BY <3>1
    <3>. QED  BY <1>c, <1>10, <3>2, Zenon DEF Trich
  <2>. QED  BY <2>1, Zenon DEF Activation, Left
<1>. QED  BY <1>1, <1>3, <1>4, <1>5, <1>6, <1>7, <1>8, <1>9, <1>10, Zenon DEF Outcomes

\* The activations of adjust_remaining_ranges.
IsAdjust(f, l, i) ==
  /\ f[0] = [list |-> l, i |-> i, dels |-> << >>, more |-> TRUE]
  /\ \A k \in 1..Len(l) : f[k] = AdjustTurn(f[k - 1])

\* adjust_remaining_ranges is what they end with.
LEMMA AdjustTurns ==
  ASSUME NEW l, Len(l) \in Nat, NEW i
  PROVE  \E f : IsAdjust(f, l, i) /\ AdjustRemaining(l, i) = AllDeleted(f[Len(l)])
<1>n. PICK n \in Nat : n = Len(l)
  OBVIOUS
<1>. DEFINE Start == [list |-> l, i |-> i, dels |-> << >>, more |-> TRUE]
<1>. DEFINE Turns(m, f) == f = [k \in 0..m |-> IF k = 0 THEN Start ELSE AdjustTurn(f[k - 1])]
<1>. DEFINE B == {m \in Nat : \E f : Turns(m, f)}
<1>1. 0 \in B
  <2>1. PICK f : f = [k \in 0..0 |-> Start]
    OBVIOUS
  <2>2. Turns(0, f)
    BY <2>1
  <2>. QED  BY <2>2
<1>2. ASSUME NEW m \in Nat, m \in B  PROVE m + 1 \in B
  <2>1. PICK f : Turns(m, f)
    BY <1>2
  <2>2. PICK h : h = [k \in 0..m + 1 |-> IF k <= m THEN f[k] ELSE AdjustTurn(f[m])]
    OBVIOUS
  <2>3. ASSUME NEW k \in 0..m + 1  PROVE h[k] = IF k = 0 THEN Start ELSE AdjustTurn(h[k - 1])
    <3>1. CASE k = m + 1
      BY <2>2, <3>1
    <3>2. CASE k = 0
      BY <2>1, <2>2, <3>2
    <3>3. CASE k \in 1..m
      <4>1. k \in 0..m /\ k # 0 /\ k - 1 \in 0..m /\ k <= m /\ k - 1 <= m /\ k - 1 \in 0..m + 1
        BY <3>3
      <4>2. h[k] = f[k] /\ h[k - 1] = f[k - 1]
        BY <2>2, <4>1
      <4>3. f[k] = AdjustTurn(f[k - 1])
        BY <2>1, <4>1
      <4>. QED  BY <4>1, <4>2, <4>3
    <3>4. k = m + 1 \/ k = 0 \/ k \in 1..m
      OBVIOUS
    <3>. QED  BY <3>1, <3>2, <3>3, <3>4
  <2>4. Turns(m + 1, h)
    BY <2>2, <2>3
  <2>. QED  BY <2>4
<1>. HIDE DEF B
<1>3. n \in B
  BY <1>1, <1>2, SetInduction
<1>. DEFINE G == CHOOSE f : Turns(n, f)
<1>4. Turns(n, G)
  BY <1>3 DEF B
<1>5. AdjustRemaining(l, i) = AllDeleted(G[n])
  BY <1>n DEF AdjustRemaining
<1>. HIDE DEF G
<1>6. IsAdjust(G, l, i)
  <2>1. G[0] = Start
    BY <1>4
  <2>2. ASSUME NEW k \in 1..n  PROVE G[k] = AdjustTurn(G[k - 1])
    <3>1. k \in 0..n /\ k # 0
      OBVIOUS
    <3>. QED  BY <1>4, <3>1
  <2>. QED  BY <1>n, <2>1, <2>2 DEF IsAdjust
<1>. QED  BY <1>n, <1>5, <1>6

\* The deletions of the activations, the innermost first.
IsDeleted(f, s) ==
  /\ f[0] = s.list
  /\ \A k \in 1..Len(s.dels) : f[k] = Without(f[k - 1], s.dels[k].from, s.dels[k].n)

\* What they end with.
LEMMA DeletedTurns ==
  ASSUME NEW s, Len(s.dels) \in Nat
  PROVE  \E f : IsDeleted(f, s) /\ AllDeleted(s) = [s EXCEPT !.list = f[Len(s.dels)]]
<1>n. PICK n \in Nat : n = Len(s.dels)
  OBVIOUS
<1>. DEFINE Start == s.list
<1>. DEFINE Turns(m, f) == f = [k \in 0..m |-> IF k = 0 THEN Start ELSE Without(f[k - 1], s.dels[k].from, s.dels[k].n)]
<1>. DEFINE B == {m \in Nat : \E f : Turns(m, f)}
<1>1. 0 \in B
  <2>1. PICK f : f = [k \in 0..0 |-> Start]
    OBVIOUS
  <2>2. Turns(0, f)
    BY <2>1
  <2>. QED  BY <2>2
<1>2. ASSUME NEW m \in Nat, m \in B  PROVE m + 1 \in B
  <2>1. PICK f : Turns(m, f)
    BY <1>2
  <2>2. PICK h : h = [k \in 0..m + 1 |-> IF k <= m THEN f[k] ELSE Without(f[m], s.dels[m + 1].from, s.dels[m + 1].n)]
    OBVIOUS
  <2>3. ASSUME NEW k \in 0..m + 1  PROVE h[k] = IF k = 0 THEN Start ELSE Without(h[k - 1], s.dels[k].from, s.dels[k].n)
    <3>1. CASE k = m + 1
      BY <2>2, <3>1
    <3>2. CASE k = 0
      BY <2>1, <2>2, <3>2
    <3>3. CASE k \in 1..m
      <4>1. k \in 0..m /\ k # 0 /\ k - 1 \in 0..m /\ k <= m /\ k - 1 <= m /\ k - 1 \in 0..m + 1
        BY <3>3
      <4>2. h[k] = f[k] /\ h[k - 1] = f[k - 1]
        BY <2>2, <4>1
      <4>3. f[k] = Without(f[k - 1], s.dels[k].from, s.dels[k].n)
        BY <2>1, <4>1
      <4>. QED  BY <4>1, <4>2, <4>3
    <3>4. k = m + 1 \/ k = 0 \/ k \in 1..m
      OBVIOUS
    <3>. QED  BY <3>1, <3>2, <3>3, <3>4
  <2>4. Turns(m + 1, h)
    BY <2>2, <2>3
  <2>. QED  BY <2>4
<1>. HIDE DEF B
<1>3. n \in B
  BY <1>1, <1>2, SetInduction
<1>. DEFINE G == CHOOSE f : Turns(n, f)
<1>4. Turns(n, G)
  BY <1>3 DEF B
<1>5. AllDeleted(s) = [s EXCEPT !.list = G[n]]
  BY <1>n DEF AllDeleted
<1>. HIDE DEF G
<1>6. IsDeleted(G, s)
  <2>1. G[0] = Start
    BY <1>4
  <2>2. ASSUME NEW k \in 1..n  PROVE G[k] = Without(G[k - 1], s.dels[k].from, s.dels[k].n)
    <3>1. k \in 0..n /\ k # 0
      OBVIOUS
    <3>. QED  BY <1>4, <3>1
  <2>. QED  BY <1>n, <2>1, <2>2 DEF IsDeleted
<1>. QED  BY <1>n, <1>5, <1>6

\* What the loop of svn_rangelist_merge2 has done after each turn.
IsMerge(f, l, changes) ==
  /\ f[0] = [list |-> l, i |-> 1, changes |-> changes]
  /\ \A k \in 1..(4 * N + 2 * Len(l) + 1) : f[k] = MergeTurn(f[k - 1])

\* svn_rangelist_merge2 is what the loop ends with, and the rest of the changes.
LEMMA MergeTurns ==
  ASSUME NEW l, Len(l) \in Nat, NEW changes
  PROVE  \E f : IsMerge(f, l, changes) /\ Merge(l, changes) = Rest(f[4 * N + 2 * Len(l) + 1])
<1>n. PICK n \in Nat : n = 4 * N + 2 * Len(l) + 1
  OBVIOUS
<1>. DEFINE Start == [list |-> l, i |-> 1, changes |-> changes]
<1>. DEFINE Turns(m, f) == f = [k \in 0..m |-> IF k = 0 THEN Start ELSE MergeTurn(f[k - 1])]
<1>. DEFINE B == {m \in Nat : \E f : Turns(m, f)}
<1>1. 0 \in B
  <2>1. PICK f : f = [k \in 0..0 |-> Start]
    OBVIOUS
  <2>2. Turns(0, f)
    BY <2>1
  <2>. QED  BY <2>2
<1>2. ASSUME NEW m \in Nat, m \in B  PROVE m + 1 \in B
  <2>1. PICK f : Turns(m, f)
    BY <1>2
  <2>2. PICK h : h = [k \in 0..m + 1 |-> IF k <= m THEN f[k] ELSE MergeTurn(f[m])]
    OBVIOUS
  <2>3. ASSUME NEW k \in 0..m + 1  PROVE h[k] = IF k = 0 THEN Start ELSE MergeTurn(h[k - 1])
    <3>1. CASE k = m + 1
      BY <2>2, <3>1
    <3>2. CASE k = 0
      BY <2>1, <2>2, <3>2
    <3>3. CASE k \in 1..m
      <4>1. k \in 0..m /\ k # 0 /\ k - 1 \in 0..m /\ k <= m /\ k - 1 <= m /\ k - 1 \in 0..m + 1
        BY <3>3
      <4>2. h[k] = f[k] /\ h[k - 1] = f[k - 1]
        BY <2>2, <4>1
      <4>3. f[k] = MergeTurn(f[k - 1])
        BY <2>1, <4>1
      <4>. QED  BY <4>1, <4>2, <4>3
    <3>4. k = m + 1 \/ k = 0 \/ k \in 1..m
      OBVIOUS
    <3>. QED  BY <3>1, <3>2, <3>3, <3>4
  <2>4. Turns(m + 1, h)
    BY <2>2, <2>3
  <2>. QED  BY <2>4
<1>. HIDE DEF B
<1>3. n \in B
  BY <1>1, <1>2, SetInduction
<1>. DEFINE G == CHOOSE f : Turns(n, f)
<1>4. Turns(n, G)
  BY <1>3 DEF B
<1>5. Merge(l, changes) = Rest(G[n])
  BY <1>n DEF Merge
<1>. HIDE DEF G
<1>6. IsMerge(G, l, changes)
  <2>1. G[0] = Start
    BY <1>4
  <2>2. ASSUME NEW k \in 1..n  PROVE G[k] = MergeTurn(G[k - 1])
    <3>1. k \in 0..n /\ k # 0
      OBVIOUS
    <3>. QED  BY <1>4, <3>1
  <2>. QED  BY <1>n, <2>1, <2>2 DEF IsMerge
<1>. QED  BY <1>n, <1>5, <1>6

\* The states of the activations.
Cuts    == [from : Nat \ {0}, n : Nat]
AStates == [list : Seq(Ranges), i : Nat \ {0}, dels : Seq(Cuts), more : BOOLEAN]

\* What makes one.
LEMMA AStateFacts ==
  /\ \A s \in AStates : s.list \in Seq(Ranges) /\ s.i \in Nat \ {0} /\ s.dels \in Seq(Cuts) /\ s.more \in BOOLEAN
  /\ \A x \in Seq(Ranges), j \in Nat \ {0}, d \in Seq(Cuts), b \in BOOLEAN : [list |-> x, i |-> j, dels |-> d, more |-> b] \in AStates
  BY DEF AStates

\* p is the range from s to e.
IsRange(p, s, e, b) == p \in Ranges /\ p.start = s /\ p.end = e /\ p.inh = b

\* A range with another start.
LEMMA StartSet ==
  ASSUME NEW r \in Ranges, NEW s \in 0..N
  PROVE  IsRange([r EXCEPT !.start = s], s, r.end, r.inh)
  BY DEF Ranges, IsRange

\* A range with another end.
LEMMA EndSet ==
  ASSUME NEW r \in Ranges, NEW e \in 0..N
  PROVE  IsRange([r EXCEPT !.end = e], r.start, e, r.inh)
  BY DEF Ranges, IsRange

\* Both are ranges.
LEMMA ExceptFacts ==
  ASSUME NEW r \in Ranges, NEW e \in 0..N
  PROVE  /\ [r EXCEPT !.end = e] \in Ranges /\ [r EXCEPT !.end = e].start = r.start
         /\ [r EXCEPT !.end = e].end = e /\ [r EXCEPT !.end = e].inh = r.inh
         /\ [r EXCEPT !.start = e] \in Ranges /\ [r EXCEPT !.start = e].start = e
         /\ [r EXCEPT !.start = e].end = r.end /\ [r EXCEPT !.start = e].inh = r.inh
  BY DEF Ranges

\* An activation leaves a state of the activations.
LEMMA LeftType ==
  ASSUME NEW s \in AStates, NEW k \in Nat, s.i < k, NEW x \in Seq(Ranges), NEW d \in Nat, NEW n \in Nat, NEW b \in BOOLEAN
  PROVE  Left(s, k, x, d, n, b) \in AStates
<1>1. s.i \in Nat \ {0} /\ s.dels \in Seq(Cuts)
  BY AStateFacts
<1>2. [from |-> s.i + 1, n |-> k - s.i - 1 + n] \in Cuts
  BY <1>1 DEF Cuts
<1>3. PICK cut \in Cuts : cut = [from |-> s.i + 1, n |-> k - s.i - 1 + n]
  BY <1>2
<1>4. <<cut>> \in Seq(Cuts)
  OBVIOUS
<1>5. PICK ds : ds = <<cut>> \o s.dels
  OBVIOUS
<1>6. ds \in Seq(Cuts)
  BY <1>1, <1>4, <1>5, ConcatProperties
<1>7. s.i + d \in Nat \ {0}
  BY <1>1
<1>8. [list |-> x, i |-> s.i + d, dels |-> ds, more |-> b] \in AStates
  BY <1>6, <1>7, AStateFacts
<1>. QED  BY <1>3, <1>5, <1>8 DEF Left

\* The end of a range is moved.
LEMMA UptoFacts ==
  ASSUME NEW l \in Seq(Ranges), NEW i \in 1..Len(l), NEW e \in 0..N, NEW k, k = Upto(l, i, e),
         NEW r, r = [l[i] EXCEPT !.end = e]
  PROVE  Replaced(l, i, r, k) /\ r \in Ranges /\ r.start = l[i].start /\ r.end = e /\ r.inh = l[i].inh
<1>1. l[i] \in Ranges
  BY Elements
<1>2. r \in Ranges /\ r.start = l[i].start /\ r.end = e /\ r.inh = l[i].inh
  BY <1>1, ExceptFacts
<1>3. k = SetAt(l, i, r)
  BY DEF Upto
<1>. QED  BY <1>2, <1>3, SetAtMeans

\* An activation leaves a list of ranges.
LEMMA ActivationType ==
  ASSUME NEW s \in AStates, s.i <= Len(s.list), NEW k \in (s.i + 1)..(Len(s.list) + 1)
  PROVE  Activation(s, k) \in AStates
<1>l. PICK l \in Seq(Ranges) : l = s.list
  BY AStateFacts
<1>n. PICK n \in Nat : n = Len(l)
  OBVIOUS
<1>i. PICK i \in 1..Len(l) : i = s.i
  <2>1. s.i \in Nat \ {0} /\ s.i <= n
    BY <1>l, <1>n, AStateFacts
  <2>. QED  BY <1>n, <2>1
<1>m. PICK m, q : m = l[i] /\ q = l[k]
  OBVIOUS
<1>k. k \in Nat /\ i < k /\ s.i < k /\ k \in (i + 1)..(n + 1)
  <2>1. i \in Nat
    OBVIOUS
  <2>. QED  BY <1>l, <1>n, <1>i, <2>1
<1>0. m \in Ranges /\ m.start \in 0..N /\ m.end \in 0..N /\ m.inh \in BOOLEAN
  BY <1>m, Elements
<1>t. \A x \in Seq(Ranges), d \in {0, 1, 2}, j \in {0, 1}, b \in BOOLEAN : Left(s, k, x, d, j, b) \in AStates
  BY <1>k, LeftType
<1>o. Outcomes(s, k, l, i, m, q)
  BY <1>l, <1>i, <1>m, <1>k, ActivationIs
<1>1. CASE k > Len(l)
  <2>1. Activation(s, k) = Left(s, k, l, 0, 0, FALSE)
    BY <1>o, <1>1 DEF Outcomes
  <2>. QED  BY <1>t, <2>1
<1>2. CASE k <= Len(l)
  <2>k. k \in 1..Len(l)
    BY <1>n, <1>k, <1>2
  <2>0. q \in Ranges /\ q.start \in 0..N /\ q.end \in 0..N /\ q.inh \in BOOLEAN
    BY <1>m, <2>k, Elements
  <2>1. \A e \in 0..N : Upto(l, i, e) \in Seq(Ranges) /\ Len(Upto(l, i, e)) = n
    <3>. TAKE e \in 0..N
    <3>1. PICK u, r : u = Upto(l, i, e) /\ r = [l[i] EXCEPT !.end = e]
      OBVIOUS
    <3>2. Replaced(l, i, r, u)
      BY <3>1, UptoFacts
    <3>. QED  BY <1>n, <3>1, <3>2 DEF Replaced
  <2>2. InsertAt(Upto(l, i, q.start), i + 2, Span(q.end, m.end, FALSE)) \in Seq(Ranges)
    <3>1. PICK u \in Seq(Ranges), r \in Ranges : u = Upto(l, i, q.start) /\ r = Span(q.end, m.end, FALSE) /\ Len(u) = n
      BY <1>0, <2>0, <2>1, SpanFacts
    <3>2. i + 2 \in 1..(Len(u) + 1)
      BY <1>n, <1>k, <1>2, <3>1
    <3>3. PICK j, x : j \in 1..(Len(u) + 1) /\ j = i + 2 /\ x = InsertAt(u, j, r)
      BY <3>2
    <3>4. Inserted(u, j, r, x)
      BY <3>3, InsertAtMeans
    <3>. QED  BY <3>1, <3>3, <3>4 DEF Inserted
  <2>3. SetAt(l, k, [q EXCEPT !.start = m.end]) \in Seq(Ranges)
    BY <1>0, <2>k, <2>0, ExceptFacts, SetAtFacts
  <2>4. /\ m.end < q.start => Activation(s, k) = Left(s, k, l, 0, 0, FALSE)
        /\ m.end = q.start /\ m.inh = q.inh => Activation(s, k) = Left(s, k, Upto(l, i, q.end), 0, 1, FALSE)
        /\ m.end = q.start /\ m.inh # q.inh => Activation(s, k) = Left(s, k, l, 1, 0, FALSE)
        /\ m.end > q.start /\ m.end > q.end =>
             Activation(s, k) = Left(s, k, InsertAt(Upto(l, i, q.start), i + 2, Span(q.end, m.end, FALSE)), 2, 0, TRUE)
        /\ m.end > q.start /\ m.end = q.end /\ (m.inh \/ ~q.inh) => Activation(s, k) = Left(s, k, l, 0, 1, FALSE)
        /\ m.end > q.start /\ m.end <= q.end /\ ~m.inh /\ q.inh =>
             Activation(s, k) = Left(s, k, Upto(l, i, q.start), 1, 0, FALSE)
        /\ m.end > q.start /\ m.end < q.end /\ m.inh = q.inh =>
             Activation(s, k) = Left(s, k, Upto(l, i, q.end), 0, 1, FALSE)
        /\ m.end > q.start /\ m.end < q.end /\ m.inh /\ ~q.inh =>
             Activation(s, k) = Left(s, k, SetAt(l, k, [q EXCEPT !.start = m.end]), 1, 0, FALSE)
    BY <1>o, <1>2 DEF Outcomes
  <2>5. /\ Left(s, k, l, 0, 0, FALSE) \in AStates /\ Left(s, k, Upto(l, i, q.end), 0, 1, FALSE) \in AStates
        /\ Left(s, k, l, 1, 0, FALSE) \in AStates
        /\ Left(s, k, InsertAt(Upto(l, i, q.start), i + 2, Span(q.end, m.end, FALSE)), 2, 0, TRUE) \in AStates
        /\ Left(s, k, l, 0, 1, FALSE) \in AStates /\ Left(s, k, Upto(l, i, q.start), 1, 0, FALSE) \in AStates
        /\ Left(s, k, SetAt(l, k, [q EXCEPT !.start = m.end]), 1, 0, FALSE) \in AStates
    BY <1>t, <2>0, <2>1, <2>2, <2>3
  <2>6. \/ m.end < q.start
        \/ m.end = q.start /\ m.inh = q.inh
        \/ m.end = q.start /\ m.inh # q.inh
        \/ m.end > q.start /\ m.end > q.end
        \/ m.end > q.start /\ m.end = q.end /\ (m.inh \/ ~q.inh)
        \/ m.end > q.start /\ m.end <= q.end /\ ~m.inh /\ q.inh
        \/ m.end > q.start /\ m.end < q.end /\ m.inh = q.inh
        \/ m.end > q.start /\ m.end < q.end /\ m.inh /\ ~q.inh
    <3>1. \/ m.end < q.start
          \/ m.end = q.start
          \/ m.end > q.start /\ m.end > q.end
          \/ m.end > q.start /\ m.end = q.end /\ m.end <= q.end
          \/ m.end > q.start /\ m.end < q.end /\ m.end <= q.end
      BY <1>0, <2>0
    <3>2. m.inh = TRUE \/ m.inh = FALSE
      BY <1>0
    <3>3. q.inh = TRUE \/ q.inh = FALSE
      BY <2>0
    <3>. QED  BY <3>1, <3>2, <3>3
  <2>. QED  BY <2>4, <2>5, <2>6
<1>3. k > Len(l) \/ k <= Len(l)
  BY <1>n, <1>k
<1>. QED  BY <1>1, <1>2, <1>3

\* A turn of the activations.
LEMMA AdjustTurnType ==
  ASSUME NEW s \in AStates
  PROVE  AdjustTurn(s) \in AStates
<1>1. CASE s.more /\ s.i <= Len(s.list)
  <2>l. s.list \in Seq(Ranges) /\ s.i \in Nat \ {0}
    BY AStateFacts
  <2>1. PICK n, i, k : n \in Nat /\ i \in Nat /\ n = Len(s.list) /\ i = s.i /\ k = FirstKept(s.list, i) /\ i <= n
    BY <1>1, <2>l
  <2>2. k \in (i + 1)..(n + 1)
    BY <2>1, FirstKeptFacts
  <2>3. Activation(s, k) \in AStates
    BY <1>1, <2>1, <2>2, ActivationType
  <2>. QED  BY <1>1, <2>1, <2>3 DEF AdjustTurn
<1>2. CASE ~(s.more /\ s.i <= Len(s.list))
  BY <1>2 DEF AdjustTurn
<1>. QED  BY <1>1, <1>2

\* A deletion leaves a list of ranges.
LEMMA WithoutType ==
  ASSUME NEW l \in Seq(Ranges), NEW from \in Nat \ {0}, NEW n \in Nat
  PROVE  Without(l, from, n) \in Seq(Ranges)
<1>1. PICK m, k : m \in Nat /\ m = Len(l) /\ k = Without(l, from, n)
  OBVIOUS
<1>2. CASE from + n > m + 1
  BY <1>1, <1>2 DEF Without
<1>3. CASE ~(from + n > m + 1)
  <2>1. from + n <= Len(l) + 1
    BY <1>1, <1>3
  <2>2. Removed(l, from, n, k)
    BY <1>1, <2>1, WithoutMeans
  <2>. QED  BY <1>1, <2>2 DEF Removed
<1>. QED  BY <1>2, <1>3

\* The deletions leave a list of ranges.
LEMMA AllDeletedType ==
  ASSUME NEW s \in AStates
  PROVE  AllDeleted(s).list \in Seq(Ranges) /\ AllDeleted(s).i = s.i
<1>s. s.list \in Seq(Ranges) /\ s.i \in Nat \ {0} /\ s.dels \in Seq(Cuts)
  BY AStateFacts
<1>n. PICK n \in Nat : n = Len(s.dels)
  BY <1>s
<1>1. PICK f : IsDeleted(f, s) /\ AllDeleted(s) = [s EXCEPT !.list = f[Len(s.dels)]]
  BY <1>n, DeletedTurns
<1>2. f[0] = s.list
  BY <1>1 DEF IsDeleted
<1>. DEFINE C == {k \in Nat : k <= n => f[k] \in Seq(Ranges)}
<1>3. 0 \in C
  BY <1>s, <1>2
<1>4. ASSUME NEW k \in Nat, k \in C  PROVE k + 1 \in C
  <2>. SUFFICES ASSUME k + 1 <= n  PROVE f[k + 1] \in Seq(Ranges)
    OBVIOUS
  <2>1. f[k] \in Seq(Ranges)
    BY <1>4
  <2>2. k + 1 \in 1..Len(s.dels) /\ (k + 1) - 1 = k
    BY <1>n
  <2>3. f[k + 1] = Without(f[k], s.dels[k + 1].from, s.dels[k + 1].n)
    BY <1>1, <2>2 DEF IsDeleted
  <2>4. s.dels[k + 1] \in Cuts
    BY <1>s, <2>2, ElementOfSeq
  <2>5. s.dels[k + 1].from \in Nat \ {0} /\ s.dels[k + 1].n \in Nat
    BY <2>4 DEF Cuts
  <2>. QED  BY <2>1, <2>3, <2>5, WithoutType
<1>. HIDE DEF C
<1>5. n \in C
  BY <1>3, <1>4, SetInduction
<1>6. PICK x \in Seq(Ranges) : x = f[Len(s.dels)]
  BY <1>n, <1>5 DEF C
<1>7. AllDeleted(s) = [s EXCEPT !.list = x]
  BY <1>1, <1>6
<1>8. AllDeleted(s).list = x /\ AllDeleted(s).i = s.i
  BY <1>7 DEF AStates
<1>. QED  BY <1>8

\* adjust_remaining_ranges gives a list of ranges and an index.
LEMMA AdjustType ==
  ASSUME NEW l \in Seq(Ranges), NEW i \in Nat \ {0}
  PROVE  AdjustRemaining(l, i).list \in Seq(Ranges) /\ AdjustRemaining(l, i).i \in Nat \ {0}
<1>n. PICK n \in Nat : n = Len(l)
  OBVIOUS
<1>1. PICK f : IsAdjust(f, l, i) /\ AdjustRemaining(l, i) = AllDeleted(f[Len(l)])
  BY <1>n, AdjustTurns
<1>. DEFINE C == {k \in Nat : k <= n => f[k] \in AStates}
<1>2. 0 \in C
  <2>1. f[0] = [list |-> l, i |-> i, dels |-> << >>, more |-> TRUE] /\ << >> \in Seq(Cuts)
    BY <1>1 DEF IsAdjust
  <2>2. f[0] \in AStates
    BY <2>1, AStateFacts
  <2>. QED  BY <2>2
<1>3. ASSUME NEW k \in Nat, k \in C  PROVE k + 1 \in C
  <2>. SUFFICES ASSUME k + 1 <= n  PROVE f[k + 1] \in AStates
    OBVIOUS
  <2>1. f[k] \in AStates
    BY <1>3
  <2>2. k + 1 \in 1..Len(l) /\ (k + 1) - 1 = k
    BY <1>n
  <2>3. f[k + 1] = AdjustTurn(f[k])
    BY <1>1, <2>2 DEF IsAdjust
  <2>. QED  BY <2>1, <2>3, AdjustTurnType
<1>. HIDE DEF C
<1>4. n \in C
  BY <1>2, <1>3, SetInduction
<1>5. f[Len(l)] \in AStates
  BY <1>n, <1>4 DEF C
<1>6. AllDeleted(f[Len(l)]).list \in Seq(Ranges) /\ AllDeleted(f[Len(l)]).i = f[Len(l)].i /\ f[Len(l)].i \in Nat \ {0}
  BY <1>5, AllDeletedType, AStateFacts
<1>. QED  BY <1>1, <1>6

--------------------------------------------------------------------------------
(* svn_rangelist_merge2.                                                    *)

\* The states of the loop.
MS(x, j, d) == [list |-> x, i |-> j, changes |-> d]
MStates     == [list : Seq(Ranges), i : Nat \ {0}, changes : Seq(Ranges)]

\* The start of the first change is moved.
CutFirst(cs, c, rev) == SetAt(cs, 1, [c EXCEPT !.start = rev])

\* What the parts of a turn do.
LEMMA FieldsIs ==
  ASSUME NEW x, NEW j, NEW d
  PROVE  MS(x, j, d).list = x /\ MS(x, j, d).i = j /\ MS(x, j, d).changes = d
  BY DEF MS

\* The next range of the list: only the index moves.
LEMMA SkipIs ==
  ASSUME NEW x, NEW j, NEW d
  PROVE  Skip(MS(x, j, d)) = MS(x, j + 1, d)
  BY DEF MS, Skip

\* The next change: only the first change goes.
LEMMA Next1Is ==
  ASSUME NEW x, NEW j, NEW d
  PROVE  Next1(MS(x, j, d)) = MS(x, j, Tail(d))
<1>1. \A y : [MS(x, j, d) EXCEPT !.changes = y] = MS(x, j, y)
  BY DEF MS
<1>2. MS(x, j, d).changes = d
  BY DEF MS
<1>. QED  BY <1>1, <1>2 DEF Next1

\* A range is inserted before the i-th, which the index then passes.
LEMMA PutIs ==
  ASSUME NEW x, NEW j, NEW d, NEW r
  PROVE  Put(MS(x, j, d), r) = MS(InsertAt(x, j, r), j + 1, d)
<1>1. ASSUME NEW y, NEW z  PROVE [MS(x, j, d) EXCEPT !.list = y, !.i = z] = MS(y, z, d)
  <2>1. [MS(x, j, d) EXCEPT !.list = y, !.i = z] = [[MS(x, j, d) EXCEPT !.list = y] EXCEPT !.i = z]
    OBVIOUS
  <2>2. [MS(x, j, d) EXCEPT !.list = y] = MS(y, j, d)
    BY DEF MS
  <2>3. [MS(y, j, d) EXCEPT !.i = z] = MS(y, z, d)
    BY DEF MS
  <2>. QED  BY <2>1, <2>2, <2>3
<1>2. MS(x, j, d).list = x /\ MS(x, j, d).i = j
  BY DEF MS
<1>. QED  BY <1>1, <1>2 DEF Put

\* The i-th range is replaced where it stands.
LEMMA BecomeIs ==
  ASSUME NEW x, NEW j, NEW d, NEW r
  PROVE  Become(MS(x, j, d), r) = MS(SetAt(x, j, r), j, d)
<1>1. \A y : [MS(x, j, d) EXCEPT !.list = y] = MS(y, j, d)
  BY DEF MS
<1>2. MS(x, j, d).list = x /\ MS(x, j, d).i = j
  BY DEF MS
<1>. QED  BY <1>1, <1>2 DEF Become

\* The first change begins later.
LEMMA CutToIs ==
  ASSUME NEW x, NEW j, NEW d, NEW rev, NEW c, c = Head(d)
  PROVE  CutTo(MS(x, j, d), rev) = MS(x, j, CutFirst(d, c, rev))
<1>1. \A y : [MS(x, j, d) EXCEPT !.changes = y] = MS(x, j, y)
  BY DEF MS
<1>2. MS(x, j, d).changes = d
  BY DEF MS
<1>. QED  BY <1>1, <1>2 DEF CutTo, CutFirst

\* The list and the index that adjust_remaining_ranges returns are taken over.
LEMMA MovedIs ==
  ASSUME NEW x, NEW j, NEW d, NEW a
  PROVE  Moved(MS(x, j, d), a) = MS(a.list, a.i, d)
<1>1. ASSUME NEW y, NEW z  PROVE [MS(x, j, d) EXCEPT !.list = y, !.i = z] = MS(y, z, d)
  <2>1. [MS(x, j, d) EXCEPT !.list = y, !.i = z] = [[MS(x, j, d) EXCEPT !.list = y] EXCEPT !.i = z]
    OBVIOUS
  <2>2. [MS(x, j, d) EXCEPT !.list = y] = MS(y, j, d)
    BY DEF MS
  <2>3. [MS(y, j, d) EXCEPT !.i = z] = MS(y, z, d)
    BY DEF MS
  <2>. QED  BY <2>1, <2>2, <2>3
<1>. QED  BY <1>1 DEF Moved

\* What a turn makes of the range r and the change c: the state t.  The rest of the changes is rest.
TurnEqual(l, i, cs, rest, r, c, t) ==
  /\ r.start = c.start /\ r.end = c.end
  /\ t = MS(SetAt(l, i, [r EXCEPT !.inh = r.inh \/ c.inh]), i + 1, rest)
TurnSkipped(l, i, cs, rest, r, c, t) ==
  /\ ~(r.start = c.start /\ r.end = c.end) /\ Before(r, c) /\ (r.end < c.start \/ (r.end = c.start /\ r.inh # c.inh))
  /\ t = MS(l, i + 1, cs)
TurnGrown(l, i, cs, rest, r, c, t) ==
  /\ ~(r.start = c.start /\ r.end = c.end) /\ Before(r, c) /\ r.end = c.start /\ r.inh = c.inh
  /\ t = MS(AdjustRemaining(SetAt(l, i, [r EXCEPT !.end = c.end]), i).list, AdjustRemaining(SetAt(l, i, [r EXCEPT !.end = c.end]), i).i, rest)
TurnWithin(l, i, cs, rest, r, c, t) ==
  /\ ~(r.start = c.start /\ r.end = c.end) /\ Before(r, c) /\ r.end > c.start /\ (r.inh \/ ~c.inh) /\ r.end >= c.end
  /\ t = MS(l, i, rest)
TurnBeyond(l, i, cs, rest, r, c, t) ==
  /\ ~(r.start = c.start /\ r.end = c.end) /\ Before(r, c) /\ r.end > c.start /\ (r.inh \/ ~c.inh) /\ r.end < c.end
  /\ t = MS(l, i, CutFirst(cs, c, r.end))
TurnDivide(l, i, cs, rest, r, c, t) ==
  /\ ~(r.start = c.start /\ r.end = c.end) /\ Before(r, c) /\ r.end > c.start /\ ~r.inh /\ c.inh /\ r.start < c.start
  /\ t = MS(InsertAt(SetAt(l, i, [r EXCEPT !.start = c.start]), i, [r EXCEPT !.end = c.start]), i + 1, cs)
TurnStrengthen(l, i, cs, rest, r, c, t) ==
  /\ ~(r.start = c.start /\ r.end = c.end) /\ Before(r, c) /\ r.end > c.start /\ ~r.inh /\ c.inh /\ r.start >= c.start
  /\ t = MS(SetAt(l, i, [r EXCEPT !.inh = TRUE]), i, CutFirst(cs, c, r.end))
TurnAhead(l, i, cs, rest, r, c, t) ==
  /\ ~(r.start = c.start /\ r.end = c.end) /\ ~Before(r, c) /\ c.end < r.start
  /\ t = MS(InsertAt(l, i, c), i + 1, rest)
TurnJoined(l, i, cs, rest, r, c, t) ==
  /\ ~(r.start = c.start /\ r.end = c.end) /\ ~Before(r, c) /\ c.end = r.start /\ r.inh = c.inh
  /\ t = MS(SetAt(l, i, [r EXCEPT !.start = c.start]), i, rest)
TurnBeside(l, i, cs, rest, r, c, t) ==
  /\ ~(r.start = c.start /\ r.end = c.end) /\ ~Before(r, c) /\ c.end = r.start /\ r.inh # c.inh
  /\ t = MS(InsertAt(l, i, c), i, rest)
TurnSwallowed(l, i, cs, rest, r, c, t) ==
  /\ ~(r.start = c.start /\ r.end = c.end) /\ ~Before(r, c) /\ c.end > r.start /\ r.inh = c.inh /\ r.end < c.end
  /\ t = MS(AdjustRemaining(SetAt(l, i, c), i).list, AdjustRemaining(SetAt(l, i, c), i).i, rest)
TurnWidened(l, i, cs, rest, r, c, t) ==
  /\ ~(r.start = c.start /\ r.end = c.end) /\ ~Before(r, c) /\ c.end > r.start /\ r.inh = c.inh /\ r.end >= c.end
  /\ t = MS(SetAt(l, i, [r EXCEPT !.start = c.start]), i, rest)
TurnFront(l, i, cs, rest, r, c, t) ==
  /\ ~(r.start = c.start /\ r.end = c.end) /\ ~Before(r, c) /\ c.end > r.start /\ r.inh /\ ~c.inh /\ c.start < r.start
  /\ t = MS(InsertAt(l, i, [c EXCEPT !.end = r.start]), i + 1, CutFirst(cs, c, r.start))
TurnInside(l, i, cs, rest, r, c, t) ==
  /\ ~(r.start = c.start /\ r.end = c.end) /\ ~Before(r, c) /\ c.end > r.start /\ r.inh /\ ~c.inh /\ c.start >= r.start
  /\ t = MS(l, i, rest)
TurnPrefix(l, i, cs, rest, r, c, t) ==
  /\ ~(r.start = c.start /\ r.end = c.end) /\ ~Before(r, c) /\ c.end > r.start /\ ~r.inh /\ c.inh /\ c.start = r.start
  /\ t = MS(InsertAt(SetAt(l, i, [r EXCEPT !.start = c.end]), i, c), i + 1, rest)
TurnOver(l, i, cs, rest, r, c, t) ==
  /\ ~(r.start = c.start /\ r.end = c.end) /\ ~Before(r, c) /\ c.end > r.start /\ ~r.inh /\ c.inh /\ c.start # r.start /\ c.end > r.end
  /\ t = MS(SetAt(l, i, [c EXCEPT !.end = r.end]), i, CutFirst(cs, c, r.end))
TurnLevel(l, i, cs, rest, r, c, t) ==
  /\ ~(r.start = c.start /\ r.end = c.end) /\ ~Before(r, c) /\ c.end > r.start /\ ~r.inh /\ c.inh /\ c.start # r.start /\ c.end = r.end
  /\ t = MS(SetAt(l, i, c), i, rest)
TurnOverlapped(l, i, cs, rest, r, c, t) ==
  /\ ~(r.start = c.start /\ r.end = c.end) /\ ~Before(r, c) /\ c.end > r.start /\ ~r.inh /\ c.inh /\ c.start # r.start /\ c.end < r.end
  /\ t = MS(InsertAt(SetAt(l, i, c), i + 1, [r EXCEPT !.start = c.end]), i + 1, rest)
MergeCases(l, i, cs, rest, r, c, t) ==
  \/ TurnEqual(l, i, cs, rest, r, c, t)
  \/ TurnSkipped(l, i, cs, rest, r, c, t)
  \/ TurnGrown(l, i, cs, rest, r, c, t)
  \/ TurnWithin(l, i, cs, rest, r, c, t)
  \/ TurnBeyond(l, i, cs, rest, r, c, t)
  \/ TurnDivide(l, i, cs, rest, r, c, t)
  \/ TurnStrengthen(l, i, cs, rest, r, c, t)
  \/ TurnAhead(l, i, cs, rest, r, c, t)
  \/ TurnJoined(l, i, cs, rest, r, c, t)
  \/ TurnBeside(l, i, cs, rest, r, c, t)
  \/ TurnSwallowed(l, i, cs, rest, r, c, t)
  \/ TurnWidened(l, i, cs, rest, r, c, t)
  \/ TurnFront(l, i, cs, rest, r, c, t)
  \/ TurnInside(l, i, cs, rest, r, c, t)
  \/ TurnPrefix(l, i, cs, rest, r, c, t)
  \/ TurnOver(l, i, cs, rest, r, c, t)
  \/ TurnLevel(l, i, cs, rest, r, c, t)
  \/ TurnOverlapped(l, i, cs, rest, r, c, t)

\* Every turn is one of them.
LEMMA MergeStepIs ==
  ASSUME NEW l, NEW i, NEW cs, NEW rest, rest = Tail(cs), NEW r \in Ranges, NEW c \in Ranges, r = l[i], c = Head(cs),
         NEW t, t = MergeStep(MS(l, i, cs))
  PROVE  MergeCases(l, i, cs, rest, r, c, t)
<1>s. PICK s : s = MS(l, i, cs)
  OBVIOUS
<1>0. s.list = l /\ s.i = i /\ s.changes = cs
  BY <1>s, FieldsIs
<1>t. /\ r.start \in Int /\ r.end \in Int /\ r.inh \in BOOLEAN
      /\ c.start \in Int /\ c.end \in Int /\ c.inh \in BOOLEAN
  BY RangeFacts
<1>h. \A x, j : Next1(MS(x, j, cs)) = MS(x, j, rest)
  BY Next1Is
<1>1. t = IF r.start = c.start /\ r.end = c.end THEN Next1(Skip(Become(s, [r EXCEPT !.inh = r.inh \/ c.inh])))
          ELSE IF Before(r, c) THEN MergeYounger(s, r, c) ELSE MergeOlder(s, r, c)
  BY <1>s, <1>0 DEF MergeStep
<1>2. \A y : [s EXCEPT !.list = y] = MS(y, i, cs)
  BY <1>s DEF MS
<1>3. \A rev : CutTo(s, rev) = MS(l, i, CutFirst(cs, c, rev))
  BY <1>s, CutToIs
<1>4. \A x, j, rev : CutTo(MS(x, j, cs), rev) = MS(x, j, CutFirst(cs, c, rev))
  BY CutToIs
<1>5. \A y : Become(s, y) = MS(SetAt(l, i, y), i, cs) /\ Put(s, y) = MS(InsertAt(l, i, y), i + 1, cs)
  BY <1>s, BecomeIs, PutIs
<1>6. \A y : Adjusted(Become(s, y)) = MS(AdjustRemaining(SetAt(l, i, y), i).list, AdjustRemaining(SetAt(l, i, y), i).i, cs)
  <2>. TAKE y
  <2>1. Become(s, y).list = SetAt(l, i, y) /\ Become(s, y).i = i
    BY <1>5, FieldsIs
  <2>2. Adjusted(Become(s, y)) = Moved(MS(SetAt(l, i, y), i, cs), AdjustRemaining(SetAt(l, i, y), i))
    BY <1>5, <2>1 DEF Adjusted
  <2>. QED  BY <2>2, MovedIs
<1>. DEFINE Younger == ~(r.start = c.start /\ r.end = c.end) /\ Before(r, c)
            Older   == ~(r.start = c.start /\ r.end = c.end) /\ ~Before(r, c)
<1>c. /\ Trich(r.start, c.start) /\ Trich(r.end, c.start) /\ Trich(r.end, c.end)
      /\ Trich(c.end, r.start) /\ Trich(c.start, r.start) /\ Trich(c.end, r.end)
  BY <1>t, Trichotomy, Zenon
<1>7. ASSUME r.start = c.start /\ r.end = c.end
      PROVE  TurnEqual(l, i, cs, rest, r, c, t)
  <2>1. t = Next1(Skip(Become(s, [r EXCEPT !.inh = r.inh \/ c.inh])))
    BY <1>1, <1>7
  <2>2. t = MS(SetAt(l, i, [r EXCEPT !.inh = r.inh \/ c.inh]), i + 1, rest)
    BY <1>s, <1>0, <1>h, <1>2, <1>3, <1>4, <1>5, <1>6, <2>1, SkipIs, PutIs
  <2>. QED  BY <1>7, <2>2 DEF TurnEqual
<1>8. ASSUME Younger /\ (r.end < c.start \/ (r.end = c.start /\ r.inh # c.inh))
      PROVE  TurnSkipped(l, i, cs, rest, r, c, t)
  <2>1. t = Skip(s)
    BY <1>1, <1>c, <1>t, <1>8, Zenon DEF Trich, MergeYounger
  <2>2. t = MS(l, i + 1, cs)
    BY <1>s, <1>0, <1>h, <1>2, <1>3, <1>4, <1>5, <1>6, <2>1, SkipIs, PutIs
  <2>. QED  BY <1>8, <2>2 DEF TurnSkipped
<1>9. ASSUME Younger /\ r.end = c.start /\ r.inh = c.inh
      PROVE  TurnGrown(l, i, cs, rest, r, c, t)
  <2>1. t = Next1(Adjusted(Become(s, [r EXCEPT !.end = c.end])))
    BY <1>1, <1>c, <1>t, <1>9, Zenon DEF Trich, MergeYounger
  <2>2. t = MS(AdjustRemaining(SetAt(l, i, [r EXCEPT !.end = c.end]), i).list, AdjustRemaining(SetAt(l, i, [r EXCEPT !.end = c.end]), i).i, rest)
    BY <1>s, <1>0, <1>h, <1>2, <1>3, <1>4, <1>5, <1>6, <2>1, SkipIs, PutIs
  <2>. QED  BY <1>9, <2>2 DEF TurnGrown
<1>10. ASSUME Younger /\ r.end > c.start /\ (r.inh \/ ~c.inh) /\ r.end >= c.end
      PROVE  TurnWithin(l, i, cs, rest, r, c, t)
  <2>1. t = Next1(s)
    BY <1>1, <1>c, <1>t, <1>10, Zenon DEF Trich, MergeYounger
  <2>2. t = MS(l, i, rest)
    BY <1>s, <1>0, <1>h, <1>2, <1>3, <1>4, <1>5, <1>6, <2>1, SkipIs, PutIs
  <2>. QED  BY <1>10, <2>2 DEF TurnWithin
<1>11. ASSUME Younger /\ r.end > c.start /\ (r.inh \/ ~c.inh) /\ r.end < c.end
      PROVE  TurnBeyond(l, i, cs, rest, r, c, t)
  <2>1. t = CutTo(s, r.end)
    BY <1>1, <1>c, <1>t, <1>11, Zenon DEF Trich, MergeYounger
  <2>2. t = MS(l, i, CutFirst(cs, c, r.end))
    BY <1>s, <1>0, <1>h, <1>2, <1>3, <1>4, <1>5, <1>6, <2>1, SkipIs, PutIs
  <2>. QED  BY <1>11, <2>2 DEF TurnBeyond
<1>12. ASSUME Younger /\ r.end > c.start /\ ~r.inh /\ c.inh /\ r.start < c.start
      PROVE  TurnDivide(l, i, cs, rest, r, c, t)
  <2>1. t = Put(Become(s, [r EXCEPT !.start = c.start]), [r EXCEPT !.end = c.start])
    BY <1>1, <1>c, <1>t, <1>12, Zenon DEF Trich, MergeYounger
  <2>2. t = MS(InsertAt(SetAt(l, i, [r EXCEPT !.start = c.start]), i, [r EXCEPT !.end = c.start]), i + 1, cs)
    BY <1>s, <1>0, <1>h, <1>2, <1>3, <1>4, <1>5, <1>6, <2>1, SkipIs, PutIs
  <2>. QED  BY <1>12, <2>2 DEF TurnDivide
<1>13. ASSUME Younger /\ r.end > c.start /\ ~r.inh /\ c.inh /\ r.start >= c.start
      PROVE  TurnStrengthen(l, i, cs, rest, r, c, t)
  <2>1. t = CutTo(Become(s, [r EXCEPT !.inh = TRUE]), r.end)
    BY <1>1, <1>c, <1>t, <1>13, Zenon DEF Trich, MergeYounger
  <2>2. t = MS(SetAt(l, i, [r EXCEPT !.inh = TRUE]), i, CutFirst(cs, c, r.end))
    BY <1>s, <1>0, <1>h, <1>2, <1>3, <1>4, <1>5, <1>6, <2>1, SkipIs, PutIs
  <2>. QED  BY <1>13, <2>2 DEF TurnStrengthen
<1>14. ASSUME Older /\ c.end < r.start
      PROVE  TurnAhead(l, i, cs, rest, r, c, t)
  <2>1. t = Next1(Put(s, c))
    BY <1>1, <1>c, <1>t, <1>14, Zenon DEF Trich, MergeOlder
  <2>2. t = MS(InsertAt(l, i, c), i + 1, rest)
    BY <1>s, <1>0, <1>h, <1>2, <1>3, <1>4, <1>5, <1>6, <2>1, SkipIs, PutIs
  <2>. QED  BY <1>14, <2>2 DEF TurnAhead
<1>15. ASSUME Older /\ c.end = r.start /\ r.inh = c.inh
      PROVE  TurnJoined(l, i, cs, rest, r, c, t)
  <2>1. t = Next1(Become(s, [r EXCEPT !.start = c.start]))
    BY <1>1, <1>c, <1>t, <1>15, Zenon DEF Trich, MergeOlder
  <2>2. t = MS(SetAt(l, i, [r EXCEPT !.start = c.start]), i, rest)
    BY <1>s, <1>0, <1>h, <1>2, <1>3, <1>4, <1>5, <1>6, <2>1, SkipIs, PutIs
  <2>. QED  BY <1>15, <2>2 DEF TurnJoined
<1>16. ASSUME Older /\ c.end = r.start /\ r.inh # c.inh
      PROVE  TurnBeside(l, i, cs, rest, r, c, t)
  <2>1. t = Next1([s EXCEPT !.list = InsertAt(s.list, s.i, c)])
    BY <1>1, <1>c, <1>t, <1>16, Zenon DEF Trich, MergeOlder
  <2>3. [s EXCEPT !.list = InsertAt(s.list, s.i, c)] = MS(InsertAt(l, i, c), i, cs)
    BY <1>0, <1>2
  <2>2. t = MS(InsertAt(l, i, c), i, rest)
    BY <1>s, <1>0, <1>h, <1>2, <1>3, <1>4, <1>5, <1>6, <2>1, <2>3, SkipIs, PutIs
  <2>. QED  BY <1>16, <2>2 DEF TurnBeside
<1>17. ASSUME Older /\ c.end > r.start /\ r.inh = c.inh /\ r.end < c.end
      PROVE  TurnSwallowed(l, i, cs, rest, r, c, t)
  <2>1. t = Next1(Adjusted(Become(s, c)))
    BY <1>1, <1>c, <1>t, <1>17, Zenon DEF Trich, MergeOlder
  <2>2. t = MS(AdjustRemaining(SetAt(l, i, c), i).list, AdjustRemaining(SetAt(l, i, c), i).i, rest)
    BY <1>s, <1>0, <1>h, <1>2, <1>3, <1>4, <1>5, <1>6, <2>1, SkipIs, PutIs
  <2>. QED  BY <1>17, <2>2 DEF TurnSwallowed
<1>18. ASSUME Older /\ c.end > r.start /\ r.inh = c.inh /\ r.end >= c.end
      PROVE  TurnWidened(l, i, cs, rest, r, c, t)
  <2>1. t = Next1(Become(s, [r EXCEPT !.start = c.start]))
    BY <1>1, <1>c, <1>t, <1>18, Zenon DEF Trich, MergeOlder
  <2>2. t = MS(SetAt(l, i, [r EXCEPT !.start = c.start]), i, rest)
    BY <1>s, <1>0, <1>h, <1>2, <1>3, <1>4, <1>5, <1>6, <2>1, SkipIs, PutIs
  <2>. QED  BY <1>18, <2>2 DEF TurnWidened
<1>19. ASSUME Older /\ c.end > r.start /\ r.inh /\ ~c.inh /\ c.start < r.start
      PROVE  TurnFront(l, i, cs, rest, r, c, t)
  <2>1. t = CutTo(Put(s, [c EXCEPT !.end = r.start]), r.start)
    BY <1>1, <1>c, <1>t, <1>19, Zenon DEF Trich, MergeOlder
  <2>2. t = MS(InsertAt(l, i, [c EXCEPT !.end = r.start]), i + 1, CutFirst(cs, c, r.start))
    BY <1>s, <1>0, <1>h, <1>2, <1>3, <1>4, <1>5, <1>6, <2>1, SkipIs, PutIs
  <2>. QED  BY <1>19, <2>2 DEF TurnFront
<1>20. ASSUME Older /\ c.end > r.start /\ r.inh /\ ~c.inh /\ c.start >= r.start
      PROVE  TurnInside(l, i, cs, rest, r, c, t)
  <2>1. t = Next1(s)
    BY <1>1, <1>c, <1>t, <1>20, Zenon DEF Trich, MergeOlder
  <2>2. t = MS(l, i, rest)
    BY <1>s, <1>0, <1>h, <1>2, <1>3, <1>4, <1>5, <1>6, <2>1, SkipIs, PutIs
  <2>. QED  BY <1>20, <2>2 DEF TurnInside
<1>21. ASSUME Older /\ c.end > r.start /\ ~r.inh /\ c.inh /\ c.start = r.start
      PROVE  TurnPrefix(l, i, cs, rest, r, c, t)
  <2>1. t = Next1(Put(Become(s, [r EXCEPT !.start = c.end]), c))
    BY <1>1, <1>c, <1>t, <1>21, Zenon DEF Trich, MergeOlder
  <2>2. t = MS(InsertAt(SetAt(l, i, [r EXCEPT !.start = c.end]), i, c), i + 1, rest)
    BY <1>s, <1>0, <1>h, <1>2, <1>3, <1>4, <1>5, <1>6, <2>1, SkipIs, PutIs
  <2>. QED  BY <1>21, <2>2 DEF TurnPrefix
<1>22. ASSUME Older /\ c.end > r.start /\ ~r.inh /\ c.inh /\ c.start # r.start /\ c.end > r.end
      PROVE  TurnOver(l, i, cs, rest, r, c, t)
  <2>1. t = CutTo(Become(s, [c EXCEPT !.end = r.end]), r.end)
    BY <1>1, <1>c, <1>t, <1>22, Zenon DEF Trich, MergeOlder
  <2>2. t = MS(SetAt(l, i, [c EXCEPT !.end = r.end]), i, CutFirst(cs, c, r.end))
    BY <1>s, <1>0, <1>h, <1>2, <1>3, <1>4, <1>5, <1>6, <2>1, SkipIs, PutIs
  <2>. QED  BY <1>22, <2>2 DEF TurnOver
<1>23. ASSUME Older /\ c.end > r.start /\ ~r.inh /\ c.inh /\ c.start # r.start /\ c.end = r.end
      PROVE  TurnLevel(l, i, cs, rest, r, c, t)
  <2>1. t = Next1(Become(s, c))
    BY <1>1, <1>c, <1>t, <1>23, Zenon DEF Trich, MergeOlder
  <2>2. t = MS(SetAt(l, i, c), i, rest)
    BY <1>s, <1>0, <1>h, <1>2, <1>3, <1>4, <1>5, <1>6, <2>1, SkipIs, PutIs
  <2>. QED  BY <1>23, <2>2 DEF TurnLevel
<1>24. ASSUME Older /\ c.end > r.start /\ ~r.inh /\ c.inh /\ c.start # r.start /\ c.end < r.end
      PROVE  TurnOverlapped(l, i, cs, rest, r, c, t)
  <2>1. t = Next1(Skip([s EXCEPT !.list = InsertAt(SetAt(s.list, s.i, c), s.i + 1, [r EXCEPT !.start = c.end])]))
    BY <1>1, <1>c, <1>t, <1>24, Zenon DEF Trich, MergeOlder
  <2>3. [s EXCEPT !.list = InsertAt(SetAt(s.list, s.i, c), s.i + 1, [r EXCEPT !.start = c.end])] = MS(InsertAt(SetAt(l, i, c), i + 1, [r EXCEPT !.start = c.end]), i, cs)
    BY <1>0, <1>2
  <2>2. t = MS(InsertAt(SetAt(l, i, c), i + 1, [r EXCEPT !.start = c.end]), i + 1, rest)
    BY <1>s, <1>0, <1>h, <1>2, <1>3, <1>4, <1>5, <1>6, <2>1, <2>3, SkipIs, PutIs
  <2>. QED  BY <1>24, <2>2 DEF TurnOverlapped
<1>25. \/ r.start = c.start /\ r.end = c.end
       \/ Younger /\ (r.end < c.start \/ (r.end = c.start /\ r.inh # c.inh))
       \/ Younger /\ r.end = c.start /\ r.inh = c.inh
       \/ Younger /\ r.end > c.start /\ (r.inh \/ ~c.inh) /\ r.end >= c.end
       \/ Younger /\ r.end > c.start /\ (r.inh \/ ~c.inh) /\ r.end < c.end
       \/ Younger /\ r.end > c.start /\ ~r.inh /\ c.inh /\ r.start < c.start
       \/ Younger /\ r.end > c.start /\ ~r.inh /\ c.inh /\ r.start >= c.start
       \/ Older /\ c.end < r.start
       \/ Older /\ c.end = r.start /\ r.inh = c.inh
       \/ Older /\ c.end = r.start /\ r.inh # c.inh
       \/ Older /\ c.end > r.start /\ r.inh = c.inh /\ r.end < c.end
       \/ Older /\ c.end > r.start /\ r.inh = c.inh /\ r.end >= c.end
       \/ Older /\ c.end > r.start /\ r.inh /\ ~c.inh /\ c.start < r.start
       \/ Older /\ c.end > r.start /\ r.inh /\ ~c.inh /\ c.start >= r.start
       \/ Older /\ c.end > r.start /\ ~r.inh /\ c.inh /\ c.start = r.start
       \/ Older /\ c.end > r.start /\ ~r.inh /\ c.inh /\ c.start # r.start /\ c.end > r.end
       \/ Older /\ c.end > r.start /\ ~r.inh /\ c.inh /\ c.start # r.start /\ c.end = r.end
       \/ Older /\ c.end > r.start /\ ~r.inh /\ c.inh /\ c.start # r.start /\ c.end < r.end
  <2>1. r.inh = TRUE \/ r.inh = FALSE
    BY <1>t
  <2>2. c.inh = TRUE \/ c.inh = FALSE
    BY <1>t
  <2>3. \/ r.start = c.start /\ r.end = c.end
        \/ /\ Younger
           /\ \/ r.end < c.start \/ r.end = c.start
              \/ r.end > c.start /\ (r.end >= c.end \/ r.end < c.end) /\ (r.start < c.start \/ r.start >= c.start)
        \/ /\ Older
           /\ \/ c.end < r.start \/ c.end = r.start
              \/ /\ c.end > r.start /\ (r.end >= c.end \/ r.end < c.end) /\ (c.start < r.start \/ c.start >= r.start)
                 /\ c.start = r.start \/ (c.start # r.start /\ (c.end > r.end \/ c.end = r.end \/ c.end < r.end))
    BY <1>t
  <2>. QED  BY <2>1, <2>2, <2>3
<1>. QED  BY <1>7, <1>8, <1>9, <1>10, <1>11, <1>12, <1>13, <1>14, <1>15, <1>16, <1>17, <1>18, <1>19, <1>20, <1>21, <1>22, <1>23, <1>24, <1>25 DEF MergeCases

\* The states of the loop of svn_rangelist_merge2.
LEMMA MStateFacts ==
  /\ \A s \in MStates : s.list \in Seq(Ranges) /\ s.i \in Nat \ {0} /\ s.changes \in Seq(Ranges) /\ s = MS(s.list, s.i, s.changes)
  /\ \A x \in Seq(Ranges), j \in Nat \ {0}, d \in Seq(Ranges) : MS(x, j, d) \in MStates
  BY DEF MStates, MS

\* The pieces of which a turn puts a list together.
LEMMA PieceFacts ==
  ASSUME NEW r \in Ranges, NEW c \in Ranges
  PROVE  /\ r.start \in 0..N /\ r.end \in 0..N /\ c.start \in 0..N /\ c.end \in 0..N
         /\ [r EXCEPT !.inh = r.inh \/ c.inh] \in Ranges /\ [r EXCEPT !.inh = TRUE] \in Ranges
         /\ [r EXCEPT !.inh = r.inh \/ c.inh].start = r.start /\ [r EXCEPT !.inh = r.inh \/ c.inh].end = r.end
         /\ [r EXCEPT !.inh = TRUE].start = r.start /\ [r EXCEPT !.inh = TRUE].end = r.end
         /\ ([r EXCEPT !.inh = r.inh \/ c.inh].inh <=> r.inh \/ c.inh) /\ [r EXCEPT !.inh = TRUE].inh
<1>1. r.start \in 0..N /\ r.end \in 0..N /\ c.start \in 0..N /\ c.end \in 0..N /\ r.inh \in BOOLEAN /\ c.inh \in BOOLEAN
  BY RangeFacts
<1>2. PICK b \in BOOLEAN : b = (r.inh \/ c.inh)
  BY <1>1
<1>3. /\ [r EXCEPT !.inh = b] \in Ranges /\ [r EXCEPT !.inh = b].start = r.start
      /\ [r EXCEPT !.inh = b].end = r.end /\ [r EXCEPT !.inh = b].inh = b
  BY DEF Ranges
<1>4. /\ [r EXCEPT !.inh = TRUE] \in Ranges /\ [r EXCEPT !.inh = TRUE].start = r.start
      /\ [r EXCEPT !.inh = TRUE].end = r.end /\ [r EXCEPT !.inh = TRUE].inh
  BY DEF Ranges
<1>. QED  BY <1>1, <1>2, <1>3, <1>4

\* A list of ranges in which one is replaced or to which one is added.
LEMMA EditType ==
  ASSUME NEW l \in Seq(Ranges), NEW r \in Ranges
  PROVE  /\ \A i \in 1..Len(l) : SetAt(l, i, r) \in Seq(Ranges) /\ Len(SetAt(l, i, r)) = Len(l)
         /\ \A i \in 1..(Len(l) + 1) : InsertAt(l, i, r) \in Seq(Ranges)
<1>1. ASSUME NEW i \in 1..Len(l)  PROVE SetAt(l, i, r) \in Seq(Ranges) /\ Len(SetAt(l, i, r)) = Len(l)
  BY SetAtFacts
<1>2. ASSUME NEW i \in 1..(Len(l) + 1)  PROVE InsertAt(l, i, r) \in Seq(Ranges)
  <2>1. PICK k : k = InsertAt(l, i, r)
    OBVIOUS
  <2>2. Inserted(l, i, r, k)
    BY <2>1, InsertAtMeans
  <2>. QED  BY <2>1, <2>2 DEF Inserted
<1>. QED  BY <1>1, <1>2

\* A turn of the loop.
LEMMA MergeTurnType ==
  ASSUME NEW s \in MStates
  PROVE  MergeTurn(s) \in MStates
<1>s. PICK l \in Seq(Ranges), i \in Nat \ {0}, cs \in Seq(Ranges) : l = s.list /\ i = s.i /\ cs = s.changes /\ s = MS(l, i, cs)
  BY MStateFacts
<1>n. PICK n \in Nat : n = Len(l)
  OBVIOUS
<1>1. CASE i > n \/ cs = << >>
  <2>1. MergeTurn(s) = s
    BY <1>s, <1>n, <1>1 DEF MergeTurn
  <2>. QED  BY <2>1
<1>2. CASE ~(i > n \/ cs = << >>)
  <2>i. i \in 1..Len(l) /\ cs # << >> /\ i \in 1..(Len(l) + 1) /\ i + 1 \in 1..(Len(l) + 1) /\ i + 1 \in Nat \ {0}
    BY <1>n, <1>2
  <2>1. PICK t, r, c, rest : t = MergeTurn(s) /\ r = l[i] /\ c = Head(cs) /\ rest = Tail(cs)
    OBVIOUS
  <2>. SUFFICES t \in MStates
    BY <2>1
  <2>2. t = MergeStep(MS(l, i, cs))
    BY <1>s, <1>n, <1>2, <2>1 DEF MergeTurn
  <2>3. r \in Ranges /\ c \in Ranges /\ rest \in Seq(Ranges)
    BY <2>i, <2>1, Elements, TailFacts
  <2>4. MergeCases(l, i, cs, rest, r, c, t)
    BY <2>1, <2>2, <2>3, MergeStepIs
  <2>5. \A x \in Seq(Ranges), j \in {i, i + 1}, d \in Seq(Ranges) : MS(x, j, d) \in MStates
    BY <2>i, MStateFacts
  <2>6. /\ r.start \in 0..N /\ r.end \in 0..N /\ c.start \in 0..N /\ c.end \in 0..N
        /\ [r EXCEPT !.inh = r.inh \/ c.inh] \in Ranges /\ [r EXCEPT !.inh = TRUE] \in Ranges
    BY <2>3, PieceFacts
  <2>7. \A e \in 0..N : /\ [r EXCEPT !.end = e] \in Ranges /\ [r EXCEPT !.start = e] \in Ranges
                        /\ [c EXCEPT !.end = e] \in Ranges /\ [c EXCEPT !.start = e] \in Ranges
    BY <2>3, ExceptFacts
  <2>8. ASSUME NEW p \in Ranges
        PROVE  /\ SetAt(l, i, p) \in Seq(Ranges) /\ InsertAt(l, i, p) \in Seq(Ranges)
               /\ \A q \in Ranges : InsertAt(SetAt(l, i, p), i, q) \in Seq(Ranges) /\ InsertAt(SetAt(l, i, p), i + 1, q) \in Seq(Ranges)
    <3>1. PICK x \in Seq(Ranges) : x = SetAt(l, i, p) /\ Len(x) = Len(l)
      BY <2>i, EditType
    <3>2. ASSUME NEW q \in Ranges  PROVE InsertAt(x, i, q) \in Seq(Ranges) /\ InsertAt(x, i + 1, q) \in Seq(Ranges)
      BY <2>i, <3>1, EditType
    <3>3. InsertAt(l, i, p) \in Seq(Ranges)
      BY <2>i, EditType
    <3>. QED  BY <3>1, <3>2, <3>3
  <2>9. \A e \in 0..N : CutFirst(cs, c, e) \in Seq(Ranges)
    <3>1. 1 \in 1..Len(cs)
      BY <2>i
    <3>. QED  BY <2>7, <3>1, EditType DEF CutFirst
  <2>10. ASSUME NEW p \in Ranges
         PROVE  MS(AdjustRemaining(SetAt(l, i, p), i).list, AdjustRemaining(SetAt(l, i, p), i).i, rest) \in MStates
    <3>1. AdjustRemaining(SetAt(l, i, p), i).list \in Seq(Ranges) /\ AdjustRemaining(SetAt(l, i, p), i).i \in Nat \ {0}
      BY <2>8, AdjustType
    <3>. QED  BY <2>3, <3>1, MStateFacts
  <2>11. CASE TurnEqual(l, i, cs, rest, r, c, t)
    <3>1. SetAt(l, i, [r EXCEPT !.inh = r.inh \/ c.inh]) \in Seq(Ranges) /\ rest \in Seq(Ranges)
      BY <2>3, <2>6, <2>7, <2>8, <2>9
    <3>. QED  BY <2>5, <2>11, <3>1 DEF TurnEqual
  <2>12. CASE TurnSkipped(l, i, cs, rest, r, c, t)
    <3>1. l \in Seq(Ranges) /\ cs \in Seq(Ranges)
      BY <2>3, <2>6, <2>7, <2>8, <2>9
    <3>. QED  BY <2>5, <2>12, <3>1 DEF TurnSkipped
  <2>13. CASE TurnGrown(l, i, cs, rest, r, c, t)
    <3>1. [r EXCEPT !.end = c.end] \in Ranges
      BY <2>3, <2>6, <2>7
    <3>. QED  BY <2>10, <2>13, <3>1 DEF TurnGrown
  <2>14. CASE TurnWithin(l, i, cs, rest, r, c, t)
    <3>1. l \in Seq(Ranges) /\ rest \in Seq(Ranges)
      BY <2>3, <2>6, <2>7, <2>8, <2>9
    <3>. QED  BY <2>5, <2>14, <3>1 DEF TurnWithin
  <2>15. CASE TurnBeyond(l, i, cs, rest, r, c, t)
    <3>1. l \in Seq(Ranges) /\ CutFirst(cs, c, r.end) \in Seq(Ranges)
      BY <2>3, <2>6, <2>7, <2>8, <2>9
    <3>. QED  BY <2>5, <2>15, <3>1 DEF TurnBeyond
  <2>16. CASE TurnDivide(l, i, cs, rest, r, c, t)
    <3>1. InsertAt(SetAt(l, i, [r EXCEPT !.start = c.start]), i, [r EXCEPT !.end = c.start]) \in Seq(Ranges) /\ cs \in Seq(Ranges)
      BY <2>3, <2>6, <2>7, <2>8, <2>9
    <3>. QED  BY <2>5, <2>16, <3>1 DEF TurnDivide
  <2>17. CASE TurnStrengthen(l, i, cs, rest, r, c, t)
    <3>1. SetAt(l, i, [r EXCEPT !.inh = TRUE]) \in Seq(Ranges) /\ CutFirst(cs, c, r.end) \in Seq(Ranges)
      BY <2>3, <2>6, <2>7, <2>8, <2>9
    <3>. QED  BY <2>5, <2>17, <3>1 DEF TurnStrengthen
  <2>18. CASE TurnAhead(l, i, cs, rest, r, c, t)
    <3>1. InsertAt(l, i, c) \in Seq(Ranges) /\ rest \in Seq(Ranges)
      BY <2>3, <2>6, <2>7, <2>8, <2>9
    <3>. QED  BY <2>5, <2>18, <3>1 DEF TurnAhead
  <2>19. CASE TurnJoined(l, i, cs, rest, r, c, t)
    <3>1. SetAt(l, i, [r EXCEPT !.start = c.start]) \in Seq(Ranges) /\ rest \in Seq(Ranges)
      BY <2>3, <2>6, <2>7, <2>8, <2>9
    <3>. QED  BY <2>5, <2>19, <3>1 DEF TurnJoined
  <2>20. CASE TurnBeside(l, i, cs, rest, r, c, t)
    <3>1. InsertAt(l, i, c) \in Seq(Ranges) /\ rest \in Seq(Ranges)
      BY <2>3, <2>6, <2>7, <2>8, <2>9
    <3>. QED  BY <2>5, <2>20, <3>1 DEF TurnBeside
  <2>21. CASE TurnSwallowed(l, i, cs, rest, r, c, t)
    <3>1. c \in Ranges
      BY <2>3, <2>6, <2>7
    <3>. QED  BY <2>10, <2>21, <3>1 DEF TurnSwallowed
  <2>22. CASE TurnWidened(l, i, cs, rest, r, c, t)
    <3>1. SetAt(l, i, [r EXCEPT !.start = c.start]) \in Seq(Ranges) /\ rest \in Seq(Ranges)
      BY <2>3, <2>6, <2>7, <2>8, <2>9
    <3>. QED  BY <2>5, <2>22, <3>1 DEF TurnWidened
  <2>23. CASE TurnFront(l, i, cs, rest, r, c, t)
    <3>1. InsertAt(l, i, [c EXCEPT !.end = r.start]) \in Seq(Ranges) /\ CutFirst(cs, c, r.start) \in Seq(Ranges)
      BY <2>3, <2>6, <2>7, <2>8, <2>9
    <3>. QED  BY <2>5, <2>23, <3>1 DEF TurnFront
  <2>24. CASE TurnInside(l, i, cs, rest, r, c, t)
    <3>1. l \in Seq(Ranges) /\ rest \in Seq(Ranges)
      BY <2>3, <2>6, <2>7, <2>8, <2>9
    <3>. QED  BY <2>5, <2>24, <3>1 DEF TurnInside
  <2>25. CASE TurnPrefix(l, i, cs, rest, r, c, t)
    <3>1. InsertAt(SetAt(l, i, [r EXCEPT !.start = c.end]), i, c) \in Seq(Ranges) /\ rest \in Seq(Ranges)
      BY <2>3, <2>6, <2>7, <2>8, <2>9
    <3>. QED  BY <2>5, <2>25, <3>1 DEF TurnPrefix
  <2>26. CASE TurnOver(l, i, cs, rest, r, c, t)
    <3>1. SetAt(l, i, [c EXCEPT !.end = r.end]) \in Seq(Ranges) /\ CutFirst(cs, c, r.end) \in Seq(Ranges)
      BY <2>3, <2>6, <2>7, <2>8, <2>9
    <3>. QED  BY <2>5, <2>26, <3>1 DEF TurnOver
  <2>27. CASE TurnLevel(l, i, cs, rest, r, c, t)
    <3>1. SetAt(l, i, c) \in Seq(Ranges) /\ rest \in Seq(Ranges)
      BY <2>3, <2>6, <2>7, <2>8, <2>9
    <3>. QED  BY <2>5, <2>27, <3>1 DEF TurnLevel
  <2>28. CASE TurnOverlapped(l, i, cs, rest, r, c, t)
    <3>1. InsertAt(SetAt(l, i, c), i + 1, [r EXCEPT !.start = c.end]) \in Seq(Ranges) /\ rest \in Seq(Ranges)
      BY <2>3, <2>6, <2>7, <2>8, <2>9
    <3>. QED  BY <2>5, <2>28, <3>1 DEF TurnOverlapped
  <2>29. t \in MStates
    BY <2>4, <2>11, <2>12, <2>13, <2>14, <2>15, <2>16, <2>17, <2>18, <2>19, <2>20, <2>21, <2>22, <2>23, <2>24, <2>25, <2>26, <2>27, <2>28 DEF MergeCases
  <2>. QED  BY <2>1, <2>29
<1>. QED  BY <1>1, <1>2

\* What the loop is in after every turn.
LEMMA MergeStatesType ==
  ASSUME NEW l \in Seq(Ranges), NEW cs \in Seq(Ranges), NEW f, IsMerge(f, l, cs), NEW n \in Nat, n = 4 * N + 2 * Len(l) + 1
  PROVE  \A k \in 0..n : f[k] \in MStates
<1>. DEFINE C == {k \in Nat : k <= n => f[k] \in MStates}
<1>2. 0 \in C
  <2>1. f[0] = [list |-> l, i |-> 1, changes |-> cs]
    BY DEF IsMerge
  <2>2. f[0] \in MStates
    BY <2>1 DEF MStates
  <2>. QED  BY <2>2
<1>3. ASSUME NEW k \in Nat, k \in C  PROVE k + 1 \in C
  <2>. SUFFICES ASSUME k + 1 <= n  PROVE f[k + 1] \in MStates
    OBVIOUS
  <2>1. f[k] \in MStates
    BY <1>3
  <2>2. k + 1 \in 1..(4 * N + 2 * Len(l) + 1) /\ (k + 1) - 1 = k
    OBVIOUS
  <2>3. f[k + 1] = MergeTurn(f[k])
    BY <2>2 DEF IsMerge
  <2>. QED  BY <2>1, <2>3, MergeTurnType
<1>. HIDE DEF C
<1>4. \A k \in Nat : k \in C
  BY <1>2, <1>3, SetInduction
<1>. QED  BY <1>4 DEF C

\* svn_rangelist_merge2 gives a list of ranges.
LEMMA MergeType ==
  ASSUME NEW l \in Seq(Ranges), NEW cs \in Seq(Ranges)
  PROVE  Merge(l, cs) \in Seq(Ranges)
<1>n. PICK n \in Nat : n = 4 * N + 2 * Len(l) + 1
  OBVIOUS
<1>l. Len(l) \in Nat
  OBVIOUS
<1>1. PICK f : IsMerge(f, l, cs) /\ Merge(l, cs) = Rest(f[4 * N + 2 * Len(l) + 1])
  BY <1>l, MergeTurns
<1>2. \A k \in 0..n : f[k] \in MStates
  BY <1>n, <1>1, MergeStatesType
<1>3. f[n].list \in Seq(Ranges) /\ f[n].changes \in Seq(Ranges)
  BY <1>2, MStateFacts
<1>4. Rest(f[n]) \in Seq(Ranges)
  BY <1>3, ConcatFacts DEF Rest
<1>. QED  BY <1>n, <1>1, <1>4

--------------------------------------------------------------------------------
(* What adjust_remaining_ranges makes of the revisions.                     *)

\* Two lists cover the same revisions, and children inherit the same ones.
SameRevs(l, k) == \A v \in Int : (On(l, v) <=> On(k, v)) /\ (Inh(l, v) <=> Inh(k, v))

\* The change c reaches from the range r beyond the next one, q, as Calm excludes it.
Stirs(c, r, q) == ~c.inh /\ ~r.inh /\ q.inh /\ c.start < r.end /\ q.end < c.end

\* Calm, of the ranges from the i-th on.
CalmFrom(l, i, cs) == \A x \in 1..Len(cs), k \in i..(Len(l) - 1) : ~Stirs(cs[x], l[k], l[k + 1])

\* A range is replaced by another one that covers, with one of the others, what it covered.
LEMMA ReplacedKeeps ==
  ASSUME NEW l \in Seq(Ranges), NEW a \in 1..Len(l), NEW b \in 1..Len(l), a # b, NEW r, NEW k, Replaced(l, a, r, k), NEW v,
         Covers(l[a], v) => Covers(r, v) \/ Covers(l[b], v),
         Covers(r, v) => Covers(l[a], v) \/ Covers(l[b], v),
         Covers(l[a], v) /\ l[a].inh => (Covers(r, v) /\ r.inh) \/ (Covers(l[b], v) /\ l[b].inh),
         Covers(r, v) /\ r.inh => (Covers(l[a], v) /\ l[a].inh) \/ (Covers(l[b], v) /\ l[b].inh)
  PROVE  (On(l, v) <=> On(k, v)) /\ (Inh(l, v) <=> Inh(k, v))
<1>1. /\ On(l, v) <=> OnBut(l, a, v) \/ Covers(l[a], v)
      /\ Inh(l, v) <=> InhBut(l, a, v) \/ (Covers(l[a], v) /\ l[a].inh)
  BY ButOne
<1>2. /\ On(k, v) <=> OnBut(l, a, v) \/ Covers(r, v)
      /\ Inh(k, v) <=> InhBut(l, a, v) \/ (Covers(r, v) /\ r.inh)
  BY DEF Replaced
<1>3. /\ Covers(l[b], v) => OnBut(l, a, v)
      /\ Covers(l[b], v) /\ l[b].inh => InhBut(l, a, v)
  BY DEF OnBut, InhBut
<1>. QED  BY <1>1, <1>2, <1>3

\* Ranges are removed that the one before them covers.
LEMMA RemovedKeeps ==
  ASSUME NEW l \in Seq(Ranges), NEW i \in 1..Len(l), NEW n \in Nat, i + n <= Len(l), NEW k, Removed(l, i + 1, n, k), NEW v,
         \A j \in (i + 1)..(i + n) : /\ Covers(l[j], v) => Covers(l[i], v)
                                     /\ Covers(l[j], v) /\ l[j].inh => l[i].inh
  PROVE  (On(l, v) <=> On(k, v)) /\ (Inh(l, v) <=> Inh(k, v))
<1>m. PICK m \in Nat : m = Len(l) /\ i + n <= m /\ i \in 1..m
  OBVIOUS
<1>1. /\ k \in Seq(Ranges) /\ Len(k) = m - n
      /\ \A j \in 1..i : k[j] = l[j]
      /\ \A j \in (i + 1)..(m - n) : k[j] = l[j + n]
  <2>1. (i + 1) - 1 = i
    BY <1>m
  <2>. QED  BY <1>m, <2>1 DEF Removed
<1>2. \A j \in 1..(m - n) : \E h \in 1..m : k[j] = l[h]
  <2>. TAKE j \in 1..(m - n)
  <2>1. CASE j <= i
    BY <1>m, <1>1, <2>1
  <2>2. CASE j > i
    <3>1. j + n \in 1..m /\ j \in (i + 1)..(m - n)
      BY <1>m, <2>2
    <3>. QED  BY <1>1, <3>1
  <2>. QED  BY <1>m, <2>1, <2>2
<1>3. i \in 1..(m - n) /\ k[i] = l[i]
  BY <1>m, <1>1
<1>4. ASSUME NEW h \in 1..m  PROVE h \in (i + 1)..(i + n) \/ \E j \in 1..(m - n) : k[j] = l[h]
  <2>1. CASE h <= i
    BY <1>m, <1>1, <2>1
  <2>2. CASE h > i + n
    <3>1. h - n \in (i + 1)..(m - n) /\ h - n \in 1..(m - n) /\ (h - n) + n = h
      BY <1>m, <2>2
    <3>2. k[h - n] = l[h]
      BY <1>1, <3>1
    <3>. QED  BY <3>1, <3>2
  <2>. QED  BY <1>m, <2>1, <2>2
<1>5. On(l, v) <=> On(k, v)
  <2>1. ASSUME NEW h \in 1..m, Covers(l[h], v)  PROVE On(k, v)
    BY <1>1, <1>3, <1>4, <2>1 DEF On
  <2>2. ASSUME NEW j \in 1..(m - n), Covers(k[j], v)  PROVE On(l, v)
    BY <1>m, <1>2, <2>2 DEF On
  <2>. QED  BY <1>m, <1>1, <2>1, <2>2 DEF On
<1>6. Inh(l, v) <=> Inh(k, v)
  <2>k. Inh(k, v) <=> \E j \in 1..(m - n) : Covers(k[j], v) /\ k[j].inh
    BY <1>1, InhAt
  <2>l. Inh(l, v) <=> \E j \in 1..m : Covers(l[j], v) /\ l[j].inh
    BY <1>m, InhAt
  <2>1. ASSUME NEW h \in 1..m, Covers(l[h], v), l[h].inh  PROVE Inh(k, v)
    BY <1>3, <1>4, <2>1, <2>k
  <2>2. ASSUME NEW j \in 1..(m - n), Covers(k[j], v), k[j].inh  PROVE Inh(l, v)
    BY <1>2, <2>2, <2>l
  <2>. QED  BY <2>1, <2>2, <2>k, <2>l
<1>. QED  BY <1>5, <1>6

\* What follows the removed ranges is as it was.
LEMMA RemovedSettles ==
  ASSUME NEW l \in Seq(Ranges), NEW i \in 1..Len(l), NEW n \in Nat, i + n <= Len(l), NEW k, Removed(l, i + 1, n, k), NEW rest,
         ValidFrom(l, i + n + 1), CalmFrom(l, i + n + 1, rest)
  PROVE  /\ ValidFrom(k, i + 1) /\ CalmFrom(k, i + 1, rest)
         /\ l[i].start < l[i].end /\ (i + n < Len(l) => l[i].end <= l[i + n + 1].start) => ValidFrom(k, i)
         /\ (i + n < Len(l) => \A y \in 1..Len(rest) : ~Stirs(rest[y], l[i], l[i + n + 1])) => CalmFrom(k, i, rest)
<1>m. PICK m \in Nat : m = Len(l) /\ i + n <= m /\ i \in 1..m
  OBVIOUS
<1>1. /\ k \in Seq(Ranges) /\ Len(k) = m - n /\ k[i] = l[i]
      /\ \A j \in (i + 1)..(m - n) : k[j] = l[j + n]
  <2>1. (i + 1) - 1 = i /\ i \in 1..i
    BY <1>m
  <2>. QED  BY <1>m, <2>1 DEF Removed
<1>2. ASSUME NEW j \in (i + 1)..(m - n)
      PROVE  k[j].start < k[j].end /\ (j < m - n => k[j].end <= k[j + 1].start)
  <2>1. PICK h \in (i + n + 1)..m : h = j + n
    BY <1>m
  <2>2. k[j] = l[h] /\ l[h].start < l[h].end /\ (h < m => l[h].end <= l[h + 1].start)
    BY <1>m, <1>1, <2>1 DEF ValidFrom
  <2>3. j < m - n => h < m /\ j + 1 \in (i + 1)..(m - n) /\ (j + 1) + n = h + 1
    BY <1>m, <2>1
  <2>4. ASSUME j < m - n  PROVE k[j + 1] = l[h + 1]
    <3>1. PICK g \in (i + 1)..(m - n) : g = j + 1 /\ g + n = h + 1
      BY <2>3, <2>4
    <3>2. k[g] = l[g + n]
      BY <1>1
    <3>. QED  BY <3>1, <3>2
  <2>. QED  BY <2>2, <2>3, <2>4
<1>3. ValidFrom(k, i + 1)
  BY <1>1, <1>2 DEF ValidFrom
<1>4. ASSUME NEW y \in 1..Len(rest), NEW j \in (i + 1)..(m - n - 1)  PROVE ~Stirs(rest[y], k[j], k[j + 1])
  <2>1. PICK h \in (i + n + 1)..(m - 1) : h = j + n
    BY <1>m
  <2>2. j \in (i + 1)..(m - n) /\ j + 1 \in (i + 1)..(m - n) /\ (j + 1) + n = h + 1
    BY <1>m, <2>1
  <2>3. k[j] = l[h] /\ k[j + 1] = l[h + 1]
    BY <1>1, <2>1, <2>2
  <2>4. ~Stirs(rest[y], l[h], l[h + 1])
    BY <1>m DEF CalmFrom
  <2>. QED  BY <2>3, <2>4
<1>5. CalmFrom(k, i + 1, rest)
  <2>1. Len(k) - 1 = m - n - 1
    BY <1>m, <1>1
  <2>. QED  BY <1>4, <2>1 DEF CalmFrom
<1>6. i < m - n => i + 1 \in (i + 1)..(m - n) /\ (i + 1) + n = i + n + 1 /\ i + n < m
  BY <1>m
<1>7. i < m - n => k[i + 1] = l[i + n + 1]
  BY <1>1, <1>6
<1>8. ASSUME l[i].start < l[i].end, i + n < m => l[i].end <= l[i + n + 1].start  PROVE ValidFrom(k, i)
  <2>1. \A j \in i..(m - n) : j = i \/ j \in (i + 1)..(m - n)
    BY <1>m
  <2>2. k[i].start < k[i].end /\ (i < m - n => k[i].end <= k[i + 1].start)
    BY <1>1, <1>6, <1>7, <1>8
  <2>. QED  BY <1>1, <1>2, <2>1, <2>2 DEF ValidFrom
<1>9. ASSUME i + n < m => \A y \in 1..Len(rest) : ~Stirs(rest[y], l[i], l[i + n + 1])  PROVE CalmFrom(k, i, rest)
  <2>1. Len(k) - 1 = m - n - 1
    BY <1>m, <1>1
  <2>2. \A j \in i..(m - n - 1) : (j = i /\ i < m - n) \/ j \in (i + 1)..(m - n - 1)
    BY <1>m
  <2>3. i < m - n => \A y \in 1..Len(rest) : ~Stirs(rest[y], k[i], k[i + 1])
    BY <1>1, <1>6, <1>7, <1>9
  <2>. QED  BY <1>4, <2>1, <2>2, <2>3 DEF CalmFrom
<1>. QED  BY <1>m, <1>3, <1>5, <1>8, <1>9

\* The order of the ranges of a list that is valid from one of them on.
LEMMA FromOrder ==
  ASSUME NEW l \in Seq(Ranges), NEW p \in Nat \ {0}, ValidFrom(l, p), NEW i \in p..Len(l), NEW j \in p..Len(l), i < j
  PROVE  l[i].end <= l[j].start
<1>n. PICK n \in Nat : n = Len(l)
  OBVIOUS
<1>t. \A k \in p..n : l[k].start \in Nat /\ l[k].end \in Nat
  <2>1. \A k \in p..n : k \in 1..Len(l)
    BY <1>n
  <2>. QED  BY <2>1, Elements
<1>v. \A k \in p..n : l[k].start < l[k].end /\ (k < n => l[k].end <= l[k + 1].start)
  BY <1>n DEF ValidFrom
<1>. DEFINE B == {d \in Nat : i + 1 + d <= n => l[i].end <= l[i + 1 + d].start}
<1>1. 0 \in B
  BY <1>n, <1>v
<1>2. ASSUME NEW d \in Nat, d \in B  PROVE d + 1 \in B
  <2>. SUFFICES ASSUME i + 1 + (d + 1) <= n  PROVE l[i].end <= l[i + 1 + (d + 1)].start
    OBVIOUS
  <2>1. l[i].end <= l[i + 1 + d].start
    BY <1>2
  <2>. HIDE DEF B
  <2>2. PICK x \in p..n : x = i + 1 + d /\ x < n
    BY <1>n
  <2>3. l[x].start < l[x].end /\ l[x].end <= l[x + 1].start
    BY <1>v, <2>2
  <2>4. x + 1 \in p..n /\ i \in p..n /\ i + 1 + (d + 1) = x + 1
    BY <1>n, <2>2
  <2>5. l[i].end <= l[x].start
    BY <2>1, <2>2
  <2>6. l[i].end \in Nat /\ l[x].start \in Nat /\ l[x].end \in Nat /\ l[x + 1].start \in Nat
    BY <1>t, <2>2, <2>4
  <2>7. l[i].end <= l[x + 1].start
    <3>1. PICK a \in Nat, b \in Nat, c \in Nat, e \in Nat : a = l[i].end /\ b = l[x].start /\ c = l[x].end /\ e = l[x + 1].start
      BY <2>6
    <3>2. a <= b /\ b < c /\ c <= e
      BY <2>3, <2>5, <3>1
    <3>3. a <= e
      BY <3>2
    <3>. QED  BY <3>1, <3>3
  <2>. QED  BY <2>4, <2>7
<1>. HIDE DEF B
<1>3. j - (i + 1) \in B
  <2>1. \A d \in Nat : d \in B
    BY <1>1, <1>2, SetInduction
  <2>2. j - (i + 1) \in Nat
    BY <1>n
  <2>. QED  BY <2>1, <2>2
<1>4. i + 1 + (j - (i + 1)) = j /\ j <= n
  BY <1>n
<1>. QED  BY <1>3, <1>4 DEF B

\* From a later range on a list is valid and calm too.
LEMMA FromLater ==
  ASSUME NEW l, Len(l) \in Nat, NEW rest, NEW p \in Nat, NEW q \in Nat, p <= q, ValidFrom(l, p), CalmFrom(l, p, rest)
  PROVE  ValidFrom(l, q) /\ CalmFrom(l, q, rest)
<1>1. \A j \in q..Len(l) : j \in p..Len(l)
  OBVIOUS
<1>2. \A j \in q..(Len(l) - 1) : j \in p..(Len(l) - 1)
  OBVIOUS
<1>3. ValidFrom(l, q)
  BY <1>1 DEF ValidFrom
<1>4. CalmFrom(l, q, rest)
  BY <1>2 DEF CalmFrom
<1>. QED  BY <1>3, <1>4

\* The i-th range has grown to the revision e; the ranges after it are as they were.
Grows(l, i, e, rest) ==
  /\ i \in 1..Len(l) /\ l[i].start < l[i].end /\ l[i].end = e
  /\ i < Len(l) => l[i].start <= l[i + 1].start
  /\ ValidFrom(l, i + 1) /\ CalmFrom(l, i + 1, rest)
  /\ \A y \in 1..Len(rest) : e <= rest[y].start
  /\ ~l[i].inh => \A k \in (i + 1)..(Len(l) - 1) : ~l[k].inh /\ l[k + 1].inh => e <= l[k + 1].end

\* The list is in order from its i-th range on.
Settled(l, i, rest) == l \in Seq(Ranges) /\ ValidFrom(l, i) /\ CalmFrom(l, i, rest)

\* What an activation with no other within it has done, once it has deleted what it deletes.
Ends(l, t, ds, rest) ==
  \E from, n, x :
    /\ from \in Nat \ {0} /\ n \in Nat /\ t.more = FALSE /\ t.dels = <<[from |-> from, n |-> n]>> \o ds
    /\ x = Without(t.list, from, n) /\ SameRevs(l, x) /\ Settled(x, t.i, rest)

\* What one with another within it has done.
GoesOn(l, i, e, t, ds, rest) ==
  /\ t.more = TRUE /\ t.dels = <<[from |-> i + 1, n |-> 0]>> \o ds
  /\ SameRevs(l, t.list) /\ Grows(t.list, t.i, e, rest) /\ Len(t.list) - t.i = Len(l) - i - 1

\* The ranges from the next one to the first that is not absorbed.
LEMMA Absorbed ==
  ASSUME NEW l \in Seq(Ranges), NEW i, NEW e, NEW rest, Grows(l, i, e, rest),
         NEW k, k = FirstKept(l, i), NEW v \in Int, NEW j \in (i + 1)..(k - 1)
  PROVE  /\ l[i].start <= l[j].start /\ l[j].end < e /\ (l[j].inh => l[i].inh)
         /\ Covers(l[j], v) => Covers(l[i], v)
         /\ k <= Len(l) => l[j].end <= l[k].start
<1>n. PICK n \in Nat : n = Len(l)
  OBVIOUS
<1>i. i \in 1..n /\ i \in Nat /\ i + 1 \in Nat \ {0}
  BY <1>n DEF Grows
<1>1. k \in (i + 1)..(n + 1) /\ Absorbs(l[i], l[j])
  <2>1. i <= n
    BY <1>n, <1>i
  <2>2. k \in (i + 1)..(n + 1) /\ \A h \in (i + 1)..(k - 1) : Absorbs(l[i], l[h])
    BY <1>n, <1>i, <2>1, FirstKeptFacts
  <2>. QED  BY <2>2
<1>2. j \in 1..n /\ j \in (i + 1)..n /\ i + 1 \in (i + 1)..n
  BY <1>n, <1>i, <1>1
<1>3. /\ l[i].start \in Int /\ l[i].end \in Int /\ l[j].start \in Int /\ l[j].end \in Int /\ l[i].inh \in BOOLEAN /\ l[j].inh \in BOOLEAN
  BY <1>n, <1>i, <1>2, Elements
<1>4. l[j].end < e /\ (l[j].inh => l[i].inh)
  BY <1>1, <1>3 DEF Absorbs, Grows
<1>5. l[i].start <= l[j].start
  <2>1. i + 1 \in 1..n
    BY <1>n, <1>i, <1>2
  <2>0. l[i + 1].start \in Int /\ l[i + 1].end \in Int
    BY <1>n, <2>1, Elements
  <2>2. l[i].start <= l[i + 1].start /\ l[i + 1].start < l[i + 1].end
    BY <1>n, <1>i, <1>2 DEF Grows, ValidFrom
  <2>3. CASE j = i + 1
    BY <2>2, <2>3
  <2>4. CASE j > i + 1
    <3>1. l[i + 1].end <= l[j].start
      BY <1>n, <1>i, <1>2, <2>4, FromOrder DEF Grows
    <3>. QED  BY <1>3, <2>0, <2>2, <3>1
  <2>. QED  BY <1>2, <1>i, <2>3, <2>4
<1>6. Covers(l[j], v) => Covers(l[i], v)
  BY <1>3, <1>4, <1>5 DEF Covers, Grows
<1>7. ASSUME k <= n  PROVE l[j].end <= l[k].start
  <2>1. k \in (i + 1)..Len(l) /\ j \in (i + 1)..Len(l) /\ j < k
    BY <1>n, <1>i, <1>1, <1>2, <1>7
  <2>. QED  BY <1>i, <2>1, FromOrder DEF Grows
<1>. QED  BY <1>n, <1>4, <1>5, <1>6, <1>7

\* The list x is l with ranges edited so that those after the i-th up to the h-th can go.
Fit(l, i, h, x, d, rest) ==
  /\ x \in Seq(Ranges) /\ Len(x) = Len(l) /\ SameRevs(l, x) /\ h \in i..Len(l)
  /\ \A v \in Int, j \in (i + 1)..h : (Covers(x[j], v) => Covers(x[i], v)) /\ (Covers(x[j], v) /\ x[j].inh => x[i].inh)
  /\ ValidFrom(x, h + 1) /\ CalmFrom(x, h + 1, rest)
  /\ d = 0 => /\ x[i].start < x[i].end
              /\ h < Len(l) => x[i].end <= x[h + 1].start /\ \A y \in 1..Len(rest) : ~Stirs(rest[y], x[i], x[h + 1])

\* The state t is what an activation leaves that has no other within it.
LeftBy(t, s, i, k, x, d, n) == s.i = i /\ t = Left(s, k, x, d, n, FALSE)

\* An activation that leaves such a list.
LEMMA EndsAt ==
  ASSUME NEW s \in AStates, NEW l \in Seq(Ranges), NEW i \in 1..Len(l), NEW k \in Nat, i < k,
         NEW n \in {0, 1}, NEW d \in {0, 1}, NEW h, h = k - 1 + n, NEW x, NEW rest, Fit(l, i, h, x, d, rest),
         NEW t, LeftBy(t, s, i, k, x, d, n)
  PROVE  Ends(l, t, s.dels, rest)
<1>m. PICK m \in Nat : m = Len(l)
  OBVIOUS
<1>0. /\ x \in Seq(Ranges) /\ Len(x) = m /\ SameRevs(l, x) /\ h \in i..m
      /\ ValidFrom(x, h + 1) /\ CalmFrom(x, h + 1, rest)
  BY <1>m DEF Fit
<1>1. PICK g \in Nat, f \in Nat \ {0} : g = h - i /\ f = i + 1 /\ g = k - i - 1 + n
  BY <1>m, <1>0
<1>2. t.more = FALSE /\ t.dels = <<[from |-> f, n |-> g]>> \o s.dels /\ t.list = x /\ t.i = i + d
  BY <1>1 DEF LeftBy, Left
<1>3. PICK z : z = Without(x, f, g)
  OBVIOUS
<1>4. f + g <= Len(x) + 1 /\ i + g = h /\ i + g <= Len(x) /\ i \in 1..Len(x) /\ i + g + 1 = h + 1
  BY <1>m, <1>0, <1>1
<1>5. Removed(x, i + 1, g, z)
  BY <1>0, <1>1, <1>3, <1>4, WithoutMeans
<1>6. SameRevs(x, z)
  <2>1. ASSUME NEW v \in Int  PROVE (On(x, v) <=> On(z, v)) /\ (Inh(x, v) <=> Inh(z, v))
    <3>1. \A j \in (i + 1)..(i + g) : (Covers(x[j], v) => Covers(x[i], v)) /\ (Covers(x[j], v) /\ x[j].inh => x[i].inh)
      BY <1>4 DEF Fit
    <3>. QED  BY <1>0, <1>4, <1>5, <3>1, RemovedKeeps
  <2>. QED  BY <2>1 DEF SameRevs
<1>7. SameRevs(l, z)
  BY <1>0, <1>6 DEF SameRevs
<1>8. ValidFrom(x, i + g + 1) /\ CalmFrom(x, i + g + 1, rest)
  BY <1>0, <1>4
<1>9. z \in Seq(Ranges)
  BY <1>5 DEF Removed
<1>10. CASE d = 1
  <2>1. ValidFrom(z, i + 1) /\ CalmFrom(z, i + 1, rest)
    BY <1>0, <1>4, <1>5, <1>8, RemovedSettles
  <2>2. Settled(z, t.i, rest)
    BY <1>2, <1>9, <1>10, <2>1 DEF Settled
  <2>. QED  BY <1>2, <1>3, <1>7, <2>2 DEF Ends
<1>11. CASE d = 0
  <2>1. x[i].start < x[i].end /\ (h < m => x[i].end <= x[h + 1].start)
    BY <1>m, <1>11 DEF Fit
  <2>2. h < m => \A y \in 1..Len(rest) : ~Stirs(rest[y], x[i], x[h + 1])
    BY <1>m, <1>11 DEF Fit
  <2>3. ValidFrom(z, i)
    BY <1>0, <1>4, <1>5, <1>8, <2>1, RemovedSettles
  <2>4. CalmFrom(z, i, rest)
    BY <1>0, <1>4, <1>5, <1>8, <2>2, RemovedSettles
  <2>5. i + 0 = i
    BY <1>m
  <2>6. Settled(z, t.i, rest)
    BY <1>2, <1>9, <1>11, <2>3, <2>4, <2>5 DEF Settled
  <2>. QED  BY <1>2, <1>3, <1>7, <2>6 DEF Ends
<1>. QED  BY <1>10, <1>11

\* A change that begins after the range does not reach across it.
LEMMA NotStirred ==
  ASSUME NEW c \in Ranges, NEW r \in Ranges, NEW q, r.end <= c.start
  PROVE  ~Stirs(c, r, q)
<1>1. c.start \in Int /\ r.end \in Int
  BY RangeFacts
<1>. QED  BY <1>1 DEF Stirs

\* A range is replaced before, or at, the one from which the list is in order.
LEMMA ReplacedSettles ==
  ASSUME NEW l \in Seq(Ranges), NEW a \in 1..Len(l), NEW r, NEW x, Replaced(l, a, r, x), NEW p \in Nat, NEW rest,
         ValidFrom(l, p), CalmFrom(l, p, rest)
  PROVE  /\ a < p => ValidFrom(x, p) /\ CalmFrom(x, p, rest)
         /\ a = p /\ r.end = l[a].end /\ r.start < r.end /\ (l[a].inh => r.inh) => ValidFrom(x, p) /\ CalmFrom(x, p, rest)
<1>n. PICK n \in Nat : n = Len(l) /\ a \in 1..n
  OBVIOUS
<1>1. Len(x) = n /\ x[a] = r /\ \A j \in 1..n : j # a => x[j] = l[j]
  BY <1>n DEF Replaced
<1>2. ASSUME a < p  PROVE ValidFrom(x, p) /\ CalmFrom(x, p, rest)
  <2>1. \A j \in p..n : j \in 1..n /\ j # a /\ (j < n => j + 1 \in 1..n /\ j + 1 # a)
    BY <1>n, <1>2
  <2>2. \A j \in p..n : x[j] = l[j] /\ (j < n => x[j + 1] = l[j + 1])
    BY <1>1, <2>1
  <2>3. \A j \in p..(n - 1) : j \in p..n /\ j < n
    OBVIOUS
  <2>4. ValidFrom(x, p)
    BY <1>n, <1>1, <2>2 DEF ValidFrom
  <2>5. CalmFrom(x, p, rest)
    BY <1>n, <1>1, <2>2, <2>3 DEF CalmFrom
  <2>. QED  BY <2>4, <2>5
<1>3. ASSUME a = p, r.end = l[a].end, r.start < r.end, l[a].inh => r.inh  PROVE ValidFrom(x, p) /\ CalmFrom(x, p, rest)
  <2>1. \A j \in p..n : j = a \/ (j \in 1..n /\ j # a)
    BY <1>n, <1>3
  <2>2. \A j \in p..n : j < n => j + 1 \in 1..n /\ j + 1 # a
    BY <1>n, <1>3
  <2>3. \A j \in p..n : (j # a => x[j] = l[j]) /\ (j < n => x[j + 1] = l[j + 1])
    BY <1>1, <2>1, <2>2
  <2>4. ASSUME NEW j \in p..n  PROVE x[j].start < x[j].end /\ (j < n => x[j].end <= x[j + 1].start)
    <3>1. l[j].start < l[j].end /\ (j < n => l[j].end <= l[j + 1].start)
      BY <1>n DEF ValidFrom
    <3>2. CASE j = a
      BY <1>1, <1>3, <2>3, <3>1, <3>2
    <3>3. CASE j # a
      BY <2>3, <3>1, <3>3
    <3>. QED  BY <3>2, <3>3
  <2>5. ValidFrom(x, p)
    BY <1>1, <2>4 DEF ValidFrom
  <2>6. ASSUME NEW y \in 1..Len(rest), NEW j \in p..(n - 1)  PROVE ~Stirs(rest[y], x[j], x[j + 1])
    <3>1. ~Stirs(rest[y], l[j], l[j + 1])
      BY <1>n DEF CalmFrom
    <3>0. j \in p..n /\ j < n
      OBVIOUS
    <3>2. CASE j = a
      <4>1. x[j] = r /\ x[j + 1] = l[j + 1] /\ r.end = l[j].end /\ (l[j].inh => r.inh)
        BY <1>1, <1>3, <2>3, <3>0, <3>2
      <4>. QED  BY <3>1, <4>1 DEF Stirs
    <3>3. CASE j # a
      BY <2>3, <3>0, <3>1, <3>3
    <3>. QED  BY <3>2, <3>3
  <2>7. CalmFrom(x, p, rest)
    BY <1>1, <2>6 DEF CalmFrom
  <2>. QED  BY <2>5, <2>7
<1>. QED  BY <1>2, <1>3

\* The range that an activation finds after the ones it absorbs.
LEMMA NextKept ==
  ASSUME NEW l \in Seq(Ranges), NEW i, NEW e, NEW rest, Grows(l, i, e, rest), NEW k, k = FirstKept(l, i)
  PROVE  /\ i \in 1..Len(l) /\ k \in Nat /\ i < k /\ k <= Len(l) + 1
         /\ k <= Len(l) => /\ k \in 1..Len(l) /\ k # i /\ ~Absorbs(l[i], l[k])
                           /\ l[i].start <= l[k].start /\ l[k].start < l[k].end
                           /\ k < Len(l) => l[k].end <= l[k + 1].start
                           /\ ValidFrom(l, k) /\ CalmFrom(l, k, rest)
         /\ ValidFrom(l, k + 1) /\ CalmFrom(l, k + 1, rest)
<1>n. PICK n \in Nat : n = Len(l)
  OBVIOUS
<1>i. i \in 1..n /\ i \in Nat /\ i <= n
  BY <1>n DEF Grows
<1>1. k \in (i + 1)..(n + 1) /\ (k = n + 1 \/ ~Absorbs(l[i], l[k]))
  BY <1>n, <1>i, FirstKeptFacts
<1>g. ValidFrom(l, i + 1) /\ CalmFrom(l, i + 1, rest) /\ (i < n => l[i].start <= l[i + 1].start)
  BY <1>n DEF Grows
<1>2. k \in Nat /\ i < k /\ i + 1 <= k /\ i + 1 <= k + 1 /\ k + 1 \in Nat /\ i + 1 \in Nat
  BY <1>i, <1>1
<1>3. ValidFrom(l, k) /\ CalmFrom(l, k, rest) /\ ValidFrom(l, k + 1) /\ CalmFrom(l, k + 1, rest)
  <2>1. Len(l) \in Nat
    OBVIOUS
  <2>. QED  BY <1>g, <1>2, <2>1, FromLater
<1>4. ASSUME k <= n
      PROVE  /\ k \in 1..n /\ k # i /\ ~Absorbs(l[i], l[k])
             /\ l[i].start <= l[k].start /\ l[k].start < l[k].end
             /\ k < n => l[k].end <= l[k + 1].start
  <2>1. k \in 1..n /\ k # i /\ k # n + 1 /\ i + 1 \in 1..n /\ k \in (i + 1)..n /\ i + 1 \in (i + 1)..n /\ k \in k..n /\ i < n
    BY <1>i, <1>1, <1>4
  <2>2. l[k].start < l[k].end /\ (k < n => l[k].end <= l[k + 1].start)
    BY <1>n, <1>3, <2>1 DEF ValidFrom
  <2>3. l[i + 1].start < l[i + 1].end
    BY <1>n, <1>g, <2>1 DEF ValidFrom
  <2>4. l[i].start \in Int /\ l[i + 1].start \in Int /\ l[i + 1].end \in Int /\ l[k].start \in Int
    BY <1>n, <1>i, <2>1, Elements
  <2>5. k # i + 1 => l[i + 1].end <= l[k].start
    <3>. SUFFICES ASSUME k # i + 1  PROVE l[i + 1].end <= l[k].start
      OBVIOUS
    <3>1. i + 1 < k /\ i + 1 \in Nat \ {0}
      BY <1>i, <2>1
    <3>. QED  BY <1>n, <1>g, <2>1, <3>1, FromOrder
  <2>6. l[i].start <= l[k].start
    BY <1>g, <2>1, <2>3, <2>4, <2>5
  <2>. QED  BY <1>1, <2>1, <2>2, <2>6
<1>. QED  BY <1>n, <1>i, <1>1, <1>2, <1>3, <1>4

\* An activation that has no other within it and leaves the index where it is, the list unedited.
LEMMA FitsAsIs ==
  ASSUME NEW l \in Seq(Ranges), NEW i, NEW e, NEW rest \in Seq(Ranges), Grows(l, i, e, rest), NEW k, k = FirstKept(l, i),
         NEW h \in {k - 1, k}, h <= Len(l), NEW d \in {0, 1},
         h = k => l[k].end <= e /\ (l[k].inh => l[i].inh),
         d = 0 /\ h < Len(l) => l[i].end <= l[h + 1].start
  PROVE  Fit(l, i, h, l, d, rest)
<1>k. /\ i \in 1..Len(l) /\ k \in Nat /\ i < k /\ k <= Len(l) + 1
      /\ k <= Len(l) => k \in 1..Len(l) /\ l[i].start <= l[k].start /\ ValidFrom(l, k) /\ CalmFrom(l, k, rest)
      /\ ValidFrom(l, k + 1) /\ CalmFrom(l, k + 1, rest)
  BY NextKept
<1>n. PICK n \in Nat : n = Len(l) /\ h <= n /\ i \in 1..n /\ k \in (i + 1)..(n + 1)
  BY <1>k
<1>g. l[i].start < l[i].end /\ l[i].end = e /\ \A y \in 1..Len(rest) : e <= rest[y].start
  BY DEF Grows
<1>1. SameRevs(l, l)
  BY DEF SameRevs
<1>2. h \in i..n /\ h \in Nat /\ (h = k \/ h + 1 = k) /\ h + 1 \in Nat
  BY <1>n
<1>t. l[i].start \in Int /\ l[i].end \in Int /\ \A j \in 1..n : l[j].start \in Int /\ l[j].end \in Int
  BY <1>n, Elements
<1>3. ASSUME NEW v \in Int, NEW j \in (i + 1)..h
      PROVE  (Covers(l[j], v) => Covers(l[i], v)) /\ (Covers(l[j], v) /\ l[j].inh => l[i].inh)
  <2>1. CASE j \in (i + 1)..(k - 1)
    BY <2>1, Absorbed
  <2>2. CASE j = k /\ h = k
    <3>1. l[i].start <= l[k].start /\ k \in 1..n
      BY <1>n, <1>k, <2>2
    <3>2. Covers(l[k], v) => Covers(l[i], v)
      BY <1>g, <1>t, <2>2, <3>1 DEF Covers
    <3>. QED  BY <2>2, <3>2
  <2>3. j \in (i + 1)..(k - 1) \/ (j = k /\ h = k)
    BY <1>n, <1>2
  <2>. QED  BY <2>1, <2>2, <2>3
<1>4. ValidFrom(l, h + 1) /\ CalmFrom(l, h + 1, rest)
  <2>1. CASE h = k
    BY <1>k, <2>1
  <2>2. CASE h + 1 = k
    <3>1. CASE k <= n
      BY <1>n, <1>k, <2>2, <3>1
    <3>2. CASE k = n + 1
      <4>1. \A j \in (h + 1)..Len(l) : FALSE
        BY <1>n, <2>2, <3>2
      <4>2. \A j \in (h + 1)..(Len(l) - 1) : FALSE
        BY <1>n, <2>2, <3>2
      <4>. QED  BY <4>1, <4>2 DEF ValidFrom, CalmFrom
    <3>. QED  BY <1>n, <3>1, <3>2
  <2>. QED  BY <1>2, <2>1, <2>2
<1>5. \A y \in 1..Len(rest) : ~Stirs(rest[y], l[i], l[h + 1])
  <2>. TAKE y \in 1..Len(rest)
  <2>1. rest[y] \in Ranges /\ l[i] \in Ranges /\ l[i].end <= rest[y].start
    BY <1>k, <1>g, Elements
  <2>. QED  BY <2>1, NotStirred
<1>. QED  BY <1>n, <1>g, <1>1, <1>2, <1>3, <1>4, <1>5 DEF Fit

\* The activation joins the next range, of the same inheritability.
LEMMA FitsJoined ==
  ASSUME NEW l \in Seq(Ranges), NEW i, NEW e, NEW rest \in Seq(Ranges), Grows(l, i, e, rest), NEW k, k = FirstKept(l, i),
         k <= Len(l), l[k].start <= l[i].end, l[i].end < l[k].end, l[i].inh = l[k].inh, NEW x, x = Upto(l, i, l[k].end)
  PROVE  Fit(l, i, k, x, 0, rest)
<1>k. /\ i \in 1..Len(l) /\ k \in Nat /\ i < k
      /\ k \in 1..Len(l) /\ k # i /\ l[i].start <= l[k].start /\ l[k].start < l[k].end
      /\ k < Len(l) => l[k].end <= l[k + 1].start
      /\ ValidFrom(l, k + 1) /\ CalmFrom(l, k + 1, rest) /\ CalmFrom(l, k, rest)
  BY NextKept
<1>t. l[i].start \in 0..N /\ l[i].end \in 0..N /\ l[k].start \in 0..N /\ l[k].end \in 0..N /\ l[i].inh \in BOOLEAN
  BY <1>k, Elements
<1>u. PICK m, q : m = l[i] /\ q = l[k]
  OBVIOUS
<1>w. /\ m.start \in 0..N /\ m.end \in 0..N /\ q.start \in 0..N /\ q.end \in 0..N /\ m \in Ranges /\ q \in Ranges
      /\ m.start <= q.start /\ q.start < q.end /\ q.start <= m.end /\ m.end < q.end
  BY <1>k, <1>u, Elements
<1>r. PICK r : r = [l[i] EXCEPT !.end = l[k].end]
  OBVIOUS
<1>1. Replaced(l, i, r, x) /\ r \in Ranges /\ r.start = l[i].start /\ r.end = l[k].end /\ r.inh = l[i].inh
  BY <1>k, <1>t, <1>r, UptoFacts
<1>z. r.start = m.start /\ r.end = q.end
  BY <1>1, <1>u
<1>2. x \in Seq(Ranges) /\ Len(x) = Len(l) /\ x[i] = r /\ \A j \in 1..Len(l) : j # i => x[j] = l[j]
  BY <1>1 DEF Replaced
<1>e. l[i].end = e
  BY DEF Grows
<1>3. ASSUME NEW v \in Int  PROVE (On(l, v) <=> On(x, v)) /\ (Inh(l, v) <=> Inh(x, v))
  <2>0. Covers(r, v) <=> Covers(m, v) \/ Covers(q, v)
    BY <1>w, <1>z DEF Covers
  <2>1. Covers(r, v) <=> Covers(l[i], v) \/ Covers(l[k], v)
    BY <1>u, <2>0
  <2>. QED  BY <1>k, <1>1, <2>1, ReplacedKeeps
<1>4. SameRevs(l, x)
  BY <1>3 DEF SameRevs
<1>5. ASSUME NEW v \in Int, NEW j \in (i + 1)..k
      PROVE  (Covers(x[j], v) => Covers(x[i], v)) /\ (Covers(x[j], v) /\ x[j].inh => x[i].inh)
  <2>0. j \in 1..Len(l) /\ j # i
    BY <1>k
  <2>1. x[j] = l[j]
    BY <1>2, <2>0
  <2>e. (Covers(m, v) => Covers(r, v)) /\ (Covers(q, v) => Covers(r, v))
    BY <1>w, <1>z DEF Covers
  <2>2. (Covers(l[i], v) => Covers(r, v)) /\ (Covers(l[k], v) => Covers(r, v))
    BY <1>u, <2>e
  <2>3. CASE j \in (i + 1)..(k - 1)
    <3>1. (Covers(l[j], v) => Covers(l[i], v)) /\ (l[j].inh => l[i].inh)
      BY <2>3, Absorbed
    <3>. QED  BY <1>1, <1>2, <2>1, <2>2, <3>1
  <2>4. CASE j = k
    BY <1>1, <1>2, <2>1, <2>2, <2>4
  <2>5. j \in (i + 1)..(k - 1) \/ j = k
    BY <1>k
  <2>. QED  BY <2>3, <2>4, <2>5
<1>6. ValidFrom(x, k + 1) /\ CalmFrom(x, k + 1, rest)
  <2>1. k + 1 \in Nat /\ i < k + 1
    BY <1>k
  <2>. QED  BY <1>k, <1>1, <2>1, ReplacedSettles
<1>7. x[i].start < x[i].end
  <2>1. m.start \in Int /\ q.start \in Int /\ q.end \in Int /\ m.start <= q.start /\ q.start < q.end
    BY <1>w
  <2>2. m.start < q.end
    BY <2>1
  <2>. QED  BY <1>2, <1>z, <2>2
<1>8. ASSUME k < Len(l)
      PROVE  x[i].end <= x[k + 1].start /\ \A y \in 1..Len(rest) : ~Stirs(rest[y], x[i], x[k + 1])
  <2>1. k + 1 \in 1..Len(l) /\ k + 1 # i /\ k \in k..(Len(l) - 1)
    BY <1>k, <1>8
  <2>2. x[k + 1] = l[k + 1] /\ x[i].end = l[k].end /\ x[i].inh = l[k].inh
    BY <1>1, <1>2, <2>1
  <2>3. \A y \in 1..Len(rest) : ~Stirs(rest[y], l[k], l[k + 1])
    BY <1>k, <2>1 DEF CalmFrom
  <2>. QED  BY <1>k, <1>8, <2>2, <2>3 DEF Stirs
<1>9. k \in i..Len(l)
  BY <1>k
<1>. QED  BY <1>2, <1>4, <1>5, <1>6, <1>7, <1>8, <1>9 DEF Fit

\* The activation ends where the next range begins, which children inherit.
LEMMA FitsCut ==
  ASSUME NEW l \in Seq(Ranges), NEW i, NEW e, NEW rest \in Seq(Ranges), Grows(l, i, e, rest), NEW k, k = FirstKept(l, i),
         k <= Len(l), l[k].start < l[i].end, l[i].end <= l[k].end, ~l[i].inh, NEW x, x = Upto(l, i, l[k].start)
  PROVE  Fit(l, i, k - 1, x, 1, rest)
<1>k. /\ i \in 1..Len(l) /\ k \in Nat /\ i < k
      /\ k \in 1..Len(l) /\ k # i /\ l[i].start <= l[k].start /\ l[k].start < l[k].end
      /\ ValidFrom(l, k) /\ CalmFrom(l, k, rest)
  BY NextKept
<1>t. l[i].start \in 0..N /\ l[i].end \in 0..N /\ l[k].start \in 0..N /\ l[k].end \in 0..N /\ l[i].inh \in BOOLEAN
  BY <1>k, Elements
<1>u. PICK m, q : m = l[i] /\ q = l[k]
  OBVIOUS
<1>w. /\ m.start \in 0..N /\ m.end \in 0..N /\ q.start \in 0..N /\ q.end \in 0..N /\ m \in Ranges /\ q \in Ranges
      /\ m.start <= q.start /\ q.start < q.end /\ q.start < m.end /\ m.end <= q.end
  BY <1>k, <1>u, Elements
<1>r. PICK r : r = [l[i] EXCEPT !.end = l[k].start]
  OBVIOUS
<1>1. Replaced(l, i, r, x) /\ r \in Ranges /\ r.start = l[i].start /\ r.end = l[k].start /\ r.inh = l[i].inh
  BY <1>k, <1>t, <1>r, UptoFacts
<1>z. r.start = m.start /\ r.end = q.start
  BY <1>1, <1>u
<1>2. x \in Seq(Ranges) /\ Len(x) = Len(l) /\ x[i] = r /\ \A j \in 1..Len(l) : j # i => x[j] = l[j]
  BY <1>1 DEF Replaced
<1>3. ASSUME NEW v \in Int  PROVE (On(l, v) <=> On(x, v)) /\ (Inh(l, v) <=> Inh(x, v))
  <2>0. (Covers(m, v) => Covers(r, v) \/ Covers(q, v)) /\ (Covers(r, v) => Covers(m, v))
    BY <1>w, <1>z DEF Covers
  <2>1. Covers(l[i], v) => Covers(r, v) \/ Covers(l[k], v)
    BY <1>u, <2>0
  <2>2. Covers(r, v) => Covers(l[i], v)
    BY <1>u, <2>0
  <2>3. ~r.inh
    BY <1>1
  <2>. QED  BY <1>k, <1>1, <2>1, <2>2, <2>3, ReplacedKeeps
<1>4. SameRevs(l, x)
  BY <1>3 DEF SameRevs
<1>5. ASSUME NEW v \in Int, NEW j \in (i + 1)..(k - 1)
      PROVE  (Covers(x[j], v) => Covers(x[i], v)) /\ (Covers(x[j], v) /\ x[j].inh => x[i].inh)
  <2>0. j \in 1..Len(l) /\ j # i
    BY <1>k
  <2>1. x[j] = l[j]
    BY <1>2, <2>0
  <2>2. l[i].start <= l[j].start /\ (l[j].inh => l[i].inh) /\ l[j].end <= l[k].start
    BY Absorbed
  <2>3. PICK p : p = l[j]
    OBVIOUS
  <2>5. p.start \in Int /\ p.end \in Int /\ m.start <= p.start /\ p.end <= q.start
    BY <1>u, <2>0, <2>2, <2>3, Elements
  <2>6. Covers(p, v) => Covers(r, v)
    BY <1>w, <1>z, <2>5 DEF Covers
  <2>4. Covers(l[j], v) => Covers(r, v)
    BY <2>3, <2>6
  <2>. QED  BY <1>1, <1>2, <2>1, <2>2, <2>4
<1>6. ValidFrom(x, k) /\ CalmFrom(x, k, rest)
  BY <1>k, <1>1, ReplacedSettles
<1>7. k - 1 \in i..Len(l) /\ (k - 1) + 1 = k
  BY <1>k
<1>. QED  BY <1>2, <1>4, <1>5, <1>6, <1>7 DEF Fit

\* The next range, which children do not inherit, begins where the activation ends.
LEMMA FitsTrimmed ==
  ASSUME NEW l \in Seq(Ranges), NEW i, NEW e, NEW rest \in Seq(Ranges), Grows(l, i, e, rest), NEW k, k = FirstKept(l, i),
         k <= Len(l), l[k].start < l[i].end, l[i].end < l[k].end, ~l[k].inh, 
         NEW r \in Ranges, r.start = l[i].end, r.end = l[k].end, r.inh = l[k].inh, NEW x, Replaced(l, k, r, x)
  PROVE  Fit(l, i, k - 1, x, 1, rest)
<1>k. /\ i \in 1..Len(l) /\ k \in Nat /\ i < k
      /\ k \in 1..Len(l) /\ k # i /\ l[i].start <= l[k].start /\ l[k].start < l[k].end
      /\ ValidFrom(l, k) /\ CalmFrom(l, k, rest)
  BY NextKept
<1>t. l[i].start \in 0..N /\ l[i].end \in 0..N /\ l[k].start \in 0..N /\ l[k].end \in 0..N /\ l[k].inh \in BOOLEAN /\ l[k] \in Ranges
  BY <1>k, Elements
<1>u. PICK m, q : m = l[i] /\ q = l[k]
  OBVIOUS
<1>w. /\ m.start \in 0..N /\ m.end \in 0..N /\ q.start \in 0..N /\ q.end \in 0..N /\ m \in Ranges /\ q \in Ranges
      /\ m.start <= q.start /\ q.start < q.end /\ q.start < m.end /\ m.end < q.end
  BY <1>k, <1>u, Elements
<1>0. r.start = m.end /\ r.end = q.end
  BY <1>u
<1>2. x \in Seq(Ranges) /\ Len(x) = Len(l) /\ x[k] = r /\ \A j \in 1..Len(l) : j # k => x[j] = l[j]
  BY DEF Replaced
<1>3. ASSUME NEW v \in Int  PROVE (On(l, v) <=> On(x, v)) /\ (Inh(l, v) <=> Inh(x, v))
  <2>0. (Covers(q, v) => Covers(r, v) \/ Covers(m, v)) /\ (Covers(r, v) => Covers(q, v))
    BY <1>w, <1>0 DEF Covers
  <2>1. Covers(l[k], v) => Covers(r, v) \/ Covers(l[i], v)
    BY <1>u, <2>0
  <2>2. Covers(r, v) => Covers(l[k], v)
    BY <1>u, <2>0
  <2>. QED  BY <1>k, <2>1, <2>2, ReplacedKeeps
<1>4. SameRevs(l, x)
  BY <1>3 DEF SameRevs
<1>5. ASSUME NEW v \in Int, NEW j \in (i + 1)..(k - 1)
      PROVE  (Covers(x[j], v) => Covers(x[i], v)) /\ (Covers(x[j], v) /\ x[j].inh => x[i].inh)
  <2>0. j \in 1..Len(l) /\ j # k
    BY <1>k
  <2>1. x[j] = l[j] /\ x[i] = l[i]
    BY <1>k, <1>2, <2>0
  <2>2. (l[j].inh => l[i].inh) /\ (Covers(l[j], v) => Covers(l[i], v))
    BY Absorbed
  <2>. QED  BY <2>1, <2>2
<1>6. ValidFrom(x, k) /\ CalmFrom(x, k, rest)
  <2>1. r.start < r.end /\ r.end = l[k].end /\ (l[k].inh => r.inh)
    BY <1>k, <1>u, <1>w, <1>0
  <2>. QED  BY <1>k, <2>1, ReplacedSettles
<1>7. k - 1 \in i..Len(l) /\ (k - 1) + 1 = k
  BY <1>k
<1>. QED  BY <1>2, <1>4, <1>5, <1>6, <1>7 DEF Fit

\* The list y is l from its p-th range on, moved by d.
Shifted(l, y, p, d) == Len(y) = Len(l) + d /\ \A j \in p..Len(l) : y[j + d] = l[j]

\* What is in order stays so when it is moved.
LEMMA ShiftedSettles ==
  ASSUME NEW l, Len(l) \in Nat, NEW y, NEW p \in Nat, NEW d \in Nat, Shifted(l, y, p, d), NEW rest
  PROVE  /\ ValidFrom(l, p) => ValidFrom(y, p + d)
         /\ CalmFrom(l, p, rest) => CalmFrom(y, p + d, rest)
<1>n. PICK n \in Nat : n = Len(l)
  OBVIOUS
<1>1. Len(y) = n + d /\ \A j \in p..n : y[j + d] = l[j]
  BY <1>n DEF Shifted
<1>2. ASSUME ValidFrom(l, p), NEW h \in (p + d)..(n + d)
      PROVE  y[h].start < y[h].end /\ (h < n + d => y[h].end <= y[h + 1].start)
  <2>1. PICK j \in p..n : j + d = h
    <3>1. h - d \in p..n /\ (h - d) + d = h
      BY <1>n
    <3>. QED  BY <3>1
  <2>2. y[h] = l[j] /\ l[j].start < l[j].end /\ (j < n => l[j].end <= l[j + 1].start)
    BY <1>n, <1>1, <1>2, <2>1 DEF ValidFrom
  <2>3. ASSUME h < n + d  PROVE j < n /\ y[h + 1] = l[j + 1]
    <3>1. j < n /\ j + 1 \in p..n /\ (j + 1) + d = h + 1
      BY <1>n, <2>1, <2>3
    <3>. QED  BY <1>1, <3>1
  <2>. QED  BY <2>2, <2>3
<1>3. ASSUME CalmFrom(l, p, rest), NEW x \in 1..Len(rest), NEW h \in (p + d)..(n + d - 1)  PROVE ~Stirs(rest[x], y[h], y[h + 1])
  <2>1. PICK j \in p..(n - 1) : j + d = h
    <3>1. h - d \in p..(n - 1) /\ (h - d) + d = h
      BY <1>n
    <3>. QED  BY <3>1
  <2>2. j \in p..n /\ j + 1 \in p..n /\ (j + 1) + d = h + 1
    BY <1>n, <2>1
  <2>3. y[h] = l[j] /\ y[h + 1] = l[j + 1]
    BY <1>1, <2>1, <2>2
  <2>4. ~Stirs(rest[x], l[j], l[j + 1])
    BY <1>n, <1>3 DEF CalmFrom
  <2>. QED  BY <2>3, <2>4
<1>4. ValidFrom(l, p) => ValidFrom(y, p + d)
  BY <1>1, <1>2 DEF ValidFrom
<1>5. CalmFrom(l, p, rest) => CalmFrom(y, p + d, rest)
  BY <1>1, <1>3 DEF CalmFrom
<1>. QED  BY <1>4, <1>5

\* The list y is l with its i-th range split around the next one.
Around(l, i, e, y, rest) ==
  /\ y \in Seq(Ranges) /\ SameRevs(l, y) /\ Grows(y, i + 2, e, rest) /\ Len(y) = Len(l) + 1

\* An activation that splits around the next range has absorbed none.
LEMMA NoneAbsorbed ==
  ASSUME NEW l \in Seq(Ranges), NEW i, NEW e, NEW rest \in Seq(Ranges), Grows(l, i, e, rest), NEW k, k = FirstKept(l, i),
         k <= Len(l), l[k].end < l[i].end
  PROVE  k = i + 1 /\ ~l[i].inh /\ l[k].inh
<1>k. /\ i \in 1..Len(l) /\ k \in Nat /\ i < k
      /\ k \in 1..Len(l) /\ ~Absorbs(l[i], l[k]) /\ l[k].start < l[k].end
  BY NextKept
<1>t. l[k].start \in Int /\ l[k].end \in Int /\ l[i].end \in Int /\ l[i].inh \in BOOLEAN /\ l[k].inh \in BOOLEAN
  BY <1>k, Elements
<1>1. ~l[i].inh /\ l[k].inh
  <2>1. l[i].end > l[k].start /\ l[i].end > l[k].end
    BY <1>k, <1>t
  <2>. QED  BY <1>k, <1>t, <2>1 DEF Absorbs
<1>2. ASSUME k # i + 1  PROVE FALSE
  <2>1. PICK j \in (i + 1)..(Len(l) - 1) : j + 1 = k /\ j \in (i + 1)..(k - 1)
    <3>1. k - 1 \in (i + 1)..(Len(l) - 1) /\ (k - 1) + 1 = k /\ k - 1 \in (i + 1)..(k - 1)
      BY <1>k, <1>2
    <3>. QED  BY <3>1
  <2>2. l[j].inh => l[i].inh
    BY <2>1, Absorbed
  <2>3. ~l[j].inh /\ l[j + 1].inh => e <= l[j + 1].end
    BY <1>1 DEF Grows
  <2>4. l[i].end = e
    BY DEF Grows
  <2>. QED  BY <1>1, <1>t, <2>1, <2>2, <2>3, <2>4
<1>. QED  BY <1>1, <1>2

\* The activation ends where the next range begins, and goes on with one that begins where that one ends.
LEMMA GoesAround ==
  ASSUME NEW l \in Seq(Ranges), NEW i, NEW e, NEW rest \in Seq(Ranges), Grows(l, i, e, rest), NEW k, k = FirstKept(l, i),
         k <= Len(l), l[k].end < l[i].end,
         NEW r \in Ranges, r.start = l[i].start, r.end = l[k].start, r.inh = l[i].inh, NEW u, Replaced(l, i, r, u),
         NEW p \in Ranges, p.start = l[k].end, p.end = l[i].end, ~p.inh, NEW y, Inserted(u, i + 2, p, y)
  PROVE  k = i + 1 /\ Around(l, i, e, y, rest)
<1>k. k = i + 1 /\ ~l[i].inh /\ l[k].inh
  BY NoneAbsorbed
<1>j. /\ i \in 1..Len(l) /\ k \in 1..Len(l) /\ k # i /\ l[i].start <= l[k].start /\ l[k].start < l[k].end
      /\ k < Len(l) => l[k].end <= l[k + 1].start
      /\ ValidFrom(l, k + 1) /\ CalmFrom(l, k + 1, rest)
  BY NextKept
<1>n. PICK n \in Nat : n = Len(l)
  OBVIOUS
<1>i. i \in 1..n /\ i + 1 \in 1..n /\ i + 2 \in 1..(n + 1) /\ i + 2 \in Nat /\ i \in Nat
  BY <1>n, <1>k, <1>j
<1>t. l[i].start \in 0..N /\ l[i].end \in 0..N /\ l[k].start \in 0..N /\ l[k].end \in 0..N
  BY <1>j, Elements
<1>u. PICK m, q : m = l[i] /\ q = l[k]
  OBVIOUS
<1>w. /\ m.start \in Int /\ m.end \in Int /\ q.start \in Int /\ q.end \in Int
      /\ m.start <= q.start /\ q.start < q.end /\ q.end < m.end /\ p.start = q.end /\ p.end = m.end
  BY <1>t, <1>u, <1>j
<1>1. r.start = m.start /\ r.end = q.start /\ r.inh = m.inh
  BY <1>u
<1>2. u \in Seq(Ranges) /\ Len(u) = n
  BY <1>n DEF Replaced
<1>4. y \in Seq(Ranges) /\ Len(y) = n + 1 /\ y[i + 2] = p /\ \A j \in 1..n : i + 2 <= j => y[j + 1] = u[j]
  BY <1>2 DEF Inserted
<1>5. \A j \in (i + 2)..n : y[j + 1] = l[j]
  <2>. TAKE j \in (i + 2)..n
  <2>1. j \in 1..n /\ j # i /\ i + 2 <= j
    BY <1>i
  <2>2. u[j] = l[j]
    BY <1>n, <2>1 DEF Replaced
  <2>. QED  BY <1>4, <2>1, <2>2
<1>6. ASSUME NEW v \in Int  PROVE (On(l, v) <=> On(y, v)) /\ (Inh(l, v) <=> Inh(y, v))
  <2>1. Covers(m, v) => Covers(r, v) \/ Covers(q, v) \/ Covers(p, v)
    BY <1>1, <1>u, <1>w DEF Covers
  <2>2. (Covers(r, v) => Covers(m, v)) /\ (Covers(p, v) => Covers(m, v))
    BY <1>1, <1>u, <1>w DEF Covers
  <2>3. (On(y, v) <=> On(u, v) \/ Covers(p, v)) /\ (Inh(y, v) <=> Inh(u, v) \/ (Covers(p, v) /\ p.inh))
    BY DEF Inserted
  <2>4. /\ On(u, v) <=> OnBut(l, i, v) \/ Covers(r, v)
        /\ Inh(u, v) <=> InhBut(l, i, v) \/ (Covers(r, v) /\ r.inh)
    BY DEF Replaced
  <2>5. /\ On(l, v) <=> OnBut(l, i, v) \/ Covers(m, v)
        /\ Inh(l, v) <=> InhBut(l, i, v) \/ (Covers(m, v) /\ m.inh)
    BY <1>j, <1>u, ButOne
  <2>6. Covers(q, v) => OnBut(l, i, v)
    BY <1>j, <1>u DEF OnBut
  <2>7. ~m.inh /\ ~r.inh
    BY <1>k, <1>u, <1>1
  <2>8. On(l, v) <=> On(y, v)
    BY <2>1, <2>2, <2>3, <2>4, <2>5, <2>6
  <2>9. Inh(l, v) <=> Inh(y, v)
    BY <2>3, <2>4, <2>5, <2>7
  <2>. QED  BY <2>8, <2>9
<1>7. SameRevs(l, y)
  BY <1>6 DEF SameRevs
<1>8. Shifted(l, y, i + 2, 1)
  BY <1>n, <1>4, <1>5 DEF Shifted
<1>9. ValidFrom(y, (i + 2) + 1) /\ CalmFrom(y, (i + 2) + 1, rest)
  <2>1. ValidFrom(l, i + 2) /\ CalmFrom(l, i + 2, rest)
    <3>1. k + 1 = i + 2
      BY <1>k, <1>i
    <3>. QED  BY <1>j, <3>1
  <2>2. Len(l) \in Nat /\ i + 2 \in Nat /\ 1 \in Nat
    BY <1>n, <1>i
  <2>. QED  BY <1>8, <2>1, <2>2, ShiftedSettles
<1>10. i + 2 < n + 1 => y[i + 2].start <= y[(i + 2) + 1].start
  <2>. SUFFICES ASSUME i + 2 < n + 1  PROVE y[i + 2].start <= y[(i + 2) + 1].start
    OBVIOUS
  <2>1. i + 2 \in (i + 2)..n /\ k < n /\ k + 1 = i + 2
    BY <1>n, <1>i, <1>k
  <2>2. y[(i + 2) + 1] = l[k + 1] /\ l[k].end <= l[k + 1].start
    BY <1>n, <1>5, <1>j, <2>1
  <2>. QED  BY <1>4, <2>2
<1>11. l[i].end = e /\ \A x \in 1..Len(rest) : e <= rest[x].start
  BY DEF Grows
<1>12. ASSUME NEW h \in ((i + 2) + 1)..((n + 1) - 1), ~y[h].inh, y[h + 1].inh  PROVE e <= y[h + 1].end
  <2>1. PICK j \in (i + 1)..(n - 1) : j + 1 = h
    <3>1. h - 1 \in (i + 1)..(n - 1) /\ (h - 1) + 1 = h
      BY <1>i
    <3>. QED  BY <3>1
  <2>2. j \in (i + 2)..n /\ j + 1 \in (i + 2)..n /\ (j + 1) + 1 = h + 1
    BY <1>i, <2>1
  <2>3. y[h] = l[j] /\ y[h + 1] = l[j + 1]
    BY <1>5, <2>1, <2>2
  <2>4. ~l[i].inh => (~l[j].inh /\ l[j + 1].inh => e <= l[j + 1].end)
    BY <1>n DEF Grows
  <2>. QED  BY <1>k, <1>12, <2>3, <2>4
<1>13. p.start < p.end /\ p.end = e
  BY <1>u, <1>w, <1>11
<1>14. Grows(y, i + 2, e, rest)
  BY <1>4, <1>9, <1>10, <1>11, <1>12, <1>13, <1>i DEF Grows
<1>15. Around(l, i, e, y, rest)
  BY <1>n, <1>4, <1>7, <1>14 DEF Around
<1>. QED  BY <1>k, <1>15

\* The state s of the activations has the list l and the index i.
At(s, l, i) == s.list = l /\ s.i = i

\* Another activation is within this one.
GoesBy(t, s, i, y) == s.i = i /\ t = Left(s, i + 1, y, 2, 0, TRUE)

\* An activation that splits around the next range.
LEMMA GoesOnAt ==
  ASSUME NEW s \in AStates, NEW l \in Seq(Ranges), NEW i \in Nat, NEW e, NEW rest, NEW y, Around(l, i, e, y, rest),
         NEW t, GoesBy(t, s, i, y)
  PROVE  GoesOn(l, i, e, t, s.dels, rest)
<1>n. PICK n \in Nat : n = Len(l)
  OBVIOUS
<1>1. (i + 1) - i - 1 + 0 = 0
  OBVIOUS
<1>2. t.more = TRUE /\ t.dels = <<[from |-> i + 1, n |-> 0]>> \o s.dels /\ t.list = y /\ t.i = i + 2
  BY <1>1 DEF GoesBy, Left
<1>3. SameRevs(l, y) /\ Grows(y, i + 2, e, rest) /\ Len(y) = n + 1
  BY <1>n DEF Around
<1>4. (n + 1) - (i + 2) = n - i - 1
  OBVIOUS
<1>. QED  BY <1>n, <1>2, <1>3, <1>4 DEF GoesOn

\* An activation keeps the revisions, and is followed by another one as it was, or leaves the list in order.
LEMMA ActivationMeans ==
  ASSUME NEW s \in AStates, NEW l \in Seq(Ranges), NEW i, NEW e, NEW rest \in Seq(Ranges), Grows(l, i, e, rest), At(s, l, i),
         NEW k, k = FirstKept(l, i), NEW t, t = Activation(s, k)
  PROVE  Ends(l, t, s.dels, rest) \/ GoesOn(l, i, e, t, s.dels, rest)
<1>k. /\ i \in 1..Len(l) /\ k \in Nat /\ i < k /\ k <= Len(l) + 1
      /\ k <= Len(l) => /\ k \in 1..Len(l) /\ ~Absorbs(l[i], l[k]) /\ l[i].start <= l[k].start /\ l[k].start < l[k].end
  BY NextKept
<1>e. l[i].end = e
  BY DEF Grows
<1>n. PICK n \in Nat : n = Len(l) /\ i \in 1..n /\ k \in (i + 1)..(n + 1)
  BY <1>k
<1>s. s.list = l /\ s.i = i
  BY DEF At
<1>m. PICK m, q : m = l[i] /\ q = l[k]
  OBVIOUS
<1>o. Outcomes(s, k, l, i, m, q)
  BY <1>k, <1>s, <1>m, ActivationIs
<1>f. ASSUME NEW x, NEW d \in {0, 1}, NEW g \in {0, 1}, NEW h, h = k - 1 + g, Fit(l, i, h, x, d, rest), t = Left(s, k, x, d, g, FALSE)
      PROVE  Ends(l, t, s.dels, rest)
  <2>1. LeftBy(t, s, i, k, x, d, g)
    BY <1>s, <1>f DEF LeftBy
  <2>. QED  BY <1>k, <1>f, <2>1, EndsAt
<1>g. k - 1 + 0 = k - 1 /\ k - 1 + 1 = k /\ k - 1 + 0 \in {k - 1, k} /\ k - 1 + 1 \in {k - 1, k} /\ (k - 1) + 1 = k /\ k - 1 <= Len(l)
  BY <1>k
<1>0. m \in Ranges /\ m.start \in Int /\ m.end \in Int /\ m.inh \in BOOLEAN /\ m.end \in 0..N /\ m.end = e
  BY <1>k, <1>e, <1>m, Elements
<1>1. CASE k > Len(l)
  <2>1. t = Left(s, k, l, 0, 0, FALSE)
    BY <1>o, <1>1 DEF Outcomes
  <2>2. ~(k - 1 < Len(l)) /\ k - 1 # k
    BY <1>n, <1>1
  <2>3. Fit(l, i, k - 1, l, 0, rest)
    BY <1>g, <2>2, FitsAsIs
  <2>. QED  BY <1>f, <1>g, <2>1, <2>3
<1>2. CASE k <= Len(l)
  <2>0. /\ q \in Ranges /\ q.start \in Int /\ q.end \in Int /\ q.inh \in BOOLEAN /\ q.start \in 0..N /\ q.end \in 0..N
        /\ m.start <= q.start /\ q.start < q.end /\ ~Absorbs(m, q)
    BY <1>k, <1>m, <1>2, Elements
  <2>o. /\ m.end < q.start => t = Left(s, k, l, 0, 0, FALSE)
        /\ m.end = q.start /\ m.inh = q.inh => t = Left(s, k, Upto(l, i, q.end), 0, 1, FALSE)
        /\ m.end = q.start /\ m.inh # q.inh => t = Left(s, k, l, 1, 0, FALSE)
        /\ m.end > q.start /\ m.end > q.end =>
             t = Left(s, k, InsertAt(Upto(l, i, q.start), i + 2, Span(q.end, m.end, FALSE)), 2, 0, TRUE)
        /\ m.end > q.start /\ m.end = q.end /\ (m.inh \/ ~q.inh) => t = Left(s, k, l, 0, 1, FALSE)
        /\ m.end > q.start /\ m.end <= q.end /\ ~m.inh /\ q.inh =>
             t = Left(s, k, Upto(l, i, q.start), 1, 0, FALSE)
        /\ m.end > q.start /\ m.end < q.end /\ m.inh = q.inh =>
             t = Left(s, k, Upto(l, i, q.end), 0, 1, FALSE)
        /\ m.end > q.start /\ m.end < q.end /\ m.inh /\ ~q.inh =>
             t = Left(s, k, SetAt(l, k, [q EXCEPT !.start = m.end]), 1, 0, FALSE)
    BY <1>o, <1>2 DEF Outcomes
  <2>1. CASE m.end < q.start
    <3>1. t = Left(s, k, l, 0, 0, FALSE)
      BY <2>o, <2>1
    <3>a. k - 1 # k /\ (k - 1) + 1 = k
      BY <1>k
    <3>b. m.end <= q.start
      BY <1>0, <2>0, <2>1
    <3>2. k - 1 # k /\ l[i].end <= l[(k - 1) + 1].start
      BY <1>m, <3>a, <3>b
    <3>3. Fit(l, i, k - 1, l, 0, rest)
      BY <1>g, <3>2, FitsAsIs
    <3>. QED  BY <1>f, <1>g, <3>1, <3>3
  <2>2. CASE q.start <= m.end /\ m.end < q.end /\ m.inh = q.inh
    <3>1. PICK x : x = Upto(l, i, l[k].end)
      OBVIOUS
    <3>2. t = Left(s, k, x, 0, 1, FALSE)
      <4>1. m.end = q.start \/ m.end > q.start
        BY <1>0, <2>0, <2>2
      <4>. QED  BY <1>m, <2>o, <2>2, <3>1, <4>1
    <3>3. Fit(l, i, k, x, 0, rest)
      BY <1>2, <1>m, <2>2, <3>1, FitsJoined
    <3>. QED  BY <1>f, <1>g, <3>2, <3>3
  <2>3. CASE m.end = q.start /\ m.inh # q.inh
    <3>1. t = Left(s, k, l, 1, 0, FALSE)
      BY <2>o, <2>3
    <3>2. k - 1 # k /\ 1 # 0 /\ 1 \in {0, 1} /\ 0 \in {0, 1}
      BY <1>k
    <3>3. Fit(l, i, k - 1, l, 1, rest)
      BY <1>g, <3>2, FitsAsIs
    <3>. QED  BY <1>f, <1>g, <3>1, <3>2, <3>3
  <2>4. CASE m.end > q.start /\ m.end = q.end /\ (m.inh \/ ~q.inh)
    <3>1. t = Left(s, k, l, 0, 1, FALSE)
      BY <2>o, <2>4
    <3>2. l[k].end <= e /\ (l[k].inh => l[i].inh)
      BY <1>m, <1>0, <2>0, <2>4
    <3>3. k < Len(l) => l[i].end <= l[k + 1].start
      <4>1. k < Len(l) => l[k].end <= l[k + 1].start
        BY <1>2, NextKept
      <4>. QED  BY <1>m, <2>4, <4>1
    <3>4. Fit(l, i, k, l, 0, rest)
      BY <1>2, <1>g, <3>2, <3>3, FitsAsIs
    <3>. QED  BY <1>f, <1>g, <3>1, <3>4
  <2>5. CASE m.end > q.start /\ m.end <= q.end /\ ~m.inh /\ q.inh
    <3>1. PICK x : x = Upto(l, i, l[k].start)
      OBVIOUS
    <3>2. t = Left(s, k, x, 1, 0, FALSE)
      BY <1>m, <2>o, <2>5, <3>1
    <3>4. l[k].start < l[i].end
      BY <1>m, <1>0, <2>0, <2>5
    <3>3. Fit(l, i, k - 1, x, 1, rest)
      BY <1>2, <1>m, <2>5, <3>1, <3>4, FitsCut
    <3>. QED  BY <1>f, <1>g, <3>2, <3>3
  <2>6. CASE m.end > q.start /\ m.end < q.end /\ m.inh /\ ~q.inh
    <3>1. PICK r, x : r = [q EXCEPT !.start = m.end] /\ x = SetAt(l, k, r)
      OBVIOUS
    <3>2. t = Left(s, k, x, 1, 0, FALSE)
      BY <2>o, <2>6, <3>1
    <3>0. r \in Ranges /\ r.start = m.end /\ r.end = q.end /\ r.inh = q.inh
      BY <1>0, <2>0, StartSet, <3>1, Zenon DEF IsRange
    <3>3. r \in Ranges /\ r.start = l[i].end /\ r.end = l[k].end /\ r.inh = l[k].inh
      BY <1>m, <3>0
    <3>4. Replaced(l, k, r, x)
      BY <1>k, <1>2, <3>1, <3>3, SetAtMeans
    <3>5. l[k].start < l[i].end /\ l[i].end < l[k].end /\ ~l[k].inh
      BY <1>m, <1>0, <2>0, <2>6
    <3>6. Fit(l, i, k - 1, x, 1, rest)
      BY <1>2, <3>3, <3>4, <3>5, FitsTrimmed
    <3>. QED  BY <1>f, <1>g, <3>2, <3>6
  <2>7. CASE m.end > q.end
    <3>1. PICK r, u, p, y : /\ r = [l[i] EXCEPT !.end = q.start] /\ u = Upto(l, i, q.start)
                            /\ p = Span(q.end, m.end, FALSE) /\ y = InsertAt(u, i + 2, p)
      OBVIOUS
    <3>2. m.end > q.start
      BY <1>0, <2>0, <2>7
    <3>3. t = Left(s, k, y, 2, 0, TRUE)
      BY <2>o, <2>7, <3>1, <3>2
    <3>4. r \in Ranges /\ r.start = l[i].start /\ r.end = l[k].start /\ r.inh = l[i].inh /\ Replaced(l, i, r, u)
      BY <1>k, <1>m, <2>0, <3>1, UptoFacts
    <3>0. p \in Ranges /\ p.start = q.end /\ p.end = m.end /\ p.inh = FALSE
      <4>1. PICK z \in 0..N, o \in 0..N, f \in BOOLEAN : z = q.end /\ o = m.end /\ f = FALSE
        BY <1>0, <2>0
      <4>2. Span(z, o, f) \in Ranges /\ Span(z, o, f).start = z /\ Span(z, o, f).end = o /\ Span(z, o, f).inh = f
        BY <4>1, SpanFacts
      <4>3. p = Span(z, o, f)
        BY <3>1, <4>1
      <4>. QED  BY <4>1, <4>2, <4>3
    <3>5. p \in Ranges /\ p.start = l[k].end /\ p.end = l[i].end /\ ~p.inh
      BY <1>m, <3>0
    <3>6. l[k].end < l[i].end
      BY <1>m, <1>0, <2>0, <2>7
    <3>7. Inserted(u, i + 2, p, y)
      <4>1. u \in Seq(Ranges) /\ Len(u) = n
        BY <1>n, <3>4 DEF Replaced
      <4>2. i + 2 \in 1..(Len(u) + 1)
        BY <1>n, <1>2, <4>1
      <4>. QED  BY <3>1, <3>5, <4>1, <4>2, InsertAtMeans
    <3>8. k = i + 1 /\ Around(l, i, e, y, rest)
      BY <1>2, <3>4, <3>5, <3>6, <3>7, GoesAround
    <3>9. GoesBy(t, s, i, y)
      BY <1>s, <3>3, <3>8 DEF GoesBy
    <3>10. i \in Nat
      BY <1>n
    <3>. QED  BY <3>8, <3>9, <3>10, GoesOnAt
  <2>8. \/ m.end < q.start
        \/ q.start <= m.end /\ m.end < q.end /\ m.inh = q.inh
        \/ m.end = q.start /\ m.inh # q.inh
        \/ m.end > q.start /\ m.end = q.end /\ (m.inh \/ ~q.inh)
        \/ m.end > q.start /\ m.end <= q.end /\ ~m.inh /\ q.inh
        \/ m.end > q.start /\ m.end < q.end /\ m.inh /\ ~q.inh
        \/ m.end > q.end
    <3>1. \/ m.end < q.start
          \/ m.end = q.start /\ q.start <= m.end /\ m.end < q.end
          \/ m.end > q.end
          \/ m.end > q.start /\ m.end = q.end /\ m.end <= q.end
          \/ m.end > q.start /\ q.start <= m.end /\ m.end < q.end /\ m.end <= q.end
      BY <1>0, <2>0
    <3>2. m.inh = TRUE \/ m.inh = FALSE
      BY <1>0
    <3>3. q.inh = TRUE \/ q.inh = FALSE
      BY <2>0
    <3>. QED  BY <3>1, <3>2, <3>3
  <2>. QED  BY <2>1, <2>2, <2>3, <2>4, <2>5, <2>6, <2>7, <2>8
<1>3. k > Len(l) \/ k <= Len(l)
  BY <1>n
<1>. QED  BY <1>1, <1>2, <1>3

\* Nothing is deleted by any of these.
NoneDeleted(ds) == \A d \in 1..Len(ds) : ds[d].n = 0

\* The activations that go on, and the last one.
Running(l, i, e, rest, k, s) ==
  /\ s.more = TRUE /\ SameRevs(l, s.list) /\ Grows(s.list, s.i, e, rest) /\ NoneDeleted(s.dels)
  /\ Len(s.list) - s.i = Len(l) - i - k
Finished(l, rest, s) ==
  \E x, ds : ds \in Seq(Cuts) /\ SameRevs(l, x) /\ NoneDeleted(ds) /\ Ends(x, s, ds, rest)

\* The elements of a sequence with another one in front of it.
LEMMA FrontFacts ==
  ASSUME NEW c \in Cuts, NEW ds \in Seq(Cuts), NEW es, es = <<c>> \o ds
  PROVE  es \in Seq(Cuts) /\ Len(es) = Len(ds) + 1 /\ es[1] = c /\ \A d \in 1..Len(ds) : es[d + 1] = ds[d]
<1>1. <<c>> \in Seq(Cuts) /\ Len(<<c>>) = 1 /\ <<c>>[1] = c
  OBVIOUS
<1>2. PICK o \in Seq(Cuts) : o = <<c>>
  BY <1>1
<1>3. /\ o \o ds \in Seq(Cuts) /\ Len(o \o ds) = Len(o) + Len(ds)
      /\ \A i \in 1..Len(o) + Len(ds) : (o \o ds)[i] = IF i <= Len(o) THEN o[i] ELSE ds[i - Len(o)]
  BY ConcatProperties
<1>4. Len(o) = 1 /\ o[1] = c /\ Len(ds) \in Nat
  BY <1>1, <1>2
<1>5. es \in Seq(Cuts) /\ Len(es) = Len(ds) + 1
  BY <1>2, <1>3, <1>4
<1>6. es[1] = c
  <2>1. 1 \in 1..Len(o) + Len(ds) /\ 1 <= Len(o)
    BY <1>4
  <2>. QED  BY <1>2, <1>3, <1>4, <2>1
<1>7. ASSUME NEW d \in 1..Len(ds)  PROVE es[d + 1] = ds[d]
  <2>1. d + 1 \in 1..Len(o) + Len(ds) /\ ~(d + 1 <= Len(o)) /\ (d + 1) - Len(o) = d
    BY <1>4
  <2>. QED  BY <1>2, <1>3, <2>1
<1>. QED  BY <1>5, <1>6, <1>7

\* A turn of the activations.
LEMMA AdjustTurnMeans ==
  ASSUME NEW l \in Seq(Ranges), NEW i \in Nat, NEW e, NEW rest \in Seq(Ranges), NEW k \in Nat, NEW s \in AStates, NEW t, t = AdjustTurn(s)
  PROVE  /\ Finished(l, rest, s) => Finished(l, rest, t)
         /\ Running(l, i, e, rest, k, s) => Finished(l, rest, t) \/ Running(l, i, e, rest, k + 1, t)
<1>1. ASSUME Finished(l, rest, s)  PROVE Finished(l, rest, t)
  <2>1. s.more = FALSE
    BY <1>1 DEF Finished, Ends
  <2>2. t = s
    BY <2>1 DEF AdjustTurn
  <2>. QED  BY <1>1, <2>2
<1>2. ASSUME Running(l, i, e, rest, k, s)  PROVE Finished(l, rest, t) \/ Running(l, i, e, rest, k + 1, t)
  <2>1. PICK x, j, ds : x \in Seq(Ranges) /\ ds \in Seq(Cuts) /\ x = s.list /\ j = s.i /\ ds = s.dels
    BY AStateFacts
  <2>2. s.more = TRUE /\ SameRevs(l, x) /\ Grows(x, j, e, rest) /\ NoneDeleted(ds) /\ Len(x) - j = Len(l) - i - k
    BY <1>2, <2>1 DEF Running
  <2>3. PICK m \in Nat, n \in Nat : m = Len(x) /\ n = Len(l) /\ j \in 1..m /\ j <= Len(x)
    BY <2>2 DEF Grows
  <2>4. PICK h : h = FirstKept(x, j)
    OBVIOUS
  <2>5. t = Activation(s, h)
    BY <2>1, <2>2, <2>3, <2>4 DEF AdjustTurn
  <2>6. At(s, x, j)
    BY <2>1 DEF At
  <2>0. x \in Seq(Ranges)
    BY <2>1
  <2>7. Ends(x, t, s.dels, rest) \/ GoesOn(x, j, e, t, s.dels, rest)
    BY <2>0, <2>2, <2>4, <2>5, <2>6, ActivationMeans
  <2>8. CASE Ends(x, t, s.dels, rest)
    BY <2>1, <2>2, <2>8 DEF Finished
  <2>9. CASE GoesOn(x, j, e, t, s.dels, rest)
    <3>1. /\ t.more = TRUE /\ t.dels = <<[from |-> j + 1, n |-> 0]>> \o ds
          /\ SameRevs(x, t.list) /\ Grows(t.list, t.i, e, rest) /\ Len(t.list) - t.i = m - j - 1
      BY <2>1, <2>3, <2>9 DEF GoesOn
    <3>2. SameRevs(l, t.list)
      BY <2>2, <3>1 DEF SameRevs
    <3>0. j + 1 \in Nat \ {0} /\ 0 \in Nat
      BY <2>3
    <3>c. [from |-> j + 1, n |-> 0] \in Cuts
      BY <3>0 DEF Cuts
    <3>3. PICK c, es : c \in Cuts /\ c = [from |-> j + 1, n |-> 0] /\ es = <<c>> \o ds
      BY <3>c
    <3>4. c.n = 0 /\ es = t.dels
      BY <3>1, <3>3
    <3>5. Len(es) = Len(ds) + 1 /\ es[1] = c /\ \A d \in 1..Len(ds) : es[d + 1] = ds[d]
      BY <2>1, <3>3, FrontFacts
    <3>6. NoneDeleted(es)
      <4>1. ASSUME NEW d \in 1..Len(es)  PROVE es[d].n = 0
        <5>1. CASE d = 1
          BY <3>4, <3>5, <5>1
        <5>2. CASE d # 1
          <6>1. d - 1 \in 1..Len(ds) /\ (d - 1) + 1 = d
            BY <3>5, <5>2
          <6>2. es[d] = ds[d - 1]
            BY <3>5, <6>1
          <6>. QED  BY <2>2, <6>1, <6>2 DEF NoneDeleted
        <5>. QED  BY <5>1, <5>2
      <4>. QED  BY <4>1 DEF NoneDeleted
    <3>7. m - j - 1 = n - i - (k + 1)
      BY <2>2, <2>3
    <3>8. Running(l, i, e, rest, k + 1, t)
      BY <2>3, <3>1, <3>2, <3>4, <3>6, <3>7 DEF Running
    <3>. QED  BY <3>8
  <2>. QED  BY <2>7, <2>8, <2>9
<1>. QED  BY <1>1, <1>2

\* What is left when everything is deleted.
LEMMA FinishedMeans ==
  ASSUME NEW l \in Seq(Ranges), NEW rest, NEW s \in AStates, Finished(l, rest, s), NEW a, a = AllDeleted(s)
  PROVE  SameRevs(l, a.list) /\ Settled(a.list, a.i, rest)
<1>1. PICK z, ds : ds \in Seq(Cuts) /\ SameRevs(l, z) /\ NoneDeleted(ds) /\ Ends(z, s, ds, rest)
  BY DEF Finished
<1>2. PICK from, g, x :
         /\ from \in Nat \ {0} /\ g \in Nat /\ s.dels = <<[from |-> from, n |-> g]>> \o ds
         /\ x = Without(s.list, from, g) /\ SameRevs(z, x) /\ Settled(x, s.i, rest)
  BY <1>1 DEF Ends
<1>3. PICK c \in Cuts : c = [from |-> from, n |-> g]
  BY <1>2 DEF Cuts
<1>4. c.from = from /\ c.n = g
  BY <1>3
<1>5. PICK es \in Seq(Cuts) : es = s.dels /\ es = <<c>> \o ds
  BY <1>2, <1>3, AStateFacts
<1>6. PICK n \in Nat : n = Len(es) /\ n = Len(ds) + 1 /\ n >= 1
  BY <1>1, <1>5, FrontFacts
<1>7. es[1] = c /\ \A d \in 1..Len(ds) : es[d + 1] = ds[d]
  BY <1>1, <1>5, FrontFacts
<1>8. x \in Seq(Ranges)
  BY <1>2 DEF Settled
<1>9. PICK f : IsDeleted(f, s) /\ AllDeleted(s) = [s EXCEPT !.list = f[Len(s.dels)]]
  BY <1>5, <1>6, DeletedTurns
<1>10. f[0] = s.list /\ \A d \in 1..n : f[d] = Without(f[d - 1], es[d].from, es[d].n)
  BY <1>5, <1>6, <1>9 DEF IsDeleted
<1>. DEFINE B == {d \in Nat : d + 1 <= n => f[d + 1] = x}
<1>11. 0 \in B
  <2>1. 1 \in 1..n /\ 1 - 1 = 0 /\ 0 + 1 = 1
    BY <1>6
  <2>2. f[1] = Without(f[0], es[1].from, es[1].n)
    BY <1>10, <2>1
  <2>3. f[1] = x
    BY <1>2, <1>4, <1>7, <1>10, <2>2
  <2>. QED  BY <2>1, <2>3
<1>12. ASSUME NEW d \in Nat, d \in B  PROVE d + 1 \in B
  <2>. SUFFICES ASSUME (d + 1) + 1 <= n  PROVE f[(d + 1) + 1] = x
    OBVIOUS
  <2>1. f[d + 1] = x
    BY <1>12
  <2>. HIDE DEF B
  <2>2. (d + 1) + 1 \in 1..n /\ ((d + 1) + 1) - 1 = d + 1 /\ d + 1 \in 1..Len(ds)
    BY <1>6
  <2>3. f[(d + 1) + 1] = Without(f[d + 1], es[(d + 1) + 1].from, es[(d + 1) + 1].n)
    BY <1>10, <2>2
  <2>4. es[(d + 1) + 1] = ds[d + 1]
    BY <1>7, <2>2
  <2>5. ds[d + 1].n = 0
    BY <1>1, <2>2 DEF NoneDeleted
  <2>6. ds[d + 1] \in Cuts
    BY <1>1, <2>2, ElementOfSeq
  <2>7. PICK w \in Nat \ {0} : w = ds[d + 1].from
    BY <2>6 DEF Cuts
  <2>. QED  BY <1>8, <2>1, <2>3, <2>4, <2>5, <2>7, WithoutNone
<1>. HIDE DEF B
<1>13. n - 1 \in B /\ n - 1 \in Nat /\ (n - 1) + 1 = n
  <2>1. \A d \in Nat : d \in B
    BY <1>11, <1>12, SetInduction
  <2>. QED  BY <1>6, <2>1
<1>14. f[n] = x
  BY <1>13 DEF B
<1>15. a = [s EXCEPT !.list = x]
  BY <1>5, <1>6, <1>9, <1>14
<1>16. a.list = x /\ a.i = s.i
  BY <1>15 DEF AStates
<1>17. SameRevs(l, x)
  BY <1>1, <1>2 DEF SameRevs
<1>. QED  BY <1>2, <1>16, <1>17

\* adjust_remaining_ranges keeps the revisions of the list, and leaves it in order from its index on.
LEMMA AdjustMeans ==
  ASSUME NEW l \in Seq(Ranges), NEW i, NEW e, NEW rest \in Seq(Ranges), Grows(l, i, e, rest), NEW a, a = AdjustRemaining(l, i)
  PROVE  SameRevs(l, a.list) /\ Settled(a.list, a.i, rest)
<1>n. PICK n \in Nat : n = Len(l) /\ i \in 1..n /\ i \in Nat \ {0}
  BY DEF Grows
<1>1. PICK f : IsAdjust(f, l, i) /\ AdjustRemaining(l, i) = AllDeleted(f[n])
  BY <1>n, AdjustTurns
<1>. DEFINE C == {k \in Nat : k <= n => f[k] \in AStates /\ (Finished(l, rest, f[k]) \/ Running(l, i, e, rest, k, f[k]))}
<1>2. 0 \in C
  <2>1. f[0] = [list |-> l, i |-> i, dels |-> << >>, more |-> TRUE] /\ << >> \in Seq(Cuts)
    BY <1>1 DEF IsAdjust
  <2>2. f[0] \in AStates
    BY <1>n, <2>1, AStateFacts
  <2>3. f[0].list = l /\ f[0].i = i /\ f[0].dels = << >> /\ f[0].more = TRUE
    BY <2>1
  <2>4. SameRevs(l, l) /\ NoneDeleted(<< >>) /\ Len(l) - i = Len(l) - i - 0
    BY <1>n DEF SameRevs, NoneDeleted
  <2>5. Running(l, i, e, rest, 0, f[0])
    BY <2>3, <2>4 DEF Running
  <2>. QED  BY <2>2, <2>5
<1>3. ASSUME NEW k \in Nat, k \in C  PROVE k + 1 \in C
  <2>. SUFFICES ASSUME k + 1 <= n
                PROVE  f[k + 1] \in AStates /\ (Finished(l, rest, f[k + 1]) \/ Running(l, i, e, rest, k + 1, f[k + 1]))
    OBVIOUS
  <2>1. f[k] \in AStates /\ (Finished(l, rest, f[k]) \/ Running(l, i, e, rest, k, f[k]))
    BY <1>3
  <2>. HIDE DEF C
  <2>2. k + 1 \in 1..Len(l) /\ (k + 1) - 1 = k
    BY <1>n
  <2>3. f[k + 1] = AdjustTurn(f[k])
    BY <1>1, <2>2 DEF IsAdjust
  <2>4. f[k + 1] \in AStates
    BY <2>1, <2>3, AdjustTurnType
  <2>5. /\ Finished(l, rest, f[k]) => Finished(l, rest, f[k + 1])
        /\ Running(l, i, e, rest, k, f[k]) => Finished(l, rest, f[k + 1]) \/ Running(l, i, e, rest, k + 1, f[k + 1])
    BY <1>n, <2>1, <2>3, AdjustTurnMeans
  <2>. QED  BY <2>1, <2>4, <2>5
<1>. HIDE DEF C
<1>4. n \in C
  BY <1>2, <1>3, SetInduction
<1>5. PICK s \in AStates : s = f[n] /\ (Finished(l, rest, s) \/ Running(l, i, e, rest, n, s))
  BY <1>4 DEF C
<1>6. ~Running(l, i, e, rest, n, s)
  <2>. SUFFICES ASSUME Running(l, i, e, rest, n, s)  PROVE FALSE
    OBVIOUS
  <2>1. PICK x, j : x \in Seq(Ranges) /\ x = s.list /\ j = s.i
    BY AStateFacts
  <2>2. Grows(x, j, e, rest) /\ Len(x) - j = n - i - n
    BY <1>n, <2>1 DEF Running
  <2>3. j \in 1..Len(x)
    BY <2>2 DEF Grows
  <2>4. PICK m \in Nat : m = Len(x)
    OBVIOUS
  <2>. QED  BY <1>n, <2>2, <2>3, <2>4
<1>. QED  BY <1>1, <1>5, <1>6, FinishedMeans

--------------------------------------------------------------------------------
(* What svn_rangelist_merge2 makes of the revisions.                        *)

\* The lists l and k cover together what L and C do, and children inherit the same.
Together(L, C, l, k) ==
  \A v \in Int : /\ On(l, v) \/ On(k, v) <=> On(L, v) \/ On(C, v)
                 /\ Inh(l, v) \/ Inh(k, v) <=> Inh(L, v) \/ Inh(C, v)

\* The loop, merging C into L, is at the i-th range of l, with the changes cs to come.
Merging(L, C, l, i, cs) ==
  /\ l \in Seq(Ranges) /\ i \in Nat \ {0} /\ cs \in Seq(Ranges)
  /\ Valid(cs) /\ ValidFrom(l, i) /\ CalmFrom(l, i, cs) /\ Together(L, C, l, cs)

\* A range that covers nothing.
Nothing == Span(0, 0, FALSE)

\* The changes to come: those after the first, rest, and what is left of the first, g.
Remains(cs, rest, g, cs2) ==
  /\ cs2 \in Seq(Ranges) /\ Valid(cs2)
  /\ \A x \in Seq(Ranges), j \in Nat \ {0} : CalmFrom(x, j, cs) => CalmFrom(x, j, cs2)
  /\ \A v \in Int : /\ On(cs2, v) <=> On(rest, v) \/ Covers(g, v)
                    /\ Inh(cs2, v) <=> Inh(rest, v) \/ (Covers(g, v) /\ g.inh)

\* The list x is l with the ranges a and b in place of the i-th, and is in order from the j-th on.
Edited(l, i, a, b, x, j, cs2) ==
  /\ x \in Seq(Ranges) /\ j \in Nat \ {0} /\ ValidFrom(x, j) /\ CalmFrom(x, j, cs2)
  /\ \A v \in Int : /\ On(x, v) <=> OnBut(l, i, v) \/ Covers(a, v) \/ Covers(b, v)
                    /\ Inh(x, v) <=> InhBut(l, i, v) \/ (Covers(a, v) /\ a.inh) \/ (Covers(b, v) /\ b.inh)

\* The ranges a, b and g cover what r and c do.
PiecesAt(r, c, a, b, g, v) ==
  /\ Covers(r, v) \/ Covers(c, v) <=> Covers(a, v) \/ Covers(b, v) \/ Covers(g, v)
  /\ (Covers(r, v) /\ r.inh) \/ (Covers(c, v) /\ c.inh) <=>
       (Covers(a, v) /\ a.inh) \/ (Covers(b, v) /\ b.inh) \/ (Covers(g, v) /\ g.inh)
Pieces(r, c, a, b, g) == \A v \in Int : PiecesAt(r, c, a, b, g, v)

\* The first of the changes and the others.
LEMMA FirstChange ==
  ASSUME NEW cs \in Seq(Ranges), cs # << >>, NEW c, c = Head(cs), NEW rest, rest = Tail(cs), NEW v
  PROVE  /\ On(cs, v) <=> On(rest, v) \/ Covers(c, v)
         /\ Inh(cs, v) <=> Inh(rest, v) \/ (Covers(c, v) /\ c.inh)
<1>1. /\ On(cs, v) <=> Covers(Head(cs), v) \/ On(Tail(cs), v)
      /\ Has(cs, v, TRUE) <=> (Covers(Head(cs), v) /\ Head(cs).inh = TRUE) \/ Has(Tail(cs), v, TRUE)
  BY TailFacts
<1>2. c.inh \in BOOLEAN
  <2>1. 1 \in 1..Len(cs) /\ Head(cs) = cs[1]
    OBVIOUS
  <2>. QED  BY <2>1, Elements
<1>. QED  BY <1>1, <1>2 DEF Inh

\* The turn keeps the revisions.
LEMMA KeptTogether ==
  ASSUME NEW L, NEW C, NEW l, NEW i, NEW cs, Merging(L, C, l, i, cs), i <= Len(l), cs # << >>,
         NEW r, r = l[i], NEW c, c = Head(cs), NEW rest, rest = Tail(cs),
         NEW a, NEW b, NEW g, NEW x, NEW j, NEW cs2,
         Edited(l, i, a, b, x, j, cs2), Remains(cs, rest, g, cs2), Pieces(r, c, a, b, g)
  PROVE  Merging(L, C, x, j, cs2)
<1>1. l \in Seq(Ranges) /\ i \in Nat \ {0} /\ cs \in Seq(Ranges) /\ Together(L, C, l, cs)
  BY DEF Merging
<1>2. i \in 1..Len(l)
  BY <1>1
<1>3. ASSUME NEW v \in Int
      PROVE  /\ On(x, v) \/ On(cs2, v) <=> On(L, v) \/ On(C, v)
             /\ Inh(x, v) \/ Inh(cs2, v) <=> Inh(L, v) \/ Inh(C, v)
  <2>1. /\ On(l, v) \/ On(cs, v) <=> On(L, v) \/ On(C, v)
        /\ Inh(l, v) \/ Inh(cs, v) <=> Inh(L, v) \/ Inh(C, v)
    BY <1>1 DEF Together
  <2>2. /\ On(l, v) <=> OnBut(l, i, v) \/ Covers(r, v)
        /\ Inh(l, v) <=> InhBut(l, i, v) \/ (Covers(r, v) /\ r.inh)
    BY <1>1, <1>2, ButOne
  <2>3. /\ On(cs, v) <=> On(rest, v) \/ Covers(c, v)
        /\ Inh(cs, v) <=> Inh(rest, v) \/ (Covers(c, v) /\ c.inh)
    BY <1>1, FirstChange
  <2>4. /\ On(x, v) <=> OnBut(l, i, v) \/ Covers(a, v) \/ Covers(b, v)
        /\ Inh(x, v) <=> InhBut(l, i, v) \/ (Covers(a, v) /\ a.inh) \/ (Covers(b, v) /\ b.inh)
    BY DEF Edited
  <2>5. /\ On(cs2, v) <=> On(rest, v) \/ Covers(g, v)
        /\ Inh(cs2, v) <=> Inh(rest, v) \/ (Covers(g, v) /\ g.inh)
    BY DEF Remains
  <2>6. /\ Covers(r, v) \/ Covers(c, v) <=> Covers(a, v) \/ Covers(b, v) \/ Covers(g, v)
        /\ (Covers(r, v) /\ r.inh) \/ (Covers(c, v) /\ c.inh) <=>
             (Covers(a, v) /\ a.inh) \/ (Covers(b, v) /\ b.inh) \/ (Covers(g, v) /\ g.inh)
    BY DEF Pieces, PiecesAt
  <2>. QED  BY <2>1, <2>2, <2>3, <2>4, <2>5, <2>6
<1>4. Together(L, C, x, cs2)
  BY <1>3 DEF Together
<1>5. cs2 \in Seq(Ranges) /\ Valid(cs2)
  BY DEF Remains
<1>6. x \in Seq(Ranges) /\ j \in Nat \ {0} /\ ValidFrom(x, j) /\ CalmFrom(x, j, cs2)
  BY DEF Edited
<1>. QED  BY <1>4, <1>5, <1>6 DEF Merging

\* All the changes remain.
LEMMA AllRemain ==
  ASSUME NEW cs \in Seq(Ranges), cs # << >>, Valid(cs), NEW c, c = Head(cs), NEW rest, rest = Tail(cs)
  PROVE  Remains(cs, rest, c, cs)
<1>1. \A v \in Int : /\ On(cs, v) <=> On(rest, v) \/ Covers(c, v)
                     /\ Inh(cs, v) <=> Inh(rest, v) \/ (Covers(c, v) /\ c.inh)
  BY FirstChange
<1>. QED  BY <1>1 DEF Remains

\* Those after the first remain.
LEMMA RestRemains ==
  ASSUME NEW cs \in Seq(Ranges), cs # << >>, Valid(cs), NEW rest, rest = Tail(cs)
  PROVE  Remains(cs, rest, Nothing, rest)
<1>n. PICK n \in Nat : n = Len(cs) /\ n # 0
  OBVIOUS
<1>1. rest \in Seq(Ranges) /\ Len(rest) = n - 1 /\ \A y \in 1..(n - 1) : rest[y] = cs[y + 1]
  BY <1>n, HeadTailProperties
<1>2. ASSUME NEW y \in 1..(n - 1)  PROVE rest[y].start < rest[y].end /\ (y < n - 1 => rest[y].end <= rest[y + 1].start)
  <2>1. y + 1 \in 1..n /\ (y < n - 1 => y + 1 < n /\ y + 1 \in 1..(n - 1))
    BY <1>n
  <2>2. cs[y + 1].start < cs[y + 1].end /\ (y + 1 < n => cs[y + 1].end <= cs[(y + 1) + 1].start)
    BY <1>n, <2>1 DEF Valid
  <2>. QED  BY <1>1, <2>1, <2>2
<1>3. Valid(rest)
  BY <1>1, <1>2 DEF Valid
<1>4. ASSUME NEW x \in Seq(Ranges), NEW j \in Nat \ {0}, CalmFrom(x, j, cs)  PROVE CalmFrom(x, j, rest)
  <2>1. ASSUME NEW y \in 1..(n - 1), NEW k \in j..(Len(x) - 1)  PROVE ~Stirs(rest[y], x[k], x[k + 1])
    <3>1. y + 1 \in 1..Len(cs)
      BY <1>n
    <3>2. ~Stirs(cs[y + 1], x[k], x[k + 1])
      BY <1>4, <3>1 DEF CalmFrom
    <3>. QED  BY <1>1, <3>2
  <2>. QED  BY <1>1, <2>1 DEF CalmFrom
<1>5. Nothing.start = 0 /\ Nothing.end = 0
  BY DEF Nothing, Span
<1>6. \A v \in Int : ~Covers(Nothing, v)
  BY <1>5 DEF Covers
<1>. QED  BY <1>1, <1>3, <1>4, <1>6 DEF Remains

\* Of the first of the changes, c, what follows the revision e remains.
CutLeaves(cs, rest, c, e, cs2) ==
  \E g \in Ranges : g.start = e /\ g.end = c.end /\ g.inh = c.inh /\ Remains(cs, rest, g, cs2)

\* The first is cut.
LEMMA CutRemains ==
  ASSUME NEW cs \in Seq(Ranges), cs # << >>, Valid(cs), NEW c, c = Head(cs), NEW rest, rest = Tail(cs),
         NEW e \in 0..N, c.start <= e, e < c.end, NEW cs2, cs2 = CutFirst(cs, c, e)
  PROVE  CutLeaves(cs, rest, c, e, cs2)
<1>n. PICK n \in Nat : n = Len(cs) /\ n # 0
  OBVIOUS
<1>c. 1 \in 1..Len(cs) /\ c = cs[1]
  OBVIOUS
<1>0. c \in Ranges /\ c.start \in Int /\ c.end \in Int /\ c.inh \in BOOLEAN
  BY <1>c, Elements
<1>1. PICK g : g = [c EXCEPT !.start = e]
  OBVIOUS
<1>2. g \in Ranges /\ g.start = e /\ g.end = c.end /\ g.inh = c.inh
  BY <1>0, StartSet, <1>1, Zenon DEF IsRange
<1>3. cs2 = SetAt(cs, 1, g)
  BY <1>1 DEF CutFirst
<1>4. Replaced(cs, 1, g, cs2)
  BY <1>c, <1>2, <1>3, SetAtMeans
<1>5. cs2 \in Seq(Ranges) /\ Len(cs2) = n /\ cs2[1] = g /\ \A y \in 1..n : y # 1 => cs2[y] = cs[y]
  BY <1>n, <1>4 DEF Replaced
<1>6. ASSUME NEW y \in 1..n  PROVE cs2[y].start < cs2[y].end /\ (y < n => cs2[y].end <= cs2[y + 1].start)
  <2>1. cs[y].start < cs[y].end /\ (y < n => cs[y].end <= cs[y + 1].start)
    BY <1>n DEF Valid
  <2>2. y < n => y + 1 \in 1..n /\ y + 1 # 1
    OBVIOUS
  <2>3. CASE y = 1
    BY <1>c, <1>2, <1>5, <2>1, <2>2, <2>3
  <2>4. CASE y # 1
    BY <1>5, <2>1, <2>2, <2>4
  <2>. QED  BY <2>3, <2>4
<1>7. Valid(cs2)
  BY <1>5, <1>6 DEF Valid
<1>8. ASSUME NEW x \in Seq(Ranges), NEW j \in Nat \ {0}, CalmFrom(x, j, cs)  PROVE CalmFrom(x, j, cs2)
  <2>1. ASSUME NEW y \in 1..n, NEW k \in j..(Len(x) - 1)  PROVE ~Stirs(cs2[y], x[k], x[k + 1])
    <3>1. ~Stirs(cs[y], x[k], x[k + 1])
      BY <1>n, <1>8 DEF CalmFrom
    <3>2. CASE y # 1
      BY <1>5, <3>1, <3>2
    <3>3. CASE y = 1
      <4>1. ~Stirs(c, x[k], x[k + 1])
        BY <1>c, <3>1, <3>3
      <4>2. ASSUME Stirs(g, x[k], x[k + 1])  PROVE Stirs(c, x[k], x[k + 1])
        <5>0. k \in 1..Len(x)
          OBVIOUS
        <5>1. PICK d \in Int : d = x[k].end
          BY <5>0, Elements
        <5>2. e < d => c.start < d
          BY <1>0
        <5>. QED  BY <1>2, <4>2, <5>1, <5>2 DEF Stirs
      <4>. QED  BY <1>5, <3>3, <4>1, <4>2
    <3>. QED  BY <3>2, <3>3
  <2>. QED  BY <1>5, <2>1 DEF CalmFrom
<1>9. ASSUME NEW v \in Int  PROVE /\ On(cs2, v) <=> On(rest, v) \/ Covers(g, v)
                                  /\ Inh(cs2, v) <=> Inh(rest, v) \/ (Covers(g, v) /\ g.inh)
  <2>1. cs2 # << >> /\ Head(cs2) = g
    BY <1>n, <1>5
  <2>2. Tail(cs2) = rest
    <3>1. Tail(cs2) \in Seq(Ranges) /\ Len(Tail(cs2)) = n - 1 /\ \A y \in 1..(n - 1) : Tail(cs2)[y] = cs2[y + 1]
      BY <1>5, <2>1, HeadTailProperties
    <3>2. rest \in Seq(Ranges) /\ Len(rest) = n - 1 /\ \A y \in 1..(n - 1) : rest[y] = cs[y + 1]
      BY <1>n, HeadTailProperties
    <3>3. \A y \in 1..(n - 1) : y + 1 \in 1..n /\ y + 1 # 1
      BY <1>n
    <3>4. \A y \in 1..(n - 1) : Tail(cs2)[y] = rest[y]
      BY <1>5, <3>1, <3>2, <3>3
    <3>. QED  BY <3>1, <3>2, <3>4, SeqEqual
  <2>. QED  BY <1>5, <2>1, <2>2, FirstChange
<1>10. Remains(cs, rest, g, cs2)
  BY <1>5, <1>7, <1>8, <1>9 DEF Remains
<1>. QED  BY <1>2, <1>10 DEF CutLeaves

\* A range is replaced by itself.
LEMMA ReplacedByItself ==
  ASSUME NEW l \in Seq(Ranges), NEW i \in 1..Len(l)
  PROVE  Replaced(l, i, l[i], l)
<1>1. \A v : /\ On(l, v) <=> OnBut(l, i, v) \/ Covers(l[i], v)
             /\ Inh(l, v) <=> InhBut(l, i, v) \/ (Covers(l[i], v) /\ l[i].inh)
  BY ButOne
<1>. QED  BY <1>1 DEF Replaced

\* The range p can stand for the last part of r.
Ending(p, r) == p \in Ranges /\ p.start < p.end /\ p.end = r.end /\ (r.inh => p.inh)

\* The range at hand is replaced.
LEMMA EditedSet ==
  ASSUME NEW l \in Seq(Ranges), NEW i \in 1..Len(l), NEW cs2, ValidFrom(l, i), CalmFrom(l, i, cs2),
         NEW p, Ending(p, l[i]), NEW x, Replaced(l, i, p, x), NEW j \in {i, i + 1}
  PROVE  Edited(l, i, p, p, x, j, cs2)
<1>n. Len(l) \in Nat /\ i \in Nat /\ i \in Nat \ {0} /\ j \in Nat \ {0} /\ j \in Nat /\ i <= j
  OBVIOUS
<1>1. x \in Seq(Ranges) /\ Len(x) \in Nat
  BY DEF Replaced
<1>2. ValidFrom(x, i) /\ CalmFrom(x, i, cs2)
  BY <1>n, ReplacedSettles DEF Ending
<1>3. ValidFrom(x, j) /\ CalmFrom(x, j, cs2)
  BY <1>n, <1>1, <1>2, FromLater
<1>4. \A v \in Int : /\ On(x, v) <=> OnBut(l, i, v) \/ Covers(p, v)
                     /\ Inh(x, v) <=> InhBut(l, i, v) \/ (Covers(p, v) /\ p.inh)
  BY DEF Replaced
<1>. QED  BY <1>n, <1>1, <1>3, <1>4 DEF Edited

\* A range is put before the one at hand, which is replaced.
LEMMA EditedPut ==
  ASSUME NEW l \in Seq(Ranges), NEW i \in 1..Len(l), NEW cs2, ValidFrom(l, i), CalmFrom(l, i, cs2),
         NEW p, Ending(p, l[i]), NEW y, Replaced(l, i, p, y), NEW q \in Ranges, NEW x, x = InsertAt(y, i, q)
  PROVE  Edited(l, i, p, q, x, i + 1, cs2)
<1>n. PICK n \in Nat : n = Len(l) /\ i \in 1..n /\ i \in Nat /\ i + 1 \in Nat \ {0}
  OBVIOUS
<1>1. y \in Seq(Ranges) /\ Len(y) = n
  BY <1>n DEF Replaced
<1>2. ValidFrom(y, i) /\ CalmFrom(y, i, cs2)
  BY <1>n, ReplacedSettles DEF Ending
<1>3. Inserted(y, i, q, x)
  <2>1. i \in 1..(Len(y) + 1)
    BY <1>n, <1>1
  <2>. QED  BY <1>1, <2>1, InsertAtMeans
<1>4. x \in Seq(Ranges) /\ Len(x) = n + 1 /\ \A j \in 1..n : i <= j => x[j + 1] = y[j]
  BY <1>1, <1>3 DEF Inserted
<1>5. Shifted(y, x, i, 1)
  <2>1. \A j \in i..n : j \in 1..n /\ i <= j
    BY <1>n
  <2>. QED  BY <1>1, <1>4, <2>1 DEF Shifted
<1>6. ValidFrom(x, i + 1) /\ CalmFrom(x, i + 1, cs2)
  <2>1. Len(y) \in Nat /\ 1 \in Nat
    BY <1>1
  <2>. QED  BY <1>n, <1>2, <1>5, <2>1, ShiftedSettles
<1>7. \A v \in Int : /\ On(x, v) <=> OnBut(l, i, v) \/ Covers(p, v) \/ Covers(q, v)
                     /\ Inh(x, v) <=> InhBut(l, i, v) \/ (Covers(p, v) /\ p.inh) \/ (Covers(q, v) /\ q.inh)
  <2>1. \A v \in Int : /\ On(y, v) <=> OnBut(l, i, v) \/ Covers(p, v)
                       /\ Inh(y, v) <=> InhBut(l, i, v) \/ (Covers(p, v) /\ p.inh)
    BY DEF Replaced
  <2>2. \A v \in Int : /\ On(x, v) <=> On(y, v) \/ Covers(q, v)
                       /\ Inh(x, v) <=> Inh(y, v) \/ (Covers(q, v) /\ q.inh)
    BY <1>3 DEF Inserted
  <2>. QED  BY <2>1, <2>2
<1>. QED  BY <1>n, <1>4, <1>6, <1>7 DEF Edited

\* The one at hand is replaced, and a range is put after it.
LEMMA EditedAfter ==
  ASSUME NEW l \in Seq(Ranges), NEW i \in 1..Len(l), NEW cs2, ValidFrom(l, i), CalmFrom(l, i, cs2),
         NEW q, NEW y, Replaced(l, i, q, y), NEW p \in Ranges, Ending(p, l[i]), NEW x, x = InsertAt(y, i + 1, p)
  PROVE  Edited(l, i, p, q, x, i + 1, cs2)
<1>n. PICK n \in Nat : n = Len(l) /\ i \in 1..n /\ i \in Nat /\ i + 1 \in Nat \ {0}
  OBVIOUS
<1>1. y \in Seq(Ranges) /\ Len(y) = n /\ \A j \in 1..n : j # i => y[j] = l[j]
  BY <1>n DEF Replaced
<1>w. PICK w : w = SetAt(l, i, p)
  OBVIOUS
<1>0. Replaced(l, i, p, w)
  BY <1>w, SetAtMeans
<1>8. Len(w) = n /\ w[i] = p /\ \A j \in 1..n : j # i => w[j] = l[j]
  BY <1>n, <1>0 DEF Replaced
<1>2. ValidFrom(w, i) /\ CalmFrom(w, i, cs2)
  BY <1>n, <1>0, ReplacedSettles DEF Ending
<1>3. Inserted(y, i + 1, p, x)
  <2>1. i + 1 \in 1..(Len(y) + 1)
    BY <1>n, <1>1
  <2>. QED  BY <1>1, <2>1, InsertAtMeans
<1>4. x \in Seq(Ranges) /\ Len(x) = n + 1 /\ x[i + 1] = p /\ \A j \in 1..n : i + 1 <= j => x[j + 1] = y[j]
  BY <1>1, <1>3 DEF Inserted
<1>5. Shifted(w, x, i, 1)
  <2>1. ASSUME NEW j \in i..n  PROVE x[j + 1] = w[j]
    <3>1. CASE j = i
      BY <1>4, <1>8, <3>1
    <3>2. CASE j # i
      <4>1. j \in 1..n /\ i + 1 <= j
        BY <1>n, <3>2
      <4>. QED  BY <1>1, <1>4, <1>8, <3>2, <4>1
    <3>. QED  BY <3>1, <3>2
  <2>. QED  BY <1>4, <1>8, <2>1 DEF Shifted
<1>6. ValidFrom(x, i + 1) /\ CalmFrom(x, i + 1, cs2)
  <2>1. Len(w) \in Nat /\ 1 \in Nat
    BY <1>8
  <2>. QED  BY <1>n, <1>2, <1>5, <2>1, ShiftedSettles
<1>7. \A v \in Int : /\ On(x, v) <=> OnBut(l, i, v) \/ Covers(p, v) \/ Covers(q, v)
                     /\ Inh(x, v) <=> InhBut(l, i, v) \/ (Covers(p, v) /\ p.inh) \/ (Covers(q, v) /\ q.inh)
  <2>1. \A v \in Int : /\ On(y, v) <=> OnBut(l, i, v) \/ Covers(q, v)
                       /\ Inh(y, v) <=> InhBut(l, i, v) \/ (Covers(q, v) /\ q.inh)
    BY DEF Replaced
  <2>2. \A v \in Int : /\ On(x, v) <=> On(y, v) \/ Covers(p, v)
                       /\ Inh(x, v) <=> Inh(y, v) \/ (Covers(p, v) /\ p.inh)
    BY <1>3 DEF Inserted
  <2>. QED  BY <2>1, <2>2
<1>. QED  BY <1>n, <1>4, <1>6, <1>7 DEF Edited

\* A range is put before the one at hand, and is then the one at hand.
LEMMA EditedBeside ==
  ASSUME NEW l \in Seq(Ranges), NEW i \in 1..Len(l), NEW rest \in Seq(Ranges), ValidFrom(l, i), CalmFrom(l, i, rest),
         NEW c \in Ranges, c.start < c.end, c.end <= l[i].start, \A y \in 1..Len(rest) : c.end <= rest[y].start,
         NEW x, x = InsertAt(l, i, c)
  PROVE  Edited(l, i, l[i], c, x, i, rest)
<1>n. PICK n \in Nat : n = Len(l) /\ i \in 1..n /\ i \in Nat \ {0}
  OBVIOUS
<1>1. Inserted(l, i, c, x)
  <2>1. i \in 1..(Len(l) + 1)
    OBVIOUS
  <2>. QED  BY <2>1, InsertAtMeans
<1>2. x \in Seq(Ranges) /\ Len(x) = n + 1 /\ x[i] = c /\ \A j \in 1..n : i <= j => x[j + 1] = l[j]
  BY <1>n, <1>1 DEF Inserted
<1>3. Shifted(l, x, i, 1) /\ x[i + 1] = l[i]
  <2>1. \A j \in i..n : j \in 1..n /\ i <= j
    BY <1>n
  <2>. QED  BY <1>n, <1>2, <2>1 DEF Shifted
<1>4. ValidFrom(x, i + 1) /\ CalmFrom(x, i + 1, rest)
  <2>1. Len(l) \in Nat /\ 1 \in Nat /\ i \in Nat
    BY <1>n
  <2>. QED  BY <1>3, <2>1, ShiftedSettles
<1>5. ValidFrom(x, i)
  <2>1. ASSUME NEW j \in i..(n + 1)  PROVE x[j].start < x[j].end /\ (j < n + 1 => x[j].end <= x[j + 1].start)
    <3>1. CASE j = i
      BY <1>2, <1>3, <3>1
    <3>2. CASE j # i
      <4>1. j \in (i + 1)..(n + 1)
        BY <1>n, <3>2
      <4>. QED  BY <1>2, <1>4, <4>1 DEF ValidFrom
    <3>. QED  BY <3>1, <3>2
  <2>. QED  BY <1>2, <2>1 DEF ValidFrom
<1>6. CalmFrom(x, i, rest)
  <2>1. ASSUME NEW y \in 1..Len(rest), NEW j \in i..((n + 1) - 1)  PROVE ~Stirs(rest[y], x[j], x[j + 1])
    <3>1. CASE j = i
      <4>1. rest[y] \in Ranges /\ c.end <= rest[y].start
        BY Elements
      <4>2. ~Stirs(rest[y], c, x[j + 1])
        BY <4>1, NotStirred
      <4>. QED  BY <1>2, <3>1, <4>2
    <3>2. CASE j # i
      <4>1. j \in (i + 1)..((n + 1) - 1)
        BY <1>n, <3>2
      <4>. QED  BY <1>2, <1>4, <4>1 DEF CalmFrom
    <3>. QED  BY <3>1, <3>2
  <2>. QED  BY <1>2, <2>1 DEF CalmFrom
<1>7. \A v \in Int : /\ On(x, v) <=> OnBut(l, i, v) \/ Covers(l[i], v) \/ Covers(c, v)
                     /\ Inh(x, v) <=> InhBut(l, i, v) \/ (Covers(l[i], v) /\ l[i].inh) \/ (Covers(c, v) /\ c.inh)
  <2>1. \A v \in Int : /\ On(l, v) <=> OnBut(l, i, v) \/ Covers(l[i], v)
                       /\ Inh(l, v) <=> InhBut(l, i, v) \/ (Covers(l[i], v) /\ l[i].inh)
    BY ButOne
  <2>2. \A v \in Int : /\ On(x, v) <=> On(l, v) \/ Covers(c, v)
                       /\ Inh(x, v) <=> Inh(l, v) \/ (Covers(c, v) /\ c.inh)
    BY <1>1 DEF Inserted
  <2>. QED  BY <2>1, <2>2
<1>. QED  BY <1>n, <1>2, <1>5, <1>6, <1>7 DEF Edited

\* The range at hand has grown to the end of the change.
LEMMA GrownGrows ==
  ASSUME NEW l \in Seq(Ranges), NEW i \in 1..Len(l), NEW cs \in Seq(Ranges), cs # << >>, Valid(cs), ValidFrom(l, i), CalmFrom(l, i, cs),
         NEW c, c = Head(cs), NEW rest, rest = Tail(cs), NEW p \in Ranges, p.start < p.end, p.start <= l[i].start, p.end = c.end, p.inh = c.inh,
         c.start <= l[i].end, NEW x, Replaced(l, i, p, x)
  PROVE  Grows(x, i, c.end, rest)
<1>n. PICK n \in Nat : n = Len(l) /\ i \in 1..n /\ i \in Nat
  OBVIOUS
<1>c. 1 \in 1..Len(cs) /\ c = cs[1]
  OBVIOUS
<1>1. x \in Seq(Ranges) /\ Len(x) = n /\ x[i] = p /\ \A j \in 1..n : j # i => x[j] = l[j]
  BY <1>n DEF Replaced
<1>2. ValidFrom(l, i + 1) /\ CalmFrom(l, i + 1, cs)
  <2>1. Len(l) \in Nat /\ i \in Nat /\ i + 1 \in Nat /\ i <= i + 1
    BY <1>n
  <2>. QED  BY <2>1, FromLater
<1>3. Remains(cs, rest, Nothing, rest)
  BY RestRemains
<1>r. rest \in Seq(Ranges) /\ CalmFrom(l, i + 1, rest)
  <2>1. i + 1 \in Nat \ {0}
    BY <1>n
  <2>. QED  BY <1>2, <1>3, <2>1 DEF Remains
<1>4. ValidFrom(x, i + 1) /\ CalmFrom(x, i + 1, rest)
  <2>1. i + 1 \in Nat /\ i < i + 1
    BY <1>n
  <2>. QED  BY <1>2, <1>r, <2>1, ReplacedSettles
<1>t. /\ l[i].start \in Int /\ l[i].end \in Int /\ p.start \in Int /\ p.end \in Int /\ c.start \in Int /\ c.end \in Int
  BY <1>c, Elements, RangeFacts
<1>v. l[i].start < l[i].end /\ (i < n => l[i].end <= l[i + 1].start)
  BY <1>n DEF ValidFrom
<1>5. i < n => x[i].start <= x[i + 1].start
  <2>. SUFFICES ASSUME i < n  PROVE x[i].start <= x[i + 1].start
    OBVIOUS
  <2>1. i + 1 \in 1..n /\ i + 1 # i
    BY <1>n
  <2>2. x[i + 1] = l[i + 1] /\ l[i + 1].start \in Int
    BY <1>n, <1>1, <2>1, Elements
  <2>3. p.start <= l[i + 1].start
    <3>1. PICK d \in Int, u \in Int, y \in Int, z \in Int : d = p.start /\ u = l[i].start /\ y = l[i].end /\ z = l[i + 1].start
      BY <1>t, <2>2
    <3>2. d <= u /\ u < y /\ y <= z
      BY <1>v, <3>1
    <3>3. d <= z
      BY <3>2
    <3>. QED  BY <3>1, <3>3
  <2>. QED  BY <1>1, <2>2, <2>3
<1>6. \A y \in 1..Len(rest) : c.end <= rest[y].start
  <2>. TAKE y \in 1..Len(rest)
  <2>1. Len(rest) = Len(cs) - 1 /\ \A z \in 1..(Len(cs) - 1) : rest[z] = cs[z + 1]
    BY TailFacts
  <2>2. rest[y] = cs[y + 1] /\ y + 1 \in 1..Len(cs) /\ 1 < y + 1
    BY <2>1
  <2>3. cs[1].end <= cs[y + 1].start
    BY <1>c, <2>2, ValidOrder
  <2>. QED  BY <1>c, <2>2, <2>3
<1>7. ASSUME ~p.inh, NEW k \in (i + 1)..(n - 1), ~x[k].inh, x[k + 1].inh  PROVE c.end <= x[k + 1].end
  <2>1. k \in 1..n /\ k # i /\ k + 1 \in 1..n /\ k + 1 # i /\ k \in i..(n - 1) /\ k \in (i + 1)..n /\ i \in i..n /\ k \in i..n /\ i < k
    BY <1>n
  <2>2. x[k] = l[k] /\ x[k + 1] = l[k + 1]
    BY <1>1, <2>1
  <2>3. ~Stirs(c, l[k], l[k + 1])
    BY <1>n, <1>c, <2>1 DEF CalmFrom
  <2>4. l[i].end <= l[k].start
    <3>1. i \in Nat \ {0} /\ i \in i..Len(l) /\ k \in i..Len(l) /\ i < k
      BY <1>n, <2>1
    <3>. QED  BY <3>1, FromOrder
  <2>8. l[k].start < l[k].end
    BY <1>n, <2>1 DEF ValidFrom
  <2>5. l[k].start \in Int /\ l[k].end \in Int /\ l[k + 1].end \in Int
    BY <1>n, <2>1, Elements
  <2>6. c.start < l[k].end
    <3>1. PICK m, q : m = l[i] /\ q = l[k]
      OBVIOUS
    <3>2. PICK u \in Int, y \in Int, z \in Int, o \in Int : u = c.start /\ y = m.end /\ z = q.start /\ o = q.end
      BY <1>t, <2>5, <3>1
    <3>3. u <= y /\ y <= z /\ z < o
      BY <2>4, <2>8, <3>1, <3>2
    <3>4. u < o
      BY <3>3
    <3>. QED  BY <3>1, <3>2, <3>4
  <2>7. ~(l[k + 1].end < c.end)
    BY <1>7, <2>2, <2>3, <2>6 DEF Stirs
  <2>. QED  BY <1>t, <2>2, <2>5, <2>7
<1>. QED  BY <1>n, <1>1, <1>4, <1>5, <1>6, <1>7 DEF Grows

\* A turn that calls adjust_remaining_ranges.
LEMMA GrownMeans ==
  ASSUME NEW L, NEW C, NEW l, NEW i, NEW cs, Merging(L, C, l, i, cs), i <= Len(l), cs # << >>,
         NEW r, r = l[i], NEW c, c = Head(cs), NEW rest, rest = Tail(cs),
         NEW p \in Ranges, p.start < p.end, p.start <= r.start, p.end = c.end, p.inh = c.inh, c.start <= r.end,
         Pieces(r, c, p, p, Nothing), NEW x, x = SetAt(l, i, p), NEW a, a = AdjustRemaining(x, i)
  PROVE  Merging(L, C, a.list, a.i, rest)
<1>1. /\ l \in Seq(Ranges) /\ i \in Nat \ {0} /\ cs \in Seq(Ranges) /\ Together(L, C, l, cs)
      /\ Valid(cs) /\ ValidFrom(l, i) /\ CalmFrom(l, i, cs)
  BY DEF Merging
<1>2. i \in 1..Len(l)
  BY <1>1
<1>3. Replaced(l, i, p, x)
  BY <1>1, <1>2, SetAtMeans
<1>4. Grows(x, i, c.end, rest)
  BY <1>1, <1>2, <1>3, GrownGrows
<1>5. Remains(cs, rest, Nothing, rest)
  BY <1>1, RestRemains
<1>6. rest \in Seq(Ranges) /\ Valid(rest)
  BY <1>5 DEF Remains
<1>7. x \in Seq(Ranges)
  BY <1>3 DEF Replaced
<1>8. SameRevs(x, a.list) /\ Settled(a.list, a.i, rest)
  BY <1>4, <1>6, <1>7, AdjustMeans
<1>9. a.i \in Nat \ {0}
  BY <1>1, <1>7, AdjustType
<1>10. ASSUME NEW v \in Int
       PROVE  /\ On(a.list, v) \/ On(rest, v) <=> On(L, v) \/ On(C, v)
              /\ Inh(a.list, v) \/ Inh(rest, v) <=> Inh(L, v) \/ Inh(C, v)
  <2>1. /\ On(l, v) \/ On(cs, v) <=> On(L, v) \/ On(C, v)
        /\ Inh(l, v) \/ Inh(cs, v) <=> Inh(L, v) \/ Inh(C, v)
    BY <1>1 DEF Together
  <2>2. /\ On(l, v) <=> OnBut(l, i, v) \/ Covers(r, v)
        /\ Inh(l, v) <=> InhBut(l, i, v) \/ (Covers(r, v) /\ r.inh)
    BY <1>1, <1>2, ButOne
  <2>3. /\ On(cs, v) <=> On(rest, v) \/ Covers(c, v)
        /\ Inh(cs, v) <=> Inh(rest, v) \/ (Covers(c, v) /\ c.inh)
    BY <1>1, FirstChange
  <2>4. /\ On(x, v) <=> OnBut(l, i, v) \/ Covers(p, v)
        /\ Inh(x, v) <=> InhBut(l, i, v) \/ (Covers(p, v) /\ p.inh)
    BY <1>3 DEF Replaced
  <2>5. (On(x, v) <=> On(a.list, v)) /\ (Inh(x, v) <=> Inh(a.list, v))
    BY <1>8 DEF SameRevs
  <2>6. Nothing.start = 0 /\ Nothing.end = 0
    BY DEF Nothing, Span
  <2>7. ~Covers(Nothing, v)
    BY <2>6 DEF Covers
  <2>8. /\ Covers(r, v) \/ Covers(c, v) <=> Covers(p, v)
        /\ (Covers(r, v) /\ r.inh) \/ (Covers(c, v) /\ c.inh) <=> (Covers(p, v) /\ p.inh)
    BY <2>7 DEF Pieces, PiecesAt
  <2>. QED  BY <2>1, <2>2, <2>3, <2>4, <2>5, <2>8
<1>11. Together(L, C, a.list, rest)
  BY <1>10 DEF Together
<1>. QED  BY <1>6, <1>8, <1>9, <1>11 DEF Merging, Settled

\* A turn keeps the revisions, and what is to come in order.
LEMMA MergeStepMeans ==
  ASSUME NEW L, NEW C, NEW l, NEW i, NEW cs, Merging(L, C, l, i, cs), i <= Len(l), cs # << >>,
         NEW t, t = MergeStep(MS(l, i, cs))
  PROVE  Merging(L, C, t.list, t.i, t.changes)
<1>m. /\ l \in Seq(Ranges) /\ i \in Nat \ {0} /\ cs \in Seq(Ranges)
      /\ Valid(cs) /\ ValidFrom(l, i) /\ CalmFrom(l, i, cs)
  BY DEF Merging
<1>i. i \in 1..Len(l) /\ i \in {i, i + 1} /\ i + 1 \in {i, i + 1} /\ i \in i..Len(l)
  BY <1>m
<1>c. 1 \in 1..Len(cs) /\ Head(cs) = cs[1]
  BY <1>m
<1>p. PICK r, c, rest : r = l[i] /\ c = Head(cs) /\ rest = Tail(cs)
  OBVIOUS
<1>r. r \in Ranges /\ c \in Ranges
  BY <1>m, <1>i, <1>c, <1>p, Elements
<1>t. /\ r.start \in Int /\ r.end \in Int /\ c.start \in Int /\ c.end \in Int
      /\ r.inh \in BOOLEAN /\ c.inh \in BOOLEAN
      /\ r.start \in 0..N /\ r.end \in 0..N /\ c.start \in 0..N /\ c.end \in 0..N
  BY <1>r, RangeFacts
<1>v. r.start < r.end /\ c.start < c.end
  BY <1>m, <1>i, <1>c, <1>p DEF ValidFrom, Valid
<1>s. MergeCases(l, i, cs, rest, r, c, t)
  BY <1>p, <1>r, MergeStepIs
<1>R. Remains(cs, rest, Nothing, rest)
  BY <1>m, <1>p, RestRemains
<1>S. Remains(cs, rest, c, cs)
  BY <1>m, <1>p, AllRemain
<1>N. \A v \in Int : ~Covers(Nothing, v)
  <2>1. Nothing.start = 0 /\ Nothing.end = 0
    BY DEF Nothing, Span
  <2>. QED  BY <2>1 DEF Covers
<1>C. ASSUME NEW g, NEW cs2, Remains(cs, rest, g, cs2)  PROVE CalmFrom(l, i, cs2)
  BY <1>m, <1>C DEF Remains
<1>E. ASSUME NEW g, NEW cs2, Remains(cs, rest, g, cs2), NEW p, Ending(p, r), NEW j \in {i, i + 1}
      PROVE  Edited(l, i, p, p, SetAt(l, i, p), j, cs2)
  <2>0. p \in Ranges
    BY <1>E DEF Ending
  <2>1. PICK x : x = SetAt(l, i, p)
    OBVIOUS
  <2>2. Replaced(l, i, p, x)
    BY <1>m, <1>i, <2>0, <2>1, SetAtMeans
  <2>3. CalmFrom(l, i, cs2)
    BY <1>C, <1>E
  <2>4. Edited(l, i, p, p, x, j, cs2)
    BY <1>m, <1>i, <1>p, <1>E, <2>2, <2>3, EditedSet
  <2>. QED  BY <2>1, <2>4
<1>K. ASSUME NEW g, NEW cs2, Remains(cs, rest, g, cs2), NEW j \in {i, i + 1}  PROVE Edited(l, i, r, r, l, j, cs2)
  <2>1. Replaced(l, i, r, l)
    BY <1>m, <1>i, <1>p, ReplacedByItself
  <2>2. Ending(r, r)
    BY <1>r, <1>v DEF Ending
  <2>3. CalmFrom(l, i, cs2)
    BY <1>C, <1>K
  <2>. QED  BY <1>m, <1>i, <1>p, <1>K, <2>1, <2>2, <2>3, EditedSet
<1>P. ASSUME NEW g, NEW cs2, Remains(cs, rest, g, cs2), NEW p, Ending(p, r), NEW q \in Ranges
      PROVE  Edited(l, i, p, q, InsertAt(SetAt(l, i, p), i, q), i + 1, cs2)
  <2>0. p \in Ranges
    BY <1>P DEF Ending
  <2>1. PICK y, x : y = SetAt(l, i, p) /\ x = InsertAt(y, i, q)
    OBVIOUS
  <2>2. Replaced(l, i, p, y)
    BY <1>m, <1>i, <2>0, <2>1, SetAtMeans
  <2>3. CalmFrom(l, i, cs2)
    BY <1>C, <1>P
  <2>4. Edited(l, i, p, q, x, i + 1, cs2)
    BY <1>m, <1>i, <1>p, <1>P, <2>1, <2>2, <2>3, EditedPut
  <2>. QED  BY <2>1, <2>4
<1>I. ASSUME NEW g, NEW cs2, Remains(cs, rest, g, cs2), NEW q \in Ranges
      PROVE  Edited(l, i, r, q, InsertAt(l, i, q), i + 1, cs2)
  <2>1. PICK x : x = InsertAt(l, i, q)
    OBVIOUS
  <2>2. Replaced(l, i, r, l)
    BY <1>m, <1>i, <1>p, ReplacedByItself
  <2>3. Ending(r, r)
    BY <1>r, <1>v DEF Ending
  <2>4. CalmFrom(l, i, cs2)
    BY <1>C, <1>I
  <2>5. Edited(l, i, r, q, x, i + 1, cs2)
    BY <1>m, <1>i, <1>p, <2>1, <2>2, <2>3, <2>4, EditedPut
  <2>. QED  BY <2>1, <2>5
<1>F. ASSUME NEW e \in 0..N, c.start <= e, e < c.end
      PROVE  \E g \in Ranges : g.start = e /\ g.end = c.end /\ g.inh = c.inh /\ Remains(cs, rest, g, CutFirst(cs, c, e))
  <2>1. PICK cs2 : cs2 = CutFirst(cs, c, e)
    OBVIOUS
  <2>2. CutLeaves(cs, rest, c, e, cs2)
    <3>1. c = Head(cs) /\ rest = Tail(cs) /\ e \in 0..N /\ c.start <= e /\ e < c.end
      BY <1>p, <1>F
    <3>. QED  BY <1>m, <2>1, <3>1, CutRemains
  <2>. QED  BY <2>1, <2>2 DEF CutLeaves
<1>b. /\ Before(r, c) => r.start <= c.start /\ (r.start = c.start => r.end < c.end)
      /\ ~Before(r, c) => c.start <= r.start /\ (r.start = c.start => c.end <= r.end)
  BY <1>t DEF Before
<1>Z. ASSUME NEW a, NEW b, NEW g, NEW x, NEW j, NEW cs2, Edited(l, i, a, b, x, j, cs2), Remains(cs, rest, g, cs2), Pieces(r, c, a, b, g), t = MS(x, j, cs2)
      PROVE  Merging(L, C, t.list, t.i, t.changes)
  <2>1. t.list = x /\ t.i = j /\ t.changes = cs2
    BY <1>Z, FieldsIs
  <2>2. Merging(L, C, x, j, cs2)
    BY <1>p, <1>Z, KeptTogether
  <2>. QED  BY <2>1, <2>2
<1>1. CASE TurnEqual(l, i, cs, rest, r, c, t)
  <2>0. r.start = c.start /\ r.end = c.end
    BY <1>t, <1>v, <1>b, <1>1 DEF TurnEqual
  <2>1. PICK p : p = [r EXCEPT !.inh = r.inh \/ c.inh]
    OBVIOUS
  <2>2. p \in Ranges /\ p.start = r.start /\ p.end = r.end /\ (p.inh <=> r.inh \/ c.inh)
    BY <1>r, <1>t, <2>1, PieceFacts
  <2>3. Ending(p, r)
    BY <1>r, <1>t, <1>v, <2>0, <2>2 DEF Ending
  <2>4. Edited(l, i, p, p, SetAt(l, i, p), i + 1, rest)
    BY <1>r, <1>i, <1>R, <1>E, <2>3, <2>2
  <2>5. ASSUME NEW v \in Int  PROVE PiecesAt(r, c, p, p, Nothing, v)
    <3>1. (Covers(p, v) <=> Covers(r, v)) /\ (Covers(r, v) <=> Covers(c, v))
      BY <1>t, <1>v, <2>0, <2>2 DEF Covers
    <3>. QED  BY <1>t, <1>N, <3>1, <2>2 DEF PiecesAt
  <2>6. Pieces(r, c, p, p, Nothing)
    BY <2>5 DEF Pieces
  <2>7. t = MS(SetAt(l, i, p), i + 1, rest)
    BY <1>1, <2>1 DEF TurnEqual
  <2>. QED  BY <1>Z, <1>R, <2>4, <2>6, <2>7
<1>2. CASE TurnSkipped(l, i, cs, rest, r, c, t)
  <2>1. Edited(l, i, r, r, l, i + 1, cs)
    BY <1>r, <1>i, <1>S, <1>K
  <2>2. ASSUME NEW v \in Int  PROVE PiecesAt(r, c, r, r, c, v)
    BY <1>t, <1>N DEF PiecesAt
  <2>3. Pieces(r, c, r, r, c)
    BY <2>2 DEF Pieces
  <2>4. t = MS(l, i + 1, cs)
    BY <1>2 DEF TurnSkipped
  <2>. QED  BY <1>Z, <1>S, <2>1, <2>3, <2>4
<1>3. CASE TurnWithin(l, i, cs, rest, r, c, t)
  <2>0. r.start <= c.start /\ c.end <= r.end
    BY <1>t, <1>v, <1>b, <1>3 DEF TurnWithin
  <2>h. r.inh \/ ~c.inh
    BY <1>t, <1>3 DEF TurnWithin
  <2>1. Edited(l, i, r, r, l, i, rest)
    BY <1>r, <1>i, <1>R, <1>K
  <2>2. ASSUME NEW v \in Int  PROVE PiecesAt(r, c, r, r, Nothing, v)
    <3>1. Covers(c, v) => Covers(r, v)
      BY <1>t, <1>v, <2>0 DEF Covers
    <3>. QED  BY <1>t, <1>N, <3>1, <2>h DEF PiecesAt
  <2>3. Pieces(r, c, r, r, Nothing)
    BY <2>2 DEF Pieces
  <2>4. t = MS(l, i, rest)
    BY <1>3 DEF TurnWithin
  <2>. QED  BY <1>Z, <1>R, <2>1, <2>3, <2>4
<1>4. CASE TurnBeyond(l, i, cs, rest, r, c, t)
  <2>0. r.start <= c.start /\ c.start <= r.end /\ r.end < c.end
    BY <1>t, <1>v, <1>b, <1>4 DEF TurnBeyond
  <2>h. r.inh \/ ~c.inh
    BY <1>t, <1>4 DEF TurnBeyond
  <2>1. PICK g \in Ranges : g.start = r.end /\ g.end = c.end /\ g.inh = c.inh /\ Remains(cs, rest, g, CutFirst(cs, c, r.end))
    BY <1>t, <2>0, <1>F
  <2>2. Edited(l, i, r, r, l, i, CutFirst(cs, c, r.end))
    BY <1>r, <1>i, <2>1, <1>K
  <2>3. ASSUME NEW v \in Int  PROVE PiecesAt(r, c, r, r, g, v)
    <3>1. (Covers(c, v) => Covers(r, v) \/ Covers(g, v)) /\ (Covers(g, v) => Covers(c, v))
      BY <1>t, <1>v, <2>0, <2>1 DEF Covers
    <3>. QED  BY <1>t, <1>N, <3>1, <2>1, <2>h DEF PiecesAt
  <2>4. Pieces(r, c, r, r, g)
    BY <2>3 DEF Pieces
  <2>5. t = MS(l, i, CutFirst(cs, c, r.end))
    BY <1>4 DEF TurnBeyond
  <2>. QED  BY <1>Z, <2>1, <2>2, <2>4, <2>5
<1>5. CASE TurnDivide(l, i, cs, rest, r, c, t)
  <2>0. r.start < c.start /\ c.start < r.end
    BY <1>t, <1>v, <1>b, <1>5 DEF TurnDivide
  <2>1. PICK p : p = [r EXCEPT !.start = c.start]
    OBVIOUS
  <2>2. p \in Ranges /\ p.start = c.start /\ p.end = r.end /\ (p.inh = r.inh)
    BY <2>1, <1>r, <1>t, StartSet, Zenon DEF IsRange
  <2>3. PICK q : q = [r EXCEPT !.end = c.start]
    OBVIOUS
  <2>4. q \in Ranges /\ q.start = r.start /\ q.end = c.start /\ (q.inh = r.inh)
    BY <1>r, <1>t, EndSet, <2>3, Zenon DEF IsRange
  <2>5. Ending(p, r)
    BY <1>r, <1>t, <1>v, <2>0, <2>2, <2>4 DEF Ending
  <2>6. Edited(l, i, p, q, InsertAt(SetAt(l, i, p), i, q), i + 1, cs)
    BY <1>r, <1>i, <1>S, <1>P, <2>5, <2>2, <2>4
  <2>7. ASSUME NEW v \in Int  PROVE PiecesAt(r, c, p, q, c, v)
    <3>1. Covers(r, v) <=> Covers(p, v) \/ Covers(q, v)
      BY <1>t, <1>v, <2>0, <2>2, <2>4 DEF Covers
    <3>. QED  BY <1>t, <1>N, <3>1, <2>2, <2>4 DEF PiecesAt
  <2>8. Pieces(r, c, p, q, c)
    BY <2>7 DEF Pieces
  <2>9. t = MS(InsertAt(SetAt(l, i, p), i, q), i + 1, cs)
    BY <1>5, <2>1, <2>3 DEF TurnDivide
  <2>. QED  BY <1>Z, <1>S, <2>6, <2>8, <2>9
<1>6. CASE TurnStrengthen(l, i, cs, rest, r, c, t)
  <2>0. r.start = c.start /\ c.start <= r.end /\ r.end < c.end
    BY <1>t, <1>v, <1>b, <1>6 DEF TurnStrengthen
  <2>h. ~r.inh /\ c.inh
    BY <1>t, <1>6 DEF TurnStrengthen
  <2>1. PICK p : p = [r EXCEPT !.inh = TRUE]
    OBVIOUS
  <2>2. p \in Ranges /\ p.start = r.start /\ p.end = r.end /\ (p.inh <=> TRUE)
    BY <1>r, <1>t, <2>1, PieceFacts
  <2>3. PICK g \in Ranges : g.start = r.end /\ g.end = c.end /\ g.inh = c.inh /\ Remains(cs, rest, g, CutFirst(cs, c, r.end))
    BY <1>t, <2>0, <1>F
  <2>4. Ending(p, r)
    BY <1>r, <1>t, <1>v, <2>0, <2>2, <2>3, <2>h DEF Ending
  <2>5. Edited(l, i, p, p, SetAt(l, i, p), i, CutFirst(cs, c, r.end))
    BY <1>r, <1>i, <2>3, <1>E, <2>4, <2>2
  <2>6. ASSUME NEW v \in Int  PROVE PiecesAt(r, c, p, p, g, v)
    <3>1. (Covers(c, v) <=> Covers(p, v) \/ Covers(g, v)) /\ (Covers(r, v) <=> Covers(p, v))
      BY <1>t, <1>v, <2>0, <2>2, <2>3 DEF Covers
    <3>. QED  BY <1>t, <1>N, <3>1, <2>2, <2>3, <2>h DEF PiecesAt
  <2>7. Pieces(r, c, p, p, g)
    BY <2>6 DEF Pieces
  <2>8. t = MS(SetAt(l, i, p), i, CutFirst(cs, c, r.end))
    BY <1>6, <2>1 DEF TurnStrengthen
  <2>. QED  BY <1>Z, <2>3, <2>5, <2>7, <2>8
<1>7. CASE TurnAhead(l, i, cs, rest, r, c, t)
  <2>1. Edited(l, i, r, c, InsertAt(l, i, c), i + 1, rest)
    BY <1>r, <1>i, <1>R, <1>I
  <2>2. ASSUME NEW v \in Int  PROVE PiecesAt(r, c, r, c, Nothing, v)
    BY <1>t, <1>N DEF PiecesAt
  <2>3. Pieces(r, c, r, c, Nothing)
    BY <2>2 DEF Pieces
  <2>4. t = MS(InsertAt(l, i, c), i + 1, rest)
    BY <1>7 DEF TurnAhead
  <2>. QED  BY <1>Z, <1>R, <2>1, <2>3, <2>4
<1>8. CASE TurnJoined(l, i, cs, rest, r, c, t)
  <2>0. c.end = r.start
    BY <1>t, <1>v, <1>b, <1>8 DEF TurnJoined
  <2>h. r.inh = c.inh
    BY <1>t, <1>8 DEF TurnJoined
  <2>1. PICK p : p = [r EXCEPT !.start = c.start]
    OBVIOUS
  <2>2. p \in Ranges /\ p.start = c.start /\ p.end = r.end /\ (p.inh = r.inh)
    BY <2>1, <1>r, <1>t, StartSet, Zenon DEF IsRange
  <2>3. Ending(p, r)
    BY <1>r, <1>t, <1>v, <2>0, <2>2, <2>h DEF Ending
  <2>4. Edited(l, i, p, p, SetAt(l, i, p), i, rest)
    BY <1>r, <1>i, <1>R, <1>E, <2>3, <2>2
  <2>5. ASSUME NEW v \in Int  PROVE PiecesAt(r, c, p, p, Nothing, v)
    <3>1. Covers(p, v) <=> Covers(r, v) \/ Covers(c, v)
      BY <1>t, <1>v, <2>0, <2>2 DEF Covers
    <3>. QED  BY <1>t, <1>N, <3>1, <2>2, <2>h DEF PiecesAt
  <2>6. Pieces(r, c, p, p, Nothing)
    BY <2>5 DEF Pieces
  <2>7. t = MS(SetAt(l, i, p), i, rest)
    BY <1>8, <2>1 DEF TurnJoined
  <2>. QED  BY <1>Z, <1>R, <2>4, <2>6, <2>7
<1>9. CASE TurnWidened(l, i, cs, rest, r, c, t)
  <2>0. c.end > r.start /\ c.end <= r.end /\ c.start <= r.start
    BY <1>t, <1>v, <1>b, <1>9 DEF TurnWidened
  <2>h. r.inh = c.inh
    BY <1>t, <1>9 DEF TurnWidened
  <2>1. PICK p : p = [r EXCEPT !.start = c.start]
    OBVIOUS
  <2>2. p \in Ranges /\ p.start = c.start /\ p.end = r.end /\ (p.inh = r.inh)
    BY <2>1, <1>r, <1>t, StartSet, Zenon DEF IsRange
  <2>3. Ending(p, r)
    BY <1>r, <1>t, <1>v, <2>0, <2>2, <2>h DEF Ending
  <2>4. Edited(l, i, p, p, SetAt(l, i, p), i, rest)
    BY <1>r, <1>i, <1>R, <1>E, <2>3, <2>2
  <2>5. ASSUME NEW v \in Int  PROVE PiecesAt(r, c, p, p, Nothing, v)
    <3>1. Covers(p, v) <=> Covers(r, v) \/ Covers(c, v)
      BY <1>t, <1>v, <2>0, <2>2 DEF Covers
    <3>. QED  BY <1>t, <1>N, <3>1, <2>2, <2>h DEF PiecesAt
  <2>6. Pieces(r, c, p, p, Nothing)
    BY <2>5 DEF Pieces
  <2>7. t = MS(SetAt(l, i, p), i, rest)
    BY <1>9, <2>1 DEF TurnWidened
  <2>. QED  BY <1>Z, <1>R, <2>4, <2>6, <2>7
<1>10. CASE TurnFront(l, i, cs, rest, r, c, t)
  <2>0. c.start < r.start /\ c.start <= r.start /\ r.start < c.end
    BY <1>t, <1>v, <1>b, <1>10 DEF TurnFront
  <2>1. PICK q : q = [c EXCEPT !.end = r.start]
    OBVIOUS
  <2>2. q \in Ranges /\ q.start = c.start /\ q.end = r.start /\ (q.inh = c.inh)
    BY <1>r, <1>t, EndSet, <2>1, Zenon DEF IsRange
  <2>3. PICK g \in Ranges : g.start = r.start /\ g.end = c.end /\ g.inh = c.inh /\ Remains(cs, rest, g, CutFirst(cs, c, r.start))
    BY <1>t, <2>0, <1>F
  <2>4. Edited(l, i, r, q, InsertAt(l, i, q), i + 1, CutFirst(cs, c, r.start))
    BY <1>r, <1>i, <2>3, <1>I, <2>2
  <2>5. ASSUME NEW v \in Int  PROVE PiecesAt(r, c, r, q, g, v)
    <3>1. Covers(c, v) <=> Covers(q, v) \/ Covers(g, v)
      BY <1>t, <1>v, <2>0, <2>2, <2>3 DEF Covers
    <3>. QED  BY <1>t, <1>N, <3>1, <2>2, <2>3 DEF PiecesAt
  <2>6. Pieces(r, c, r, q, g)
    BY <2>5 DEF Pieces
  <2>7. t = MS(InsertAt(l, i, q), i + 1, CutFirst(cs, c, r.start))
    BY <1>10, <2>1 DEF TurnFront
  <2>. QED  BY <1>Z, <2>3, <2>4, <2>6, <2>7
<1>11. CASE TurnInside(l, i, cs, rest, r, c, t)
  <2>0. r.start = c.start /\ c.end <= r.end
    BY <1>t, <1>v, <1>b, <1>11 DEF TurnInside
  <2>h. r.inh
    BY <1>t, <1>11 DEF TurnInside
  <2>1. Edited(l, i, r, r, l, i, rest)
    BY <1>r, <1>i, <1>R, <1>K
  <2>2. ASSUME NEW v \in Int  PROVE PiecesAt(r, c, r, r, Nothing, v)
    <3>1. Covers(c, v) => Covers(r, v)
      BY <1>t, <1>v, <2>0 DEF Covers
    <3>. QED  BY <1>t, <1>N, <3>1, <2>h DEF PiecesAt
  <2>3. Pieces(r, c, r, r, Nothing)
    BY <2>2 DEF Pieces
  <2>4. t = MS(l, i, rest)
    BY <1>11 DEF TurnInside
  <2>. QED  BY <1>Z, <1>R, <2>1, <2>3, <2>4
<1>12. CASE TurnPrefix(l, i, cs, rest, r, c, t)
  <2>0. r.start = c.start /\ c.end < r.end
    BY <1>t, <1>v, <1>b, <1>12 DEF TurnPrefix
  <2>h. ~r.inh
    BY <1>t, <1>12 DEF TurnPrefix
  <2>1. PICK p : p = [r EXCEPT !.start = c.end]
    OBVIOUS
  <2>2. p \in Ranges /\ p.start = c.end /\ p.end = r.end /\ (p.inh = r.inh)
    BY <2>1, <1>r, <1>t, StartSet, Zenon DEF IsRange
  <2>3. Ending(p, r)
    BY <1>r, <1>t, <1>v, <2>0, <2>2, <2>h DEF Ending
  <2>4. Edited(l, i, p, c, InsertAt(SetAt(l, i, p), i, c), i + 1, rest)
    BY <1>r, <1>i, <1>R, <1>P, <2>3, <2>2
  <2>5. ASSUME NEW v \in Int  PROVE PiecesAt(r, c, p, c, Nothing, v)
    <3>1. (Covers(r, v) => Covers(p, v) \/ Covers(c, v)) /\ (Covers(p, v) => Covers(r, v))
      BY <1>t, <1>v, <2>0, <2>2 DEF Covers
    <3>. QED  BY <1>t, <1>N, <3>1, <2>2, <2>h DEF PiecesAt
  <2>6. Pieces(r, c, p, c, Nothing)
    BY <2>5 DEF Pieces
  <2>7. t = MS(InsertAt(SetAt(l, i, p), i, c), i + 1, rest)
    BY <1>12, <2>1 DEF TurnPrefix
  <2>. QED  BY <1>Z, <1>R, <2>4, <2>6, <2>7
<1>13. CASE TurnOver(l, i, cs, rest, r, c, t)
  <2>0. c.start < r.start /\ c.start <= r.end /\ r.end < c.end
    BY <1>t, <1>v, <1>b, <1>13 DEF TurnOver
  <2>h. ~r.inh /\ c.inh
    BY <1>t, <1>13 DEF TurnOver
  <2>1. PICK p : p = [c EXCEPT !.end = r.end]
    OBVIOUS
  <2>2. p \in Ranges /\ p.start = c.start /\ p.end = r.end /\ (p.inh = c.inh)
    BY <1>r, <1>t, EndSet, <2>1, Zenon DEF IsRange
  <2>3. PICK g \in Ranges : g.start = r.end /\ g.end = c.end /\ g.inh = c.inh /\ Remains(cs, rest, g, CutFirst(cs, c, r.end))
    BY <1>t, <2>0, <1>F
  <2>4. Ending(p, r)
    BY <1>r, <1>t, <1>v, <2>0, <2>2, <2>3, <2>h DEF Ending
  <2>5. Edited(l, i, p, p, SetAt(l, i, p), i, CutFirst(cs, c, r.end))
    BY <1>r, <1>i, <2>3, <1>E, <2>4, <2>2
  <2>6. ASSUME NEW v \in Int  PROVE PiecesAt(r, c, p, p, g, v)
    <3>1. (Covers(c, v) <=> Covers(p, v) \/ Covers(g, v)) /\ (Covers(r, v) => Covers(p, v))
      BY <1>t, <1>v, <2>0, <2>2, <2>3 DEF Covers
    <3>. QED  BY <1>t, <1>N, <3>1, <2>2, <2>3, <2>h DEF PiecesAt
  <2>7. Pieces(r, c, p, p, g)
    BY <2>6 DEF Pieces
  <2>8. t = MS(SetAt(l, i, p), i, CutFirst(cs, c, r.end))
    BY <1>13, <2>1 DEF TurnOver
  <2>. QED  BY <1>Z, <2>3, <2>5, <2>7, <2>8
<1>14. CASE TurnLevel(l, i, cs, rest, r, c, t)
  <2>0. c.start < r.start /\ c.end = r.end
    BY <1>t, <1>v, <1>b, <1>14 DEF TurnLevel
  <2>h. ~r.inh /\ c.inh
    BY <1>t, <1>14 DEF TurnLevel
  <2>1. Ending(c, r)
    BY <1>r, <1>t, <1>v, <2>0, <2>h DEF Ending
  <2>2. Edited(l, i, c, c, SetAt(l, i, c), i, rest)
    BY <1>r, <1>i, <1>R, <1>E, <2>1
  <2>3. ASSUME NEW v \in Int  PROVE PiecesAt(r, c, c, c, Nothing, v)
    <3>1. Covers(r, v) => Covers(c, v)
      BY <1>t, <1>v, <2>0 DEF Covers
    <3>. QED  BY <1>t, <1>N, <3>1, <2>h DEF PiecesAt
  <2>4. Pieces(r, c, c, c, Nothing)
    BY <2>3 DEF Pieces
  <2>5. t = MS(SetAt(l, i, c), i, rest)
    BY <1>14 DEF TurnLevel
  <2>. QED  BY <1>Z, <1>R, <2>2, <2>4, <2>5
<1>15. CASE TurnOverlapped(l, i, cs, rest, r, c, t)
  <2>0. c.start < r.start /\ r.start < c.end /\ c.end < r.end
    BY <1>t, <1>v, <1>b, <1>15 DEF TurnOverlapped
  <2>h. ~r.inh /\ c.inh
    BY <1>15 DEF TurnOverlapped
  <2>1. PICK p, y, x : p = [r EXCEPT !.start = c.end] /\ y = SetAt(l, i, c) /\ x = InsertAt(y, i + 1, p)
    OBVIOUS
  <2>2. p \in Ranges /\ p.start = c.end /\ p.end = r.end /\ p.inh = r.inh
    BY <2>1, <1>r, <1>t, StartSet, Zenon DEF IsRange
  <2>3. Ending(p, r)
    BY <2>0, <2>2 DEF Ending
  <2>4. Replaced(l, i, c, y)
    BY <1>m, <1>i, <1>r, <2>1, SetAtMeans
  <2>5. CalmFrom(l, i, rest)
    BY <1>C, <1>R
  <2>6. Edited(l, i, p, c, x, i + 1, rest)
    BY <1>m, <1>i, <1>p, <2>1, <2>2, <2>3, <2>4, <2>5, EditedAfter
  <2>7. ASSUME NEW v \in Int  PROVE PiecesAt(r, c, p, c, Nothing, v)
    <3>1. (Covers(r, v) => Covers(p, v) \/ Covers(c, v)) /\ (Covers(p, v) => Covers(r, v))
      BY <1>t, <2>0, <2>2 DEF Covers
    <3>. QED  BY <1>N, <2>h, <2>2, <3>1 DEF PiecesAt
  <2>8. Pieces(r, c, p, c, Nothing)
    BY <2>7 DEF Pieces
  <2>9. t = MS(x, i + 1, rest)
    BY <1>15, <2>1 DEF TurnOverlapped
  <2>. QED  BY <1>Z, <1>R, <2>6, <2>8, <2>9
<1>16. CASE TurnBeside(l, i, cs, rest, r, c, t)
  <2>1. PICK x : x = InsertAt(l, i, c)
    OBVIOUS
  <2>2. c.end <= l[i].start
    BY <1>t, <1>p, <1>16 DEF TurnBeside
  <2>3. CalmFrom(l, i, rest) /\ rest \in Seq(Ranges)
    BY <1>C, <1>R DEF Remains
  <2>4. \A y \in 1..Len(rest) : c.end <= rest[y].start
    <3>. TAKE y \in 1..Len(rest)
    <3>1. Len(rest) = Len(cs) - 1 /\ \A z \in 1..(Len(cs) - 1) : rest[z] = cs[z + 1]
      BY <1>m, <1>p, TailFacts
    <3>2. rest[y] = cs[y + 1] /\ y + 1 \in 1..Len(cs) /\ 1 < y + 1
      BY <1>m, <3>1
    <3>3. cs[1].end <= cs[y + 1].start
      BY <1>m, <1>c, <3>2, ValidOrder
    <3>. QED  BY <1>c, <1>p, <3>2, <3>3
  <2>5. Edited(l, i, l[i], c, x, i, rest)
    BY <1>m, <1>i, <1>r, <1>v, <2>1, <2>2, <2>3, <2>4, EditedBeside
  <2>6. Edited(l, i, r, c, x, i, rest)
    BY <1>p, <2>5
  <2>7. Pieces(r, c, r, c, Nothing)
    BY <1>N DEF Pieces, PiecesAt
  <2>8. t = MS(x, i, rest)
    BY <1>16, <2>1 DEF TurnBeside
  <2>. QED  BY <1>Z, <1>R, <2>6, <2>7, <2>8
<1>17. CASE TurnGrown(l, i, cs, rest, r, c, t)
  <2>0. r.end = c.start /\ r.inh = c.inh
    BY <1>17 DEF TurnGrown
  <2>1. PICK p, x, a : p = [r EXCEPT !.end = c.end] /\ x = SetAt(l, i, p) /\ a = AdjustRemaining(x, i)
    OBVIOUS
  <2>2. p \in Ranges /\ p.start = r.start /\ p.end = c.end /\ p.inh = r.inh
    BY <2>1, <1>r, <1>t, EndSet, Zenon DEF IsRange
  <2>3. p.start < p.end /\ p.start <= r.start /\ c.start <= r.end /\ p.inh = c.inh
    BY <1>t, <1>v, <2>0, <2>2
  <2>4. ASSUME NEW v \in Int  PROVE Covers(r, v) \/ Covers(c, v) <=> Covers(p, v)
    BY <1>t, <1>v, <2>0, <2>2 DEF Covers
  <2>5. Pieces(r, c, p, p, Nothing)
    BY <1>t, <1>N, <2>0, <2>2, <2>4 DEF Pieces, PiecesAt
  <2>6. Merging(L, C, a.list, a.i, rest)
    BY <1>p, <2>1, <2>2, <2>3, <2>5, GrownMeans
  <2>7. t = MS(a.list, a.i, rest)
    BY <1>17, <2>1 DEF TurnGrown
  <2>8. t.list = a.list /\ t.i = a.i /\ t.changes = rest
    BY <2>7, FieldsIs
  <2>. QED  BY <2>6, <2>8
<1>18. CASE TurnSwallowed(l, i, cs, rest, r, c, t)
  <2>0. c.start <= r.start /\ r.end < c.end /\ c.start <= r.end
    BY <1>t, <1>v, <1>b, <1>18 DEF TurnSwallowed
  <2>h. r.inh = c.inh
    BY <1>18 DEF TurnSwallowed
  <2>1. PICK x, a : x = SetAt(l, i, c) /\ a = AdjustRemaining(x, i)
    OBVIOUS
  <2>4. ASSUME NEW v \in Int  PROVE Covers(r, v) => Covers(c, v)
    BY <1>t, <2>0 DEF Covers
  <2>5. Pieces(r, c, c, c, Nothing)
    BY <1>t, <1>N, <2>h, <2>4 DEF Pieces, PiecesAt
  <2>6. Merging(L, C, a.list, a.i, rest)
    BY <1>p, <1>r, <1>v, <2>0, <2>1, <2>5, GrownMeans
  <2>7. t = MS(a.list, a.i, rest)
    BY <1>18, <2>1 DEF TurnSwallowed
  <2>8. t.list = a.list /\ t.i = a.i /\ t.changes = rest
    BY <2>7, FieldsIs
  <2>. QED  BY <2>6, <2>8
<1>. QED  BY <1>s, <1>1, <1>2, <1>3, <1>4, <1>5, <1>6, <1>7, <1>8, <1>9, <1>10, <1>11, <1>12, <1>13, <1>14, <1>15, <1>16, <1>17, <1>18 DEF MergeCases

\* A turn of the loop.
LEMMA MergeTurnMeans ==
  ASSUME NEW L, NEW C, NEW s \in MStates, Merging(L, C, s.list, s.i, s.changes), NEW t, t = MergeTurn(s)
  PROVE  Merging(L, C, t.list, t.i, t.changes)
<1>1. PICK l, i, cs : l = s.list /\ i = s.i /\ cs = s.changes /\ s = MS(l, i, cs)
  BY MStateFacts
<1>2. Merging(L, C, l, i, cs)
  BY <1>1
<1>3. CASE i > Len(l) \/ cs = << >>
  <2>1. t = s
    BY <1>1, <1>3 DEF MergeTurn
  <2>. QED  BY <2>1
<1>4. CASE ~(i > Len(l) \/ cs = << >>)
  <2>1. t = MergeStep(MS(l, i, cs))
    BY <1>1, <1>4 DEF MergeTurn
  <2>2. i <= Len(l) /\ cs # << >>
    <3>1. Len(l) \in Nat /\ i \in Nat
      BY <1>2 DEF Merging
    <3>. QED  BY <1>4, <3>1
  <2>. QED  BY <1>2, <2>1, <2>2, MergeStepMeans
<1>. QED  BY <1>3, <1>4

\* svn_rangelist_merge2 covers what the two lists cover, unless a change reaches too far.
LEMMA MergeMeans ==
  ASSUME NEW L \in Seq(Ranges), NEW C \in Seq(Ranges), Valid(L), Valid(C), Calm(L, C)
  PROVE  Meaning(Merge(L, C)) = More(Meaning(L), Meaning(C))
<1>n. PICK n \in Nat : n = 4 * N + 2 * Len(L) + 1
  OBVIOUS
<1>l. Len(L) \in Nat
  OBVIOUS
<1>1. PICK f : IsMerge(f, L, C) /\ Merge(L, C) = Rest(f[4 * N + 2 * Len(L) + 1])
  BY <1>l, MergeTurns
<1>2. \A k \in 0..n : f[k] \in MStates
  BY <1>n, <1>1, MergeStatesType
<1>. DEFINE B == {k \in Nat : k <= n => Merging(L, C, f[k].list, f[k].i, f[k].changes)}
<1>3. 0 \in B
  <2>1. f[0] = [list |-> L, i |-> 1, changes |-> C]
    BY <1>1 DEF IsMerge
  <2>2. f[0].list = L /\ f[0].i = 1 /\ f[0].changes = C
    BY <2>1
  <2>3. ValidFrom(L, 1)
    BY DEF Valid, ValidFrom
  <2>4. CalmFrom(L, 1, C)
    <3>1. ASSUME NEW y \in 1..Len(C), NEW k \in 1..(Len(L) - 1)  PROVE ~Stirs(C[y], L[k], L[k + 1])
      <4>1. C[y] \in OneOf(C)
        BY DEF OneOf
      <4>2. ~C[y].inh /\ ~L[k].inh /\ L[k + 1].inh => C[y].start >= L[k].end \/ C[y].end <= L[k + 1].end
        BY <4>1 DEF Calm
      <4>3. PICK c, r, q : c = C[y] /\ r = L[k] /\ q = L[k + 1]
        OBVIOUS
      <4>4. k \in 1..Len(L) /\ k + 1 \in 1..Len(L)
        OBVIOUS
      <4>5. c.start \in Int /\ c.end \in Int /\ r.end \in Int /\ q.end \in Int
        BY <4>3, <4>4, Elements
      <4>6. ~c.inh /\ ~r.inh /\ q.inh => ~(c.start < r.end) \/ ~(q.end < c.end)
        BY <4>2, <4>3, <4>5
      <4>7. ~Stirs(c, r, q)
        BY <4>6 DEF Stirs
      <4>. QED  BY <4>3, <4>7
    <3>. QED  BY <3>1 DEF CalmFrom
  <2>5. Together(L, C, L, C)
    BY DEF Together
  <2>6. Merging(L, C, L, 1, C)
    BY <2>3, <2>4, <2>5 DEF Merging
  <2>. QED  BY <2>2, <2>6
<1>4. ASSUME NEW k \in Nat, k \in B  PROVE k + 1 \in B
  <2>. SUFFICES ASSUME k + 1 <= n  PROVE Merging(L, C, f[k + 1].list, f[k + 1].i, f[k + 1].changes)
    OBVIOUS
  <2>1. Merging(L, C, f[k].list, f[k].i, f[k].changes)
    BY <1>4
  <2>. HIDE DEF B
  <2>2. k + 1 \in 1..(4 * N + 2 * Len(L) + 1) /\ (k + 1) - 1 = k /\ k \in 0..n
    BY <1>n
  <2>3. f[k + 1] = MergeTurn(f[k])
    BY <1>1, <2>2 DEF IsMerge
  <2>. QED  BY <1>2, <2>1, <2>2, <2>3, MergeTurnMeans
<1>. HIDE DEF B
<1>5. n \in B
  BY <1>3, <1>4, SetInduction
<1>6. PICK l, cs : l = f[n].list /\ cs = f[n].changes
  OBVIOUS
<1>7. l \in Seq(Ranges) /\ cs \in Seq(Ranges) /\ Together(L, C, l, cs)
  BY <1>5, <1>6 DEF B, Merging
<1>8. PICK k : k = l \o cs
  OBVIOUS
<1>9. Merge(L, C) = k
  BY <1>n, <1>1, <1>6, <1>8 DEF Rest
<1>10. /\ k \in Seq(Ranges)
       /\ \A v : On(k, v) <=> On(l, v) \/ On(cs, v)
       /\ \A v : Has(k, v, TRUE) <=> Has(l, v, TRUE) \/ Has(cs, v, TRUE)
  BY <1>7, <1>8, ConcatFacts
<1>11. ASSUME NEW v \in 1..N  PROVE Meaning(k)[v] = IF Meaning(L)[v] > Meaning(C)[v] THEN Meaning(L)[v] ELSE Meaning(C)[v]
  <2>1. Meaning(k)[v] = IF Has(k, v, TRUE) THEN 2 ELSE IF On(k, v) THEN 1 ELSE 0
    BY <1>10, MeaningAt
  <2>2. /\ Meaning(L)[v] = IF Has(L, v, TRUE) THEN 2 ELSE IF On(L, v) THEN 1 ELSE 0
        /\ Meaning(C)[v] = IF Has(C, v, TRUE) THEN 2 ELSE IF On(C, v) THEN 1 ELSE 0
    BY MeaningAt
  <2>3. v \in Int
    OBVIOUS
  <2>4. /\ On(k, v) <=> On(L, v) \/ On(C, v)
        /\ Has(k, v, TRUE) <=> Has(L, v, TRUE) \/ Has(C, v, TRUE)
    BY <1>7, <1>10, <2>3 DEF Together, Inh
  <2>5. PICK x, y, z : x = Meaning(L)[v] /\ y = Meaning(C)[v] /\ z = Meaning(k)[v]
    OBVIOUS
  <2>6. /\ Has(L, v, TRUE) => x = 2
        /\ ~Has(L, v, TRUE) /\ On(L, v) => x = 1
        /\ ~Has(L, v, TRUE) /\ ~On(L, v) => x = 0
    BY <2>2, <2>5
  <2>7. /\ Has(C, v, TRUE) => y = 2
        /\ ~Has(C, v, TRUE) /\ On(C, v) => y = 1
        /\ ~Has(C, v, TRUE) /\ ~On(C, v) => y = 0
    BY <2>2, <2>5
  <2>8. /\ Has(k, v, TRUE) => z = 2
        /\ ~Has(k, v, TRUE) /\ On(k, v) => z = 1
        /\ ~Has(k, v, TRUE) /\ ~On(k, v) => z = 0
    BY <2>1, <2>5
  <2>9. \/ x = 2 /\ z = 2 /\ (y = 0 \/ y = 1 \/ y = 2)
        \/ y = 2 /\ z = 2 /\ (x = 0 \/ x = 1)
        \/ x = 1 /\ z = 1 /\ (y = 0 \/ y = 1)
        \/ x = 0 /\ y = 1 /\ z = 1
        \/ x = 0 /\ y = 0 /\ z = 0
    <3>1. CASE Has(L, v, TRUE)
      BY <2>4, <2>6, <2>7, <2>8, <3>1, Zenon
    <3>2. CASE ~Has(L, v, TRUE) /\ Has(C, v, TRUE)
      BY <2>4, <2>6, <2>7, <2>8, <3>2, Zenon
    <3>3. CASE ~Has(L, v, TRUE) /\ ~Has(C, v, TRUE) /\ On(L, v)
      BY <2>4, <2>6, <2>7, <2>8, <3>3, Zenon
    <3>4. CASE ~Has(L, v, TRUE) /\ ~Has(C, v, TRUE) /\ ~On(L, v)
      BY <2>4, <2>6, <2>7, <2>8, <3>4, Zenon
    <3>. QED  BY <3>1, <3>2, <3>3, <3>4, Zenon
  <2>10. z = IF x > y THEN x ELSE y
    BY <2>9
  <2>. QED  BY <2>5, <2>10
<1>12. Meaning(k) = More(Meaning(L), Meaning(C))
  BY <1>11 DEF Meaning, More
<1>. QED  BY <1>9, <1>12

--------------------------------------------------------------------------------
(* Merging where neither list mixes inheritable and other ranges.           *)

\* Two neighbours in the shortest list.
Fits(a, b) == a.end <= b.start /\ (a.end = b.start => a.inh # b.inh)

\* The range at j, between one before all revisions and one after them.
Elem(k, l, j) == IF j < 1 THEN Span(-2, -1, k) ELSE IF j > Len(l) THEN Span(N + 2, N + 3, k) ELSE l[j]

\* Where the changes that are left begin.
First(cs) == IF cs = << >> THEN N + 1 ELSE cs[1].start

\* The range r at hand and the one before it may only adjoin, both inheritable or both not, while the
\* change that begins there is about to make r inheritable.
Met(a, r, kc, w) == a.end <= r.start /\ (a.end = r.start => a.inh # r.inh \/ (w = r.start /\ kc /\ ~r.inh))

\* The range before the one at hand ends before the changes begin, and does not join them.
Past(a, r, kc, w) == a.end <= w /\ (a.end = w => a.inh # kc \/ (r.start = w /\ r.inh))

\* The range at hand is inheritable as the list or as the changes; in the second case it is dealt with
\* if it is not inheritable.
Other(r, k, kc, w) == r.inh = k \/ (r.inh = kc /\ (kc \/ r.end < w))

\* The list is the shortest but for the range at hand, and as it was given beyond it.
Spread(k, l, i) ==
  /\ \A j \in 1..Len(l) : l[j].start < l[j].end
  /\ \A j \in 0..Len(l) : j + 1 # i => Fits(Elem(k, l, j), Elem(k, l, j + 1))
  /\ \A j \in (i + 1)..Len(l) : l[j].inh = k

\* The range at hand, after the range a.
AtHand(k, kc, a, r, w) == Met(a, r, kc, w) /\ Past(a, r, kc, w) /\ Other(r, k, kc, w)

\* The loop of svn_rangelist_merge2 on a list and changes that do not mix: k says whether the ranges
\* of the list are inheritable, kc whether the changes are, which begin at w.
Tidy(k, kc, l, i, w) ==
  /\ l \in Seq(Ranges) /\ i \in 1..(Len(l) + 1) /\ Spread(k, l, i)
  /\ AtHand(k, kc, Elem(k, l, i - 1), Elem(k, l, i), w)

\* The ranges i .. i + n - 1 of l are now the ranges i .. i + d - 1 of x.
Spliced(l, i, n, x, d) ==
  /\ x \in Seq(Ranges) /\ n \in Nat \ {0} /\ d \in {1, 2} /\ i + n <= Len(l) + 1 /\ Len(x) = Len(l) - n + d
  /\ \A j \in 1..(i - 1) : x[j] = l[j]
  /\ \A j \in (i + n)..Len(l) : x[(j - n) + d] = l[j]

\* What is before and after such ranges.
LEMMA SplicedElems ==
  ASSUME NEW k, NEW l \in Seq(Ranges), NEW i \in 1..Len(l), NEW n, NEW x, NEW d, Spliced(l, i, n, x, d)
  PROVE  /\ \A j \in 0..(i - 1) : Elem(k, x, j) = Elem(k, l, j)
         /\ \A j \in (i + d)..(Len(x) + 1) : Elem(k, x, j) = Elem(k, l, (j - d) + n)
<1>0. x \in Seq(Ranges)
  BY DEF Spliced
<1>n. PICK e \in Nat, g \in Nat : e = Len(l) /\ g = Len(x) /\ i \in 1..e
  BY <1>0
<1>1. /\ \A j \in 1..(i - 1) : x[j] = l[j]
      /\ \A j \in (i + n)..e : x[(j - n) + d] = l[j]
  BY <1>n DEF Spliced
<1>a. n \in Nat \ {0} /\ d \in {1, 2} /\ i + n <= e + 1 /\ g = e - n + d
  BY <1>n DEF Spliced
<1>b. i \in Int /\ 1 <= i /\ i <= e /\ n \in Int /\ 1 <= n /\ d \in Int /\ 1 <= d
  BY <1>n, <1>a
<1>2. ASSUME NEW j \in 0..(i - 1)  PROVE Elem(k, x, j) = Elem(k, l, j)
  <2>1. CASE j = 0
    BY <2>1 DEF Elem
  <2>2. CASE j # 0
    <3>1. j \in 1..(i - 1) /\ ~(j < 1) /\ ~(j > g) /\ ~(j > e)
      BY <1>n, <1>a, <1>b, <2>2
    <3>2. x[j] = l[j]
      BY <1>1, <3>1
    <3>. QED  BY <1>n, <3>1, <3>2 DEF Elem
  <2>. QED  BY <2>1, <2>2
<1>3. ASSUME NEW j \in (i + d)..(Len(x) + 1)  PROVE Elem(k, x, j) = Elem(k, l, (j - d) + n)
  <2>0. j \in Int /\ i + d <= j /\ j <= g + 1
    BY <1>n, <1>b
  <2>1. PICK h \in Int : h = (j - d) + n /\ j \in Int
    BY <1>b, <2>0
  <2>2. CASE j = g + 1
    <3>0. h = e + 1
      BY <1>a, <1>b, <2>1, <2>2
    <3>1. ~(j < 1) /\ j > g /\ ~(h < 1) /\ h > e
      BY <1>n, <2>2, <3>0
    <3>. QED  BY <1>n, <2>1, <3>1 DEF Elem
  <2>3. CASE j # g + 1
    <3>0. (h - n) + d = j /\ i + n <= h
      BY <1>b, <2>0, <2>1
    <3>a. h <= e /\ j <= g
      BY <1>a, <1>b, <2>0, <2>1, <2>3
    <3>1. h \in (i + n)..e /\ (h - n) + d = j /\ ~(j < 1) /\ ~(j > g) /\ ~(h < 1) /\ ~(h > e)
      BY <1>n, <1>b, <2>0, <2>1, <3>0, <3>a
    <3>2. x[j] = l[h]
      BY <1>1, <3>1
    <3>. QED  BY <1>n, <2>1, <3>1, <3>2 DEF Elem
  <2>. QED  BY <2>2, <2>3
<1>. QED  BY <1>2, <1>3

\* The new ranges fit among themselves and before the next one.
Lies(k, x, i, d, q, j) ==
  /\ x[i].start < x[i].end
  /\ d = 2 => x[i + 1].start < x[i + 1].end /\ Fits(x[i + 1], q)
  /\ j = i => IF d = 2 THEN Fits(x[i], x[i + 1]) /\ x[i + 1].inh = k ELSE Fits(x[i], q)

\* Where they do, the rest of the list is as before.
LEMMA SplicedSpread ==
  ASSUME NEW k, NEW l \in Seq(Ranges), NEW i \in 1..Len(l), Spread(k, l, i), NEW n, NEW x, NEW d, Spliced(l, i, n, x, d),
         NEW j \in {i, i + 1}, NEW q, q = Elem(k, l, i + n), Lies(k, x, i, d, q, j),
         NEW a, a = Elem(k, l, i - 1), j = i + 1 => Fits(a, x[i])
  PROVE  Spread(k, x, j)
<1>n. PICK e \in Nat, g \in Nat : e = Len(l) /\ g = Len(x) /\ i \in 1..e /\ i \in Nat /\ j \in Nat
  BY DEF Spliced
<1>1. /\ n \in Nat \ {0} /\ d \in {1, 2} /\ i + n <= e + 1 /\ g = e - n + d
      /\ \A h \in 1..(i - 1) : x[h] = l[h]
      /\ \A h \in (i + n)..e : x[(h - n) + d] = l[h]
  BY <1>n DEF Spliced
<1>b. n \in Nat \ {0} /\ d \in Nat /\ (d = 1 \/ d = 2) /\ i + n <= e + 1 /\ g = e - n + d
  BY <1>1
<1>2. /\ \A h \in 0..(i - 1) : Elem(k, x, h) = Elem(k, l, h)
      /\ \A h \in (i + d)..(g + 1) : Elem(k, x, h) = Elem(k, l, (h - d) + n)
  BY <1>n, SplicedElems
<1>3. /\ \A h \in 1..e : l[h].start < l[h].end
      /\ \A h \in 0..e : h + 1 # i => Fits(Elem(k, l, h), Elem(k, l, h + 1))
      /\ \A h \in (i + 1)..e : l[h].inh = k
  BY <1>n DEF Spread
<1>4. i <= g /\ (d = 2 => i + 1 <= g) /\ i + d <= g + 1
  BY <1>n, <1>b
<1>5. Elem(k, x, i) = x[i] /\ (d = 2 => Elem(k, x, i + 1) = x[i + 1])
  <2>1. ~(i < 1) /\ ~(i > g) /\ (d = 2 => ~(i + 1 < 1) /\ ~(i + 1 > g))
    BY <1>n, <1>4
  <2>. QED  BY <1>n, <2>1 DEF Elem
<1>6. Elem(k, x, i + d) = q
  <2>1. i + d \in (i + d)..(g + 1) /\ ((i + d) - d) + n = i + n
    BY <1>n, <1>1, <1>4
  <2>. QED  BY <1>2, <2>1
<1>7. ASSUME NEW h \in 1..g  PROVE x[h].start < x[h].end
  <2>1. CASE h < i
    <3>1. h \in 1..(i - 1) /\ h \in 1..e
      BY <1>n, <2>1
    <3>. QED  BY <1>1, <1>3, <3>1
  <2>2. CASE h = i \/ (d = 2 /\ h = i + 1)
    BY <2>2 DEF Lies
  <2>3. CASE h >= i + d
    <3>0. (h - d) + n \in (i + n)..e /\ (((h - d) + n) - n) + d = h /\ (h - d) + n \in 1..e
      <4>1. CASE d = 1
        BY <1>n, <1>b, <2>3, <4>1
      <4>2. CASE d = 2
        BY <1>n, <1>b, <2>3, <4>2
      <4>. QED  BY <1>b, <4>1, <4>2
    <3>1. PICK y : y = (h - d) + n /\ y \in (i + n)..e /\ (y - n) + d = h /\ y \in 1..e
      BY <3>0, Zenon
    <3>2. x[h] = l[y]
      BY <1>1, <3>1
    <3>. QED  BY <1>3, <3>1, <3>2
  <2>4. h < i \/ h = i \/ (d = 2 /\ h = i + 1) \/ h >= i + d
    BY <1>n, <1>b
  <2>. QED  BY <2>1, <2>2, <2>3, <2>4
<1>8. ASSUME NEW h \in 0..g, h + 1 # j  PROVE Fits(Elem(k, x, h), Elem(k, x, h + 1))
  <2>1. CASE h < i - 1
    <3>1. h \in 0..(i - 1) /\ h + 1 \in 0..(i - 1) /\ h \in 0..e /\ h + 1 # i
      BY <1>n, <2>1
    <3>2. Fits(Elem(k, l, h), Elem(k, l, h + 1))
      BY <1>3, <3>1
    <3>3. Elem(k, x, h) = Elem(k, l, h) /\ Elem(k, x, h + 1) = Elem(k, l, h + 1)
      BY <1>2, <3>1
    <3>. QED  BY <3>2, <3>3
  <2>2. CASE h = i - 1
    <3>1. j = i + 1 /\ h + 1 = i /\ h \in 0..(i - 1) /\ h = i - 1
      BY <1>n, <1>8, <2>2
    <3>2. Elem(k, x, h) = a
      BY <1>2, <3>1
    <3>. QED  BY <1>5, <3>1, <3>2
  <2>3. CASE h = i
    <3>1. j = i
      BY <1>8, <2>3
    <3>2. CASE d = 2
      BY <1>5, <2>3, <3>1, <3>2 DEF Lies
    <3>3. CASE d = 1
      BY <1>5, <1>6, <2>3, <3>1, <3>3 DEF Lies
    <3>. QED  BY <1>1, <3>2, <3>3
  <2>4. CASE d = 2 /\ h = i + 1
    <3>1. h + 1 = i + d
      BY <1>n, <2>4
    <3>. QED  BY <1>5, <1>6, <2>4, <3>1 DEF Lies
  <2>5. CASE h >= i + d
    <3>1. PICK y : y = (h - d) + n /\ y \in 0..e /\ y + 1 # i /\ y + 1 = ((h + 1) - d) + n
      BY <1>n, <1>b, <2>5
    <3>2. h \in (i + d)..(g + 1) /\ h + 1 \in (i + d)..(g + 1)
      BY <1>n, <1>b, <2>5
    <3>3. Fits(Elem(k, l, y), Elem(k, l, y + 1))
      BY <1>3, <3>1
    <3>4. Elem(k, x, h) = Elem(k, l, y) /\ Elem(k, x, h + 1) = Elem(k, l, y + 1)
      BY <1>2, <3>1, <3>2
    <3>. QED  BY <3>3, <3>4
  <2>6. h < i - 1 \/ h = i - 1 \/ h = i \/ (d = 2 /\ h = i + 1) \/ h >= i + d
    <3>1. h < i - 1 \/ h = i - 1 \/ h = i \/ h = i + 1 \/ h >= i + 2
      BY <1>n
    <3>. QED  BY <1>n, <1>b, <3>1
  <2>. QED  BY <2>1, <2>2, <2>3, <2>4, <2>5, <2>6
<1>9. ASSUME NEW h \in (j + 1)..g  PROVE x[h].inh = k
  <2>1. CASE d = 2 /\ h = i + 1
    <3>1. j = i
      BY <1>n, <2>1
    <3>. QED  BY <2>1, <3>1 DEF Lies
  <2>2. CASE h >= i + d
    <3>1. PICK y : y = (h - d) + n /\ y \in (i + n)..e /\ (y - n) + d = h /\ y \in (i + 1)..e
      BY <1>n, <1>1, <2>2
    <3>2. x[h] = l[y]
      BY <1>1, <3>1
    <3>. QED  BY <1>3, <3>1, <3>2
  <2>3. (d = 2 /\ h = i + 1) \/ h >= i + d
    <3>1. h = i + 1 \/ h >= i + 2
      BY <1>n
    <3>. QED  BY <1>n, <1>b, <3>1
  <2>. QED  BY <2>1, <2>2, <2>3
<1>. QED  BY <1>n, <1>7, <1>8, <1>9 DEF Spread

\* Around the range at hand.
LEMMA HandFacts ==
  ASSUME NEW k \in BOOLEAN, NEW kc, NEW l, NEW i, NEW w, Tidy(k, kc, l, i, w), i <= Len(l),
         NEW a, a = Elem(k, l, i - 1), NEW r, r = l[i], NEW q, q = Elem(k, l, i + 1)
  PROVE  /\ l \in Seq(Ranges) /\ i \in 1..Len(l) /\ r \in Ranges /\ r.start < r.end
         /\ AtHand(k, kc, a, r, w) /\ Fits(r, q) /\ a.end \in Int /\ a.inh \in BOOLEAN
         /\ q.start \in Int /\ q.inh = k
<1>1. l \in Seq(Ranges) /\ i \in 1..(Len(l) + 1) /\ Spread(k, l, i)
  BY DEF Tidy
<1>n. PICK e \in Nat : e = Len(l) /\ i \in 1..e
  BY <1>1
<1>2. r \in Ranges
  BY <1>1, <1>n, Elements
<1>3. Elem(k, l, i) = r
  <2>1. ~(i < 1) /\ ~(i > e)
    BY <1>n
  <2>. QED  BY <1>n, <2>1 DEF Elem
<1>4. AtHand(k, kc, a, r, w)
  BY <1>3 DEF Tidy
<1>5. r.start < r.end
  BY <1>1, <1>n DEF Spread
<1>6. Fits(r, q)
  <2>1. i \in 0..Len(l) /\ i + 1 # i
    BY <1>n
  <2>. QED  BY <1>1, <1>3, <2>1 DEF Spread
<1>7. a.end \in Int /\ a.inh \in BOOLEAN
  <2>1. CASE i = 1
    <3>1. a = Span(-2, -1, k)
      BY <2>1 DEF Elem
    <3>. QED  BY <3>1 DEF Span
  <2>2. CASE i # 1
    <3>1. i - 1 \in 1..Len(l) /\ ~(i - 1 < 1) /\ ~(i - 1 > e)
      BY <1>n, <2>2
    <3>2. a = l[i - 1]
      BY <1>n, <3>1 DEF Elem
    <3>. QED  BY <1>1, <3>1, <3>2, Elements
  <2>. QED  BY <2>1, <2>2
<1>8. q.start \in Int /\ q.inh = k
  <2>1. CASE i = e
    <3>1. ~(i + 1 < 1) /\ i + 1 > e
      BY <1>n, <2>1
    <3>2. q = Span(N + 2, N + 3, k)
      BY <1>n, <3>1 DEF Elem
    <3>. QED  BY <3>2, NType DEF Span
  <2>2. CASE i # e
    <3>1. i + 1 \in 1..Len(l) /\ i + 1 \in (i + 1)..Len(l) /\ ~(i + 1 < 1) /\ ~(i + 1 > e)
      BY <1>n, <2>2
    <3>2. q = l[i + 1]
      BY <1>n, <3>1 DEF Elem
    <3>3. q.inh = k
      BY <1>1, <3>1, <3>2 DEF Spread
    <3>. QED  BY <1>1, <3>1, <3>2, <3>3, Elements
  <2>. QED  BY <2>1, <2>2
<1>. QED  BY <1>1, <1>n, <1>2, <1>4, <1>5, <1>6, <1>7, <1>8

\* Where the new ranges are in the list.
LEMMA SplicedAt ==
  ASSUME NEW k, NEW l \in Seq(Ranges), NEW i \in 1..Len(l), NEW n, NEW x, NEW d, Spliced(l, i, n, x, d)
  PROVE  /\ x \in Seq(Ranges) /\ i \in 1..(Len(x) + 1) /\ i + 1 \in 1..(Len(x) + 1)
         /\ Elem(k, x, i - 1) = Elem(k, l, i - 1) /\ Elem(k, x, i) = x[i]
         /\ d = 2 => Elem(k, x, i + 1) = x[i + 1]
         /\ d = 1 => Elem(k, x, i + 1) = Elem(k, l, i + n)
<1>0. x \in Seq(Ranges)
  BY DEF Spliced
<1>n. PICK e \in Nat, g \in Nat : e = Len(l) /\ g = Len(x) /\ i \in 1..e
  BY <1>0
<1>1. n \in Nat \ {0} /\ d \in {1, 2} /\ i + n <= e + 1 /\ g = e - n + d
  BY <1>n DEF Spliced
<1>e. /\ \A j \in 0..(i - 1) : Elem(k, x, j) = Elem(k, l, j)
      /\ \A j \in (i + d)..(g + 1) : Elem(k, x, j) = Elem(k, l, (j - d) + n)
  BY <1>n, SplicedElems
<1>2. i <= g /\ (d = 2 => i + 1 <= g) /\ i + d <= g + 1
  BY <1>n, <1>1
<1>3. i \in 1..(g + 1) /\ i + 1 \in 1..(g + 1)
  BY <1>n, <1>2
<1>4. Elem(k, x, i) = x[i] /\ (d = 2 => Elem(k, x, i + 1) = x[i + 1])
  <2>1. ~(i < 1) /\ ~(i > g) /\ (d = 2 => ~(i + 1 < 1) /\ ~(i + 1 > g))
    BY <1>n, <1>2
  <2>. QED  BY <1>n, <2>1 DEF Elem
<1>5. Elem(k, x, i - 1) = Elem(k, l, i - 1)
  <2>1. i - 1 \in 0..(i - 1)
    BY <1>n
  <2>. QED  BY <1>e, <2>1
<1>6. ASSUME d = 1  PROVE Elem(k, x, i + 1) = Elem(k, l, i + n)
  <2>1. i + 1 \in (i + d)..(Len(x) + 1) /\ ((i + 1) - d) + n = i + n
    BY <1>n, <1>1, <1>2, <1>6
  <2>. QED  BY <1>n, <1>e, <2>1
<1>. QED  BY <1>0, <1>n, <1>3, <1>4, <1>5, <1>6

\* A range takes the place of the one at hand, and of some after it, and stays at hand.
LEMMA OneStays ==
  ASSUME NEW k, NEW kc, NEW l \in Seq(Ranges), NEW i \in 1..Len(l), Spread(k, l, i), NEW n, NEW x, Spliced(l, i, n, x, 1),
         NEW p, p = x[i], NEW a, a = Elem(k, l, i - 1), NEW q, q = Elem(k, l, i + n), NEW w,
         p.start < p.end, AtHand(k, kc, a, p, w), Fits(p, q)
  PROVE  Tidy(k, kc, x, i, w)
<1>1. Lies(k, x, i, 1, q, i)
  BY DEF Lies
<1>2. i \in {i, i + 1} /\ i # i + 1
  OBVIOUS
<1>3. Spread(k, x, i)
  BY <1>1, <1>2, SplicedSpread
<1>4. x \in Seq(Ranges) /\ i \in 1..(Len(x) + 1) /\ Elem(k, x, i - 1) = a /\ Elem(k, x, i) = p
  BY SplicedAt
<1>. QED  BY <1>3, <1>4 DEF Tidy

\* A range takes the place of the one at hand, and of some after it, and is passed.
LEMMA OneMoves ==
  ASSUME NEW k, NEW kc, NEW l \in Seq(Ranges), NEW i \in 1..Len(l), Spread(k, l, i), NEW n, NEW x, Spliced(l, i, n, x, 1),
         NEW p, p = x[i], NEW a, a = Elem(k, l, i - 1), NEW q, q = Elem(k, l, i + n), NEW w,
         p.start < p.end, Fits(a, p), AtHand(k, kc, p, q, w)
  PROVE  Tidy(k, kc, x, i + 1, w)
<1>1. Lies(k, x, i, 1, q, i + 1)
  BY DEF Lies
<1>2. i + 1 \in {i, i + 1} /\ i # i + 1 /\ (i + 1) - 1 = i
  OBVIOUS
<1>3. Spread(k, x, i + 1)
  BY <1>1, <1>2, SplicedSpread
<1>4. x \in Seq(Ranges) /\ i + 1 \in 1..(Len(x) + 1) /\ Elem(k, x, i) = p /\ Elem(k, x, i + 1) = q
  BY SplicedAt
<1>. QED  BY <1>2, <1>3, <1>4 DEF Tidy

\* Two ranges take its place, of which the first is passed.
LEMMA TwoMove ==
  ASSUME NEW k, NEW kc, NEW l \in Seq(Ranges), NEW i \in 1..Len(l), Spread(k, l, i), NEW n, NEW x, Spliced(l, i, n, x, 2),
         NEW p, p = x[i], NEW s, s = x[i + 1], NEW a, a = Elem(k, l, i - 1), NEW q, q = Elem(k, l, i + n), NEW w,
         p.start < p.end, s.start < s.end, Fits(a, p), AtHand(k, kc, p, s, w), Fits(s, q)
  PROVE  Tidy(k, kc, x, i + 1, w)
<1>1. Lies(k, x, i, 2, q, i + 1)
  BY DEF Lies
<1>2. i + 1 \in {i, i + 1} /\ i # i + 1 /\ (i + 1) - 1 = i
  OBVIOUS
<1>3. Spread(k, x, i + 1)
  BY <1>1, <1>2, SplicedSpread
<1>4. x \in Seq(Ranges) /\ i + 1 \in 1..(Len(x) + 1) /\ Elem(k, x, i) = p /\ Elem(k, x, i + 1) = s
  BY SplicedAt
<1>. QED  BY <1>2, <1>3, <1>4 DEF Tidy

\* Two ranges take its place, of which the first is now at hand.
LEMMA TwoStay ==
  ASSUME NEW k, NEW kc, NEW l \in Seq(Ranges), NEW i \in 1..Len(l), Spread(k, l, i), NEW n, NEW x, Spliced(l, i, n, x, 2),
         NEW p, p = x[i], NEW s, s = x[i + 1], NEW a, a = Elem(k, l, i - 1), NEW q, q = Elem(k, l, i + n), NEW w,
         p.start < p.end, s.start < s.end, AtHand(k, kc, a, p, w), Fits(p, s), s.inh = k, Fits(s, q)
  PROVE  Tidy(k, kc, x, i, w)
<1>1. Lies(k, x, i, 2, q, i)
  BY DEF Lies
<1>2. i \in {i, i + 1} /\ i # i + 1
  OBVIOUS
<1>3. Spread(k, x, i)
  BY <1>1, <1>2, SplicedSpread
<1>4. x \in Seq(Ranges) /\ i \in 1..(Len(x) + 1) /\ Elem(k, x, i - 1) = a /\ Elem(k, x, i) = p
  BY SplicedAt
<1>. QED  BY <1>3, <1>4 DEF Tidy

\* The changes of the list by a turn.
LEMMA SpliceSet ==
  ASSUME NEW l \in Seq(Ranges), NEW i \in 1..Len(l), NEW p \in Ranges, NEW x, Replaced(l, i, p, x)
  PROVE  Spliced(l, i, 1, x, 1) /\ x[i] = p
<1>1. /\ x \in Seq(Ranges) /\ Len(x) = Len(l) /\ x[i] = p /\ \A j \in 1..Len(l) : j # i => x[j] = l[j]
  BY DEF Replaced
<1>n. PICK e \in Nat : e = Len(l) /\ i \in 1..e
  OBVIOUS
<1>2. \A j \in 1..(i - 1) : x[j] = l[j]
  BY <1>1, <1>n
<1>3. ASSUME NEW j \in (i + 1)..Len(l)  PROVE x[(j - 1) + 1] = l[j]
  <2>1. j \in 1..Len(l) /\ j # i /\ (j - 1) + 1 = j
    BY <1>n
  <2>. QED  BY <1>1, <2>1
<1>4. 1 \in Nat \ {0} /\ 1 \in {1, 2} /\ i + 1 <= e + 1 /\ e = e - 1 + 1
  BY <1>n
<1>. QED  BY <1>1, <1>n, <1>2, <1>3, <1>4 DEF Spliced

\* A range is replaced, and another is put before it: one range has become two.
LEMMA SplicePut ==
  ASSUME NEW l \in Seq(Ranges), NEW i \in 1..Len(l), NEW p \in Ranges, NEW y, Replaced(l, i, p, y), NEW b \in Ranges,
         NEW x, Inserted(y, i, b, x)
  PROVE  Spliced(l, i, 1, x, 2) /\ x[i] = b /\ x[i + 1] = p
<1>1. /\ y \in Seq(Ranges) /\ Len(y) = Len(l) /\ y[i] = p /\ \A j \in 1..Len(l) : j # i => y[j] = l[j]
  BY DEF Replaced
<1>2. /\ x \in Seq(Ranges) /\ Len(x) = Len(y) + 1 /\ x[i] = b
      /\ \A j \in 1..Len(y) : (j < i => x[j] = y[j]) /\ (i <= j => x[j + 1] = y[j])
  BY DEF Inserted
<1>n. PICK e \in Nat : e = Len(l) /\ i \in 1..e
  OBVIOUS
<1>3. ASSUME NEW j \in 1..(i - 1)  PROVE x[j] = l[j]
  <2>1. j \in 1..Len(l) /\ j # i /\ j < i
    BY <1>n
  <2>. QED  BY <1>1, <1>2, <2>1
<1>4. ASSUME NEW j \in (i + 1)..Len(l)  PROVE x[(j - 1) + 2] = l[j]
  <2>1. j \in 1..Len(l) /\ j # i /\ i <= j /\ (j - 1) + 2 = j + 1
    BY <1>n
  <2>. QED  BY <1>1, <1>2, <2>1
<1>5. 1 \in Nat \ {0} /\ 2 \in {1, 2} /\ i + 1 <= e + 1 /\ e + 1 = e - 1 + 2 /\ i <= i
  BY <1>n
<1>6. x[i + 1] = p
  BY <1>1, <1>2, <1>n, <1>5
<1>. QED  BY <1>1, <1>2, <1>n, <1>3, <1>4, <1>5, <1>6 DEF Spliced

\* A range is replaced, and another is put after it: one range has become two.
LEMMA SpliceAfter ==
  ASSUME NEW l \in Seq(Ranges), NEW i \in 1..Len(l), NEW p \in Ranges, NEW y, Replaced(l, i, p, y), NEW b \in Ranges,
         NEW x, Inserted(y, i + 1, b, x)
  PROVE  Spliced(l, i, 1, x, 2) /\ x[i] = p /\ x[i + 1] = b
<1>1. /\ y \in Seq(Ranges) /\ Len(y) = Len(l) /\ y[i] = p /\ \A j \in 1..Len(l) : j # i => y[j] = l[j]
  BY DEF Replaced
<1>2. /\ x \in Seq(Ranges) /\ Len(x) = Len(y) + 1 /\ x[i + 1] = b
      /\ \A j \in 1..Len(y) : (j < i + 1 => x[j] = y[j]) /\ (i + 1 <= j => x[j + 1] = y[j])
  BY DEF Inserted
<1>n. PICK e \in Nat : e = Len(l) /\ i \in 1..e
  OBVIOUS
<1>3. ASSUME NEW j \in 1..(i - 1)  PROVE x[j] = l[j]
  <2>1. j \in 1..Len(l) /\ j # i /\ j < i + 1
    BY <1>n
  <2>. QED  BY <1>1, <1>2, <2>1
<1>4. ASSUME NEW j \in (i + 1)..Len(l)  PROVE x[(j - 1) + 2] = l[j]
  <2>1. j \in 1..Len(l) /\ j # i /\ i + 1 <= j /\ (j - 1) + 2 = j + 1
    BY <1>n
  <2>. QED  BY <1>1, <1>2, <2>1
<1>5. 1 \in Nat \ {0} /\ 2 \in {1, 2} /\ i + 1 <= e + 1 /\ e + 1 = e - 1 + 2 /\ i < i + 1
  BY <1>n
<1>6. x[i] = p
  BY <1>1, <1>2, <1>n, <1>5
<1>. QED  BY <1>1, <1>2, <1>n, <1>3, <1>4, <1>5, <1>6 DEF Spliced

\* h is the first range after i that the change does not swallow.
KeptFrom(l, i, h) == h = FirstKept(l, i)

\* One activation of adjust_remaining_ranges, at the range h, leads from s to t.
Activated(s, h, t) == t = Activation(s, h)

\* adjust_remaining_ranges as a whole returns a.
AdjustedTo(l, i, a) == a = AdjustRemaining(l, i)

\* The state in which adjust_remaining_ranges begins.
Begins(s, l, i) == s = [list |-> l, i |-> i, dels |-> << >>, more |-> TRUE]

\* adjust_remaining_ranges has removed g ranges after i from x, and moved the index by d.
Closes(x, i, g, d, a) == a.i = i + d /\ Removed(x, i + 1, g, a.list)

\* adjust_remaining_ranges, where the first activation is the last.
LEMMA OneActivation ==
  ASSUME NEW l \in Seq(Ranges), NEW i \in 1..Len(l), NEW s, Begins(s, l, i), NEW h, KeptFrom(l, i, h),
         NEW x \in Seq(Ranges), Len(x) = Len(l), NEW d \in {0, 1}, NEW n \in {0, 1}, h - 1 + n <= Len(l),
         NEW t, Activated(s, h, t), LeftBy(t, s, i, h, x, d, n), NEW a, AdjustedTo(l, i, a)
  PROVE  Closes(x, i, h - i - 1 + n, d, a)
<1>e. PICK e \in Nat : e = Len(l) /\ i \in 1..e /\ i \in Nat
  OBVIOUS
<1>h. h \in (i + 1)..(e + 1)
  BY <1>e, FirstKeptFacts DEF KeptFrom
<1>b. n = 0 \/ n = 1
  OBVIOUS
<1>c. h - i - 1 + n \in Nat /\ i + 1 \in Nat \ {0} /\ h - 1 + n <= e
  <2>1. h \in Int /\ i + 1 <= h /\ n \in Int /\ n >= 0
    BY <1>e, <1>h, <1>b
  <2>2. h - i - 1 + n \in Nat /\ i + 1 \in Nat \ {0}
    BY <1>e, <2>1
  <2>. QED  BY <1>e, <2>2
<1>d. (i + 1) + (h - i - 1 + n) <= Len(x) + 1
  BY <1>e, <1>h, <1>b, <1>c
<1>g. PICK g \in Nat, from \in Nat \ {0} : g = h - i - 1 + n /\ from = i + 1 /\ from + g <= Len(x) + 1
  BY <1>c, <1>d
<1>1. PICK f : IsAdjust(f, l, i) /\ AdjustRemaining(l, i) = AllDeleted(f[e])
  BY <1>e, AdjustTurns
<1>2. t.list = x /\ t.i = i + d /\ t.more = FALSE /\ t.dels = <<[from |-> from, n |-> g]>> \o s.dels
  BY <1>g DEF LeftBy, Left
<1>3. s.dels = << >> /\ s.list = l /\ s.i = i /\ s.more = TRUE
  BY DEF Begins
<1>4. f[0] = s
  BY <1>1 DEF IsAdjust, Begins
<1>5. AdjustTurn(s) = t
  BY <1>3, <1>e DEF AdjustTurn, Activated, KeptFrom
<1>6. AdjustTurn(t) = t
  BY <1>2 DEF AdjustTurn
<1>. DEFINE B == {c \in Nat : c + 1 <= e => f[c + 1] = t}
<1>7. 0 \in B
  <2>1. 1 \in 1..Len(l) /\ 1 - 1 = 0 /\ 0 + 1 = 1
    BY <1>e
  <2>2. f[1] = AdjustTurn(f[0])
    BY <1>1, <2>1 DEF IsAdjust
  <2>3. f[1] = t
    BY <1>4, <1>5, <2>2
  <2>. QED  BY <2>1, <2>3
<1>8. ASSUME NEW c \in Nat, c \in B  PROVE c + 1 \in B
  <2>. SUFFICES ASSUME (c + 1) + 1 <= e  PROVE f[(c + 1) + 1] = t
    OBVIOUS
  <2>1. f[c + 1] = t
    BY <1>8
  <2>. HIDE DEF B
  <2>2. (c + 1) + 1 \in 1..Len(l) /\ ((c + 1) + 1) - 1 = c + 1
    BY <1>e
  <2>3. f[(c + 1) + 1] = AdjustTurn(f[c + 1])
    BY <1>1, <2>2 DEF IsAdjust
  <2>. QED  BY <1>6, <2>1, <2>3
<1>. HIDE DEF B
<1>9. f[e] = t
  <2>1. e - 1 \in Nat /\ (e - 1) + 1 = e
    BY <1>e
  <2>2. e - 1 \in B
    BY <1>7, <1>8, <2>1, SetInduction
  <2>. QED  BY <2>1, <2>2 DEF B
<1>10. PICK c \in Cuts : c = [from |-> from, n |-> g]
  BY <1>g DEF Cuts
<1>11. c.from = from /\ c.n = g /\ << >> \in Seq(Cuts)
  BY <1>10
<1>12. PICK es : es = t.dels /\ es = <<c>> \o << >>
  BY <1>2, <1>3, <1>10
<1>13. Len(es) = 1 /\ es[1] = c
  BY <1>11, <1>12, FrontFacts
<1>14. PICK b : IsDeleted(b, t) /\ AllDeleted(t) = [t EXCEPT !.list = b[Len(t.dels)]]
  <2>1. Len(t.dels) \in Nat
    BY <1>12, <1>13
  <2>. QED  BY <2>1, DeletedTurns
<1>15. b[1] = Without(x, from, g)
  <2>1. 1 \in 1..Len(t.dels) /\ 1 - 1 = 0
    BY <1>12, <1>13
  <2>2. b[1] = Without(b[0], t.dels[1].from, t.dels[1].n) /\ b[0] = t.list
    BY <1>14, <2>1 DEF IsDeleted
  <2>. QED  BY <1>2, <1>11, <1>12, <1>13, <2>2
<1>16. a = [t EXCEPT !.list = b[1]]
  BY <1>1, <1>9, <1>12, <1>13, <1>14 DEF AdjustedTo
<1>17. a.i = i + d /\ a.list = b[1]
  <2>1. t = [list |-> x, i |-> i + d, dels |-> t.dels, more |-> FALSE]
    BY <1>2 DEF LeftBy, Left
  <2>. QED  BY <1>16, <2>1
<1>18. PICK z : z = a.list
  OBVIOUS
<1>19. Removed(x, from, g, z)
  BY <1>g, <1>15, <1>17, <1>18, WithoutMeans
<1>. QED  BY <1>g, <1>17, <1>18, <1>19 DEF Closes

\* What that leaves of the list.
LEMMA SpliceRemoved ==
  ASSUME NEW l \in Seq(Ranges), NEW i \in 1..Len(l), NEW p, NEW x, Replaced(l, i, p, x),
         NEW g \in Nat, i + g <= Len(l), NEW z, Removed(x, i + 1, g, z)
  PROVE  Spliced(l, i, g + 1, z, 1) /\ z[i] = p
<1>e. PICK e \in Nat : e = Len(l) /\ i \in 1..e
  OBVIOUS
<1>1. x \in Seq(Ranges) /\ Len(x) = e /\ x[i] = p /\ \A j \in 1..e : j # i => x[j] = l[j]
  BY <1>e DEF Replaced
<1>2. /\ z \in Seq(Ranges) /\ Len(z) = e - g
      /\ \A j \in 1..((i + 1) - 1) : z[j] = x[j]
      /\ \A j \in (i + 1)..(e - g) : z[j] = x[j + g]
  BY <1>1 DEF Removed
<1>3. z[i] = p
  <2>1. i \in 1..((i + 1) - 1)
    BY <1>e
  <2>. QED  BY <1>1, <1>2, <2>1
<1>4. ASSUME NEW j \in 1..(i - 1)  PROVE z[j] = l[j]
  <2>1. j \in 1..((i + 1) - 1) /\ j \in 1..e /\ j # i
    BY <1>e
  <2>. QED  BY <1>1, <1>2, <2>1
<1>5. ASSUME NEW j \in (i + (g + 1))..Len(l)  PROVE z[(j - (g + 1)) + 1] = l[j]
  <2>1. PICK y : y = (j - (g + 1)) + 1 /\ y \in (i + 1)..(e - g) /\ y + g = j /\ j \in 1..e /\ j # i
    BY <1>e
  <2>. QED  BY <1>1, <1>2, <2>1
<1>6. g + 1 \in Nat \ {0} /\ 1 \in {1, 2} /\ i + (g + 1) <= e + 1 /\ e - g = e - (g + 1) + 1
  BY <1>e
<1>. QED  BY <1>e, <1>2, <1>3, <1>4, <1>5, <1>6 DEF Spliced

\* The same where the next range has been cut.
LEMMA SpliceTrimmed ==
  ASSUME NEW l \in Seq(Ranges), NEW i \in 1..Len(l), NEW h \in (i + 1)..Len(l), NEW p, NEW x, Replaced(l, h, p, x),
         NEW z, Removed(x, i + 1, h - i - 1, z)
  PROVE  Spliced(l, i, h - i + 1, z, 2) /\ z[i] = l[i] /\ z[i + 1] = p
<1>e. PICK e \in Nat : e = Len(l) /\ i \in 1..e /\ h \in (i + 1)..e
  OBVIOUS
<1>g. PICK g \in Nat : g = h - i - 1
  BY <1>e
<1>1. x \in Seq(Ranges) /\ Len(x) = e /\ x[h] = p /\ \A j \in 1..e : j # h => x[j] = l[j]
  BY <1>e DEF Replaced
<1>2. /\ z \in Seq(Ranges) /\ Len(z) = e - g
      /\ \A j \in 1..((i + 1) - 1) : z[j] = x[j]
      /\ \A j \in (i + 1)..(e - g) : z[j] = x[j + g]
  BY <1>1, <1>g DEF Removed
<1>3. z[i] = l[i]
  <2>1. i \in 1..((i + 1) - 1) /\ i # h
    BY <1>e
  <2>. QED  BY <1>e, <1>1, <1>2, <2>1
<1>4. z[i + 1] = p
  <2>1. i + 1 \in (i + 1)..(e - g) /\ (i + 1) + g = h
    BY <1>e, <1>g
  <2>. QED  BY <1>1, <1>2, <2>1
<1>5. ASSUME NEW j \in 1..(i - 1)  PROVE z[j] = l[j]
  <2>1. j \in 1..((i + 1) - 1) /\ j \in 1..e /\ j # h
    BY <1>e
  <2>. QED  BY <1>1, <1>2, <2>1
<1>6. ASSUME NEW j \in (i + (h - i + 1))..Len(l)  PROVE z[(j - (h - i + 1)) + 2] = l[j]
  <2>1. PICK y : y = (j - (h - i + 1)) + 2 /\ y \in (i + 1)..(e - g) /\ y + g = j /\ j \in 1..e /\ j # h
    BY <1>e, <1>g
  <2>. QED  BY <1>1, <1>2, <2>1
<1>7. h - i + 1 \in Nat \ {0} /\ 2 \in {1, 2} /\ i + (h - i + 1) <= e + 1 /\ e - g = e - (h - i + 1) + 2
  BY <1>e, <1>g
<1>. QED  BY <1>e, <1>2, <1>3, <1>4, <1>5, <1>6, <1>7 DEF Spliced

\* What has taken the place of a range takes the place of the range it has replaced.
LEMMA SplicedTwice ==
  ASSUME NEW l \in Seq(Ranges), NEW i \in 1..Len(l), NEW p, NEW x, Replaced(l, i, p, x), NEW n, NEW z, NEW d, Spliced(x, i, n, z, d)
  PROVE  Spliced(l, i, n, z, d)
<1>e. PICK e \in Nat : e = Len(l) /\ i \in 1..e
  OBVIOUS
<1>1. x \in Seq(Ranges) /\ Len(x) = e /\ \A j \in 1..e : j # i => x[j] = l[j]
  BY <1>e DEF Replaced
<1>2. /\ z \in Seq(Ranges) /\ n \in Nat \ {0} /\ d \in {1, 2} /\ i + n <= e + 1 /\ Len(z) = e - n + d
      /\ \A j \in 1..(i - 1) : z[j] = x[j]
      /\ \A j \in (i + n)..e : z[(j - n) + d] = x[j]
  BY <1>1 DEF Spliced
<1>3. ASSUME NEW j \in 1..(i - 1)  PROVE z[j] = l[j]
  <2>1. j \in 1..e /\ j # i
    BY <1>e
  <2>. QED  BY <1>1, <1>2, <2>1
<1>4. ASSUME NEW j \in (i + n)..e  PROVE z[(j - n) + d] = l[j]
  <2>1. j \in 1..e /\ j # i
    BY <1>e, <1>2
  <2>. QED  BY <1>1, <1>2, <2>1
<1>. QED  BY <1>e, <1>2, <1>3, <1>4 DEF Spliced

\* Whether the ranges of the list and those of the changes are inheritable.
Flags(k, kc) == k \in BOOLEAN /\ kc \in BOOLEAN

\* The range before the one at hand.
Preceding(k, l, i, a) == a = Elem(k, l, i - 1) /\ a.end \in Int /\ a.inh \in BOOLEAN

\* A range as strong as those of the list.
Yields(k, p) == k => p.inh

\* adjust_remaining_ranges leaves no more ranges than before from the one at hand on.
Shrinks(l, i, b) == Len(b.list) \in Nat /\ b.i \in Nat /\ Len(b.list) - b.i <= Len(l) - i

\* Ranges that take the place of others leave no more of them.
LEMMA SplicedShrinks ==
  ASSUME NEW l \in Seq(Ranges), NEW i \in 1..Len(l), NEW n, NEW d, NEW b, Spliced(l, i, n, b.list, d),
         b.i = i \/ b.i = i + 1, d = 1 \/ b.i = i + 1
  PROVE  Shrinks(l, i, b)
<1>e. PICK e \in Nat : e = Len(l) /\ i \in 1..e
  OBVIOUS
<1>1. b.list \in Seq(Ranges) /\ n \in Nat \ {0} /\ d \in {1, 2} /\ i + n <= e + 1 /\ Len(b.list) = e - n + d
  BY <1>e DEF Spliced
<1>2. PICK g \in Nat, j \in Nat : g = Len(b.list) /\ j = b.i /\ (j = i \/ j = i + 1) /\ (d = 1 \/ j = i + 1)
  BY <1>e, <1>1
<1>3. g - j <= e - i
  BY <1>e, <1>1, <1>2
<1>. QED  BY <1>e, <1>2, <1>3 DEF Shrinks

\* A range before all changes that are left fits behind another one, wherever it meets it.
LEMMA MetFits ==
  ASSUME NEW kc \in BOOLEAN, NEW a, a.end \in Int, a.inh \in BOOLEAN, NEW p \in Ranges, NEW w \in Int, p.start < w, Met(a, p, kc, w)
  PROVE  Fits(a, p)
<1>1. p.start \in Int /\ p.inh \in BOOLEAN
  BY RangeFacts
<1>2. w # p.start
  BY <1>1
<1>. QED  BY <1>2 DEF Met, Fits

\* adjust_remaining_ranges where the ranges after the one at hand do not mix, and it covers none of
\* those that are stronger.
LEMMA AdjustTidy ==
  ASSUME NEW k, NEW kc, Flags(k, kc), NEW l \in Seq(Ranges), NEW i \in 1..Len(l), Spread(k, l, i),
         NEW a, Preceding(k, l, i, a), NEW w \in Int,
         NEW p \in Ranges, p.start < p.end, p.end < w, AtHand(k, kc, a, p, w), Yields(k, p),
         NEW x, Replaced(l, i, p, x), NEW b, AdjustedTo(x, i, b)
  PROVE  Tidy(k, kc, b.list, b.i, w) /\ Shrinks(l, i, b)
<1>e. PICK e \in Nat : e = Len(l) /\ i \in 1..e /\ i \in Nat
  OBVIOUS
<1>x. x \in Seq(Ranges) /\ Len(x) = e /\ x[i] = p /\ \A j \in 1..e : j # i => x[j] = l[j]
  BY <1>e DEF Replaced
<1>p. p.start \in Int /\ p.end \in Int /\ p.inh \in BOOLEAN /\ p.start \in 0..N /\ p.end \in 0..N /\ p.start < w
  BY RangeFacts
<1>s. PICK s, h, t : Begins(s, x, i) /\ KeptFrom(x, i, h) /\ Activated(s, h, t)
  BY DEF Begins, KeptFrom, Activated
<1>k. h \in (i + 1)..(e + 1) /\ (h = e + 1 \/ ~Absorbs(x[i], x[h]))
  <2>1. h = FirstKept(x, i) /\ e = Len(x) /\ i <= e
    BY <1>e, <1>x, <1>s DEF KeptFrom
  <2>. QED  BY <1>e, <2>1, FirstKeptFacts
<1>h. h \in (i + 1)..(e + 1) /\ h \in Nat /\ i < h
  BY <1>e, <1>k
<1>q. PICK q : q = x[h]
  OBVIOUS
<1>i. i \in 1..Len(x)
  BY <1>e, <1>x
<1>o. Outcomes(s, h, x, i, p, q)
  <2>1. x = s.list /\ i = s.i
    BY <1>s DEF Begins
  <2>. QED  BY <1>x, <1>h, <1>i, <1>q, <2>1, ActivationIs
<1>a. a = Elem(k, l, i - 1) /\ a.end \in Int /\ a.inh \in BOOLEAN
  BY DEF Preceding
<1>f. Fits(a, p)
  BY <1>p, <1>a, MetFits DEF AtHand, Flags
<1>A. ASSUME NEW y, NEW p2 \in Ranges, Replaced(x, i, p2, y), NEW d \in {0, 1}, NEW n \in {0, 1}, h - 1 + n <= e,
             LeftBy(t, s, i, h, y, d, n)
      PROVE  b.i = i + d /\ Spliced(l, i, h - i + n, b.list, 1) /\ b.list[i] = p2
  <2>1. y \in Seq(Ranges) /\ Len(y) = Len(x)
    BY <1>A DEF Replaced
  <2>2. LeftBy(t, s, i, h, y, d, n)
    BY <1>A
  <2>3. Closes(y, i, h - i - 1 + n, d, b)
    <3>1. h - 1 + n <= Len(x)
      BY <1>x, <1>A
    <3>. QED  BY <1>x, <1>i, <1>s, <1>A, <2>1, <2>2, <3>1, OneActivation, Zenon
  <2>4. PICK z : z = b.list
    OBVIOUS
  <2>5. b.i = i + d /\ Removed(y, i + 1, h - i - 1 + n, z)
    BY <2>3, <2>4 DEF Closes
  <2>n. n = 0 \/ n = 1
    OBVIOUS
  <2>6. PICK g \in Nat : g = h - i - 1 + n /\ i + g <= Len(x) /\ g + 1 = h - i + n
    <3>1. h - i - 1 + n \in Nat /\ i + (h - i - 1 + n) <= e /\ (h - i - 1 + n) + 1 = h - i + n
      BY <1>e, <1>h, <1>A, <2>n
    <3>. QED  BY <1>x, <3>1
  <2>7. Removed(y, i + 1, g, z)
    BY <2>5, <2>6
  <2>8. Spliced(x, i, g + 1, z, 1) /\ z[i] = p2
    BY <1>x, <1>i, <1>A, <2>6, <2>7, SpliceRemoved
  <2>9. Spliced(l, i, g + 1, z, 1)
    BY <2>8, SplicedTwice
  <2>. QED  BY <2>4, <2>5, <2>6, <2>8, <2>9
<1>L. ASSUME NEW y, NEW d, NEW n, t = Left(s, h, y, d, n, FALSE)  PROVE LeftBy(t, s, i, h, y, d, n)
  BY <1>s, <1>L DEF LeftBy, Begins
<1>R. Replaced(x, i, p, x)
  BY <1>x, <1>i, ReplacedByItself
<1>H. h - i + 0 = h - i /\ h - 1 + 0 <= e /\ (h <= e => h - 1 + 1 <= e /\ h - i + 1 \in Nat /\ h - i + 1 >= 2) /\ h - i \in Nat /\ h - i >= 1
      /\ i + (h - i) = h /\ i + (h - i + 1) = h + 1 /\ i + 0 = i
  BY <1>e, <1>h
<1>Q. PICK o : o = Elem(k, l, h)
  OBVIOUS
<1>1. ASSUME p.end < o.start, o.start \in Int, t = Left(s, h, x, 0, 0, FALSE)  PROVE Tidy(k, kc, b.list, b.i, w) /\ Shrinks(l, i, b)
  <2>1. b.i = i /\ Spliced(l, i, h - i, b.list, 1) /\ b.list[i] = p
    <3>1. LeftBy(t, s, i, h, x, 0, 0)
      BY <1>L, <1>1
    <3>. QED  BY <1>A, <1>R, <1>H, <3>1
  <2>2. Fits(p, o)
    BY <1>p, <1>1 DEF Fits
  <2>3. Tidy(k, kc, b.list, i, w)
    BY <1>a, <1>H, <1>Q, <2>1, <2>2, OneStays
  <2>5. Shrinks(l, i, b)
    BY <2>1, SplicedShrinks
  <2>. QED  BY <2>1, <2>3, <2>5
<1>2. CASE h > Len(x)
  <2>1. t = Left(s, h, x, 0, 0, FALSE)
    BY <1>s, <1>o, <1>2 DEF Outcomes, Activated
  <2>2. ~(h < 1) /\ h > Len(l)
    BY <1>e, <1>x, <1>h, <1>2
  <2>3. o = Span(N + 2, N + 3, k)
    BY <1>Q, <2>2 DEF Elem
  <2>4. o.start = N + 2
    BY <2>3 DEF Span
  <2>5. p.end < o.start /\ o.start \in Int
    BY <1>p, <2>4, NType
  <2>. QED  BY <1>1, <2>1, <2>5
<1>3. CASE h <= Len(x)
  <2>0. h \in 1..e /\ h # i /\ h <= e /\ ~(h < 1) /\ ~(h > Len(l)) /\ h \in (i + 1)..e
    BY <1>e, <1>x, <1>h, <1>3
  <2>1. o = q /\ q = l[h]
    BY <1>e, <1>x, <1>q, <1>Q, <2>0 DEF Elem
  <2>2. q \in Ranges /\ q.start \in Int /\ q.end \in Int /\ q.inh \in BOOLEAN /\ q.start \in 0..N /\ q.end \in 0..N
    BY <1>e, <2>0, <2>1, Elements
  <2>3. q.inh = k /\ q.start < q.end
    BY <1>e, <2>0, <2>1 DEF Spread
  <2>4. PICK v : v = Elem(k, l, h + 1)
    OBVIOUS
  <2>5. Fits(q, v)
    <3>1. h \in 0..Len(l) /\ h + 1 # i
      BY <1>e, <2>0
    <3>. QED  BY <1>Q, <2>1, <2>4, <3>1 DEF Spread
  <2>o. /\ p.end < q.start => t = Left(s, h, x, 0, 0, FALSE)
        /\ p.end = q.start /\ p.inh = q.inh => t = Left(s, h, Upto(x, i, q.end), 0, 1, FALSE)
        /\ p.end = q.start /\ p.inh # q.inh => t = Left(s, h, x, 1, 0, FALSE)
        /\ p.end > q.start /\ p.end = q.end /\ (p.inh \/ ~q.inh) => t = Left(s, h, x, 0, 1, FALSE)
        /\ p.end > q.start /\ p.end < q.end /\ p.inh = q.inh => t = Left(s, h, Upto(x, i, q.end), 0, 1, FALSE)
        /\ p.end > q.start /\ p.end < q.end /\ p.inh /\ ~q.inh =>
             t = Left(s, h, SetAt(x, h, [q EXCEPT !.start = p.end]), 1, 0, FALSE)
    BY <1>s, <1>o, <1>3 DEF Outcomes, Activated
  <2>6. CASE p.end < q.start
    BY <1>1, <2>o, <2>1, <2>2, <2>6
  <2>7. CASE q.start <= p.end /\ p.end < q.end /\ p.inh = q.inh
    <3>1. PICK m, y : m = [x[i] EXCEPT !.end = q.end] /\ y = Upto(x, i, q.end)
      OBVIOUS
    <3>2. Replaced(x, i, m, y) /\ m \in Ranges /\ m.start = p.start /\ m.end = q.end /\ m.inh = p.inh
      <4>1. Replaced(x, i, m, y) /\ m \in Ranges /\ m.start = x[i].start /\ m.end = q.end /\ m.inh = x[i].inh
        <5>1. PICK u \in 0..N : u = q.end
          BY <2>2
        <5>2. m = [x[i] EXCEPT !.end = u] /\ y = Upto(x, i, u)
          BY <3>1, <5>1
        <5>3. x \in Seq(Ranges)
          BY <1>x
        <5>4. Replaced(x, i, m, y) /\ m \in Ranges /\ m.start = x[i].start /\ m.end = u /\ m.inh = x[i].inh
          BY <1>i, <5>2, <5>3, UptoFacts
        <5>. QED  BY <5>1, <5>4
      <4>. QED  BY <1>x, <4>1
    <3>3. t = Left(s, h, y, 0, 1, FALSE)
      <4>1. p.end = q.start \/ p.end > q.start
        BY <1>p, <2>2, <2>7
      <4>. QED  BY <2>o, <2>7, <3>1, <4>1
    <3>4. b.i = i /\ Spliced(l, i, h - i + 1, b.list, 1) /\ b.list[i] = m
      <4>1. LeftBy(t, s, i, h, y, 0, 1)
        BY <1>L, <3>3
      <4>. QED  BY <1>A, <1>H, <2>0, <3>2, <4>1
    <3>5. Fits(m, v)
      BY <2>5, <2>7, <3>2 DEF Fits
    <3>6. m.start < m.end
      BY <1>p, <2>2, <2>7, <3>2
    <3>7. AtHand(k, kc, a, m, w)
      BY <2>3, <2>7, <3>2 DEF AtHand, Met, Past, Other
    <3>8. Tidy(k, kc, b.list, i, w)
      BY <1>a, <1>H, <2>4, <3>4, <3>5, <3>6, <3>7, OneStays
    <3>10. Shrinks(l, i, b)
      BY <3>4, SplicedShrinks
    <3>. QED  BY <3>4, <3>8, <3>10
  <2>8. CASE p.end = q.start /\ p.inh # q.inh
    <3>1. t = Left(s, h, x, 1, 0, FALSE)
      BY <2>o, <2>8
    <3>2. b.i = i + 1 /\ Spliced(l, i, h - i, b.list, 1) /\ b.list[i] = p
      <4>1. LeftBy(t, s, i, h, x, 1, 0)
        BY <1>L, <3>1
      <4>. QED  BY <1>A, <1>R, <1>H, <4>1
    <3>3. AtHand(k, kc, p, q, w)
      <4>1. Met(p, q, kc, w)
        BY <1>p, <2>2, <2>8 DEF Met
      <4>2. Past(p, q, kc, w)
        BY <1>p DEF Past
      <4>. QED  BY <2>3, <4>1, <4>2 DEF AtHand, Other
    <3>4. Tidy(k, kc, b.list, i + 1, w)
      BY <1>a, <1>f, <1>H, <1>Q, <2>1, <3>2, <3>3, OneMoves
    <3>6. Shrinks(l, i, b)
      BY <3>2, SplicedShrinks
    <3>. QED  BY <3>2, <3>4, <3>6
  <2>9. CASE p.end > q.start /\ p.end = q.end /\ (p.inh \/ ~q.inh)
    <3>1. t = Left(s, h, x, 0, 1, FALSE)
      BY <2>o, <2>9
    <3>2. b.i = i /\ Spliced(l, i, h - i + 1, b.list, 1) /\ b.list[i] = p
      <4>1. LeftBy(t, s, i, h, x, 0, 1)
        BY <1>L, <3>1
      <4>. QED  BY <1>A, <1>R, <1>H, <2>0, <4>1
    <3>3. v.inh = k /\ v.start \in Int
      <4>1. CASE h = e
        <5>1. ~(h + 1 < 1) /\ h + 1 > Len(l)
          BY <1>e, <2>0, <4>1
        <5>2. v = Span(N + 2, N + 3, k)
          BY <2>4, <5>1 DEF Elem
        <5>. QED  BY <5>2, NType DEF Span
      <4>2. CASE h # e
        <5>1. h + 1 \in 1..e /\ h + 1 \in (i + 1)..Len(l) /\ ~(h + 1 < 1) /\ ~(h + 1 > Len(l))
          BY <1>e, <2>0, <4>2
        <5>2. v = l[h + 1]
          BY <2>4, <5>1 DEF Elem
        <5>3. v.inh = k
          BY <5>1, <5>2 DEF Spread
        <5>. QED  BY <1>e, <5>1, <5>2, <5>3, Elements
      <4>. QED  BY <4>1, <4>2
    <3>4. q.end < v.start
      BY <2>2, <2>3, <2>5, <3>3 DEF Fits
    <3>5. Fits(p, v)
      BY <1>p, <2>9, <3>3, <3>4 DEF Fits
    <3>6. Tidy(k, kc, b.list, i, w)
      BY <1>a, <1>H, <2>4, <3>2, <3>5, OneStays
    <3>8. Shrinks(l, i, b)
      BY <3>2, SplicedShrinks
    <3>. QED  BY <3>2, <3>6, <3>8
  <2>10. CASE p.end > q.start /\ p.end < q.end /\ p.inh /\ ~q.inh
    <3>1. PICK m, y : m = [q EXCEPT !.start = p.end] /\ y = SetAt(x, h, m)
      OBVIOUS
    <3>2. m \in Ranges /\ m.start = p.end /\ m.end = q.end /\ m.inh = q.inh
      <4>1. PICK u \in 0..N : u = p.end
        BY <1>p
      <4>2. m = [q EXCEPT !.start = u]
        BY <3>1, <4>1
      <4>3. IsRange(m, u, q.end, q.inh)
        BY <2>2, <4>2, StartSet, Zenon
      <4>. QED  BY <4>1, <4>3 DEF IsRange
    <3>3. Replaced(x, h, m, y)
      BY <1>x, <2>0, <3>1, <3>2, SetAtMeans
    <3>4. LeftBy(t, s, i, h, y, 1, 0)
      <4>1. t = Left(s, h, y, 1, 0, FALSE)
        BY <2>o, <2>10, <3>1
      <4>. QED  BY <1>L, <4>1
    <3>5. y \in Seq(Ranges) /\ Len(y) = Len(x)
      BY <3>3 DEF Replaced
    <3>6. Closes(y, i, h - i - 1 + 0, 1, b)
      <4>1. h - 1 + 0 <= Len(x) /\ 1 \in {0, 1} /\ 0 \in {0, 1}
        BY <1>x, <1>H
      <4>. QED  BY <1>x, <1>i, <1>s, <3>4, <3>5, <4>1, OneActivation
    <3>7. PICK z : z = b.list
      OBVIOUS
    <3>8. b.i = i + 1 /\ Removed(y, i + 1, h - i - 1, z)
      <4>1. h - i - 1 + 0 = h - i - 1
        BY <1>e, <1>h
      <4>. QED  BY <3>6, <3>7, <4>1 DEF Closes
    <3>9. Spliced(x, i, h - i + 1, z, 2) /\ z[i] = p /\ z[i + 1] = m
      <4>1. x \in Seq(Ranges) /\ h \in (i + 1)..Len(x) /\ x[i] = p
        BY <1>x, <2>0
      <4>2. Removed(y, i + 1, h - i - 1, z)
        BY <3>8
      <4>3. Spliced(x, i, h - i + 1, z, 2) /\ z[i] = x[i] /\ z[i + 1] = m
        BY <1>i, <3>3, <4>1, <4>2, SpliceTrimmed
      <4>. QED  BY <4>1, <4>3
    <3>10. Spliced(l, i, h - i + 1, z, 2)
      BY <3>9, SplicedTwice
    <3>11. Fits(m, v)
      BY <2>5, <3>2 DEF Fits
    <3>12. m.start < m.end
      BY <1>p, <2>2, <2>10, <3>2
    <3>13. AtHand(k, kc, p, m, w)
      <4>0. p.inh # m.inh
        BY <1>p, <2>2, <2>10, <3>2
      <4>1. Met(p, m, kc, w)
        BY <1>p, <3>2, <4>0 DEF Met
      <4>2. Past(p, m, kc, w)
        BY <1>p DEF Past
      <4>. QED  BY <2>3, <3>2, <4>1, <4>2 DEF AtHand, Other
    <3>14. Tidy(k, kc, z, i + 1, w)
      BY <1>a, <1>f, <1>H, <2>4, <3>9, <3>10, <3>11, <3>12, <3>13, TwoMove
    <3>16. Shrinks(l, i, b)
      BY <3>7, <3>8, <3>10, SplicedShrinks
    <3>. QED  BY <3>7, <3>8, <3>14, <3>16
  <2>11. \/ p.end < q.start
         \/ q.start <= p.end /\ p.end < q.end /\ p.inh = q.inh
         \/ p.end = q.start /\ p.inh # q.inh
         \/ p.end > q.start /\ p.end = q.end /\ (p.inh \/ ~q.inh)
         \/ p.end > q.start /\ p.end < q.end /\ p.inh /\ ~q.inh
    <3>1. p.inh \/ ~q.inh
      BY <1>p, <2>2, <2>3 DEF Yields, Flags
    <3>2. ~Absorbs(p, q)
      <4>1. h # e + 1
        BY <1>e, <2>0
      <4>. QED  BY <1>x, <1>q, <1>k, <4>1
    <3>3. ~(p.end > q.start /\ p.end > q.end)
      BY <3>1, <3>2 DEF Absorbs
    <3>4. \/ p.end < q.start
          \/ p.end = q.start /\ q.start <= p.end /\ p.end < q.end
          \/ p.end > q.start /\ p.end = q.end
          \/ p.end > q.start /\ q.start <= p.end /\ p.end < q.end
      BY <1>p, <2>2, <2>3, <3>3
    <3>5. p.inh = TRUE \/ p.inh = FALSE
      BY <1>p
    <3>6. q.inh = TRUE \/ q.inh = FALSE
      BY <2>2
    <3>. QED  BY <3>1, <3>4, <3>5, <3>6
  <2>. QED  BY <2>6, <2>7, <2>8, <2>9, <2>10, <2>11
<1>. QED  BY <1>e, <1>x, <1>h, <1>2, <1>3

\* Changes of one inheritability that do not adjoin.
Apart(kc, cs) ==
  /\ cs \in Seq(Ranges)
  /\ \A y \in 1..Len(cs) : cs[y].start < cs[y].end /\ cs[y].inh = kc
  /\ \A y \in 1..(Len(cs) - 1) : cs[y].end < cs[y + 1].start

\* The changes that are left begin at w, after e.
LeftFrom(kc, cs, e, w) == Apart(kc, cs) /\ w = First(cs) /\ e < w /\ w \in Int

\* The loop comes nearer to its end: in the changes, in the list, or because the change now begins where the range does.
Advances(k, l, i, w, x, j, w2) ==
  \/ w < w2 /\ Len(x) - j <= Len(l) - i + 1
  \/ w2 = w /\ Len(x) - j < Len(l) - i
  \/ w2 = w /\ Len(x) - j = Len(l) - i /\ Elem(k, l, i).start < w /\ ~(Elem(k, x, j).start < w)

\* What a turn does with a list and changes that do not mix.
Progress(k, kc, l, i, w, t) ==
  /\ Apart(kc, t.changes)
  /\ Tidy(k, kc, t.list, t.i, First(t.changes))
  /\ Advances(k, l, i, w, t.list, t.i, First(t.changes))

\* After the first change the others are left.
LEMMA RestApart ==
  ASSUME NEW kc, NEW cs, Apart(kc, cs), cs # << >>, NEW rest, rest = Tail(cs), NEW c, c = cs[1], NEW w, w = First(rest)
  PROVE  LeftFrom(kc, rest, c.end, w)
<1>1. /\ cs \in Seq(Ranges)
      /\ \A y \in 1..Len(cs) : cs[y].start < cs[y].end /\ cs[y].inh = kc
      /\ \A y \in 1..(Len(cs) - 1) : cs[y].end < cs[y + 1].start
  BY DEF Apart
<1>2. /\ Len(cs) \in Nat /\ Len(cs) >= 1 /\ rest \in Seq(Ranges) /\ Len(rest) = Len(cs) - 1
      /\ \A y \in 1..(Len(cs) - 1) : rest[y] = cs[y + 1]
  BY <1>1, TailFacts
<1>n. PICK n \in Nat : n = Len(cs) /\ n >= 1
  BY <1>2, Zenon
<1>3. ASSUME NEW y \in 1..(n - 1)  PROVE rest[y].start < rest[y].end /\ rest[y].inh = kc
  <2>1. y + 1 \in 1..Len(cs) /\ y \in 1..(Len(cs) - 1)
    BY <1>n
  <2>. QED  BY <1>1, <1>2, <2>1
<1>4. ASSUME NEW y \in 1..(n - 1 - 1)  PROVE rest[y].end < rest[y + 1].start
  <2>1. y + 1 \in 1..(Len(cs) - 1) /\ y \in 1..(Len(cs) - 1)
    BY <1>n
  <2>2. rest[y] = cs[y + 1] /\ rest[y + 1] = cs[(y + 1) + 1] /\ cs[y + 1].end < cs[(y + 1) + 1].start
    BY <1>1, <1>2, <2>1
  <2>. QED  BY <2>2
<1>5. Apart(kc, rest)
  BY <1>n, <1>2, <1>3, <1>4 DEF Apart
<1>6. 1 \in 1..Len(cs)
  BY <1>n
<1>7. c.end \in 0..N
  BY <1>1, <1>6, Elements
<1>8. c.end < w /\ w \in Int
  <2>1. CASE rest = << >>
    <3>1. w = N + 1
      BY <2>1 DEF First
    <3>. QED  BY <1>7, <3>1, NType
  <2>2. CASE rest # << >>
    <3>0. Len(rest) # 0
      BY <1>2, <2>2
    <3>1. 1 \in 1..(Len(cs) - 1) /\ 1 + 1 = 2 /\ 2 \in 1..Len(cs)
      BY <1>n, <1>2, <3>0
    <3>2. w = cs[2].start /\ cs[1].end < cs[2].start
      BY <1>1, <1>2, <2>2, <3>1 DEF First
    <3>3. cs[2].start \in Int
      BY <1>1, <3>1, Elements
    <3>. QED  BY <3>2, <3>3
  <2>. QED  BY <2>1, <2>2
<1>. QED  BY <1>5, <1>8 DEF LeftFrom

\* A change of which the first part is dealt with.
LEMMA CutApart ==
  ASSUME NEW kc, NEW cs, Apart(kc, cs), cs # << >>, NEW c, c = cs[1], NEW e \in 0..N, e < c.end, NEW x, x = CutFirst(cs, c, e)
  PROVE  Apart(kc, x) /\ First(x) = e
<1>1. /\ cs \in Seq(Ranges)
      /\ \A y \in 1..Len(cs) : cs[y].start < cs[y].end /\ cs[y].inh = kc
      /\ \A y \in 1..(Len(cs) - 1) : cs[y].end < cs[y + 1].start
  BY DEF Apart
<1>n. PICK n \in Nat : n = Len(cs) /\ n >= 1
  BY <1>1
<1>c. 1 \in 1..Len(cs)
  BY <1>n
<1>0. c \in Ranges
  BY <1>1, <1>c, Elements
<1>2. PICK g : g = [c EXCEPT !.start = e]
  OBVIOUS
<1>3. g \in Ranges /\ g.start = e /\ g.end = c.end /\ g.inh = c.inh
  <2>1. IsRange(g, e, c.end, c.inh)
    BY <1>0, <1>2, StartSet, Zenon
  <2>. QED  BY <2>1 DEF IsRange
<1>4. x = SetAt(cs, 1, g)
  BY <1>2 DEF CutFirst
<1>5. Replaced(cs, 1, g, x)
  BY <1>1, <1>c, <1>3, <1>4, SetAtMeans
<1>6. x \in Seq(Ranges) /\ Len(x) = n /\ x[1] = g /\ \A y \in 1..n : y # 1 => x[y] = cs[y]
  BY <1>n, <1>5 DEF Replaced
<1>7. ASSUME NEW y \in 1..n  PROVE x[y].start < x[y].end /\ x[y].inh = kc
  <2>1. cs[y].start < cs[y].end /\ cs[y].inh = kc
    BY <1>1, <1>n
  <2>2. CASE y = 1
    BY <1>3, <1>6, <2>1, <2>2
  <2>3. CASE y # 1
    BY <1>6, <2>1, <2>3
  <2>. QED  BY <2>2, <2>3
<1>8. ASSUME NEW y \in 1..(n - 1)  PROVE x[y].end < x[y + 1].start
  <2>0. y \in 1..(Len(cs) - 1) /\ y + 1 \in 1..n /\ y + 1 # 1 /\ y \in 1..n
    BY <1>n
  <2>1. cs[y].end < cs[y + 1].start /\ x[y + 1] = cs[y + 1]
    BY <1>1, <1>6, <2>0
  <2>2. CASE y = 1
    BY <1>3, <1>6, <2>1, <2>2
  <2>3. CASE y # 1
    BY <1>6, <2>0, <2>1, <2>3
  <2>. QED  BY <2>2, <2>3
<1>9. Apart(kc, x)
  BY <1>6, <1>7, <1>8 DEF Apart
<1>10. x # << >>
  BY <1>n, <1>6
<1>. QED  BY <1>3, <1>6, <1>9, <1>10 DEF First

\* A turn after which the changes begin later comes nearer to the end.
LEMMA SplicedAdvances ==
  ASSUME NEW k, NEW l \in Seq(Ranges), NEW i \in 1..Len(l), NEW n, NEW x, NEW d, Spliced(l, i, n, x, d), NEW j \in {i, i + 1},
         NEW w, NEW w2, w < w2
  PROVE  Advances(k, l, i, w, x, j, w2)
<1>0. x \in Seq(Ranges)
  BY DEF Spliced
<1>e. PICK e \in Nat, g \in Nat : e = Len(l) /\ g = Len(x) /\ i \in 1..e
  BY <1>0
<1>1. n \in Nat \ {0} /\ d \in {1, 2} /\ g = e - n + d
  BY <1>e DEF Spliced
<1>2. g - j <= e - i + 1
  BY <1>e, <1>1
<1>. QED  BY <1>e, <1>2 DEF Advances

\* A turn of the loop of svn_rangelist_merge2 on a list and changes that do not mix.
LEMMA MergeStepTidy ==
  ASSUME NEW k, NEW kc, Flags(k, kc), NEW l, NEW i, NEW cs, Apart(kc, cs), cs # << >>, NEW w, w = First(cs),
         Tidy(k, kc, l, i, w), i <= Len(l), NEW t, t = MergeStep(MS(l, i, cs))
  PROVE  Progress(k, kc, l, i, w, t)
<1>c. PICK c, rest : c = cs[1] /\ rest = Tail(cs)
  OBVIOUS
<1>d. cs \in Seq(Ranges) /\ 1 \in 1..Len(cs) /\ c = Head(cs)
  BY <1>c DEF Apart
<1>e. c \in Ranges /\ c.start < c.end /\ c.inh = kc /\ w = c.start
  BY <1>c, <1>d, Elements DEF Apart, First
<1>p. PICK a, r, q : a = Elem(k, l, i - 1) /\ r = l[i] /\ q = Elem(k, l, i + 1)
  OBVIOUS
<1>h. /\ l \in Seq(Ranges) /\ i \in 1..Len(l) /\ r \in Ranges /\ r.start < r.end
      /\ AtHand(k, kc, a, r, w) /\ Fits(r, q) /\ a.end \in Int /\ a.inh \in BOOLEAN
      /\ q.start \in Int /\ q.inh = k
  BY <1>p, HandFacts DEF Flags
<1>l. l \in Seq(Ranges) /\ i \in 1..Len(l) /\ Spread(k, l, i)
  BY <1>h DEF Tidy
<1>i. i \in {i, i + 1} /\ i + 1 \in {i, i + 1} /\ i \in 1..(Len(l) + 1) /\ i + 1 \in 1..(Len(l) + 1)
  BY <1>l
<1>r. r \in Ranges /\ c \in Ranges
  BY <1>e, <1>h
<1>t. /\ r.start \in Int /\ r.end \in Int /\ c.start \in Int /\ c.end \in Int /\ w \in Int
      /\ r.inh \in BOOLEAN /\ c.inh \in BOOLEAN /\ k \in BOOLEAN /\ kc \in BOOLEAN
      /\ r.start \in 0..N /\ r.end \in 0..N /\ c.start \in 0..N /\ c.end \in 0..N
  BY <1>r, <1>e, RangeFacts DEF Flags
<1>v. r.start < r.end /\ c.start < c.end
  BY <1>e, <1>h
<1>a. /\ a.end <= r.start /\ (a.end = r.start => a.inh # r.inh \/ (c.start = r.start /\ c.inh /\ ~r.inh))
      /\ a.end <= c.start /\ (a.end = c.start => a.inh # c.inh \/ (r.start = c.start /\ r.inh))
      /\ r.inh = k \/ (r.inh = c.inh /\ (c.inh \/ r.end < c.start))
  BY <1>e, <1>h DEF AtHand, Met, Past, Other
<1>q. r.end <= q.start /\ (r.end = q.start => r.inh # q.inh)
  BY <1>h DEF Fits
<1>y. q.start \in Int /\ q.inh = k /\ a.end \in Int /\ a.inh \in BOOLEAN /\ c.inh = kc /\ w = c.start
  BY <1>e, <1>h
<1>s. MergeCases(l, i, cs, rest, r, c, t)
  BY <1>c, <1>d, <1>p, <1>r, MergeStepIs
<1>R. PICK z : LeftFrom(kc, rest, c.end, z)
  BY <1>c, RestApart
<1>z. Apart(kc, rest) /\ First(rest) = z /\ c.end < z /\ z \in Int
  BY <1>R DEF LeftFrom
<1>F. ASSUME NEW e \in 0..N, e < c.end  PROVE Apart(kc, CutFirst(cs, c, e)) /\ First(CutFirst(cs, c, e)) = e
  BY <1>c, <1>F, CutApart
<1>E. ASSUME NEW p \in Ranges  PROVE Spliced(l, i, 1, SetAt(l, i, p), 1) /\ SetAt(l, i, p)[i] = p
  <2>1. PICK x : x = SetAt(l, i, p)
    OBVIOUS
  <2>2. Replaced(l, i, p, x)
    BY <1>l, <1>E, <2>1, SetAtMeans
  <2>3. Spliced(l, i, 1, x, 1) /\ x[i] = p
    BY <1>l, <1>E, <2>2, SpliceSet
  <2>. QED  BY <2>1, <2>3
<1>K. Spliced(l, i, 1, l, 1) /\ l[i] = r
  <2>1. Replaced(l, i, r, l)
    BY <1>l, <1>p, ReplacedByItself
  <2>. QED  BY <1>l, <1>r, <2>1, SpliceSet
<1>P. ASSUME NEW p \in Ranges, NEW b \in Ranges
      PROVE  Spliced(l, i, 1, InsertAt(SetAt(l, i, p), i, b), 2) /\ InsertAt(SetAt(l, i, p), i, b)[i] = b /\ InsertAt(SetAt(l, i, p), i, b)[i + 1] = p
  <2>1. PICK y, x : y = SetAt(l, i, p) /\ x = InsertAt(y, i, b)
    OBVIOUS
  <2>2. Replaced(l, i, p, y)
    BY <1>l, <1>P, <2>1, SetAtMeans
  <2>3. y \in Seq(Ranges) /\ Len(y) = Len(l)
    BY <2>2 DEF Replaced
  <2>4. i \in 1..(Len(y) + 1)
    BY <1>i, <2>3
  <2>5. Inserted(y, i, b, x)
    BY <1>P, <2>1, <2>3, <2>4, InsertAtMeans
  <2>6. Spliced(l, i, 1, x, 2) /\ x[i] = b /\ x[i + 1] = p
    BY <1>l, <1>P, <2>2, <2>5, SplicePut
  <2>. QED  BY <2>1, <2>6
<1>I. ASSUME NEW b \in Ranges
      PROVE  Spliced(l, i, 1, InsertAt(l, i, b), 2) /\ InsertAt(l, i, b)[i] = b /\ InsertAt(l, i, b)[i + 1] = r
  <2>1. PICK x : x = InsertAt(l, i, b)
    OBVIOUS
  <2>2. Replaced(l, i, r, l)
    BY <1>l, <1>p, ReplacedByItself
  <2>3. Inserted(l, i, b, x)
    BY <1>l, <1>i, <1>I, <2>1, InsertAtMeans
  <2>4. Spliced(l, i, 1, x, 2) /\ x[i] = b /\ x[i + 1] = r
    BY <1>l, <1>r, <1>I, <2>2, <2>3, SplicePut
  <2>. QED  BY <2>1, <2>4
<1>A. ASSUME NEW b \in Ranges
      PROVE  Spliced(l, i, 1, InsertAt(SetAt(l, i, c), i + 1, b), 2) /\ InsertAt(SetAt(l, i, c), i + 1, b)[i] = c /\ InsertAt(SetAt(l, i, c), i + 1, b)[i + 1] = b
  <2>1. PICK y, x : y = SetAt(l, i, c) /\ x = InsertAt(y, i + 1, b)
    OBVIOUS
  <2>2. Replaced(l, i, c, y)
    BY <1>l, <1>r, <2>1, SetAtMeans
  <2>3. y \in Seq(Ranges) /\ Len(y) = Len(l)
    BY <2>2 DEF Replaced
  <2>4. i + 1 \in 1..(Len(y) + 1)
    BY <1>i, <2>3
  <2>5. Inserted(y, i + 1, b, x)
    BY <1>A, <2>1, <2>3, <2>4, InsertAtMeans
  <2>6. Spliced(l, i, 1, x, 2) /\ x[i] = c /\ x[i + 1] = b
    BY <1>l, <1>r, <1>A, <2>2, <2>5, SpliceAfter
  <2>. QED  BY <2>1, <2>6
<1>Z. ASSUME NEW x, NEW j, NEW cs2, NEW w2, Apart(kc, cs2), w2 = First(cs2), Tidy(k, kc, x, j, w2), Advances(k, l, i, w, x, j, w2), t = MS(x, j, cs2)
      PROVE  Progress(k, kc, l, i, w, t)
  <2>1. t.list = x /\ t.i = j /\ t.changes = cs2
    BY <1>Z, FieldsIs
  <2>. QED  BY <1>Z, <2>1 DEF Progress
<1>X. ASSUME NEW x, NEW j \in {i, i + 1}, NEW d, NEW cs2, NEW w2, Apart(kc, cs2), w2 = First(cs2), w < w2, Spliced(l, i, 1, x, d),
             Tidy(k, kc, x, j, w2), t = MS(x, j, cs2)
      PROVE  Progress(k, kc, l, i, w, t)
  <2>1. Advances(k, l, i, w, x, j, w2)
    BY <1>l, <1>X, SplicedAdvances
  <2>. QED  BY <1>X, <1>Z, <2>1
<1>b. /\ Before(r, c) => r.start <= c.start /\ (r.start = c.start => r.end < c.end)
      /\ ~Before(r, c) => c.start <= r.start /\ (r.start = c.start => c.end <= r.end)
  BY <1>t DEF Before
<1>1. CASE TurnEqual(l, i, cs, rest, r, c, t)
  <2>0. r.start = c.start /\ r.end = c.end
    BY <1>t, <1>v, <1>b, <1>1 DEF TurnEqual
  <2>1. PICK p : p = [r EXCEPT !.inh = r.inh \/ c.inh]
    OBVIOUS
  <2>2. p \in Ranges /\ p.start = r.start /\ p.end = r.end /\ (p.inh <=> r.inh \/ c.inh) /\ p.inh \in BOOLEAN
    BY <1>r, <1>t, <2>1, RangeFacts, PieceFacts
  <2>3. PICK x : x = SetAt(l, i, p)
    OBVIOUS
  <2>4. Spliced(l, i, 1, x, 1) /\ x[i] = p
    BY <1>r, <1>E, <2>3, <2>2
  <2>5. p.start < p.end
    BY <1>t, <1>v, <1>a, <1>q, <1>y, <1>z, <2>0, <2>2
  <2>6. Fits(a, p)
    BY <1>t, <1>v, <1>a, <1>q, <1>y, <1>z, <2>0, <2>2 DEF Fits
  <2>7. Met(p, q, kc, z)
    BY <1>t, <1>v, <1>a, <1>q, <1>y, <1>z, <2>0, <2>2 DEF Met
  <2>8. p.end \in Int /\ p.end < z
    BY <1>t, <1>v, <1>a, <1>y, <1>z, <2>0, <2>2
  <2>9. Past(p, q, kc, z)
    BY <1>t, <1>z, <2>8 DEF Past
  <2>10. Other(q, k, kc, z)
    BY <1>t, <1>v, <1>a, <1>q, <1>y, <1>z, <2>0, <2>2 DEF Other
  <2>11. AtHand(k, kc, p, q, z)
    BY <2>7, <2>9, <2>10 DEF AtHand
  <2>12. Tidy(k, kc, x, i + 1, z)
    BY <1>l, <1>p, <2>4, <2>5, <2>6, <2>11, OneMoves
  <2>13. t = MS(x, i + 1, rest)
    BY <1>1, <2>3, <2>1 DEF TurnEqual
  <2>14. w < z
    BY <1>t, <1>v, <1>a, <1>q, <1>y, <1>z, <2>0, <2>2
  <2>. QED  BY <1>X, <1>i, <1>z, <2>4, <2>12, <2>13, <2>14
<1>2. CASE TurnSkipped(l, i, cs, rest, r, c, t)
  <2>0. r.end <= c.start /\ r.start < c.start
    BY <1>t, <1>v, <1>b, <1>2 DEF TurnSkipped
  <2>h. r.end < c.start \/ r.inh # c.inh
    BY <1>t, <1>2 DEF TurnSkipped
  <2>1. PICK x : x = l
    OBVIOUS
  <2>2. Spliced(l, i, 1, x, 1) /\ x[i] = r
    BY <1>r, <1>K, <2>1
  <2>3. r.start < r.end
    BY <1>t, <1>v, <1>a, <1>q, <1>y, <2>0, <2>h
  <2>4. Fits(a, r)
    BY <1>t, <1>v, <1>a, <1>q, <1>y, <2>0, <2>h DEF Fits
  <2>5. Met(r, q, kc, w)
    BY <1>t, <1>v, <1>a, <1>q, <1>y, <2>0, <2>h DEF Met
  <2>6. Past(r, q, kc, w)
    BY <1>t, <1>v, <1>a, <1>q, <1>y, <2>0, <2>h DEF Past
  <2>7. Other(q, k, kc, w)
    BY <1>t, <1>v, <1>a, <1>q, <1>y, <2>0, <2>h DEF Other
  <2>8. AtHand(k, kc, r, q, w)
    BY <2>5, <2>6, <2>7 DEF AtHand
  <2>9. Tidy(k, kc, x, i + 1, w)
    BY <1>l, <1>p, <2>2, <2>3, <2>4, <2>8, OneMoves
  <2>10. t = MS(x, i + 1, cs)
    BY <1>2, <2>1 DEF TurnSkipped
  <2>11. Advances(k, l, i, w, x, i + 1, w)
    <3>1. Len(x) = Len(l) /\ Len(l) \in Nat
      BY <1>l, <2>2 DEF Spliced
    <3>2. Len(x) - (i + 1) < Len(l) - i
      BY <1>l, <3>1
    <3>. QED  BY <3>2 DEF Advances
  <2>. QED  BY <1>Z, <2>9, <2>10, <2>11
<1>3. CASE TurnWithin(l, i, cs, rest, r, c, t)
  <2>0. r.start <= c.start /\ c.end <= r.end /\ (r.start = c.start => r.end < c.end)
    BY <1>t, <1>v, <1>b, <1>3 DEF TurnWithin
  <2>h. r.inh \/ ~c.inh
    BY <1>t, <1>3 DEF TurnWithin
  <2>1. PICK x : x = l
    OBVIOUS
  <2>2. Spliced(l, i, 1, x, 1) /\ x[i] = r
    BY <1>r, <1>K, <2>1
  <2>3. r.start < r.end
    BY <1>t, <1>v, <1>a, <1>q, <1>y, <1>z, <2>0, <2>h
  <2>4. Met(a, r, kc, z)
    BY <1>t, <1>v, <1>a, <1>q, <1>y, <1>z, <2>0, <2>h DEF Met
  <2>5. a.end \in Int /\ a.end < z
    BY <1>t, <1>v, <1>a, <1>y, <1>z, <2>0
  <2>6. Past(a, r, kc, z)
    BY <1>t, <1>z, <2>5 DEF Past
  <2>7. Other(r, k, kc, z)
    BY <1>t, <1>v, <1>a, <1>q, <1>y, <1>z, <2>0, <2>h DEF Other
  <2>8. AtHand(k, kc, a, r, z)
    BY <2>4, <2>6, <2>7 DEF AtHand
  <2>9. Fits(r, q)
    BY <1>t, <1>v, <1>a, <1>q, <1>y, <1>z, <2>0, <2>h DEF Fits
  <2>10. Tidy(k, kc, x, i, z)
    BY <1>l, <1>p, <2>2, <2>3, <2>8, <2>9, OneStays
  <2>11. t = MS(x, i, rest)
    BY <1>3, <2>1 DEF TurnWithin
  <2>12. w < z
    BY <1>t, <1>v, <1>a, <1>q, <1>y, <1>z, <2>0, <2>h
  <2>. QED  BY <1>X, <1>i, <1>z, <2>2, <2>10, <2>11, <2>12
<1>4. CASE TurnBeyond(l, i, cs, rest, r, c, t)
  <2>0. r.start <= c.start /\ c.start < r.end /\ r.end < c.end
    BY <1>t, <1>v, <1>b, <1>4 DEF TurnBeyond
  <2>h. r.inh \/ ~c.inh
    BY <1>t, <1>4 DEF TurnBeyond
  <2>1. Apart(kc, CutFirst(cs, c, r.end)) /\ First(CutFirst(cs, c, r.end)) = r.end
    BY <1>t, <2>0, <1>F
  <2>2. PICK x : x = l
    OBVIOUS
  <2>3. Spliced(l, i, 1, x, 1) /\ x[i] = r
    BY <1>r, <1>K, <2>2
  <2>4. r.start < r.end
    BY <1>t, <1>v, <1>a, <1>q, <1>y, <2>0, <2>h
  <2>5. Met(a, r, kc, r.end)
    BY <1>t, <1>v, <1>a, <1>q, <1>y, <2>0, <2>h DEF Met
  <2>6. a.end \in Int /\ a.end < r.end
    BY <1>t, <1>v, <1>a, <1>y, <2>0
  <2>7. Past(a, r, kc, r.end)
    BY <1>t, <1>z, <2>6 DEF Past
  <2>8. Other(r, k, kc, r.end)
    BY <1>t, <1>v, <1>a, <1>q, <1>y, <2>0, <2>h DEF Other
  <2>9. AtHand(k, kc, a, r, r.end)
    BY <2>5, <2>7, <2>8 DEF AtHand
  <2>10. Fits(r, q)
    BY <1>t, <1>v, <1>a, <1>q, <1>y, <2>0, <2>h DEF Fits
  <2>11. Tidy(k, kc, x, i, r.end)
    BY <1>l, <1>p, <2>3, <2>4, <2>9, <2>10, OneStays
  <2>12. t = MS(x, i, CutFirst(cs, c, r.end))
    BY <1>4, <2>2 DEF TurnBeyond
  <2>13. w < r.end
    BY <1>t, <1>v, <1>a, <1>q, <1>y, <2>0, <2>h
  <2>. QED  BY <1>X, <1>i, <2>1, <2>3, <2>11, <2>12, <2>13
<1>5. CASE TurnDivide(l, i, cs, rest, r, c, t)
  <2>0. r.start < c.start /\ c.start < r.end
    BY <1>t, <1>v, <1>b, <1>5 DEF TurnDivide
  <2>h. ~r.inh /\ c.inh
    BY <1>t, <1>5 DEF TurnDivide
  <2>g. r.inh = FALSE /\ c.inh = TRUE
    BY <1>t, <2>h
  <2>1. PICK p : p = [r EXCEPT !.start = c.start]
    OBVIOUS
  <2>2. p \in Ranges /\ p.start = c.start /\ p.end = r.end /\ (p.inh = r.inh) /\ p.inh \in BOOLEAN
    BY <1>r, <1>t, StartSet, <2>1, Zenon DEF IsRange
  <2>3. PICK b : b = [r EXCEPT !.end = c.start]
    OBVIOUS
  <2>4. b \in Ranges /\ b.start = r.start /\ b.end = c.start /\ (b.inh = r.inh) /\ b.inh \in BOOLEAN
    BY <1>r, <1>t, EndSet, <2>3, Zenon DEF IsRange
  <2>5. PICK x : x = InsertAt(SetAt(l, i, p), i, b)
    OBVIOUS
  <2>6. Spliced(l, i, 1, x, 2) /\ x[i] = b /\ x[i + 1] = p
    BY <1>r, <1>P, <2>5, <2>2, <2>4
  <2>7. b.start < b.end /\ p.start < p.end
    BY <1>t, <1>v, <1>a, <1>q, <1>y, <2>0, <2>g, <2>2, <2>4
  <2>8. Fits(a, b)
    BY <1>t, <1>v, <1>a, <1>q, <1>y, <2>0, <2>g, <2>2, <2>4 DEF Fits
  <2>9. Met(b, p, kc, w)
    BY <1>t, <1>v, <1>a, <1>q, <1>y, <2>0, <2>g, <2>2, <2>4 DEF Met
  <2>10. Past(b, p, kc, w)
    <3>1. b.inh # kc
      BY <1>y, <2>g, <2>4
    <3>2. b.end <= w
      BY <1>t, <1>y, <2>4
    <3>. QED  BY <3>1, <3>2 DEF Past
  <2>11. Other(p, k, kc, w)
    BY <1>t, <1>v, <1>a, <1>q, <1>y, <2>0, <2>g, <2>2, <2>4 DEF Other
  <2>12. AtHand(k, kc, b, p, w)
    BY <2>9, <2>10, <2>11 DEF AtHand
  <2>13. Fits(p, q)
    BY <1>t, <1>v, <1>a, <1>q, <1>y, <2>0, <2>g, <2>2, <2>4 DEF Fits
  <2>14. Tidy(k, kc, x, i + 1, w)
    BY <1>l, <1>p, <2>6, <2>7, <2>8, <2>12, <2>13, TwoMove
  <2>15. t = MS(x, i + 1, cs)
    BY <1>5, <2>5, <2>1, <2>3 DEF TurnDivide
  <2>16. Advances(k, l, i, w, x, i + 1, w)
    <3>1. Len(x) = Len(l) - 1 + 2 /\ Len(l) \in Nat
      BY <1>l, <2>6 DEF Spliced
    <3>2. Len(x) - (i + 1) = Len(l) - i /\ ~(i < 1) /\ ~(i > Len(l)) /\ ~(i + 1 < 1) /\ ~(i + 1 > Len(x))
      BY <1>l, <3>1
    <3>3. Elem(k, l, i) = r /\ Elem(k, x, i + 1) = p
      BY <1>p, <2>6, <3>2 DEF Elem
    <3>4. r.start < w /\ ~(p.start < w)
      BY <1>t, <1>y, <2>0, <2>2
    <3>. QED  BY <3>2, <3>3, <3>4 DEF Advances
  <2>. QED  BY <1>Z, <2>14, <2>15, <2>16
<1>6. CASE TurnStrengthen(l, i, cs, rest, r, c, t)
  <2>0. r.start = c.start /\ c.start < r.end /\ r.end < c.end
    BY <1>t, <1>v, <1>b, <1>6 DEF TurnStrengthen
  <2>h. ~r.inh /\ c.inh
    BY <1>t, <1>6 DEF TurnStrengthen
  <2>g. r.inh = FALSE /\ c.inh = TRUE
    BY <1>t, <2>h
  <2>1. PICK p : p = [r EXCEPT !.inh = TRUE]
    OBVIOUS
  <2>2. p \in Ranges /\ p.start = r.start /\ p.end = r.end /\ (p.inh <=> TRUE) /\ p.inh \in BOOLEAN
    BY <1>r, <1>t, <2>1, RangeFacts, PieceFacts
  <2>3. Apart(kc, CutFirst(cs, c, r.end)) /\ First(CutFirst(cs, c, r.end)) = r.end
    BY <1>t, <2>0, <1>F
  <2>4. PICK x : x = SetAt(l, i, p)
    OBVIOUS
  <2>5. Spliced(l, i, 1, x, 1) /\ x[i] = p
    BY <1>r, <1>E, <2>4, <2>2
  <2>6. p.start < p.end
    BY <1>t, <1>v, <1>a, <1>q, <1>y, <2>0, <2>g, <2>2
  <2>7. Met(a, p, kc, r.end)
    BY <1>t, <1>v, <1>a, <1>q, <1>y, <2>0, <2>g, <2>2 DEF Met
  <2>8. a.end \in Int /\ a.end < r.end
    BY <1>t, <1>v, <1>a, <1>y, <2>0, <2>2
  <2>9. Past(a, p, kc, r.end)
    BY <1>t, <1>z, <2>8 DEF Past
  <2>10. Other(p, k, kc, r.end)
    BY <1>t, <1>v, <1>a, <1>q, <1>y, <2>0, <2>g, <2>2 DEF Other
  <2>11. AtHand(k, kc, a, p, r.end)
    BY <2>7, <2>9, <2>10 DEF AtHand
  <2>12. Fits(p, q)
    BY <1>t, <1>v, <1>a, <1>q, <1>y, <2>0, <2>g, <2>2 DEF Fits
  <2>13. Tidy(k, kc, x, i, r.end)
    BY <1>l, <1>p, <2>5, <2>6, <2>11, <2>12, OneStays
  <2>14. t = MS(x, i, CutFirst(cs, c, r.end))
    BY <1>6, <2>4, <2>1 DEF TurnStrengthen
  <2>15. w < r.end
    BY <1>t, <1>v, <1>a, <1>q, <1>y, <2>0, <2>g, <2>2
  <2>. QED  BY <1>X, <1>i, <2>3, <2>5, <2>13, <2>14, <2>15
<1>7. CASE TurnAhead(l, i, cs, rest, r, c, t)
  <2>0. c.start <= r.start /\ c.end < r.start
    BY <1>t, <1>v, <1>b, <1>7 DEF TurnAhead
  <2>1. PICK x : x = InsertAt(l, i, c)
    OBVIOUS
  <2>2. Spliced(l, i, 1, x, 2) /\ x[i] = c /\ x[i + 1] = r
    BY <1>r, <1>I, <2>1
  <2>3. c.start < c.end /\ r.start < r.end
    BY <1>t, <1>v, <1>a, <1>q, <1>y, <1>z, <2>0
  <2>4. Fits(a, c)
    BY <1>t, <1>v, <1>a, <1>q, <1>y, <1>z, <2>0 DEF Fits
  <2>5. Met(c, r, kc, z)
    BY <1>t, <1>v, <1>a, <1>q, <1>y, <1>z, <2>0 DEF Met
  <2>6. c.end \in Int /\ c.end < z
    BY <1>t, <1>v, <1>a, <1>y, <1>z, <2>0
  <2>7. Past(c, r, kc, z)
    BY <1>t, <1>z, <2>6 DEF Past
  <2>8. Other(r, k, kc, z)
    BY <1>t, <1>v, <1>a, <1>q, <1>y, <1>z, <2>0 DEF Other
  <2>9. AtHand(k, kc, c, r, z)
    BY <2>5, <2>7, <2>8 DEF AtHand
  <2>10. Fits(r, q)
    BY <1>t, <1>v, <1>a, <1>q, <1>y, <1>z, <2>0 DEF Fits
  <2>11. Tidy(k, kc, x, i + 1, z)
    BY <1>l, <1>p, <2>2, <2>3, <2>4, <2>9, <2>10, TwoMove
  <2>12. t = MS(x, i + 1, rest)
    BY <1>7, <2>1 DEF TurnAhead
  <2>13. w < z
    BY <1>t, <1>v, <1>a, <1>q, <1>y, <1>z, <2>0
  <2>. QED  BY <1>X, <1>i, <1>z, <2>2, <2>11, <2>12, <2>13
<1>8. CASE TurnJoined(l, i, cs, rest, r, c, t)
  <2>0. c.end = r.start
    BY <1>t, <1>v, <1>b, <1>8 DEF TurnJoined
  <2>h. r.inh = c.inh
    BY <1>t, <1>8 DEF TurnJoined
  <2>1. PICK p : p = [r EXCEPT !.start = c.start]
    OBVIOUS
  <2>2. p \in Ranges /\ p.start = c.start /\ p.end = r.end /\ (p.inh = r.inh) /\ p.inh \in BOOLEAN
    BY <1>r, <1>t, StartSet, <2>1, Zenon DEF IsRange
  <2>3. PICK x : x = SetAt(l, i, p)
    OBVIOUS
  <2>4. Spliced(l, i, 1, x, 1) /\ x[i] = p
    BY <1>r, <1>E, <2>3, <2>2
  <2>5. p.start < p.end
    BY <1>t, <1>v, <1>a, <1>q, <1>y, <1>z, <2>0, <2>h, <2>2
  <2>6. Met(a, p, kc, z)
    BY <1>t, <1>v, <1>a, <1>q, <1>y, <1>z, <2>0, <2>h, <2>2 DEF Met
  <2>7. a.end \in Int /\ a.end < z
    BY <1>t, <1>v, <1>a, <1>y, <1>z, <2>0, <2>2
  <2>8. Past(a, p, kc, z)
    BY <1>t, <1>z, <2>7 DEF Past
  <2>9. Other(p, k, kc, z)
    BY <1>t, <1>v, <1>a, <1>q, <1>y, <1>z, <2>0, <2>h, <2>2 DEF Other
  <2>10. AtHand(k, kc, a, p, z)
    BY <2>6, <2>8, <2>9 DEF AtHand
  <2>11. Fits(p, q)
    BY <1>t, <1>v, <1>a, <1>q, <1>y, <1>z, <2>0, <2>h, <2>2 DEF Fits
  <2>12. Tidy(k, kc, x, i, z)
    BY <1>l, <1>p, <2>4, <2>5, <2>10, <2>11, OneStays
  <2>13. t = MS(x, i, rest)
    BY <1>8, <2>3, <2>1 DEF TurnJoined
  <2>14. w < z
    BY <1>t, <1>v, <1>a, <1>q, <1>y, <1>z, <2>0, <2>h, <2>2
  <2>. QED  BY <1>X, <1>i, <1>z, <2>4, <2>12, <2>13, <2>14
<1>9. CASE TurnWidened(l, i, cs, rest, r, c, t)
  <2>0. c.end > r.start /\ c.end <= r.end /\ c.start <= r.start
    BY <1>t, <1>v, <1>b, <1>9 DEF TurnWidened
  <2>h. r.inh = c.inh
    BY <1>t, <1>9 DEF TurnWidened
  <2>1. PICK p : p = [r EXCEPT !.start = c.start]
    OBVIOUS
  <2>2. p \in Ranges /\ p.start = c.start /\ p.end = r.end /\ (p.inh = r.inh) /\ p.inh \in BOOLEAN
    BY <1>r, <1>t, StartSet, <2>1, Zenon DEF IsRange
  <2>3. PICK x : x = SetAt(l, i, p)
    OBVIOUS
  <2>4. Spliced(l, i, 1, x, 1) /\ x[i] = p
    BY <1>r, <1>E, <2>3, <2>2
  <2>5. p.start < p.end
    BY <1>t, <1>v, <1>a, <1>q, <1>y, <1>z, <2>0, <2>h, <2>2
  <2>6. Met(a, p, kc, z)
    BY <1>t, <1>v, <1>a, <1>q, <1>y, <1>z, <2>0, <2>h, <2>2 DEF Met
  <2>7. a.end \in Int /\ a.end < z
    BY <1>t, <1>v, <1>a, <1>y, <1>z, <2>0, <2>2
  <2>8. Past(a, p, kc, z)
    BY <1>t, <1>z, <2>7 DEF Past
  <2>9. Other(p, k, kc, z)
    BY <1>t, <1>v, <1>a, <1>q, <1>y, <1>z, <2>0, <2>h, <2>2 DEF Other
  <2>10. AtHand(k, kc, a, p, z)
    BY <2>6, <2>8, <2>9 DEF AtHand
  <2>11. Fits(p, q)
    BY <1>t, <1>v, <1>a, <1>q, <1>y, <1>z, <2>0, <2>h, <2>2 DEF Fits
  <2>12. Tidy(k, kc, x, i, z)
    BY <1>l, <1>p, <2>4, <2>5, <2>10, <2>11, OneStays
  <2>13. t = MS(x, i, rest)
    BY <1>9, <2>3, <2>1 DEF TurnWidened
  <2>14. w < z
    BY <1>t, <1>v, <1>a, <1>q, <1>y, <1>z, <2>0, <2>h, <2>2
  <2>. QED  BY <1>X, <1>i, <1>z, <2>4, <2>12, <2>13, <2>14
<1>10. CASE TurnFront(l, i, cs, rest, r, c, t)
  <2>0. c.start < r.start /\ r.start < c.end
    BY <1>t, <1>v, <1>b, <1>10 DEF TurnFront
  <2>h. r.inh /\ ~c.inh
    BY <1>t, <1>10 DEF TurnFront
  <2>g. r.inh = TRUE /\ c.inh = FALSE
    BY <1>t, <2>h
  <2>1. PICK b : b = [c EXCEPT !.end = r.start]
    OBVIOUS
  <2>2. b \in Ranges /\ b.start = c.start /\ b.end = r.start /\ (b.inh = c.inh) /\ b.inh \in BOOLEAN
    BY <1>r, <1>t, EndSet, <2>1, Zenon DEF IsRange
  <2>3. Apart(kc, CutFirst(cs, c, r.start)) /\ First(CutFirst(cs, c, r.start)) = r.start
    BY <1>t, <2>0, <1>F
  <2>4. PICK x : x = InsertAt(l, i, b)
    OBVIOUS
  <2>5. Spliced(l, i, 1, x, 2) /\ x[i] = b /\ x[i + 1] = r
    BY <1>r, <1>I, <2>4, <2>2
  <2>6. b.start < b.end /\ r.start < r.end
    BY <1>t, <1>v, <1>a, <1>q, <1>y, <2>0, <2>g, <2>2
  <2>7. Fits(a, b)
    BY <1>t, <1>v, <1>a, <1>q, <1>y, <2>0, <2>g, <2>2 DEF Fits
  <2>8. Met(b, r, kc, r.start)
    BY <1>t, <1>v, <1>a, <1>q, <1>y, <2>0, <2>g, <2>2 DEF Met
  <2>9. Past(b, r, kc, r.start)
    BY <1>t, <1>v, <1>a, <1>q, <1>y, <2>0, <2>g, <2>2 DEF Past
  <2>10. Other(r, k, kc, r.start)
    BY <1>t, <1>v, <1>a, <1>q, <1>y, <2>0, <2>g, <2>2 DEF Other
  <2>11. AtHand(k, kc, b, r, r.start)
    BY <2>8, <2>9, <2>10 DEF AtHand
  <2>12. Fits(r, q)
    BY <1>t, <1>v, <1>a, <1>q, <1>y, <2>0, <2>g, <2>2 DEF Fits
  <2>13. Tidy(k, kc, x, i + 1, r.start)
    BY <1>l, <1>p, <2>5, <2>6, <2>7, <2>11, <2>12, TwoMove
  <2>14. t = MS(x, i + 1, CutFirst(cs, c, r.start))
    BY <1>10, <2>4, <2>1 DEF TurnFront
  <2>15. w < r.start
    BY <1>t, <1>v, <1>a, <1>q, <1>y, <2>0, <2>g, <2>2
  <2>. QED  BY <1>X, <1>i, <2>3, <2>5, <2>13, <2>14, <2>15
<1>11. CASE TurnInside(l, i, cs, rest, r, c, t)
  <2>0. r.start = c.start /\ c.end <= r.end
    BY <1>t, <1>v, <1>b, <1>11 DEF TurnInside
  <2>h. r.inh /\ ~c.inh
    BY <1>t, <1>11 DEF TurnInside
  <2>g. r.inh = TRUE /\ c.inh = FALSE
    BY <1>t, <2>h
  <2>1. PICK x : x = l
    OBVIOUS
  <2>2. Spliced(l, i, 1, x, 1) /\ x[i] = r
    BY <1>r, <1>K, <2>1
  <2>3. r.start < r.end
    BY <1>t, <1>v, <1>a, <1>q, <1>y, <1>z, <2>0, <2>g
  <2>4. Met(a, r, kc, z)
    BY <1>t, <1>v, <1>a, <1>q, <1>y, <1>z, <2>0, <2>g DEF Met
  <2>5. a.end \in Int /\ a.end < z
    BY <1>t, <1>v, <1>a, <1>y, <1>z, <2>0
  <2>6. Past(a, r, kc, z)
    BY <1>t, <1>z, <2>5 DEF Past
  <2>7. Other(r, k, kc, z)
    BY <1>t, <1>v, <1>a, <1>q, <1>y, <1>z, <2>0, <2>g DEF Other
  <2>8. AtHand(k, kc, a, r, z)
    BY <2>4, <2>6, <2>7 DEF AtHand
  <2>9. Fits(r, q)
    BY <1>t, <1>v, <1>a, <1>q, <1>y, <1>z, <2>0, <2>g DEF Fits
  <2>10. Tidy(k, kc, x, i, z)
    BY <1>l, <1>p, <2>2, <2>3, <2>8, <2>9, OneStays
  <2>11. t = MS(x, i, rest)
    BY <1>11, <2>1 DEF TurnInside
  <2>12. w < z
    BY <1>t, <1>v, <1>a, <1>q, <1>y, <1>z, <2>0, <2>g
  <2>. QED  BY <1>X, <1>i, <1>z, <2>2, <2>10, <2>11, <2>12
<1>12. CASE TurnPrefix(l, i, cs, rest, r, c, t)
  <2>0. r.start = c.start /\ c.end < r.end
    BY <1>t, <1>v, <1>b, <1>12 DEF TurnPrefix
  <2>h. ~r.inh /\ c.inh
    BY <1>t, <1>12 DEF TurnPrefix
  <2>g. r.inh = FALSE /\ c.inh = TRUE
    BY <1>t, <2>h
  <2>1. PICK p : p = [r EXCEPT !.start = c.end]
    OBVIOUS
  <2>2. p \in Ranges /\ p.start = c.end /\ p.end = r.end /\ (p.inh = r.inh) /\ p.inh \in BOOLEAN
    BY <1>r, <1>t, StartSet, <2>1, Zenon DEF IsRange
  <2>3. PICK x : x = InsertAt(SetAt(l, i, p), i, c)
    OBVIOUS
  <2>4. Spliced(l, i, 1, x, 2) /\ x[i] = c /\ x[i + 1] = p
    BY <1>r, <1>P, <2>3, <2>2
  <2>5. c.start < c.end /\ p.start < p.end
    BY <1>t, <1>v, <1>a, <1>q, <1>y, <1>z, <2>0, <2>g, <2>2
  <2>6. Fits(a, c)
    BY <1>t, <1>v, <1>a, <1>q, <1>y, <1>z, <2>0, <2>g, <2>2 DEF Fits
  <2>7. Met(c, p, kc, z)
    <3>1. c.inh # p.inh
      BY <2>g, <2>2
    <3>2. c.end <= p.start
      BY <1>t, <2>2
    <3>. QED  BY <3>1, <3>2 DEF Met
  <2>8. c.end \in Int /\ c.end < z
    BY <1>t, <1>v, <1>a, <1>y, <1>z, <2>0, <2>2
  <2>9. Past(c, p, kc, z)
    BY <1>t, <1>z, <2>8 DEF Past
  <2>10. Other(p, k, kc, z)
    BY <1>t, <1>v, <1>a, <1>q, <1>y, <1>z, <2>0, <2>g, <2>2 DEF Other
  <2>11. AtHand(k, kc, c, p, z)
    BY <2>7, <2>9, <2>10 DEF AtHand
  <2>12. Fits(p, q)
    BY <1>t, <1>v, <1>a, <1>q, <1>y, <1>z, <2>0, <2>g, <2>2 DEF Fits
  <2>13. Tidy(k, kc, x, i + 1, z)
    BY <1>l, <1>p, <2>4, <2>5, <2>6, <2>11, <2>12, TwoMove
  <2>14. t = MS(x, i + 1, rest)
    BY <1>12, <2>3, <2>1 DEF TurnPrefix
  <2>15. w < z
    BY <1>t, <1>v, <1>a, <1>q, <1>y, <1>z, <2>0, <2>g, <2>2
  <2>. QED  BY <1>X, <1>i, <1>z, <2>4, <2>13, <2>14, <2>15
<1>13. CASE TurnOver(l, i, cs, rest, r, c, t)
  <2>0. c.start < r.start /\ r.start < c.end /\ c.start < r.end /\ r.end < c.end
    BY <1>t, <1>v, <1>b, <1>13 DEF TurnOver
  <2>h. ~r.inh /\ c.inh
    BY <1>t, <1>13 DEF TurnOver
  <2>g. r.inh = FALSE /\ c.inh = TRUE
    BY <1>t, <2>h
  <2>1. PICK p : p = [c EXCEPT !.end = r.end]
    OBVIOUS
  <2>2. p \in Ranges /\ p.start = c.start /\ p.end = r.end /\ (p.inh = c.inh) /\ p.inh \in BOOLEAN
    BY <1>r, <1>t, EndSet, <2>1, Zenon DEF IsRange
  <2>3. Apart(kc, CutFirst(cs, c, r.end)) /\ First(CutFirst(cs, c, r.end)) = r.end
    BY <1>t, <2>0, <1>F
  <2>4. PICK x : x = SetAt(l, i, p)
    OBVIOUS
  <2>5. Spliced(l, i, 1, x, 1) /\ x[i] = p
    BY <1>r, <1>E, <2>4, <2>2
  <2>6. p.start < p.end
    BY <1>t, <1>v, <1>a, <1>q, <1>y, <2>0, <2>g, <2>2
  <2>7. Met(a, p, kc, r.end)
    BY <1>t, <1>v, <1>a, <1>q, <1>y, <2>0, <2>g, <2>2 DEF Met
  <2>8. a.end \in Int /\ a.end < r.end
    BY <1>t, <1>v, <1>a, <1>y, <2>0, <2>2
  <2>9. Past(a, p, kc, r.end)
    BY <1>t, <1>z, <2>8 DEF Past
  <2>10. Other(p, k, kc, r.end)
    BY <1>t, <1>v, <1>a, <1>q, <1>y, <2>0, <2>g, <2>2 DEF Other
  <2>11. AtHand(k, kc, a, p, r.end)
    BY <2>7, <2>9, <2>10 DEF AtHand
  <2>12. Fits(p, q)
    BY <1>t, <1>v, <1>a, <1>q, <1>y, <2>0, <2>g, <2>2 DEF Fits
  <2>13. Tidy(k, kc, x, i, r.end)
    BY <1>l, <1>p, <2>5, <2>6, <2>11, <2>12, OneStays
  <2>14. t = MS(x, i, CutFirst(cs, c, r.end))
    BY <1>13, <2>4, <2>1 DEF TurnOver
  <2>15. w < r.end
    BY <1>t, <1>v, <1>a, <1>q, <1>y, <2>0, <2>g, <2>2
  <2>. QED  BY <1>X, <1>i, <2>3, <2>5, <2>13, <2>14, <2>15
<1>14. CASE TurnLevel(l, i, cs, rest, r, c, t)
  <2>0. c.start < r.start /\ c.end = r.end
    BY <1>t, <1>v, <1>b, <1>14 DEF TurnLevel
  <2>h. ~r.inh /\ c.inh
    BY <1>t, <1>14 DEF TurnLevel
  <2>g. r.inh = FALSE /\ c.inh = TRUE
    BY <1>t, <2>h
  <2>1. PICK x : x = SetAt(l, i, c)
    OBVIOUS
  <2>2. Spliced(l, i, 1, x, 1) /\ x[i] = c
    BY <1>r, <1>E, <2>1
  <2>3. c.start < c.end
    BY <1>t, <1>v, <1>a, <1>q, <1>y, <1>z, <2>0, <2>g
  <2>4. Met(a, c, kc, z)
    BY <1>t, <1>v, <1>a, <1>q, <1>y, <1>z, <2>0, <2>g DEF Met
  <2>5. a.end \in Int /\ a.end < z
    BY <1>t, <1>v, <1>a, <1>y, <1>z, <2>0
  <2>6. Past(a, c, kc, z)
    BY <1>t, <1>z, <2>5 DEF Past
  <2>7. Other(c, k, kc, z)
    BY <1>t, <1>v, <1>a, <1>q, <1>y, <1>z, <2>0, <2>g DEF Other
  <2>8. AtHand(k, kc, a, c, z)
    BY <2>4, <2>6, <2>7 DEF AtHand
  <2>9. Fits(c, q)
    BY <1>t, <1>v, <1>a, <1>q, <1>y, <1>z, <2>0, <2>g DEF Fits
  <2>10. Tidy(k, kc, x, i, z)
    BY <1>l, <1>p, <2>2, <2>3, <2>8, <2>9, OneStays
  <2>11. t = MS(x, i, rest)
    BY <1>14, <2>1 DEF TurnLevel
  <2>12. w < z
    BY <1>t, <1>v, <1>a, <1>q, <1>y, <1>z, <2>0, <2>g
  <2>. QED  BY <1>X, <1>i, <1>z, <2>2, <2>10, <2>11, <2>12
<1>15. CASE TurnOverlapped(l, i, cs, rest, r, c, t)
  <2>0. c.start < r.start /\ r.start < c.end /\ c.end < r.end
    BY <1>t, <1>v, <1>b, <1>15 DEF TurnOverlapped
  <2>h. ~r.inh /\ c.inh
    BY <1>t, <1>15 DEF TurnOverlapped
  <2>g. r.inh = FALSE /\ c.inh = TRUE
    BY <1>t, <2>h
  <2>1. PICK p : p = [r EXCEPT !.start = c.end]
    OBVIOUS
  <2>2. p \in Ranges /\ p.start = c.end /\ p.end = r.end /\ (p.inh = r.inh) /\ p.inh \in BOOLEAN
    BY <1>r, <1>t, StartSet, <2>1, Zenon DEF IsRange
  <2>3. PICK x : x = InsertAt(SetAt(l, i, c), i + 1, p)
    OBVIOUS
  <2>4. Spliced(l, i, 1, x, 2) /\ x[i] = c /\ x[i + 1] = p
    BY <1>r, <1>A, <2>3, <2>2
  <2>5. c.start < c.end /\ p.start < p.end
    BY <1>t, <1>v, <1>a, <1>q, <1>y, <1>z, <2>0, <2>g, <2>2
  <2>6. Fits(a, c)
    BY <1>t, <1>v, <1>a, <1>q, <1>y, <1>z, <2>0, <2>g, <2>2 DEF Fits
  <2>7. Met(c, p, kc, z)
    <3>1. c.inh # p.inh
      BY <2>g, <2>2
    <3>2. c.end <= p.start
      BY <1>t, <2>2
    <3>. QED  BY <3>1, <3>2 DEF Met
  <2>8. c.end \in Int /\ c.end < z
    BY <1>t, <1>v, <1>a, <1>y, <1>z, <2>0, <2>2
  <2>9. Past(c, p, kc, z)
    BY <1>t, <1>z, <2>8 DEF Past
  <2>10. Other(p, k, kc, z)
    BY <1>t, <1>v, <1>a, <1>q, <1>y, <1>z, <2>0, <2>g, <2>2 DEF Other
  <2>11. AtHand(k, kc, c, p, z)
    BY <2>7, <2>9, <2>10 DEF AtHand
  <2>12. Fits(p, q)
    BY <1>t, <1>v, <1>a, <1>q, <1>y, <1>z, <2>0, <2>g, <2>2 DEF Fits
  <2>13. Tidy(k, kc, x, i + 1, z)
    BY <1>l, <1>p, <2>4, <2>5, <2>6, <2>11, <2>12, TwoMove
  <2>14. t = MS(x, i + 1, rest)
    BY <1>15, <2>3, <2>1 DEF TurnOverlapped
  <2>15. w < z
    BY <1>t, <1>v, <1>a, <1>q, <1>y, <1>z, <2>0, <2>g, <2>2
  <2>. QED  BY <1>X, <1>i, <1>z, <2>4, <2>13, <2>14, <2>15
<1>16. CASE TurnBeside(l, i, cs, rest, r, c, t)
  <2>0. c.start < r.start /\ c.end = r.start
    BY <1>t, <1>v, <1>b, <1>16 DEF TurnBeside
  <2>h. r.inh # c.inh
    BY <1>t, <1>16 DEF TurnBeside
  <2>1. PICK x : x = InsertAt(l, i, c)
    OBVIOUS
  <2>2. Spliced(l, i, 1, x, 2) /\ x[i] = c /\ x[i + 1] = r
    BY <1>r, <1>I, <2>1
  <2>3. c.start < c.end /\ r.start < r.end
    BY <1>t, <1>v, <1>a, <1>q, <1>y, <1>z, <2>0, <2>h
  <2>4. Met(a, c, kc, z)
    BY <1>t, <1>v, <1>a, <1>q, <1>y, <1>z, <2>0, <2>h DEF Met
  <2>5. a.end \in Int /\ a.end < z
    BY <1>t, <1>v, <1>a, <1>y, <1>z, <2>0
  <2>6. Past(a, c, kc, z)
    BY <1>t, <1>z, <2>5 DEF Past
  <2>7. Other(c, k, kc, z)
    BY <1>t, <1>v, <1>a, <1>q, <1>y, <1>z, <2>0, <2>h DEF Other
  <2>8. AtHand(k, kc, a, c, z)
    BY <2>4, <2>6, <2>7 DEF AtHand
  <2>9. Fits(c, r)
    BY <1>t, <1>v, <1>a, <1>q, <1>y, <1>z, <2>0, <2>h DEF Fits
  <2>10. r.inh = k
    BY <1>t, <1>v, <1>a, <1>q, <1>y, <1>z, <2>0, <2>h
  <2>11. Fits(r, q)
    BY <1>t, <1>v, <1>a, <1>q, <1>y, <1>z, <2>0, <2>h DEF Fits
  <2>12. Tidy(k, kc, x, i, z)
    BY <1>l, <1>p, <2>2, <2>3, <2>8, <2>9, <2>10, <2>11, TwoStay
  <2>13. t = MS(x, i, rest)
    BY <1>16, <2>1 DEF TurnBeside
  <2>14. w < z
    BY <1>t, <1>v, <1>a, <1>q, <1>y, <1>z, <2>0, <2>h
  <2>. QED  BY <1>X, <1>i, <1>z, <2>2, <2>12, <2>13, <2>14
<1>17. CASE TurnGrown(l, i, cs, rest, r, c, t)
  <2>0. r.end = c.start
    BY <1>t, <1>v, <1>b, <1>17 DEF TurnGrown
  <2>h. r.inh = c.inh
    BY <1>t, <1>17 DEF TurnGrown
  <2>1. PICK p : p = [r EXCEPT !.end = c.end]
    OBVIOUS
  <2>2. p \in Ranges /\ p.start = r.start /\ p.end = c.end /\ p.inh = r.inh
    BY <2>1, <1>r, <1>t, EndSet, Zenon DEF IsRange
  <2>3. PICK x, b : x = SetAt(l, i, p) /\ AdjustedTo(x, i, b)
    BY DEF AdjustedTo
  <2>4. Replaced(l, i, p, x)
    BY <1>l, <2>2, <2>3, SetAtMeans
  <2>5. Met(a, p, kc, z)
    BY <1>t, <1>v, <1>a, <1>y, <1>z, <2>0, <2>h, <2>2 DEF Met
  <2>6. Past(a, p, kc, z)
    BY <1>t, <1>v, <1>a, <1>y, <1>z, <2>0, <2>h, <2>2 DEF Past
  <2>7. Other(p, k, kc, z)
    BY <1>t, <1>v, <1>a, <1>y, <1>z, <2>0, <2>h, <2>2 DEF Other
  <2>8. AtHand(k, kc, a, p, z)
    BY <2>5, <2>6, <2>7 DEF AtHand
  <2>9. Yields(k, p)
    <3>1. r.inh = k \/ c.inh
      BY <1>t, <1>v, <1>a, <2>0
    <3>. QED  BY <1>t, <2>h, <2>2, <3>1 DEF Yields
  <2>10. p.start < p.end /\ p.end < z
    BY <1>t, <1>v, <1>a, <1>y, <1>z, <2>0, <2>h, <2>2
  <2>11. Preceding(k, l, i, a)
    BY <1>p, <1>y DEF Preceding
  <2>12. Tidy(k, kc, b.list, b.i, z) /\ Shrinks(l, i, b)
    BY <1>l, <1>z, <2>2, <2>3, <2>4, <2>8, <2>9, <2>10, <2>11, AdjustTidy
  <2>13. Advances(k, l, i, w, b.list, b.i, z)
    <3>1. PICK g \in Nat, j \in Nat, e \in Nat : g = Len(b.list) /\ j = b.i /\ e = Len(l) /\ g - j <= e - i /\ i \in 1..e
      BY <1>l, <2>12 DEF Shrinks
    <3>2. g - j <= e - i + 1
      BY <3>1
    <3>3. w < z
      BY <1>t, <1>v, <1>y, <1>z
    <3>. QED  BY <3>1, <3>2, <3>3 DEF Advances
  <2>14. t = MS(b.list, b.i, rest)
    BY <1>17, <2>1, <2>3 DEF TurnGrown, AdjustedTo
  <2>. QED  BY <1>Z, <1>z, <2>12, <2>13, <2>14
<1>18. CASE TurnSwallowed(l, i, cs, rest, r, c, t)
  <2>0. c.start < r.start /\ r.end < c.end
    BY <1>t, <1>v, <1>b, <1>18 DEF TurnSwallowed
  <2>h. r.inh = c.inh
    BY <1>t, <1>18 DEF TurnSwallowed
  <2>2. c \in Ranges /\ c.start = c.start /\ c.end = c.end /\ c.inh = c.inh
    BY <1>r
  <2>3. PICK x, b : x = SetAt(l, i, c) /\ AdjustedTo(x, i, b)
    BY DEF AdjustedTo
  <2>4. Replaced(l, i, c, x)
    BY <1>l, <2>2, <2>3, SetAtMeans
  <2>5. Met(a, c, kc, z)
    BY <1>t, <1>v, <1>a, <1>y, <1>z, <2>0, <2>h, <2>2 DEF Met
  <2>6. Past(a, c, kc, z)
    BY <1>t, <1>v, <1>a, <1>y, <1>z, <2>0, <2>h, <2>2 DEF Past
  <2>7. Other(c, k, kc, z)
    BY <1>t, <1>v, <1>a, <1>y, <1>z, <2>0, <2>h, <2>2 DEF Other
  <2>8. AtHand(k, kc, a, c, z)
    BY <2>5, <2>6, <2>7 DEF AtHand
  <2>9. Yields(k, c)
    <3>1. r.inh = k \/ c.inh
      BY <1>t, <1>v, <1>a, <2>0
    <3>. QED  BY <1>t, <2>h, <2>2, <3>1 DEF Yields
  <2>10. c.start < c.end /\ c.end < z
    BY <1>t, <1>v, <1>a, <1>y, <1>z, <2>0, <2>h, <2>2
  <2>11. Preceding(k, l, i, a)
    BY <1>p, <1>y DEF Preceding
  <2>12. Tidy(k, kc, b.list, b.i, z) /\ Shrinks(l, i, b)
    BY <1>l, <1>z, <2>2, <2>3, <2>4, <2>8, <2>9, <2>10, <2>11, AdjustTidy
  <2>13. Advances(k, l, i, w, b.list, b.i, z)
    <3>1. PICK g \in Nat, j \in Nat, e \in Nat : g = Len(b.list) /\ j = b.i /\ e = Len(l) /\ g - j <= e - i /\ i \in 1..e
      BY <1>l, <2>12 DEF Shrinks
    <3>2. g - j <= e - i + 1
      BY <3>1
    <3>3. w < z
      BY <1>t, <1>v, <1>y, <1>z
    <3>. QED  BY <3>1, <3>2, <3>3 DEF Advances
  <2>14. t = MS(b.list, b.i, rest)
    BY <1>18, <2>3 DEF TurnSwallowed, AdjustedTo
  <2>. QED  BY <1>Z, <1>z, <2>12, <2>13, <2>14
<1>. QED  BY <1>s, <1>1, <1>2, <1>3, <1>4, <1>5, <1>6, <1>7, <1>8, <1>9, <1>10, <1>11, <1>12, <1>13, <1>14, <1>15, <1>16, <1>17, <1>18 DEF MergeCases

\* Where changes may begin.
LEMMA FirstFacts ==
  ASSUME NEW kc, NEW cs, Apart(kc, cs), NEW w, w = First(cs)
  PROVE  w \in 0..(N + 1) /\ w \in Int /\ (cs # << >> => w <= N /\ w = cs[1].start /\ cs[1].inh = kc)
<1>1. CASE cs = << >>
  <2>1. w = N + 1
    BY <1>1 DEF First
  <2>. QED  BY <1>1, <2>1
<1>2. CASE cs # << >>
  <2>1. cs \in Seq(Ranges) /\ 1 \in 1..Len(cs)
    BY <1>2 DEF Apart
  <2>2. w = cs[1].start
    BY <1>2 DEF First
  <2>3. cs[1].start \in 0..N
    BY <2>1, Elements
  <2>4. cs[1].inh = kc
    BY <2>1 DEF Apart
  <2>. QED  BY <2>2, <2>3, <2>4
<1>. QED  BY <1>1, <1>2

\* The shortest list, pair by pair.
LEMMA ShortestIf ==
  ASSUME NEW l \in Seq(Ranges), \A j \in 1..Len(l) : l[j].start < l[j].end, \A j \in 1..(Len(l) - 1) : Fits(l[j], l[j + 1])
  PROVE  Shortest(l)
<1>n. PICK e \in Nat : e = Len(l)
  OBVIOUS
<1>1. ASSUME NEW j \in 1..e, j < e  PROVE l[j].end <= l[j + 1].start
  <2>1. j \in 1..(e - 1)
    BY <1>1
  <2>. QED  BY <1>n, <2>1 DEF Fits
<1>2. ASSUME NEW j \in 1..(e - 1)  PROVE l[j].end = l[j + 1].start => l[j].inh # l[j + 1].inh
  BY <1>n DEF Fits
<1>3. Valid(l)
  BY <1>n, <1>1 DEF Valid
<1>. QED  BY <1>n, <1>2, <1>3 DEF Shortest

\* Two neighbours in the shortest list do not overlap, and adjoin only if one of them is inheritable.
LEMMA ShortestFits ==
  ASSUME NEW l \in Seq(Ranges), Shortest(l), NEW j \in 1..(Len(l) - 1)
  PROVE  Fits(l[j], l[j + 1])
<1>n. PICK e \in Nat : e = Len(l) /\ j \in 1..(e - 1)
  OBVIOUS
<1>1. j \in 1..e /\ j < e
  BY <1>n
<1>2. l[j].end <= l[j + 1].start
  BY <1>n, <1>1 DEF Shortest, Valid
<1>3. l[j].end = l[j + 1].start => l[j].inh # l[j + 1].inh
  BY <1>n DEF Shortest
<1>. QED  BY <1>2, <1>3 DEF Fits

\* The ranges of a list are all inheritable as k says.
Plain(k, l) == \A j \in 1..Len(l) : l[j].inh = k

\* The shortest list of changes that does not mix.
LEMMA PlainApart ==
  ASSUME NEW kc, NEW cs \in Seq(Ranges), Shortest(cs), Plain(kc, cs)
  PROVE  Apart(kc, cs)
<1>n. PICK e \in Nat : e = Len(cs)
  OBVIOUS
<1>1. ASSUME NEW y \in 1..e  PROVE cs[y].start < cs[y].end /\ cs[y].inh = kc
  BY <1>n DEF Shortest, Valid, Plain
<1>2. ASSUME NEW y \in 1..(e - 1)  PROVE cs[y].end < cs[y + 1].start
  <2>1. y \in 1..e /\ y + 1 \in 1..e
    OBVIOUS
  <2>2. Fits(cs[y], cs[y + 1])
    BY <1>n, ShortestFits
  <2>3. cs[y].inh = cs[y + 1].inh
    BY <1>1, <2>1
  <2>4. cs[y].end \in Int /\ cs[y + 1].start \in Int
    BY <1>n, <2>1, Elements
  <2>. QED  BY <2>2, <2>3, <2>4 DEF Fits
<1>. QED  BY <1>n, <1>1, <1>2 DEF Apart

\* The loop begins with the shortest list.
LEMMA BeginsTidy ==
  ASSUME NEW k, NEW kc, NEW l \in Seq(Ranges), Shortest(l), Plain(k, l), NEW w \in Nat
  PROVE  Tidy(k, kc, l, 1, w)
<1>n. PICK e \in Nat : e = Len(l)
  OBVIOUS
<1>1. ASSUME NEW j \in 1..e  PROVE l[j].start < l[j].end /\ l[j].inh = k
  BY <1>n DEF Shortest, Valid, Plain
<1>2. ASSUME NEW j \in 0..e, j + 1 # 1  PROVE Fits(Elem(k, l, j), Elem(k, l, j + 1))
  <2>0. j \in 1..e /\ ~(j < 1) /\ ~(j > e) /\ ~(j + 1 < 1)
    BY <1>2
  <2>1. Elem(k, l, j) = l[j]
    BY <1>n, <2>0 DEF Elem
  <2>2. CASE j = e
    <3>1. j + 1 > e
      BY <2>2
    <3>2. Elem(k, l, j + 1) = Span(N + 2, N + 3, k)
      BY <1>n, <2>0, <3>1 DEF Elem
    <3>3. PICK q : q = Elem(k, l, j + 1) /\ q.start = N + 2
      BY <3>2 DEF Span
    <3>4. l[j].end \in 0..N
      BY <1>n, <2>0, Elements
    <3>5. l[j].end < q.start
      BY <3>3, <3>4
    <3>6. Fits(l[j], q)
      <4>1. l[j].end \in Int /\ q.start \in Int
        BY <3>3, <3>4
      <4>. QED  BY <3>5, <4>1 DEF Fits
    <3>. QED  BY <2>1, <3>3, <3>6
  <2>3. CASE j # e
    <3>1. j \in 1..(e - 1) /\ ~(j + 1 > e)
      BY <2>0, <2>3
    <3>2. Elem(k, l, j + 1) = l[j + 1]
      BY <1>n, <2>0, <3>1 DEF Elem
    <3>3. Fits(l[j], l[j + 1])
      BY <1>n, <3>1, ShortestFits
    <3>. QED  BY <2>1, <3>2, <3>3
  <2>. QED  BY <2>2, <2>3
<1>3. Spread(k, l, 1)
  <2>1. \A j \in (1 + 1)..e : l[j].inh = k
    BY <1>1
  <2>. QED  BY <1>n, <1>1, <1>2, <2>1 DEF Spread
<1>4. PICK a, r : a = Elem(k, l, 1 - 1) /\ r = Elem(k, l, 1)
  OBVIOUS
<1>5. a = Span(-2, -1, k)
  BY <1>4 DEF Elem
<1>6. a.end = -1
  BY <1>5 DEF Span
<1>7. r.start \in Nat /\ r.inh = k
  <2>1. CASE e = 0
    <3>1. ~(1 < 1) /\ 1 > e
      BY <2>1
    <3>2. r = Span(N + 2, N + 3, k)
      BY <1>n, <1>4, <3>1 DEF Elem
    <3>. QED  BY <3>2 DEF Span
  <2>2. CASE e # 0
    <3>1. ~(1 < 1) /\ ~(1 > e) /\ 1 \in 1..e
      BY <2>2
    <3>2. r = l[1]
      BY <1>n, <1>4, <3>1 DEF Elem
    <3>3. l[1].start \in 0..N
      BY <1>n, <3>1, Elements
    <3>. QED  BY <1>1, <3>1, <3>2, <3>3
  <2>. QED  BY <2>1, <2>2
<1>8. Met(a, r, kc, w)
  BY <1>6, <1>7 DEF Met
<1>9. Past(a, r, kc, w)
  BY <1>6 DEF Past
<1>10. Other(r, k, kc, w)
  BY <1>7 DEF Other
<1>11. AtHand(k, kc, a, r, w)
  BY <1>8, <1>9, <1>10 DEF AtHand
<1>12. 1 \in 1..(Len(l) + 1)
  BY <1>n
<1>. QED  BY <1>3, <1>4, <1>11, <1>12 DEF Tidy

\* What the loop leaves is the shortest list, together with what is left of the changes.
LEMMA EndsShortest ==
  ASSUME NEW k, NEW kc, NEW l, NEW i, NEW cs, Apart(kc, cs), NEW w, w = First(cs), Tidy(k, kc, l, i, w), i > Len(l) \/ cs = << >>
  PROVE  Shortest(l \o cs)
<1>1. l \in Seq(Ranges) /\ i \in 1..(Len(l) + 1) /\ Spread(k, l, i) /\ cs \in Seq(Ranges)
  BY DEF Tidy, Apart
<1>n. PICK e \in Nat, g \in Nat : e = Len(l) /\ g = Len(cs) /\ i \in 1..(e + 1)
  BY <1>1
<1>2. /\ \A j \in 1..e : l[j].start < l[j].end
      /\ \A j \in 0..e : j + 1 # i => Fits(Elem(k, l, j), Elem(k, l, j + 1))
  BY <1>1, <1>n DEF Spread
<1>w. w \in 0..(N + 1) /\ w \in Int /\ (cs = << >> => w = N + 1)
  BY FirstFacts DEF First
<1>E. \A j \in 1..e : Elem(k, l, j) = l[j]
  <2>. TAKE j \in 1..e
  <2>1. ~(j < 1) /\ ~(j > e)
    OBVIOUS
  <2>. QED  BY <1>n, <2>1 DEF Elem
<1>3. ASSUME NEW j \in 1..(e - 1)  PROVE Fits(l[j], l[j + 1])
  <2>1. j \in 1..e /\ j + 1 \in 1..e /\ j \in 0..e
    OBVIOUS
  <2>2. CASE j + 1 # i
    BY <1>2, <1>E, <2>1, <2>2
  <2>3. CASE j + 1 = i
    <3>1. i <= e /\ i - 1 = j
      BY <1>n, <2>3
    <3>2. cs = << >>
      BY <1>n, <3>1
    <3>3. Met(l[j], l[j + 1], kc, w)
      BY <1>E, <2>1, <2>3, <3>1 DEF Tidy, AtHand
    <3>4. l[j + 1].start \in 0..N
      BY <1>1, <1>n, <2>1, Elements
    <3>5. w # l[j + 1].start
      BY <1>w, <3>2, <3>4
    <3>. QED  BY <3>3, <3>5 DEF Met, Fits
  <2>. QED  BY <2>2, <2>3
<1>4. PICK m : m = l \o cs
  OBVIOUS
<1>5. /\ m \in Seq(Ranges) /\ Len(m) = e + g
      /\ \A j \in 1..e : m[j] = l[j]
      /\ \A j \in 1..g : m[j + e] = cs[j]
  <2>1. /\ m \in Seq(Ranges) /\ Len(m) = e + g
        /\ \A j \in 1..(e + g) : m[j] = IF j <= e THEN l[j] ELSE cs[j - e]
    BY <1>1, <1>n, <1>4
  <2>2. ASSUME NEW j \in 1..e  PROVE m[j] = l[j]
    <3>1. j \in 1..(e + g) /\ j <= e
      BY <1>n
    <3>. QED  BY <2>1, <3>1
  <2>3. ASSUME NEW j \in 1..g  PROVE m[j + e] = cs[j]
    <3>1. j + e \in 1..(e + g) /\ ~(j + e <= e) /\ (j + e) - e = j
      BY <1>n
    <3>. QED  BY <2>1, <3>1
  <2>. QED  BY <2>1, <2>2, <2>3
<1>a. /\ \A y \in 1..g : cs[y].start < cs[y].end
      /\ \A y \in 1..(g - 1) : cs[y].end < cs[y + 1].start
  BY <1>n DEF Apart
<1>6. ASSUME NEW j \in 1..(e + g)  PROVE m[j].start < m[j].end
  <2>1. CASE j <= e
    <3>1. j \in 1..e
      BY <2>1
    <3>. QED  BY <1>2, <1>5, <3>1
  <2>2. CASE j > e
    <3>1. PICK y : y \in 1..g /\ y + e = j
      <4>1. j - e \in 1..g /\ (j - e) + e = j
        BY <1>n, <2>2
      <4>. QED  BY <4>1
    <3>. QED  BY <1>5, <1>a, <3>1
  <2>. QED  BY <1>n, <2>1, <2>2
<1>7. ASSUME NEW j \in 1..(e + g - 1)  PROVE Fits(m[j], m[j + 1])
  <2>1. CASE j < e
    <3>1. j \in 1..(e - 1) /\ j \in 1..e /\ j + 1 \in 1..e
      BY <1>n, <2>1
    <3>. QED  BY <1>3, <1>5, <3>1
  <2>2. CASE j > e
    <3>1. PICK y : y \in 1..(g - 1) /\ y \in 1..g /\ y + 1 \in 1..g /\ y + e = j /\ (y + 1) + e = j + 1
      <4>1. PICK y \in Int : y = j - e
        BY <1>n
      <4>2. y \in 1..(g - 1) /\ y \in 1..g /\ y + 1 \in 1..g /\ y + e = j /\ (y + 1) + e = j + 1
        BY <1>n, <2>2, <4>1
      <4>. QED  BY <4>2
    <3>2. m[j] = cs[y] /\ m[j + 1] = cs[y + 1] /\ cs[y].end < cs[y + 1].start
      BY <1>5, <1>a, <3>1
    <3>3. cs[y].end \in Int /\ cs[y + 1].start \in Int
      BY <1>1, <1>n, <3>1, Elements
    <3>4. Fits(cs[y], cs[y + 1])
      BY <3>2, <3>3 DEF Fits
    <3>. QED  BY <3>2, <3>4
  <2>3. CASE j = e
    <3>0. e \in 1..e /\ 1 \in 1..g /\ e \in Nat /\ j + 1 = 1 + e /\ cs # << >>
      BY <1>n, <2>3
    <3>1. i = e + 1 /\ i - 1 = e /\ ~(i < 1) /\ i > e
      BY <1>n, <3>0
    <3>2. m[j] = l[e] /\ m[j + 1] = cs[1]
      BY <1>5, <2>3, <3>0
    <3>3. PICK r : r = Elem(k, l, i)
      OBVIOUS
    <3>4. r = Span(N + 2, N + 3, k)
      BY <1>n, <3>1, <3>3 DEF Elem
    <3>5. r.start = N + 2
      BY <3>4 DEF Span
    <3>6. Past(l[e], r, kc, w)
      BY <1>E, <3>0, <3>1, <3>3 DEF Tidy, AtHand
    <3>7. w = cs[1].start /\ cs[1].inh = kc
      BY <3>0, FirstFacts
    <3>8. r.start # w
      BY <1>w, <3>5
    <3>9. Fits(l[e], cs[1])
      BY <3>6, <3>7, <3>8 DEF Past, Fits
    <3>. QED  BY <3>2, <3>9
  <2>. QED  BY <1>n, <2>1, <2>2, <2>3
<1>8. m \in Seq(Ranges) /\ (\A j \in 1..Len(m) : m[j].start < m[j].end) /\ \A j \in 1..(Len(m) - 1) : Fits(m[j], m[j + 1])
  BY <1>5, <1>6, <1>7
<1>9. Shortest(m)
  BY <1>8, ShortestIf
<1>. QED  BY <1>4, <1>9

\* No more than m turns are left.
Bounded(k, l, i, w, m) == 4 * (N - w) + 2 * (Len(l) - i + 1) + (IF Elem(k, l, i).start < w THEN 1 ELSE 0) <= m

\* A turn that comes nearer to the end is one turn less.
LEMMA OneTurnLess ==
  ASSUME NEW k, NEW l \in Seq(Ranges), NEW i \in Nat, NEW w \in Int, NEW x \in Seq(Ranges), NEW j \in Nat, NEW u \in Int, NEW m \in Int,
         Bounded(k, l, i, w, m), Advances(k, l, i, w, x, j, u)
  PROVE  Bounded(k, x, j, u, m - 1)
<1>1. PICK e \in Nat, g \in Nat : e = Len(l) /\ g = Len(x)
  OBVIOUS
<1>2. PICK b, c : b = (IF Elem(k, l, i).start < w THEN 1 ELSE 0) /\ c = (IF Elem(k, x, j).start < u THEN 1 ELSE 0)
  OBVIOUS
<1>3. (b = 0 \/ b = 1) /\ (c = 0 \/ c = 1)
  BY <1>2
<1>4. 4 * (N - w) + 2 * (e - i + 1) + b <= m
  BY <1>1, <1>2 DEF Bounded
<1>5. \/ w < u /\ g - j <= e - i + 1
      \/ u = w /\ g - j < e - i
      \/ u = w /\ g - j = e - i /\ b = 1 /\ c = 0
  BY <1>1, <1>2 DEF Advances
<1>n. N \in Int
  OBVIOUS
<1>6. 4 * (N - u) + 2 * (g - j + 1) + c <= m - 1
  <2>1. CASE w < u /\ g - j <= e - i + 1
    <3>1. N - u <= N - w - 1
      BY <1>n, <2>1
    <3>. QED  BY <1>n, <1>3, <1>4, <2>1, <3>1
  <2>2. CASE u = w /\ g - j < e - i
    BY <1>n, <1>3, <1>4, <2>2
  <2>3. CASE u = w /\ g - j = e - i /\ b = 1 /\ c = 0
    BY <1>n, <1>3, <1>4, <2>3
  <2>. QED  BY <1>5, <2>1, <2>2, <2>3
<1>. QED  BY <1>1, <1>2, <1>6 DEF Bounded

\* The loop on a list and changes that do not mix is over, or has at most m turns to go.
Uniting(k, kc, s, m) ==
  /\ Apart(kc, s.changes)
  /\ Tidy(k, kc, s.list, s.i, First(s.changes))
  /\ s.i > Len(s.list) \/ s.changes = << >> \/ Bounded(k, s.list, s.i, First(s.changes), m)

\* A turn of it.
LEMMA UnitingTurn ==
  ASSUME NEW k, NEW kc, Flags(k, kc), NEW s \in MStates, NEW m \in Int, Uniting(k, kc, s, m), NEW t, t = MergeTurn(s)
  PROVE  Uniting(k, kc, t, m - 1)
<1>1. PICK l, i, cs : l = s.list /\ i = s.i /\ cs = s.changes /\ s = MS(l, i, cs)
  BY MStateFacts
<1>2. CASE i > Len(l) \/ cs = << >>
  <2>1. t = s
    BY <1>1, <1>2 DEF MergeTurn
  <2>2. t.i > Len(t.list) \/ t.changes = << >>
    BY <1>1, <1>2, <2>1
  <2>. QED  BY <2>1, <2>2 DEF Uniting
<1>3. CASE ~(i > Len(l) \/ cs = << >>)
  <2>1. t = MergeStep(MS(l, i, cs))
    BY <1>1, <1>3 DEF MergeTurn
  <2>2. PICK w : w = First(cs)
    OBVIOUS
  <2>3. Apart(kc, cs) /\ Tidy(k, kc, l, i, w) /\ Bounded(k, l, i, w, m)
    BY <1>1, <1>3, <2>2 DEF Uniting
  <2>4. l \in Seq(Ranges) /\ i \in Nat
    BY <1>1, MStateFacts
  <2>5. i <= Len(l) /\ cs # << >>
    BY <1>3, <2>4
  <2>6. Progress(k, kc, l, i, w, t)
    BY <2>1, <2>2, <2>3, <2>5, MergeStepTidy
  <2>7. PICK x, j, ds, u : x = t.list /\ j = t.i /\ ds = t.changes /\ u = First(ds)
    OBVIOUS
  <2>8. Apart(kc, ds) /\ Tidy(k, kc, x, j, u) /\ Advances(k, l, i, w, x, j, u)
    BY <2>6, <2>7 DEF Progress
  <2>9. w \in Int /\ u \in Int
    BY <2>2, <2>3, <2>7, <2>8, FirstFacts
  <2>10. x \in Seq(Ranges) /\ j \in Nat
    <3>1. x \in Seq(Ranges) /\ j \in 1..(Len(x) + 1)
      BY <2>8 DEF Tidy
    <3>. QED  BY <3>1
  <2>11. Bounded(k, x, j, u, m - 1)
    BY <2>3, <2>4, <2>8, <2>9, <2>10, OneTurnLess
  <2>. QED  BY <2>7, <2>8, <2>11 DEF Uniting
<1>. QED  BY <1>2, <1>3

\* svn_rangelist_merge2 gives the shortest list of two that do not mix.
LEMMA MergeShortest ==
  ASSUME NEW k, NEW kc, Flags(k, kc), NEW L \in Seq(Ranges), NEW C \in Seq(Ranges), Shortest(L), Shortest(C), Plain(k, L), Plain(kc, C)
  PROVE  Shortest(Merge(L, C))
<1>l. Len(L) \in Nat
  OBVIOUS
<1>n. PICK n \in Nat : n = 4 * N + 2 * Len(L) + 1
  BY <1>l
<1>1. PICK f : IsMerge(f, L, C) /\ Merge(L, C) = Rest(f[n])
  BY <1>l, <1>n, MergeTurns
<1>2. \A c \in 0..n : f[c] \in MStates
  BY <1>n, <1>1, MergeStatesType
<1>. DEFINE B == {c \in Nat : c <= n => Uniting(k, kc, f[c], n - c)}
<1>3. 0 \in B
  <2>1. f[0] = [list |-> L, i |-> 1, changes |-> C]
    BY <1>1 DEF IsMerge
  <2>2. PICK s : s = f[0] /\ s.list = L /\ s.i = 1 /\ s.changes = C
    BY <2>1
  <2>3. Apart(kc, C)
    BY PlainApart
  <2>4. PICK w : w = First(C)
    OBVIOUS
  <2>5. w \in 0..(N + 1)
    BY <2>3, <2>4, FirstFacts
  <2>6. Tidy(k, kc, L, 1, w)
    <3>1. w \in Nat
      BY <2>5
    <3>. QED  BY <3>1, BeginsTidy
  <2>7. Bounded(k, L, 1, w, n - 0)
    <3>1. PICK b, e : b = (IF Elem(k, L, 1).start < w THEN 1 ELSE 0) /\ e = Len(L) /\ e \in Nat
      BY <1>l
    <3>2. b = 0 \/ b = 1
      BY <3>1
    <3>3. 4 * (N - w) + 2 * (e - 1 + 1) + b <= 4 * N + 2 * e + 1
      BY <2>5, <3>1, <3>2
    <3>4. n - 0 = 4 * N + 2 * e + 1
      BY <1>n, <3>1
    <3>. QED  BY <3>1, <3>3, <3>4 DEF Bounded
  <2>8. Uniting(k, kc, s, n - 0)
    BY <2>2, <2>3, <2>4, <2>6, <2>7 DEF Uniting
  <2>. QED  BY <2>2, <2>8
<1>4. ASSUME NEW c \in Nat, c \in B  PROVE c + 1 \in B
  <2>. SUFFICES ASSUME c + 1 <= n  PROVE Uniting(k, kc, f[c + 1], n - (c + 1))
    OBVIOUS
  <2>1. Uniting(k, kc, f[c], n - c)
    BY <1>4
  <2>. HIDE DEF B
  <2>2. c + 1 \in 1..(4 * N + 2 * Len(L) + 1) /\ (c + 1) - 1 = c /\ c \in 0..n
    BY <1>n
  <2>3. f[c + 1] = MergeTurn(f[c])
    BY <1>1, <2>2 DEF IsMerge
  <2>4. PICK s, t, m : s = f[c] /\ t = f[c + 1] /\ m = n - c /\ s \in MStates /\ m \in Int
    <3>1. f[c] \in MStates
      BY <1>2, <2>2
    <3>2. n - c \in Int
      OBVIOUS
    <3>. QED  BY <3>1, <3>2
  <2>5. Uniting(k, kc, t, m - 1)
    BY <2>1, <2>3, <2>4, UnitingTurn
  <2>6. m - 1 = n - (c + 1)
    BY <2>4
  <2>. QED  BY <2>4, <2>5, <2>6
<1>. HIDE DEF B
<1>5. n \in B
  BY <1>3, <1>4, SetInduction
<1>6. Uniting(k, kc, f[n], n - n)
  BY <1>5 DEF B
<1>7. PICK s, l, i, cs, w : s = f[n] /\ l = s.list /\ i = s.i /\ cs = s.changes /\ w = First(cs)
  OBVIOUS
<1>8. Apart(kc, cs) /\ Tidy(k, kc, l, i, w) /\ (i > Len(l) \/ cs = << >> \/ Bounded(k, l, i, w, n - n))
  BY <1>6, <1>7 DEF Uniting
<1>9. i > Len(l) \/ cs = << >>
  <2>. SUFFICES ASSUME ~(i > Len(l)), cs # << >>, Bounded(k, l, i, w, n - n)  PROVE FALSE
    BY <1>8
  <2>1. l \in Seq(Ranges) /\ i \in 1..(Len(l) + 1)
    BY <1>8 DEF Tidy
  <2>2. PICK e, b : e \in Nat /\ e = Len(l) /\ b = (IF Elem(k, l, i).start < w THEN 1 ELSE 0)
    BY <2>1
  <2>3. b = 0 \/ b = 1
    BY <2>2
  <2>4. w \in Int /\ w <= N
    BY <1>7, <1>8, FirstFacts
  <2>5. i \in Nat /\ i <= e
    BY <2>1, <2>2
  <2>6. 4 * (N - w) + 2 * (e - i + 1) + b <= 0
    BY <2>2 DEF Bounded
  <2>7. e \in Nat /\ N - w >= 0 /\ e - i >= 0
    BY <2>2, <2>4, <2>5
  <2>. QED  BY <2>3, <2>4, <2>5, <2>6, <2>7
<1>10. Shortest(l \o cs)
  BY <1>7, <1>8, <1>9, EndsShortest
<1>. QED  BY <1>1, <1>7, <1>10 DEF Rest
--------------------------------------------------------------------------------
(* The calls.                                                               *)

\* The lists that the calls are given.
LEMMA GivenLists ==
  /\ \A l \in Lines : l \in Seq(Spans) /\ l \in Seq(Ranges) /\ \A i, j \in 1..Len(l) : i < j => ~Before(l[j], l[i])
  /\ \A l \in Inputs \cup Short : l \in Seq(Spans) /\ l \in Seq(Ranges) /\ Valid(l) /\ Shortest(l)
<1>1. \A l \in Inputs \cup Short : Shortest(l)
  BY RangelistsAssumption
<1>2. \A l \in Inputs \cup Short : Valid(l)
  BY <1>1 DEF Shortest
<1>3. \A l \in Lines : l \in Seq(Spans) /\ \A i, j \in 1..Len(l) : i < j => ~Before(l[j], l[i])
  BY RangelistsAssumption
<1>4. \A l \in Inputs \cup Short : l \in Seq(Spans)
  BY RangelistsAssumption
<1>. QED  BY <1>1, <1>2, <1>3, <1>4, SpansRanges

\* What a call returns.
Parsed(line, ok, l)     == \E p : ParsedTo(line, Len(line), p) /\ p.ok = ok /\ (ok => l = p.list)
Erased(by, w, c, l)     == l = Erase(by, w, c)
Shared(by, w, c, l)     == l = Intersect(by, w, c)
Merged(w, cs, l)        == l = Merge(w, cs)
Applied(from, w, to, l) ==
  /\ Valid(ForkDeleted(from, w, to)) /\ Valid(ForkAdded(from, w, to))
  /\ l = Fork(from, w, to)

\* The list is what the last call has returned, given the list before it.
CallInv ==
  /\ list \in Seq(Ranges) /\ call.was \in Seq(Ranges) /\ Valid(call.was)
  /\ call.op \in {"none", "parse", "refused", "merge", "intersect", "erase", "fork"}
  /\ call.op \in {"parse", "refused"} => Arg \in Lines
  /\ call.op = "parse" => Parsed(Arg, TRUE, list)
  /\ call.op = "refused" => Parsed(Arg, FALSE, list)
  /\ call.op \in {"merge", "intersect", "erase"} => Arg \in Inputs
  /\ call.op \in {"intersect", "erase"} => call.consider \in BOOLEAN
  /\ call.op = "merge" => Merged(call.was, Arg, list)
  /\ call.op = "intersect" => Shared(Arg, call.was, call.consider, list)
  /\ call.op = "erase" => Erased(Arg, call.was, call.consider, list)
  /\ call.op = "fork" => Arg \in Short /\ call.args[2] \in Short /\ Applied(Arg, call.was, call.args[2], list)

\* Erasing and intersecting give lists of ranges.
LEMMA SplitType ==
  ASSUME NEW by \in Seq(Ranges), Valid(by), NEW w \in Seq(Ranges), Valid(w), NEW c \in BOOLEAN, NEW e
  PROVE  /\ Erased(by, w, c, e) => e \in Seq(Ranges) /\ Shortest(e)
         /\ Shared(by, w, c, e) => e \in Seq(Ranges) /\ Shortest(e)
<1>1. ASSUME Erased(by, w, c, e)  PROVE e \in Seq(Ranges) /\ Shortest(e)
  <2>1. PICK x : Shared(by, w, c, x)
    BY DEF Shared
  <2>2. Splits(by, w, c, e, x)
    BY <1>1, <2>1 DEF Splits, Erased, Shared
  <2>3. SplitGives(by, w, c, e, x)
    BY <2>2, SplitResult
  <2>. QED  BY <2>3 DEF SplitGives
<1>2. ASSUME Shared(by, w, c, e)  PROVE e \in Seq(Ranges) /\ Shortest(e)
  <2>1. PICK x : Erased(by, w, c, x)
    BY DEF Erased
  <2>2. Splits(by, w, c, x, e)
    BY <1>2, <2>1 DEF Splits, Erased, Shared
  <2>3. SplitGives(by, w, c, x, e)
    BY <2>2, SplitResult
  <2>. QED  BY <2>3 DEF SplitGives
<1>. QED  BY <1>1, <1>2

\* svn_rangelist_diff, of which combine_forked_mergeinfo_props is made.
LEMMA DiffType ==
  ASSUME NEW from \in Seq(Ranges), Valid(from), NEW to \in Seq(Ranges), Valid(to)
  PROVE  /\ Deleted(from, to) \in Seq(Ranges) /\ Shortest(Deleted(from, to)) /\ Valid(Deleted(from, to))
         /\ Added(from, to) \in Seq(Ranges) /\ Shortest(Added(from, to)) /\ Valid(Added(from, to))
<1>1. PICK d, a : d = Deleted(from, to) /\ a = Added(from, to)
  OBVIOUS
<1>2. PICK c \in BOOLEAN : c = TRUE
  OBVIOUS
<1>3. Erased(to, from, c, d) /\ Erased(from, to, c, a)
  BY <1>1, <1>2 DEF Erased, Deleted, Added
<1>4. d \in Seq(Ranges) /\ Shortest(d) /\ a \in Seq(Ranges) /\ Shortest(a)
  BY <1>3, SplitType
<1>. QED  BY <1>1, <1>4 DEF Shortest

\* combine_forked_mergeinfo_props gives a list of ranges.
LEMMA ForkType ==
  ASSUME NEW from \in Seq(Ranges), Valid(from), NEW w \in Seq(Ranges), Valid(w), NEW to \in Seq(Ranges), Valid(to),
         NEW l, Applied(from, w, to, l)
  PROVE  /\ l \in Seq(Ranges) /\ Shortest(l)
         /\ ForkDeleted(from, w, to) \in Seq(Ranges) /\ ForkAdded(from, w, to) \in Seq(Ranges)
<1>1. ForkDeleted(from, w, to) \in Seq(Ranges)
  BY DiffType, MergeType DEF ForkDeleted
<1>2. Merge(Added(from, w), Added(from, to)) \in Seq(Ranges)
  BY DiffType, MergeType
<1>3. ForkAdded(from, w, to) \in Seq(Ranges)
  BY <1>2, MergeType DEF ForkAdded
<1>c. PICK c \in BOOLEAN : c = TRUE
  OBVIOUS
<1>4. PICK d, a : d = ForkDeleted(from, w, to) /\ a = ForkAdded(from, w, to)
  OBVIOUS
<1>5. Erased(d, a, c, l) /\ Valid(d) /\ Valid(a)
  BY <1>c, <1>4 DEF Applied, Erased, Fork
<1>6. l \in Seq(Ranges) /\ Shortest(l)
  BY <1>1, <1>3, <1>4, <1>5, SplitType
<1>. QED  BY <1>1, <1>3, <1>6

\* A call keeps CallInv.
LEMMA CallNext ==
  ASSUME CallInv, [Next]_vars
  PROVE  CallInv'
<1>0. list \in Seq(Ranges) /\ call.was \in Seq(Ranges) /\ Valid(call.was) /\ << >> \in Seq(Ranges)
  BY DEF CallInv
<1>1. ASSUME NEW line \in Lines, Parse(line)  PROVE CallInv'
  <2>1. PICK p : p = ParseLine(line)
    OBVIOUS
  <2>2. line \in Seq(Spans) /\ \A i, j \in 1..Len(line) : i < j => ~Before(line[j], line[i])
    BY GivenLists
  <2>3. ParsedTo(line, Len(line), p)
    BY <2>1, <2>2, ParseWhole
  <2>4. p.list \in Seq(Ranges) /\ p.ok \in BOOLEAN
    BY <2>3 DEF ParsedTo
  <2>5. /\ Idle /\ list' = (IF p.ok THEN p.list ELSE list)
        /\ call' = Call(IF p.ok THEN "parse" ELSE "refused", <<line>>, TRUE)
    BY <1>1, <2>1 DEF Parse
  <2>6. call'.was = list /\ call'.args[1] = line /\ call'.op = IF p.ok THEN "parse" ELSE "refused"
    BY <2>5 DEF Call
  <2>7. CASE p.ok
    <3>1. call'.op = "parse" /\ list' = p.list
      BY <2>5, <2>6, <2>7
    <3>2. Parsed(line, TRUE, list')
      BY <2>3, <2>4, <2>7, <3>1 DEF Parsed
    <3>. QED  BY <1>0, <2>4, <2>5, <2>6, <3>1, <3>2 DEF CallInv, Idle, Arg
  <2>8. CASE ~p.ok
    <3>1. call'.op = "refused" /\ list' = list
      BY <2>5, <2>6, <2>8
    <3>2. Parsed(line, FALSE, list')
      BY <2>3, <2>4, <2>8 DEF Parsed
    <3>. QED  BY <1>0, <2>5, <2>6, <3>1, <3>2 DEF CallInv, Idle, Arg
  <2>. QED  BY <2>4, <2>7, <2>8
<1>2. ASSUME NEW l \in Inputs, MergeIn(l)  PROVE CallInv'
  <2>1. Idle /\ Merged(list, l, list') /\ call'.was = list /\ call'.args[1] = l /\ call'.op = "merge"
    BY <1>2 DEF MergeIn, Call, Merged
  <2>2. list' \in Seq(Ranges)
    BY <1>0, <2>1, GivenLists, MergeType DEF Merged
  <2>. QED  BY <1>0, <2>1, <2>2 DEF CallInv, Idle, Arg
<1>3. ASSUME NEW l \in Inputs, NEW c \in BOOLEAN, IntersectWith(l, c)  PROVE CallInv'
  <2>1. Idle /\ Shared(l, list, c, list')
    BY <1>3 DEF IntersectWith, Shared
  <2>2. call'.was = list /\ call'.args[1] = l /\ call'.op = "intersect" /\ call'.consider = c
    BY <1>3 DEF IntersectWith, Call
  <2>3. list' \in Seq(Ranges)
    BY <1>0, <2>1, GivenLists, SplitType DEF Idle
  <2>. QED  BY <1>0, <2>1, <2>2, <2>3 DEF CallInv, Idle, Arg
<1>4. ASSUME NEW l \in Inputs, NEW c \in BOOLEAN, EraseFrom(l, c)  PROVE CallInv'
  <2>1. Idle /\ Erased(l, list, c, list')
    BY <1>4 DEF EraseFrom, Erased
  <2>2. call'.was = list /\ call'.args[1] = l /\ call'.op = "erase" /\ call'.consider = c
    BY <1>4 DEF EraseFrom, Call
  <2>3. list' \in Seq(Ranges)
    BY <1>0, <2>1, GivenLists, SplitType DEF Idle
  <2>. QED  BY <1>0, <2>1, <2>2, <2>3 DEF CallInv, Idle, Arg
<1>5. ASSUME NEW from \in Short, NEW to \in Short, ForkTo(from, to)  PROVE CallInv'
  <2>1. Idle /\ Applied(from, list, to, list')
    BY <1>5 DEF ForkTo, Applied
  <2>2. call'.was = list /\ call'.args[1] = from /\ call'.args[2] = to /\ call'.op = "fork"
    BY <1>5 DEF ForkTo, Call
  <2>3. list' \in Seq(Ranges)
    BY <1>0, <2>1, GivenLists, ForkType DEF Idle
  <2>. QED  BY <1>0, <2>1, <2>2, <2>3 DEF CallInv, Idle, Arg
<1>6. ASSUME Return  PROVE CallInv'
  <2>1. list' \in {list, << >>} /\ call' = None
    BY <1>6 DEF Return
  <2>2. call'.op = "none" /\ call'.was = << >> /\ Valid(<< >>)
    BY <2>1 DEF None, Valid
  <2>. QED  BY <1>0, <2>1, <2>2 DEF CallInv
<1>7. CASE UNCHANGED vars
  <2>1. list' = list /\ call' = call
    BY <1>7 DEF vars
  <2>. QED  BY <2>1 DEF CallInv, Arg
<1>. QED  BY <1>1, <1>2, <1>3, <1>4, <1>5, <1>6, <1>7 DEF Next

\* CallInv holds throughout.
LEMMA Calls == Spec => []CallInv
<1>1. Init => CallInv
  <2>. SUFFICES ASSUME Init  PROVE CallInv
    OBVIOUS
  <2>1. list = << >> /\ call.op = "none" /\ call.was = << >>
    BY DEF Init, None
  <2>2. << >> \in Seq(Ranges) /\ Valid(<< >>)
    BY DEF Valid
  <2>. QED  BY <2>1, <2>2 DEF CallInv
<1>2. CallInv /\ [Next]_vars => CallInv'
  BY CallNext
<1>. QED  BY <1>1, <1>2, PTL DEF Spec

\* parse_revision_line keeps every revision of a line of svn:mergeinfo with its inheritability, in the
\* shortest list, and refuses exactly the lines in which ranges of different inheritability overlap.
THEOREM ParsesExactly == Spec => []ParseExact
<1>1. CallInv => ParseExact
  <2>. SUFFICES ASSUME CallInv  PROVE ParseExact
    OBVIOUS
  <2>0. PICK line : line = Arg
    OBVIOUS
  <2>. DEFINE clash == \E r, q \in OneOf(line) : r.inh # q.inh /\ r.start < q.end /\ q.start < r.end
  <2>1. ASSUME line \in Lines  PROVE clash <=> \E i, j \in 1..Len(line) : Clashing(line[i], line[j])
    <3>1. line \in Seq(Ranges)
      BY <2>1, GivenLists
    <3>2. DOMAIN line = 1..Len(line)
      BY <3>1
    <3>. QED  BY <3>2 DEF OneOf, Clashing
  <2>. HIDE DEF clash
  <2>2. ASSUME call.op = "refused"  PROVE clash
    <3>1. line \in Lines /\ Parsed(line, FALSE, list)
      BY <2>0, <2>2 DEF CallInv
    <3>2. PICK p : ParsedTo(line, Len(line), p) /\ p.ok = FALSE
      BY <3>1 DEF Parsed
    <3>3. \E i, j \in 1..Len(line) : Clashing(line[i], line[j])
      BY <3>2 DEF ParsedTo
    <3>. QED  BY <2>1, <3>1, <3>3
  <2>3. ASSUME call.op = "parse"  PROVE ~clash /\ Shortest(list) /\ Meaning(list) = Meaning(line)
    <3>1. line \in Lines /\ Parsed(line, TRUE, list) /\ list \in Seq(Ranges)
      BY <2>0, <2>3 DEF CallInv
    <3>2. PICK p : ParsedTo(line, Len(line), p) /\ p.ok /\ list = p.list
      BY <3>1 DEF Parsed
    <3>3. /\ Shortest(list) /\ \A i, j \in 1..Len(line) : ~Clashing(line[i], line[j])
          /\ \A v \in Int, b \in BOOLEAN : Has(list, v, b) <=> \E j \in 1..Len(line) : Covers(line[j], v) /\ line[j].inh = b
      BY <3>2 DEF ParsedTo
    <3>4. line \in Seq(Ranges)
      BY <3>1, GivenLists
    <3>5. \A v \in Int, b \in BOOLEAN : Has(list, v, b) <=> Has(line, v, b)
      BY <3>3 DEF Has
    <3>6. \A v \in 1..N : v \in Int /\ (On(list, v) <=> On(line, v)) /\ (Has(list, v, TRUE) <=> Has(line, v, TRUE))
      <4>. TAKE v \in 1..N
      <4>1. v \in Int /\ TRUE \in BOOLEAN /\ FALSE \in BOOLEAN
        OBVIOUS
      <4>2. (Has(list, v, TRUE) <=> Has(line, v, TRUE)) /\ (Has(list, v, FALSE) <=> Has(line, v, FALSE))
        BY <3>5, <4>1
      <4>3. /\ On(list, v) <=> Has(list, v, TRUE) \/ Has(list, v, FALSE)
            /\ On(line, v) <=> Has(line, v, TRUE) \/ Has(line, v, FALSE)
        BY <3>1, <3>4, OnHas
      <4>. QED  BY <4>1, <4>2, <4>3
    <3>7. Meaning(list) = Meaning(line)
      BY <3>1, <3>4, <3>6, SameMeaning
    <3>. QED  BY <2>1, <3>1, <3>3, <3>7
  <2>. QED  BY <2>0, <2>2, <2>3 DEF ParseExact, clash
<1>. QED  BY <1>1, Calls, PTL

\* rangelist_intersect_or_remove divides the list it is given: no revision is in both results or in
\* neither, and each keeps its inheritability, or gets more where inheritance does not count.
THEOREM DividesExactly == Spec => []SplitExact
<1>1. CallInv => SplitExact
  <2>. SUFFICES ASSUME CallInv, call.op = "erase"
                PROVE  \A v \in 1..N : SplitAt(call.consider, Meaning(list)[v], Meaning(Intersect(Arg, call.was, call.consider))[v],
                                               Was[v], Meaning(Arg)[v])
    BY DEF SplitExact, SplitAt
  <2>1. PICK by, w, c : by = Arg /\ w = call.was /\ c = call.consider
    OBVIOUS
  <2>2. PICK x : x = Intersect(by, w, c)
    OBVIOUS
  <2>3. /\ by \in Inputs /\ w \in Seq(Ranges) /\ Valid(w) /\ c \in BOOLEAN /\ Erased(by, w, c, list)
    BY <2>1 DEF CallInv
  <2>4. by \in Seq(Ranges) /\ Valid(by)
    BY <2>3, GivenLists
  <2>5. Splits(by, w, c, list, x)
    BY <2>2, <2>3 DEF Splits, Erased
  <2>6. SplitGives(by, w, c, list, x)
    BY <2>3, <2>4, <2>5, SplitResult
  <2>. QED  BY <2>1, <2>2, <2>6 DEF Was, SplitGives
<1>. QED  BY <1>1, Calls, PTL

\* Erasing and intersecting give the shortest list whatever list they are given, no operation leaves
\* the revisions there are, and intersecting finds what two lists that do not mix have in common.
THEOREM ResultsAreShortest == Spec => []ResultsShortest
<1>1. CallInv => ResultsShortest
  <2>. SUFFICES ASSUME CallInv  PROVE ResultsShortest
    OBVIOUS
  <2>1. TypeOK
    <3>1. list \in Seq(Ranges) /\ call.op \in {"none", "parse", "refused", "merge", "intersect", "erase", "fork"}
      BY DEF CallInv
    <3>2. DOMAIN list = 1..Len(list)
      BY <3>1
    <3>. QED  BY <3>1, <3>2, Elements DEF TypeOK, OneOf
  <2>2. PICK by, w, c : by = Arg /\ w = call.was /\ c = call.consider
    OBVIOUS
  <2>3. call.op = "erase" => by \in Inputs /\ w \in Seq(Ranges) /\ Valid(w) /\ c \in BOOLEAN /\ Erased(by, w, c, list)
    BY <2>2 DEF CallInv
  <2>4. call.op = "intersect" => by \in Inputs /\ w \in Seq(Ranges) /\ Valid(w) /\ c \in BOOLEAN /\ Shared(by, w, c, list)
    BY <2>2 DEF CallInv
  <2>5. by \in Inputs => by \in Seq(Ranges) /\ Valid(by)
    BY GivenLists
  <2>6. ASSUME call.op \in {"erase", "intersect"}  PROVE Shortest(list)
    BY <2>3, <2>4, <2>5, <2>6, SplitType
  <2>7. ASSUME call.op = "intersect", c, Uniform({w}), Uniform({by})
        PROVE  Meaning(list) = [v \in 1..N |-> IF Meaning(w)[v] = Meaning(by)[v] THEN Meaning(w)[v] ELSE 0]
    <3>1. PICK e : Erased(by, w, c, e)
      BY DEF Erased
    <3>2. Splits(by, w, c, e, list)
      BY <2>4, <2>7, <3>1 DEF Splits, Erased, Shared
    <3>s. SplitGives(by, w, c, e, list)
      BY <2>4, <2>5, <2>7, <3>2, SplitResult
    <3>3. \A v \in 1..N : Meaning(list)[v] = IF Meaning(w)[v] = Meaning(by)[v] THEN Meaning(w)[v] ELSE 0
      BY <2>7, <3>s DEF SplitGives
    <3>4. Meaning(list) = [v \in 1..N |-> Meaning(list)[v]]
      BY DEF Meaning
    <3>. QED  BY <3>3, <3>4
  <2>. QED  BY <2>1, <2>2, <2>6, <2>7 DEF ResultsShortest, Was
<1>. QED  BY <1>1, Calls, PTL

\* Lists of one inheritability.
LEMMA AllPlain ==
  ASSUME NEW S, \A l \in S : l \in Seq(Ranges), Uniform(S)
  PROVE  \E k \in BOOLEAN : \A l \in S : Plain(k, l)
<1>1. CASE \E l \in S : Len(l) # 0
  <2>1. PICK l \in S : Len(l) # 0
    BY <1>1
  <2>2. l \in Seq(Ranges) /\ 1 \in 1..Len(l)
    BY <2>1
  <2>3. PICK k \in BOOLEAN : k = l[1].inh
    BY <2>2, Elements
  <2>4. l[1] \in OneOf(l)
    BY <2>2 DEF OneOf
  <2>5. ASSUME NEW m \in S, NEW j \in 1..Len(m)  PROVE m[j].inh = k
    <3>1. m[j] \in OneOf(m)
      BY DEF OneOf
    <3>. QED  BY <2>3, <2>4, <3>1 DEF Uniform
  <2>. QED  BY <2>5 DEF Plain
<1>2. CASE \A l \in S : Len(l) = 0
  <2>1. \A l \in S : Plain(TRUE, l)
    BY <1>2 DEF Plain
  <2>. QED  BY <2>1
<1>. QED  BY <1>1, <1>2

\* How much a revision of such a list counts.
Weight(k) == IF k THEN 2 ELSE 1

\* A list does not mix exactly if its revisions count the same.
LEMMA PlainMeaning ==
  ASSUME NEW k \in BOOLEAN, NEW l \in Seq(Ranges), Plain(k, l), NEW v \in 1..N
  PROVE  Meaning(l)[v] = 0 \/ Meaning(l)[v] = Weight(k)
<1>1. Meaning(l)[v] = IF Has(l, v, TRUE) THEN 2 ELSE IF On(l, v) THEN 1 ELSE 0
  BY MeaningAt
<1>2. CASE k = TRUE
  <2>1. On(l, v) => Has(l, v, TRUE)
    BY <1>2 DEF On, Has, Plain
  <2>. QED  BY <1>1, <1>2, <2>1 DEF Weight
<1>3. CASE k = FALSE
  <2>1. ~Has(l, v, TRUE)
    BY <1>3 DEF Has, Plain
  <2>. QED  BY <1>1, <1>3, <2>1 DEF Weight
<1>. QED  BY <1>2, <1>3

\* A list whose revisions all have one inheritability has only ranges of that inheritability.
LEMMA PlainIf ==
  ASSUME NEW k \in BOOLEAN, NEW l \in Seq(Ranges), Valid(l), \A v \in 1..N : Meaning(l)[v] = 0 \/ Meaning(l)[v] = Weight(k)
  PROVE  Plain(k, l)
<1>1. ASSUME NEW j \in 1..Len(l), l[j].inh # k  PROVE FALSE
  <2>1. PICK r : r = l[j]
    OBVIOUS
  <2>2. r \in Ranges /\ r.start < r.end /\ r.inh \in BOOLEAN
    BY <2>1, Elements DEF Valid
  <2>3. r \in Spans
    BY <2>2 DEF Spans
  <2>4. PICK v \in 1..N : Covers(r, v)
    BY <2>3, CoversFirst
  <2>5. On(l, v) /\ Has(l, v, r.inh) /\ v \in Int
    BY <2>1, <2>4 DEF On, Has
  <2>6. ~(Has(l, v, TRUE) /\ Has(l, v, FALSE))
    BY <2>5, OneCovers
  <2>7. Meaning(l)[v] = IF Has(l, v, TRUE) THEN 2 ELSE IF On(l, v) THEN 1 ELSE 0
    BY MeaningAt
  <2>8. Meaning(l)[v] = 0 \/ Meaning(l)[v] = Weight(k)
    OBVIOUS
  <2>9. CASE k = TRUE
    <3>1. r.inh = FALSE
      BY <1>1, <2>1, <2>2, <2>9
    <3>2. ~Has(l, v, TRUE)
      BY <2>5, <2>6, <3>1
    <3>3. Meaning(l)[v] = 1
      BY <2>5, <2>7, <3>2
    <3>. QED  BY <2>8, <2>9, <3>3 DEF Weight
  <2>10. CASE k = FALSE
    <3>1. r.inh = TRUE
      BY <1>1, <2>1, <2>2, <2>10
    <3>2. Meaning(l)[v] = 2
      BY <2>5, <2>7, <3>1
    <3>. QED  BY <2>8, <2>10, <3>2 DEF Weight
  <2>. QED  BY <2>9, <2>10
<1>. QED  BY <1>1 DEF Plain

\* A list that does not mix is uniform, and no change reaches too far in it.
LEMMA PlainCalm ==
  ASSUME NEW k \in BOOLEAN, NEW l \in Seq(Ranges), Plain(k, l), NEW cs
  PROVE  Uniform({l}) /\ Calm(l, cs)
<1>1. \A r \in OneOf(l) : r.inh = k
  <2>1. DOMAIN l = 1..Len(l)
    OBVIOUS
  <2>. QED  BY <2>1 DEF OneOf, Plain
<1>2. Uniform({l})
  BY <1>1 DEF Uniform
<1>3. ASSUME NEW j \in 1..(Len(l) - 1)  PROVE ~(~l[j].inh /\ l[j + 1].inh)
  <2>1. j \in 1..Len(l) /\ j + 1 \in 1..Len(l)
    OBVIOUS
  <2>2. l[j].inh = k /\ l[j + 1].inh = k
    BY <2>1 DEF Plain
  <2>. QED  BY <2>2
<1>. QED  BY <1>2, <1>3 DEF Calm

\* A shortest list that does not mix.
Pure(k, l) == l \in Seq(Ranges) /\ Shortest(l) /\ Plain(k, l)

\* The revisions of one list and of another.
Unites(k, l, cs, m) ==
  /\ Pure(k, m)
  /\ \A v \in 1..N : Meaning(m)[v] = IF Meaning(l)[v] = 0 THEN Meaning(cs)[v] ELSE Meaning(l)[v]

\* Merging two such lists.
LEMMA PureMerge ==
  ASSUME NEW k \in BOOLEAN, NEW l, Pure(k, l), NEW cs, Pure(k, cs), NEW m, Merged(l, cs, m)
  PROVE  Unites(k, l, cs, m)
<1>1. /\ l \in Seq(Ranges) /\ Shortest(l) /\ Plain(k, l) /\ Valid(l)
      /\ cs \in Seq(Ranges) /\ Shortest(cs) /\ Plain(k, cs) /\ Valid(cs)
  BY DEF Pure, Shortest
<1>2. m \in Seq(Ranges)
  BY <1>1, MergeType DEF Merged
<1>f. Flags(k, k)
  BY DEF Flags
<1>3. Shortest(m)
  <2>1. Shortest(Merge(l, cs))
    BY <1>1, <1>f, MergeShortest
  <2>. QED  BY <2>1 DEF Merged
<1>4. Calm(l, cs)
  BY <1>1, PlainCalm
<1>5. Meaning(m) = More(Meaning(l), Meaning(cs))
  BY <1>1, <1>4, MergeMeans DEF Merged
<1>6. ASSUME NEW v \in 1..N
      PROVE  /\ Meaning(m)[v] = IF Meaning(l)[v] = 0 THEN Meaning(cs)[v] ELSE Meaning(l)[v]
             /\ Meaning(m)[v] = 0 \/ Meaning(m)[v] = Weight(k)
  <2>1. PICK x, y, z, u : x = Meaning(l)[v] /\ y = Meaning(cs)[v] /\ z = Meaning(m)[v] /\ u = Weight(k)
    OBVIOUS
  <2>2. z = IF x > y THEN x ELSE y
    BY <1>5, <2>1 DEF More
  <2>3. (x = 0 \/ x = u) /\ (y = 0 \/ y = u)
    BY <1>1, <2>1, PlainMeaning
  <2>4. u = 1 \/ u = 2
    BY <2>1 DEF Weight
  <2>5. (z = IF x = 0 THEN y ELSE x) /\ (z = 0 \/ z = u)
    BY <2>2, <2>3, <2>4
  <2>. QED  BY <2>1, <2>5
<1>7. Plain(k, m)
  <2>1. Valid(m)
    BY <1>3 DEF Shortest
  <2>. QED  BY <1>2, <1>6, <2>1, PlainIf
<1>. QED  BY <1>2, <1>3, <1>6, <1>7 DEF Pure, Unites

\* The revisions of a list that another one does not have.
Keeps(k, by, w, e) ==
  /\ Pure(k, e)
  /\ \A v \in 1..N : Meaning(e)[v] = IF Meaning(w)[v] = Meaning(by)[v] THEN 0 ELSE Meaning(w)[v]

\* Erasing such a list from another one.
LEMMA PureErase ==
  ASSUME NEW k \in BOOLEAN, NEW by \in Seq(Ranges), Valid(by), Plain(k, by), NEW w \in Seq(Ranges), Valid(w), Plain(k, w),
         NEW c \in BOOLEAN, c = TRUE, NEW e, Erased(by, w, c, e)
  PROVE  Keeps(k, by, w, e)
<1>1. PICK x : Shared(by, w, c, x)
  BY DEF Shared
<1>2. Splits(by, w, c, e, x)
  BY <1>1 DEF Splits, Erased, Shared
<1>3. SplitGives(by, w, c, e, x)
  BY <1>2, SplitResult
<1>4. Uniform({w}) /\ Uniform({by})
  BY PlainCalm
<1>5. e \in Seq(Ranges) /\ Shortest(e) /\ Valid(e)
  BY <1>3 DEF SplitGives, Shortest
<1>6. ASSUME NEW v \in 1..N
      PROVE  /\ Meaning(e)[v] = IF Meaning(w)[v] = Meaning(by)[v] THEN 0 ELSE Meaning(w)[v]
             /\ Meaning(e)[v] = 0 \/ Meaning(e)[v] = Weight(k)
  <2>1. PICK a, b, d, o, u : a = Meaning(e)[v] /\ b = Meaning(x)[v] /\ d = Meaning(w)[v] /\ o = Meaning(by)[v] /\ u = Weight(k)
    OBVIOUS
  <2>2. (a = 0 \/ b = 0) /\ a + b = d
    BY <1>3, <2>1 DEF SplitGives, SplitAt
  <2>3. b = IF d = o THEN d ELSE 0
    BY <1>3, <1>4, <2>1 DEF SplitGives
  <2>4. d = 0 \/ d = u
    BY <2>1, PlainMeaning
  <2>5. u = 1 \/ u = 2
    BY <2>1 DEF Weight
  <2>6. a = 0 \/ a = 1 \/ a = 2
    <3>1. a = IF Has(e, v, TRUE) THEN 2 ELSE IF On(e, v) THEN 1 ELSE 0
      BY <1>5, <2>1, MeaningAt
    <3>. QED  BY <3>1
  <2>7. (a = IF d = o THEN 0 ELSE d) /\ (a = 0 \/ a = u)
    BY <2>2, <2>3, <2>4, <2>5, <2>6
  <2>. QED  BY <2>1, <2>7
<1>7. Plain(k, e)
  BY <1>5, <1>6, PlainIf
<1>. QED  BY <1>5, <1>6, <1>7 DEF Pure, Keeps

\* Of three values, each nothing or u: what both sides deleted and added, applied to the first.
LEMMA ThreeValues ==
  ASSUME NEW u \in {1, 2}, NEW f \in {0, u}, NEW w \in {0, u}, NEW t \in {0, u},
         NEW d1, d1 = (IF f = w THEN 0 ELSE f), NEW d2, d2 = (IF f = t THEN 0 ELSE f), NEW d, d = (IF d1 = 0 THEN d2 ELSE d1),
         NEW a1, a1 = (IF w = f THEN 0 ELSE w), NEW a2, a2 = (IF t = f THEN 0 ELSE t), NEW m, m = (IF a1 = 0 THEN a2 ELSE a1),
         NEW a, a = (IF f = 0 THEN m ELSE f), NEW r, r = (IF a = d THEN 0 ELSE a)
  PROVE  r = Forked(f, w, t)
  BY DEF Forked

\* combine_forked_mergeinfo_props on three values of one inheritability.
LEMMA ForkMeans ==
  ASSUME NEW k \in BOOLEAN, NEW from, Pure(k, from), NEW to, Pure(k, to), NEW w \in Seq(Ranges), Valid(w), Plain(k, w),
         NEW l, l = Fork(from, w, to), NEW v \in 1..N
  PROVE  Meaning(l)[v] = Forked(Meaning(from)[v], Meaning(w)[v], Meaning(to)[v])
<1>c. PICK c \in BOOLEAN : c = TRUE
  OBVIOUS
<1>0. /\ from \in Seq(Ranges) /\ Valid(from) /\ Plain(k, from)
      /\ to \in Seq(Ranges) /\ Valid(to) /\ Plain(k, to)
  BY DEF Pure, Shortest
<1>1. PICK D1, D2, A1, A2 : D1 = Deleted(from, w) /\ D2 = Deleted(from, to) /\ A1 = Added(from, w) /\ A2 = Added(from, to)
  OBVIOUS
<1>2. Erased(w, from, c, D1) /\ Erased(to, from, c, D2) /\ Erased(from, w, c, A1) /\ Erased(from, to, c, A2)
  BY <1>c, <1>1 DEF Erased, Deleted, Added
<1>3. Keeps(k, w, from, D1)
  BY <1>c, <1>0, <1>2, PureErase
<1>4. Keeps(k, to, from, D2)
  BY <1>c, <1>0, <1>2, PureErase
<1>5. Keeps(k, from, w, A1)
  BY <1>c, <1>0, <1>2, PureErase
<1>6. Keeps(k, from, to, A2)
  BY <1>c, <1>0, <1>2, PureErase
<1>7. PICK D, M : D = Merge(D1, D2) /\ M = Merge(A1, A2)
  OBVIOUS
<1>8. PICK A : A = Merge(from, M)
  OBVIOUS
<1>9. Merged(D1, D2, D) /\ Merged(A1, A2, M) /\ Merged(from, M, A)
  BY <1>7, <1>8 DEF Merged
<1>10. Unites(k, D1, D2, D)
  BY <1>3, <1>4, <1>9, PureMerge DEF Keeps
<1>11. Unites(k, A1, A2, M)
  BY <1>5, <1>6, <1>9, PureMerge DEF Keeps
<1>12. Unites(k, from, M, A)
  BY <1>9, <1>11, PureMerge DEF Unites
<1>13. Erased(D, A, c, l)
  BY <1>c, <1>1, <1>7, <1>8 DEF Fork, ForkDeleted, ForkAdded, Erased
<1>14. Keeps(k, D, A, l)
  <2>1. D \in Seq(Ranges) /\ Valid(D) /\ Plain(k, D) /\ A \in Seq(Ranges) /\ Valid(A) /\ Plain(k, A)
    BY <1>10, <1>12 DEF Unites, Pure, Shortest
  <2>. QED  BY <1>c, <1>13, <2>1, PureErase
<1>15. PICK u : u = Weight(k)
  OBVIOUS
<1>16. u \in {1, 2}
  BY <1>15 DEF Weight
<1>17. PICK f, b, t : f = Meaning(from)[v] /\ b = Meaning(w)[v] /\ t = Meaning(to)[v]
  OBVIOUS
<1>18. f \in {0, u} /\ b \in {0, u} /\ t \in {0, u}
  BY <1>0, <1>15, <1>17, PlainMeaning
<1>19. PICK d1, d2, d, a1, a2, m, a, r :
         /\ d1 = Meaning(D1)[v] /\ d2 = Meaning(D2)[v] /\ d = Meaning(D)[v] /\ a1 = Meaning(A1)[v] /\ a2 = Meaning(A2)[v]
         /\ m = Meaning(M)[v] /\ a = Meaning(A)[v] /\ r = Meaning(l)[v]
  OBVIOUS
<1>20. d1 = (IF f = b THEN 0 ELSE f) /\ d2 = (IF f = t THEN 0 ELSE f) /\ a1 = (IF b = f THEN 0 ELSE b) /\ a2 = (IF t = f THEN 0 ELSE t)
  BY <1>3, <1>4, <1>5, <1>6, <1>17, <1>19 DEF Keeps
<1>21. d = (IF d1 = 0 THEN d2 ELSE d1) /\ m = (IF a1 = 0 THEN a2 ELSE a1) /\ a = (IF f = 0 THEN m ELSE f)
  BY <1>10, <1>11, <1>12, <1>17, <1>19 DEF Unites
<1>22. r = (IF a = d THEN 0 ELSE a)
  BY <1>14, <1>19 DEF Keeps
<1>23. r = Forked(f, b, t)
  BY <1>16, <1>18, <1>20, <1>21, <1>22, ThreeValues
<1>. QED  BY <1>17, <1>19, <1>23

\* svn_rangelist_merge2 neither loses nor invents a revision, and a revision is inheritable afterwards
\* exactly if it was in one of the two lists, unless a change reaches from a range beyond the next one;
\* and of two lists that do not mix it makes the shortest one.
THEOREM MergesExactly == Spec => []MergeExact
<1>1. CallInv => MergeExact
  <2>. SUFFICES ASSUME CallInv, call.op = "merge"
                PROVE  /\ Calm(call.was, Arg) => Meaning(list) = More(Was, Meaning(Arg))
                       /\ Shortest(call.was) /\ Uniform({call.was}) /\ Uniform({Arg}) => Shortest(list)
    BY DEF MergeExact
  <2>1. PICK w, cs : w = call.was /\ cs = Arg
    OBVIOUS
  <2>2. w \in Seq(Ranges) /\ Valid(w) /\ cs \in Inputs /\ Merged(w, cs, list)
    BY <2>1 DEF CallInv
  <2>3. cs \in Seq(Ranges) /\ Valid(cs) /\ Shortest(cs)
    BY <2>2, GivenLists
  <2>4. ASSUME Calm(w, cs)  PROVE Meaning(list) = More(Meaning(w), Meaning(cs))
    BY <2>2, <2>3, <2>4, MergeMeans DEF Merged
  <2>5. ASSUME Shortest(w), Uniform({w}), Uniform({cs})  PROVE Shortest(list)
    <3>1. PICK k \in BOOLEAN : \A l \in {w} : Plain(k, l)
      BY <2>2, <2>5, AllPlain
    <3>2. PICK kc \in BOOLEAN : \A l \in {cs} : Plain(kc, l)
      BY <2>3, <2>5, AllPlain
    <3>3. Plain(k, w) /\ Plain(kc, cs) /\ Flags(k, kc)
      BY <3>1, <3>2 DEF Flags
    <3>4. Shortest(Merge(w, cs))
      BY <2>2, <2>3, <2>5, <3>3, MergeShortest
    <3>. QED  BY <2>2, <3>4 DEF Merged
  <2>. QED  BY <2>1, <2>4, <2>5 DEF Was
<1>. QED  BY <1>1, Calls, PTL

\* combine_forked_mergeinfo_props keeps what one side or both changed, and what neither did, while all
\* three values have the same inheritability.
THEOREM ForksPlainly == Spec => []ForkPlain
<1>1. CallInv => ForkPlain
  <2>. SUFFICES ASSUME CallInv, call.op = "fork", Uniform({call.was, Arg, call.args[2]}), NEW v \in 1..N
                PROVE  Meaning(list)[v] = Forked(Meaning(Arg)[v], Meaning(call.was)[v], Meaning(call.args[2])[v])
    BY DEF ForkPlain, ForkRight, Was
  <2>1. PICK w, from, to : w = call.was /\ from = Arg /\ to = call.args[2]
    OBVIOUS
  <2>2. w \in Seq(Ranges) /\ Valid(w) /\ from \in Short /\ to \in Short /\ list = Fork(from, w, to)
    BY <2>1 DEF CallInv, Applied
  <2>3. from \in Seq(Ranges) /\ Shortest(from) /\ to \in Seq(Ranges) /\ Shortest(to)
    BY <2>2, GivenLists
  <2>4. PICK k \in BOOLEAN : \A l \in {w, from, to} : Plain(k, l)
    BY <2>1, <2>2, <2>3, AllPlain
  <2>5. Plain(k, w) /\ Pure(k, from) /\ Pure(k, to)
    BY <2>3, <2>4 DEF Pure
  <2>6. Meaning(list)[v] = Forked(Meaning(from)[v], Meaning(w)[v], Meaning(to)[v])
    BY <2>2, <2>5, ForkMeans
  <2>. QED  BY <2>1, <2>6
<1>. QED  BY <1>1, Calls, PTL
================================================================================
