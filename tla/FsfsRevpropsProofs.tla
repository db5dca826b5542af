--------------------------- MODULE FsfsRevpropsProofs --------------------------
(***************************************************************************)
(* Proofs about FsfsRevprops: lists are not lost, reads are fresh, the      *)
(* cache is current and changes are made to the present list, for any       *)
(* shard, any pack size and any changes.                                    *)
(***************************************************************************)
EXTENDS FsfsRevprops, SequenceTheorems, WellFoundedInduction, TLAPS

USE RevpropsAssumption, RevpropsSentinels

--------------------------------------------------------------------------------
(* Sums and splits.                                                        *)

\* Induction over the naturals, for sets instead of predicates.
LEMMA SetInduction ==
  ASSUME NEW B, 0 \in B, \A n \in Nat : n \in B => n + 1 \in B
  PROVE  \A n \in Nat : n \in B
<1>. DEFINE T == {n \in Nat : n \notin B}
<1>. SUFFICES ASSUME T # {} PROVE FALSE
  OBVIOUS
<1>1. PICK R : R = {ss \in Nat \X Nat : ss[1] < ss[2]}
  OBVIOUS
<1>2. IsWellFoundedOn(R, Nat)
  BY <1>1, NatLessThanWellFounded DEF OpToRel
<1>3. \A x, y \in Nat : x < y => <<x, y>> \in R
  BY <1>1
<1>4. PICK n \in T : \A m \in T : ~(<<m, n>> \in R)
  <2>. HIDE DEF T
  <2>1. T \subseteq Nat
    BY DEF T
  <2>. QED  BY <1>2, <2>1, WFMin
<1>5. n \in Nat /\ n # 0 /\ n - 1 \in Nat /\ n - 1 < n
  BY <1>4
<1>6. n - 1 \notin T
  BY <1>3, <1>4, <1>5
<1>. QED  BY <1>4, <1>5, <1>6

\* The running sums of TotalSize.
IsSum(f, ls) ==
  /\ f \in [0..Len(ls) -> Nat] /\ f[0] = 0
  /\ \A k \in 1..Len(ls) : f[k] = f[k - 1] + ls[k].size

\* TotalSize is the last of the running sums.
LEMMA TotalSizeSum ==
  ASSUME NEW ls \in Seq(Lists)
  PROVE  \E f : IsSum(f, ls) /\ TotalSize(ls) = f[Len(ls)]
<1>n. PICK n \in Nat : n = Len(ls)
  OBVIOUS
<1>0. \A k \in 1..n : ls[k].size \in Nat
  <2>. TAKE k \in 1..n
  <2>1. ls[k] \in Lists
    BY <1>n, ElementOfSeq
  <2>. QED  BY <2>1 DEF Lists, Sizes
<1>. DEFINE Sum(m, f) == f = [k \in 0..m |-> IF k = 0 THEN 0 ELSE f[k - 1] + ls[k].size]
<1>. DEFINE B == {m \in Nat : m <= n => \E f \in [0..m -> Nat] : Sum(m, f)}
<1>1. 0 \in B
  <2>1. PICK f : f = [k \in 0..0 |-> 0]
    OBVIOUS
  <2>2. f \in [0..0 -> Nat] /\ Sum(0, f)
    BY <2>1
  <2>. QED  BY <2>2
<1>2. ASSUME NEW m \in Nat, m \in B  PROVE m + 1 \in B
  <2>a. m + 1 \in Nat
    OBVIOUS
  <2>. SUFFICES ASSUME m + 1 <= n  PROVE \E f \in [0..m + 1 -> Nat] : Sum(m + 1, f)
    BY <2>a, Zenon
  <2>0. m <= n
    OBVIOUS
  <2>1. PICK f \in [0..m -> Nat] : Sum(m, f)
    BY <1>2, <2>0, Zenon
  <2>2. ls[m + 1].size \in Nat
    BY <1>0
  <2>3. PICK h : h = [k \in 0..m + 1 |-> IF k <= m THEN f[k] ELSE f[m] + ls[m + 1].size]
    OBVIOUS
  <2>4. h \in [0..m + 1 -> Nat]
    BY <2>2, <2>3
  <2>5. ASSUME NEW k \in 0..m + 1  PROVE h[k] = IF k = 0 THEN 0 ELSE h[k - 1] + ls[k].size
    <3>1. CASE k = m + 1
      BY <2>3, <3>1
    <3>2. CASE k \in 0..m
      BY <2>1, <2>3, <3>2
    <3>. QED  BY <3>1, <3>2
  <2>6. Sum(m + 1, h)
    BY <2>3, <2>5
  <2>. QED  BY <2>4, <2>6
<1>. HIDE DEF B
<1>3. n \in B
  BY <1>1, <1>2, SetInduction
<1>. DEFINE G == CHOOSE f : Sum(n, f)
<1>4. Sum(n, G)
  <2>1. n <= n
    OBVIOUS
  <2>2. \E f : Sum(n, f)
    BY <1>3, <2>1, Zenon DEF B
  <2>. QED  BY <2>2, Zenon
<1>5. TotalSize(ls) = G[n]
  BY <1>n DEF TotalSize
<1>. HIDE DEF G
<1>6. /\ DOMAIN G = 0..n /\ G = [k \in 0..n |-> G[k]] /\ G[0] = 0
      /\ \A k \in 1..n : G[k] = G[k - 1] + ls[k].size
  <2>1. DOMAIN G = 0..n /\ \A k \in 0..n : G[k] = IF k = 0 THEN 0 ELSE G[k - 1] + ls[k].size
    BY <1>4
  <2>2. G = [k \in 0..n |-> G[k]]
    BY <1>4
  <2>3. 0 \in 0..n /\ \A k \in 1..n : k \in 0..n /\ k # 0
    OBVIOUS
  <2>. QED  BY <2>1, <2>2, <2>3
<1>. DEFINE C == {k \in Nat : k <= n => G[k] \in Nat}
<1>7. 0 \in C
  BY <1>6
<1>8. ASSUME NEW k \in Nat, k \in C  PROVE k + 1 \in C
  <2>. SUFFICES ASSUME k + 1 <= n  PROVE G[k + 1] \in Nat
    OBVIOUS
  <2>1. k + 1 \in 1..n /\ (k + 1) - 1 = k /\ k <= n
    OBVIOUS
  <2>2. G[k + 1] = G[k] + ls[k + 1].size
    <3>. HIDE DEF C
    <3>. QED  BY <1>6, <2>1
  <2>. QED  BY <1>0, <1>8, <2>1, <2>2
<1>. HIDE DEF C
<1>9. \A k \in Nat : k \in C
  BY <1>7, <1>8, SetInduction
<1>10. \A k \in 0..n : G[k] \in Nat
  BY <1>9 DEF C
<1>11. IsSum(G, ls)
  BY <1>n, <1>6, <1>10 DEF IsSum
<1>. QED  BY <1>n, <1>5, <1>11

\* The sum of the sizes of any lists is a natural number.
LEMMA TotalSizeType ==
  ASSUME NEW ls \in Seq(Lists)
  PROVE  TotalSize(ls) \in Nat
<1>1. PICK f : IsSum(f, ls) /\ TotalSize(ls) = f[Len(ls)]
  BY TotalSizeSum
<1>. QED  BY <1>1 DEF IsSum

\* The two sides after each turn of the loop.
IsSides(f, ls) ==
  /\ f[0] = [left |-> 0, right |-> Len(ls) - 1, leftSize |-> 2 * Overhead, rightSize |-> 2 * Overhead]
  /\ \A k \in 1..Len(ls) : f[k] = Grow(ls, f[k - 1])

\* SplitPoint is what the loop ends with.
LEMMA SplitTurns ==
  ASSUME NEW ls, Len(ls) \in Nat
  PROVE  \E f : IsSides(f, ls) /\ SplitPoint(ls) = f[Len(ls)]
<1>n. PICK n \in Nat : n = Len(ls)
  OBVIOUS
<1>. DEFINE Start == [left |-> 0, right |-> Len(ls) - 1, leftSize |-> 2 * Overhead, rightSize |-> 2 * Overhead]
<1>. DEFINE Sides(m, f) == f = [k \in 0..m |-> IF k = 0 THEN Start ELSE Grow(ls, f[k - 1])]
<1>. DEFINE B == {m \in Nat : \E f : Sides(m, f)}
<1>1. 0 \in B
  <2>1. PICK f : f = [k \in 0..0 |-> Start]
    OBVIOUS
  <2>2. Sides(0, f)
    BY <2>1
  <2>. QED  BY <2>2
<1>2. ASSUME NEW m \in Nat, m \in B  PROVE m + 1 \in B
  <2>1. PICK f : Sides(m, f)
    BY <1>2
  <2>2. PICK h : h = [k \in 0..m + 1 |-> IF k <= m THEN f[k] ELSE Grow(ls, f[m])]
    OBVIOUS
  <2>3. ASSUME NEW k \in 0..m + 1  PROVE h[k] = IF k = 0 THEN Start ELSE Grow(ls, h[k - 1])
    <3>1. CASE k = m + 1
      BY <2>2, <3>1
    <3>2. CASE k \in 0..m
      BY <2>1, <2>2, <3>2
    <3>. QED  BY <3>1, <3>2
  <2>4. Sides(m + 1, h)
    BY <2>2, <2>3
  <2>. QED  BY <2>4
<1>. HIDE DEF B
<1>3. n \in B
  BY <1>1, <1>2, SetInduction
<1>. DEFINE G == CHOOSE f : Sides(n, f)
<1>4. Sides(n, G)
  BY <1>3 DEF B
<1>5. SplitPoint(ls) = G[n]
  BY <1>n DEF SplitPoint
<1>. HIDE DEF G
<1>6. IsSides(G, ls)
  <2>1. G[0] = Start
    BY <1>4
  <2>2. ASSUME NEW k \in 1..n  PROVE G[k] = Grow(ls, G[k - 1])
    BY <1>4
  <2>. QED  BY <1>n, <2>1, <2>2 DEF IsSides
<1>. QED  BY <1>n, <1>5, <1>6

\* The two sides meet within the file.
LEMMA SplitBounds ==
  ASSUME NEW ls, Len(ls) \in Nat
  PROVE  SplitPoint(ls).left \in 0..Len(ls)
<1>1. PICK f : IsSides(f, ls) /\ SplitPoint(ls) = f[Len(ls)]
  BY SplitTurns
<1>. DEFINE C == {k \in Nat : k <= Len(ls) => f[k].left \in 0..k}
<1>2. 0 \in C
  BY <1>1 DEF IsSides
<1>3. ASSUME NEW k \in Nat, k \in C  PROVE k + 1 \in C
  <2>. SUFFICES ASSUME k + 1 <= Len(ls)  PROVE f[k + 1].left \in 0..k + 1
    OBVIOUS
  <2>0. k <= Len(ls) /\ f[k].left \in 0..k
    BY <1>3
  <2>. HIDE DEF C
  <2>1. k + 1 \in 1..Len(ls) /\ (k + 1) - 1 = k
    OBVIOUS
  <2>2. f[k + 1] = Grow(ls, f[k])
    BY <1>1, <2>1 DEF IsSides
  <2>3. f[k + 1].left = f[k].left \/ f[k + 1].left = f[k].left + 1
    BY <2>2 DEF Grow
  <2>. QED  BY <2>0, <2>3
<1>. HIDE DEF C
<1>4. Len(ls) \in C
  BY <1>2, <1>3, SetInduction
<1>. QED  BY <1>1, <1>4 DEF C

\* The new files share out the lists of the old one.
LEMMA RangesPartition ==
  ASSUME NEW ls, Len(ls) \in Nat, NEW c \in 0..Len(ls) - 1
  PROVE  /\ \A x \in Ranges(ls, c) : x[1] \in Nat /\ x[2] \in Nat /\ x[1] < x[2] /\ x[2] <= Len(ls)
         /\ \A i \in 0..Len(ls) - 1 : \E x \in Ranges(ls, c) : x[1] <= i /\ i < x[2]
         /\ \A x, y \in Ranges(ls, c) : x = y \/ x[2] <= y[1] \/ y[2] <= x[1]
<1>. DEFINE s == SplitPoint(ls).left
            n == Len(ls)
<1>1. s \in 0..n
  BY SplitBounds
<1>2. \/ Ranges(ls, c) = {x \in {<<0, c>>, <<c, c + 1>>, <<c + 1, n>>} : x[1] < x[2]}
      \/ Ranges(ls, c) = {x \in {<<0, s>>, <<s, n>>} : x[1] < x[2]}
  BY DEF Ranges
<1>. HIDE DEF s
<1>3. CASE Ranges(ls, c) = {x \in {<<0, c>>, <<c, c + 1>>, <<c + 1, n>>} : x[1] < x[2]}
  <2>1. \A x : x \in Ranges(ls, c) <=> x \in {<<0, c>>, <<c, c + 1>>, <<c + 1, n>>} /\ x[1] < x[2]
    BY <1>3
  <2>2. \A x \in Ranges(ls, c) : x = <<0, c>> \/ x = <<c, c + 1>> \/ x = <<c + 1, n>>
    BY <2>1
  <2>3. ASSUME NEW i \in 0..n - 1  PROVE \E x \in Ranges(ls, c) : x[1] <= i /\ i < x[2]
    <3>1. CASE i < c
      <4>1. <<0, c>> \in Ranges(ls, c)
        BY <2>1, <3>1
      <4>. QED  BY <3>1, <4>1
    <3>2. CASE i = c
      <4>1. <<c, c + 1>> \in Ranges(ls, c)
        BY <2>1, <3>2
      <4>. QED  BY <3>2, <4>1
    <3>3. CASE i > c
      <4>1. <<c + 1, n>> \in Ranges(ls, c)
        BY <2>1, <3>3
      <4>. QED  BY <3>3, <4>1
    <3>. QED  BY <3>1, <3>2, <3>3
  <2>4. \A x \in Ranges(ls, c) : x[1] \in Nat /\ x[2] \in Nat /\ x[1] < x[2] /\ x[2] <= n
    BY <2>1, <2>2
  <2>5. \A x, y \in Ranges(ls, c) : x = y \/ x[2] <= y[1] \/ y[2] <= x[1]
    BY <2>1, <2>2
  <2>. QED  BY <2>3, <2>4, <2>5
<1>4. CASE Ranges(ls, c) = {x \in {<<0, s>>, <<s, n>>} : x[1] < x[2]}
  <2>1. \A x : x \in Ranges(ls, c) <=> x \in {<<0, s>>, <<s, n>>} /\ x[1] < x[2]
    BY <1>4
  <2>2. \A x \in Ranges(ls, c) : x = <<0, s>> \/ x = <<s, n>>
    BY <2>1
  <2>3. ASSUME NEW i \in 0..n - 1  PROVE \E x \in Ranges(ls, c) : x[1] <= i /\ i < x[2]
    <3>1. CASE i < s
      <4>1. <<0, s>> \in Ranges(ls, c)
        BY <1>1, <2>1, <3>1
      <4>. QED  BY <3>1, <4>1
    <3>2. CASE i >= s
      <4>1. <<s, n>> \in Ranges(ls, c)
        BY <1>1, <2>1, <3>2
      <4>. QED  BY <3>2, <4>1
    <3>. QED  BY <1>1, <3>1, <3>2
  <2>4. \A x \in Ranges(ls, c) : x[1] \in Nat /\ x[2] \in Nat /\ x[1] < x[2] /\ x[2] <= n
    BY <1>1, <2>1, <2>2
  <2>5. \A x, y \in Ranges(ls, c) : x = y \/ x[2] <= y[1] \/ y[2] <= x[1]
    BY <1>1, <2>1, <2>2
  <2>. QED  BY <2>3, <2>4, <2>5
<1>. QED  BY <1>2, <1>3, <1>4

--------------------------------------------------------------------------------
(* Files.                                                                  *)

\* Estimate, the size the code goes by, is a number.
LEMMA EstimateType ==
  ASSUME NEW ls \in Seq(Lists)
  PROVE  Estimate(ls) \in Nat
<1>1. TotalSize(ls) \in Nat /\ Len(ls) \in Nat
  BY TotalSizeType
<1>2. (Len(ls) + 2) * Overhead \in Nat
  BY <1>1 DEF Overhead
<1>. QED  BY <1>1, <1>2 DEF Estimate

\* A file that NewFile makes is whole.
LEMMA NewFileOK ==
  ASSUME NEW f \in Revs, NEW ls \in Seq(Lists)
  PROVE  /\ NewFile(f, ls) \in Files /\ ~Corrupt(NewFile(f, ls))
         /\ NewFile(f, ls).first = f /\ NewFile(f, ls).lists = ls
<1>1. Estimate(ls) \in Nat
  BY EstimateType
<1>. QED  BY <1>1 DEF NewFile, Files, Corrupt

\* What is in a file is a list.
LEMMA ListOfType ==
  ASSUME NEW c \in Files, NEW r \in Revs, Has(c, r)
  PROVE  ListOf(c, r) \in Lists /\ ListOf(c, r) # Error /\ ListOf(c, r).ver \in Versions
<1>1. c.lists \in Seq(Lists) /\ c.first \in Revs
  BY DEF Files
<1>2. r - c.first + 1 \in 1..Len(c.lists)
  BY <1>1 DEF Has, Revs
<1>3. ListOf(c, r) \in Lists
  BY <1>1, <1>2, ElementOfSeq DEF ListOf
<1>. QED  BY <1>3 DEF Lists

\* The lists of a file with the one of r replaced.
Changed(c, r, l) == [c.lists EXCEPT ![r - c.first + 1] = l]

\* They are those of a file that can take the old one's place.
LEMMA ChangedLists ==
  ASSUME NEW c \in Files, NEW r \in Revs, Has(c, r), NEW l \in Lists
  PROVE  /\ Changed(c, r, l) \in Seq(Lists) /\ Len(Changed(c, r, l)) = Len(c.lists)
         /\ r - c.first \in 0..Len(c.lists) - 1
<1>1. c.lists \in Seq(Lists) /\ c.first \in Revs
  BY DEF Files
<1>2. r - c.first + 1 \in 1..Len(c.lists)
  BY <1>1 DEF Has, Revs
<1>3. Changed(c, r, l) \in Seq(Lists) /\ Len(Changed(c, r, l)) = Len(c.lists)
  BY <1>1, <1>2, ExceptSeq DEF Changed
<1>4. r - c.first \in 0..Len(c.lists) - 1
  BY <1>1, <1>2, <1>3 DEF Revs
<1>. QED  BY <1>3, <1>4

\* All of them are the old ones, but for one.
LEMMA ChangedList ==
  ASSUME NEW c \in Files, NEW r \in Revs, Has(c, r), NEW l \in Lists, NEW q \in Revs, Has(c, q)
  PROVE  Changed(c, r, l)[q - c.first + 1] = IF q = r THEN l ELSE ListOf(c, q)
<1>1. c.lists \in Seq(Lists) /\ c.first \in Revs
  BY DEF Files
<1>2. r - c.first + 1 \in 1..Len(c.lists) /\ q - c.first + 1 \in 1..Len(c.lists)
  BY <1>1, SMTT(30) DEF Has, Revs
<1>3. q - c.first + 1 = r - c.first + 1 <=> q = r
  BY <1>1 DEF Revs
<1>4. Changed(c, r, l)[q - c.first + 1] = IF q - c.first + 1 = r - c.first + 1 THEN l ELSE c.lists[q - c.first + 1]
  BY <1>1, <1>2, ExceptSeq DEF Changed
<1>. QED  BY <1>3, <1>4 DEF ListOf

\* The same for the first file of the shard.
LEMMA ChangedFirst ==
  ASSUME NEW c \in Files, c.first = 1, NEW r \in Revs, Has(c, r), NEW l \in Lists, NEW q \in Revs, Has(c, q)
  PROVE  Changed(c, r, l)[q] = IF q = r THEN l ELSE ListOf(c, q)
<1>1. q - c.first + 1 = q
  BY DEF Revs
<1>2. Changed(c, r, l)[q - c.first + 1] = IF q = r THEN l ELSE ListOf(c, q)
  BY ChangedList
<1>. QED  BY <1>1, <1>2

\* A part of the lists, in a file of its own.
LEMMA PartFile ==
  ASSUME NEW ls \in Seq(Lists), NEW f \in Revs, f + Len(ls) - 1 <= N,
         NEW a \in Nat, NEW b \in Nat, a < b, b <= Len(ls),
         NEW c, c = NewFile(f + a, SubSeq(ls, a + 1, b))
  PROVE  /\ f + a \in Revs /\ c \in Files /\ InShard(c) /\ ~Corrupt(c) /\ c.first = f + a
         /\ \A q \in Revs : Has(c, q) <=> q - f >= a /\ q - f < b
         /\ \A q \in Revs : Has(c, q) => ListOf(c, q) = ls[q - f + 1]
<1>1. f + a \in Revs /\ Len(ls) \in Nat
  BY DEF Revs
<1>2. /\ SubSeq(ls, a + 1, b) \in Seq(Lists)
      /\ Len(SubSeq(ls, a + 1, b)) = b - a
      /\ \A i \in 1..b - a : SubSeq(ls, a + 1, b)[i] = ls[a + i]
  <2>1. \A i \in a + 1..b : i \in 1..Len(ls)
    BY <1>1
  <2>2. SubSeq(ls, a + 1, b) \in Seq(Lists)
    BY <1>1, <2>1, SubSeqProperties
  <2>3. Len(SubSeq(ls, a + 1, b)) = b - a
    BY <1>1, <2>1, SubSeqProperties
  <2>4. ASSUME NEW i \in 1..b - a  PROVE SubSeq(ls, a + 1, b)[i] = ls[a + i]
    <3>1. SubSeq(ls, a + 1, b)[i] = ls[(a + 1) + i - 1]
      BY <1>1, <2>1, SubSeqProperties
    <3>2. (a + 1) + i - 1 = a + i
      OBVIOUS
    <3>. QED  BY <3>1, <3>2
  <2>. QED  BY <2>2, <2>3, <2>4
<1>3. /\ c \in Files /\ ~Corrupt(c) /\ c.first = f + a
      /\ c.lists = SubSeq(ls, a + 1, b)
  BY <1>1, <1>2, NewFileOK
<1>4. InShard(c)
  <2>1. c.first = f + a /\ Len(c.lists) = b - a
    BY <1>2, <1>3
  <2>2. b - a >= 1 /\ (f + a) + (b - a) - 1 <= N
    BY <1>1 DEF Revs
  <2>. QED  BY <2>1, <2>2 DEF InShard
<1>5. \A q \in Revs : Has(c, q) <=> q - f >= a /\ q - f < b
  BY <1>2, <1>3 DEF Has, Revs
<1>6. ASSUME NEW q \in Revs, Has(c, q)  PROVE ListOf(c, q) = ls[q - f + 1]
  <2>1. q - (f + a) + 1 \in 1..b - a /\ a + (q - (f + a) + 1) = q - f + 1
    BY <1>5, <1>6 DEF Revs
  <2>. QED  BY <1>2, <1>3, <2>1 DEF ListOf
<1>. QED  BY <1>1, <1>3, <1>4, <1>5, <1>6

--------------------------------------------------------------------------------
(* Plans.                                                                  *)

\* A pack file that has room: the new one has all of its lists but one.
LEMMA PlaceMade ==
  ASSUME NEW c \in Files, InShard(c), NEW n \in Names, NEW r \in Revs, Has(c, r), NEW l \in Lists,
         NEW a, a = MakePlan(c, n, r, l), a.how = "place"
  PROVE  /\ a \in Places /\ a.name = n /\ InShard(a.file) /\ ~Corrupt(a.file)
         /\ a.file.first = c.first /\ Len(a.file.lists) = Len(c.lists)
         /\ \A q \in Revs : Has(c, q) => ListOf(a.file, q) = IF q = r THEN l ELSE ListOf(c, q)
<1>0. PICK ls : ls = Changed(c, r, l)
  OBVIOUS
<1>1. /\ ls \in Seq(Lists) /\ Len(ls) = Len(c.lists)
      /\ \A q \in Revs : Has(c, q) => ls[q - c.first + 1] = IF q = r THEN l ELSE ListOf(c, q)
  <2>1. ls \in Seq(Lists) /\ Len(ls) = Len(c.lists)
    BY <1>0, ChangedLists
  <2>2. ASSUME NEW q \in Revs, Has(c, q)  PROVE ls[q - c.first + 1] = IF q = r THEN l ELSE ListOf(c, q)
    BY <1>0, <2>2, ChangedList
  <2>. QED  BY <2>1, <2>2
<1>2. a = [how |-> "place", name |-> n, file |-> NewFile(c.first, ls)]
  BY <1>0 DEF MakePlan, Changed
<1>3. c.first \in Revs
  BY DEF Files
<1>4. /\ NewFile(c.first, ls) \in Files /\ ~Corrupt(NewFile(c.first, ls))
      /\ NewFile(c.first, ls).first = c.first /\ NewFile(c.first, ls).lists = ls
  BY <1>1, <1>3, NewFileOK
<1>5. a \in Places /\ a.name = n /\ a.file = NewFile(c.first, ls)
  BY <1>2, <1>4 DEF Places
<1>6. InShard(a.file)
  BY <1>1, <1>4, <1>5 DEF InShard
<1>. QED  BY <1>1, <1>4, <1>5, <1>6 DEF ListOf

\* A name of the form that the parts of a split of c have.
PartName(c, n) == \E i \in Nat : i < Len(c.lists) /\ n = <<c.first + i, manifest[i + 1][2] + 1>>

\* A split, whichever file it is of: the new files are whole, and their names have a
\* tag one higher than some tag of the manifest.
LEMMA SplitMade ==
  ASSUME NEW c \in Files, InShard(c), NEW n \in Names, NEW r \in Revs, Has(c, r), NEW l \in Lists,
         NEW a, a = MakePlan(c, n, r, l), a.how = "split",
         manifest \in [Revs -> Names], NEW t \in Nat, t < MaxSet, \A q \in Revs : manifest[q][2] <= t
  PROVE  /\ a \in Splits /\ a.first = c.first
         /\ \A q \in Revs : a.manifest[q][2] <= t + 1
         /\ \A y \in a.parts :
              /\ InShard(y.file) /\ ~Corrupt(y.file)
              /\ PartName(c, y.name)
<1>0. PICK ls : ls = Changed(c, r, l)
  OBVIOUS
<1>. DEFINE xs == Ranges(ls, r - c.first)
            new(x) == <<c.first + x[1], OldName(x)[2] + 1>>
            In(q, x) == q - 1 >= x[1] /\ q - 1 < x[2]
            File(x) == NewFile(c.first + x[1], SubSeq(ls, x[1] + 1, x[2]))
            P == {[name |-> new(x), file |-> File(x)] : x \in xs}
            M == [q \in Revs |-> IF \E x \in xs : In(q, x) THEN new(CHOOSE x \in xs : In(q, x)) ELSE manifest[q]]
            O == {OldName(x) : x \in xs}
<1>1. ls \in Seq(Lists) /\ Len(ls) = Len(c.lists) /\ r - c.first \in 0..Len(ls) - 1
  BY <1>0, ChangedLists
<1>2. a = [how |-> "split", first |-> c.first, parts |-> P, manifest |-> M, old |-> O]
  BY <1>0 DEF MakePlan, Changed
<1>3. c.first \in Revs /\ c.first + Len(ls) - 1 <= N /\ Len(ls) \in Nat
  BY <1>1 DEF Files, InShard
<1>4. \A x \in xs : x[1] \in Nat /\ x[2] \in Nat /\ x[1] < x[2] /\ x[2] <= Len(ls)
  BY <1>1, <1>3, RangesPartition
<1>. HIDE DEF xs
<1>5. ASSUME NEW x \in xs
      PROVE  /\ x[1] \in Nat /\ x[1] < Len(c.lists) /\ x[1] + 1 \in Revs /\ OldName(x) \in Names
             /\ OldName(x) = manifest[x[1] + 1]
             /\ new(x) \in Names /\ new(x)[2] <= t + 1
             /\ File(x) \in Files /\ InShard(File(x)) /\ ~Corrupt(File(x))
  <2>1. x[1] + 1 \in Revs /\ x[1] < Len(c.lists)
    BY <1>1, <1>3, <1>4, SMTT(20) DEF Revs, Files
  <2>2. OldName(x) = manifest[x[1] + 1] /\ OldName(x) \in Names /\ OldName(x)[2] <= t /\ OldName(x)[2] \in 0..MaxSet
    BY <2>1 DEF OldName, Names
  <2>3. c.first + x[1] \in Revs /\ File(x) \in Files /\ InShard(File(x)) /\ ~Corrupt(File(x))
    BY <1>1, <1>3, <1>4, PartFile
  <2>4. OldName(x)[2] + 1 \in 0..MaxSet /\ OldName(x)[2] + 1 <= t + 1
    BY <2>2
  <2>5. new(x) \in Names /\ new(x)[2] <= t + 1
    BY <2>3, <2>4 DEF Names
  <2>. QED  BY <1>4, <2>1, <2>2, <2>3, <2>5
<1>6. P \in SUBSET Parts
  BY <1>5 DEF Parts
<1>7. M \in [Revs -> Names] /\ \A q \in Revs : M[q][2] <= t + 1
  <2>1. ASSUME NEW q \in Revs
        PROVE  M[q] \in Names /\ M[q][2] <= t + 1
    <3>1. CASE \E x \in xs : In(q, x)
      <4>1. PICK x : x = (CHOOSE y \in xs : In(q, y))
        OBVIOUS
      <4>2. x \in xs
        BY <3>1, <4>1
      <4>3. M[q] = new(x)
        BY <3>1, <4>1
      <4>. QED  BY <1>5, <4>2, <4>3
    <3>2. CASE ~\E x \in xs : In(q, x)
      <4>1. M[q] = manifest[q]
        BY <3>2
      <4>2. manifest[q][2] \in 0..MaxSet /\ manifest[q][2] <= t
        BY DEF Names
      <4>. QED  BY <4>1, <4>2
    <3>. QED  BY <3>1, <3>2
  <2>. QED  BY <2>1
<1>8. O \in SUBSET Names
  BY <1>5
<1>9. a \in Splits /\ a.first = c.first /\ a.manifest = M /\ a.parts = P
  <2>. HIDE DEF P, M, O
  <2>. QED  BY <1>2, <1>3, <1>6, <1>7, <1>8 DEF Splits
<1>10. ASSUME NEW y \in P
       PROVE  /\ InShard(y.file) /\ ~Corrupt(y.file)
              /\ PartName(c, y.name)
  <2>1. PICK x \in xs : y = [name |-> new(x), file |-> File(x)]
    BY <1>10
  <2>2. y.name = new(x) /\ y.file = File(x)
    BY <2>1
  <2>. QED  BY <1>5, <2>2 DEF PartName
<1>. HIDE DEF P, M, O
<1>. QED  BY <1>7, <1>9, <1>10

\* A split of the first file of the shard: each of its revisions is in one new file,
\* under the name that the new manifest has for it, and the old file can go.
LEMMA SplitFirst ==
  ASSUME NEW c \in Files, InShard(c), c.first = 1, NEW n \in Names, NEW r \in Revs, Has(c, r), NEW l \in Lists,
         NEW a, a = MakePlan(c, n, r, l), a.how = "split",
         manifest \in [Revs -> Names], \A q \in Revs : Has(c, q) <=> manifest[q] = n
  PROVE  /\ a.old = {n}
         /\ \A q \in Revs :
              /\ manifest[q] # n => a.manifest[q] = manifest[q]
              /\ manifest[q] = n =>
                   /\ a.manifest[q][2] = n[2] + 1
                   /\ \E y \in a.parts : y.name = a.manifest[q]
                   /\ \A y \in a.parts : y.name = a.manifest[q] =>
                        /\ y.file.first = a.manifest[q][1] /\ Has(y.file, q) /\ ~Corrupt(y.file)
                        /\ \A s \in Revs : Has(y.file, s) => a.manifest[s] = a.manifest[q]
                        /\ ListOf(y.file, q) = IF q = r THEN l ELSE ListOf(c, q)
<1>0. PICK ls : ls = Changed(c, r, l)
  OBVIOUS
<1>. DEFINE xs == Ranges(ls, r - 1)
            new(x) == <<1 + x[1], OldName(x)[2] + 1>>
            In(q, x) == q - 1 >= x[1] /\ q - 1 < x[2]
            File(x) == NewFile(1 + x[1], SubSeq(ls, x[1] + 1, x[2]))
            P == {[name |-> new(x), file |-> File(x)] : x \in xs}
            M == [q \in Revs |-> IF \E x \in xs : In(q, x) THEN new(CHOOSE x \in xs : In(q, x)) ELSE manifest[q]]
            O == {OldName(x) : x \in xs}
<1>1. ls \in Seq(Lists) /\ Len(ls) = Len(c.lists) /\ r - 1 \in 0..Len(ls) - 1
  <2>1. ls \in Seq(Lists) /\ Len(ls) = Len(c.lists) /\ r - c.first \in 0..Len(c.lists) - 1
    BY <1>0, ChangedLists
  <2>. QED  BY <2>1
<1>2. ASSUME NEW q \in Revs, Has(c, q)  PROVE ls[q] = IF q = r THEN l ELSE ListOf(c, q)
  BY <1>0, <1>2, ChangedFirst
<1>3. a = [how |-> "split", first |-> 1, parts |-> P, manifest |-> M, old |-> O]
  BY <1>0 DEF MakePlan, Changed
<1>4. Len(ls) \in Nat /\ Len(ls) >= 1 /\ Len(ls) <= N /\ 1 + Len(ls) - 1 <= N /\ 1 \in Revs
  BY <1>1 DEF InShard, Revs
<1>5. /\ \A x \in xs : x[1] \in Nat /\ x[2] \in Nat /\ x[1] < x[2] /\ x[2] <= Len(ls)
      /\ \A i \in 0..Len(ls) - 1 : \E x \in xs : x[1] <= i /\ i < x[2]
      /\ \A x, y \in xs : x = y \/ x[2] <= y[1] \/ y[2] <= x[1]
  BY <1>1, <1>4, RangesPartition
<1>. HIDE DEF xs
<1>6. \A q \in Revs : Has(c, q) <=> q <= Len(ls)
  BY <1>1, <1>4 DEF Has, Revs
<1>7. ASSUME NEW x \in xs
      PROVE  /\ OldName(x) = n
             /\ File(x).first = 1 + x[1] /\ ~Corrupt(File(x))
             /\ \A q \in Revs : Has(File(x), q) <=> In(q, x)
             /\ \A q \in Revs : Has(File(x), q) => ListOf(File(x), q) = ls[q]
  <2>1. x[1] + 1 \in Revs /\ x[1] + 1 <= Len(ls)
    BY <1>4, <1>5 DEF Revs
  <2>2. OldName(x) = n
    BY <1>6, <2>1 DEF OldName
  <2>3. /\ File(x).first = 1 + x[1] /\ ~Corrupt(File(x))
        /\ \A q \in Revs : Has(File(x), q) <=> q - 1 >= x[1] /\ q - 1 < x[2]
        /\ \A q \in Revs : Has(File(x), q) => ListOf(File(x), q) = ls[q - 1 + 1]
    BY <1>1, <1>4, <1>5, PartFile, SMTT(20)
  <2>4. \A q \in Revs : q - 1 + 1 = q
    BY DEF Revs
  <2>. QED  BY <2>2, <2>3, <2>4
<1>8. ASSUME NEW q \in Revs, NEW x \in xs, In(q, x)
      PROVE  M[q] = new(x)
  <2>1. PICK z : z = (CHOOSE y \in xs : In(q, y))
    OBVIOUS
  <2>2. z \in xs /\ In(q, z) /\ M[q] = new(z)
    BY <1>8, <2>1
  <2>3. z = x
    BY <1>5, <1>8, <2>2, SMTT(20) DEF Revs
  <2>. QED  BY <2>2, <2>3
<1>9. O = {n}
  <2>1. \E x \in xs : TRUE
    BY <1>4, <1>5
  <2>. QED  BY <1>7, <2>1
<1>10. ASSUME NEW q \in Revs, manifest[q] # n  PROVE M[q] = manifest[q]
  <2>1. ~\E x \in xs : In(q, x)
    BY <1>4, <1>5, <1>6, <1>10 DEF Revs
  <2>. QED  BY <2>1
<1>11. ASSUME NEW q \in Revs, manifest[q] = n
       PROVE  /\ M[q][2] = n[2] + 1
              /\ \E y \in P : y.name = M[q]
              /\ \A y \in P : y.name = M[q] =>
                   /\ y.file.first = M[q][1] /\ Has(y.file, q) /\ ~Corrupt(y.file)
                   /\ \A s \in Revs : Has(y.file, s) => M[s] = M[q]
                   /\ ListOf(y.file, q) = IF q = r THEN l ELSE ListOf(c, q)
  <2>1. Has(c, q) /\ q - 1 \in 0..Len(ls) - 1
    BY <1>4, <1>6, <1>11 DEF Revs
  <2>2. PICK x \in xs : In(q, x)
    BY <1>5, <2>1
  <2>3. M[q] = new(x) /\ new(x)[2] = n[2] + 1 /\ new(x)[1] = 1 + x[1]
    BY <1>7, <1>8, <2>2
  <2>4. \E y \in P : y.name = M[q]
    <3>1. [name |-> new(x), file |-> File(x)] \in P
      OBVIOUS
    <3>. QED  BY <2>3, <3>1
  <2>5. ASSUME NEW y \in P, y.name = M[q]
        PROVE  y.file = File(x)
    <3>1. PICK z \in xs : y = [name |-> new(z), file |-> File(z)]
      BY <2>5
    <3>2. y.name = new(z) /\ y.file = File(z)
      BY <3>1
    <3>3. 1 + z[1] = 1 + x[1]
      BY <2>3, <2>5, <3>2
    <3>4. z = x
      BY <1>5, <3>3, SMTT(30)
    <3>. QED  BY <3>2, <3>4
  <2>6. /\ File(x).first = M[q][1] /\ Has(File(x), q) /\ ~Corrupt(File(x))
        /\ ListOf(File(x), q) = IF q = r THEN l ELSE ListOf(c, q)
    BY <1>2, <1>7, <2>1, <2>2, <2>3
  <2>7. ASSUME NEW s \in Revs, Has(File(x), s)  PROVE M[s] = M[q]
    BY <1>7, <1>8, <2>3, <2>7
  <2>. HIDE DEF M, P, File, new, In
  <2>. QED  BY <2>3, <2>4, <2>5, <2>6, <2>7
<1>12. a.old = O /\ a.manifest = M /\ a.parts = P
  BY <1>3
<1>. HIDE DEF M, P, O
<1>. QED  BY <1>9, <1>10, <1>11, <1>12

--------------------------------------------------------------------------------
(* Types.                                                                  *)

\* A plan to split is a split.
LEMMA SplitType ==
  ASSUME NEW a \in Plans, a.how = "split"
  PROVE  a \in Splits
BY DEF Plans, NoPlan, Places

\* So is a plan to put a file in place.
LEMMA PlaceType ==
  ASSUME NEW a \in Plans, a.how = "place"
  PROVE  a \in Places
BY DEF Plans, NoPlan, Splits

\* What PlanChange starts from: the file has the list, and there is a version left.
LEMMA PlanFacts ==
  ASSUME TypeOK, LockInv, FilesInv, NEW p \in Procs, pc[p] = "file", phase[p] = "pack",
         Found(rev[p], name[p]) # Error
  PROVE  /\ files[name[p]] \in Files /\ InShard(files[name[p]]) /\ ~Corrupt(files[name[p]])
         /\ Has(files[name[p]], rev[p]) /\ name[p] \in Names /\ rev[p] \in Revs
         /\ sets \in Nat /\ sets < MaxSet /\ manifest \in [Revs -> Names]
         /\ \A q \in Revs : manifest[q][2] <= sets
         /\ [ver |-> sets + 1, size |-> plan[p].size] \in Lists
<1>1. files[name[p]] # NoFile /\ ~Corrupt(files[name[p]]) /\ Has(files[name[p]], rev[p])
  BY DEF Found
<1>2. files[name[p]] \in Files /\ InShard(files[name[p]]) /\ name[p] \in Names /\ rev[p] \in Revs
  BY <1>1 DEF TypeOK, FilesInv
<1>3. sets \in Nat /\ sets < MaxSet /\ plan[p].size \in Sizes
  BY DEF TypeOK, LockInv, Writing
<1>4. [ver |-> sets + 1, size |-> plan[p].size] \in Lists
  BY <1>3 DEF Lists, Versions
<1>. QED  BY <1>1, <1>2, <1>3, <1>4 DEF TypeOK, FilesInv

\* What goes into the cache is a list of the file, under the generation that was read.
Took(p, e) ==
  /\ pc[p] = "file" /\ files[name[p]] # NoFile /\ Has(files[name[p]], e.rev)
  /\ e.gen = g[p] /\ e.list = ListOf(files[name[p]], e.rev)

LEMMA CacheListsOK ==
  ASSUME TypeOK, NEW p \in Procs, pc[p] = "file", files[name[p]] # NoFile
  PROVE  \A e \in CacheLists(p) : e \in Entries /\ (e \in cache \/ Took(p, e))
<1>. DEFINE c == files[name[p]]
<1>1. c \in Files /\ g[p] \in Nat
  BY DEF TypeOK
<1>2. ASSUME NEW e \in CacheLists(p)
      PROVE  e \in cache \/ \E r \in Revs : Has(c, r) /\ e = [rev |-> r, gen |-> g[p], list |-> ListOf(c, r)]
  BY <1>2 DEF CacheLists
<1>3. ASSUME NEW r \in Revs, Has(c, r), NEW e, e = [rev |-> r, gen |-> g[p], list |-> ListOf(c, r)]
      PROVE  e \in Entries /\ Took(p, e)
  <2>1. ListOf(c, r) \in Lists
    BY <1>1, <1>3, ListOfType
  <2>2. e.rev = r /\ e.gen = g[p] /\ e.list = ListOf(c, r)
    BY <1>3
  <2>. QED  BY <1>1, <1>3, <2>1, <2>2 DEF Entries, Took
<1>4. cache \subseteq Entries
  BY DEF TypeOK
<1>. HIDE DEF c
<1>. QED  BY <1>2, <1>3, <1>4

\* Every step keeps the types.
LEMMA TypeStep ==
  ASSUME TypeOK, LockInv, FilesInv, \A p \in Procs : PlanType(p), Next
  PROVE  TypeOK'
<1>0. 1 \in Revs /\ <<1, 0>> \in Names /\ NoPlan \in Plans /\ 0 \in Versions /\ 0 \in Nat
  BY DEF Revs, Names, Plans, Versions
<1>. USE DEF Goto, diskVars, readVars, ghostVars, Steps, FirstStep, SwitchStep, LastStep, Bumps
<1>1. ASSUME NEW p \in Procs, NEW r \in Reads, ReadBegin(p, r)  PROVE TypeOK'
  BY <1>1 DEF TypeOK, ReadBegin, Revs
<1>2. ASSUME NEW p \in Procs, NEW c \in Changes, ChangeBegin(p, c[1], c[2])  PROVE TypeOK'
  <2>1. c[1] \in Revs /\ c[2] \in Sizes
    BY DEF Revs, Sizes
  <2>2. [how |-> "none", size |-> c[2]] \in Plans
    BY <2>1 DEF Plans
  <2>. QED  BY <1>2, <2>1, <2>2 DEF TypeOK, ChangeBegin
<1>3. ASSUME NEW p \in Procs, ReadGeneration(p)  PROVE TypeOK'
  BY <1>3 DEF TypeOK, ReadGeneration, AfterGen
<1>4. ASSUME NEW p \in Procs, CheckTimeout(p)  PROVE TypeOK'
  BY <1>4 DEF TypeOK, CheckTimeout, AfterGen
<1>5. ASSUME NEW p \in Procs, BumpGeneration(p)  PROVE TypeOK'
  <2>1. gen' = gen + 1 /\ unannounced' = FALSE
    BY <1>5 DEF BumpGeneration, Add
  <2>2. pc' \in [Procs -> Steps]
    BY <1>5 DEF TypeOK, BumpGeneration, Goto, Steps, AfterGen
  <2>3. UNCHANGED <<diskVars, late, cache, writeLock, phase, rev, name, got, floor, disturbed, plan, latest, sets, skewed, torn, halfDone, misled, crashes>>
    BY <1>5 DEF BumpGeneration
  <2>4. g' \in [Procs -> Nat]
    BY <1>5 DEF TypeOK, BumpGeneration
  <2>5. gen' \in Nat
    BY <2>1 DEF TypeOK
  <2>6. unannounced' \in BOOLEAN
    BY <2>1, Zenon
  <2>. QED  BY <2>2, <2>3, <2>4, <2>5, <2>6, Zenon DEF TypeOK, vars, diskVars, readVars, ghostVars
<1>6. ASSUME NEW p \in Procs, CacheHit(p)  PROVE TypeOK'
  <2>1. PICK e \in cache : got' = [got EXCEPT ![p] = e.list]
    BY <1>6 DEF CacheHit
  <2>2. e.list \in Lists
    BY <2>1 DEF TypeOK, Entries
  <2>. QED  BY <1>6, <2>1, <2>2 DEF TypeOK, CacheHit
<1>7. ASSUME NEW p \in Procs, CacheMiss(p)  PROVE TypeOK'
  BY <1>7 DEF TypeOK, CacheMiss
<1>8. ASSUME NEW p \in Procs, ReadManifest(p)  PROVE TypeOK'
  BY <1>8 DEF TypeOK, ReadManifest
<1>9. ASSUME NEW p \in Procs, ReadFile(p)  PROVE TypeOK'
  <2>1. Found(rev[p], name[p]) \in Lists \cup {Error}
    <3>1. files[name[p]] \in Files \cup {NoFile} /\ rev[p] \in Revs
      BY DEF TypeOK
    <3>. QED  BY <3>1, ListOfType DEF Found
  <2>2. cache' \subseteq Entries
    <3>1. /\ pc[p] = "file"
          /\ cache' = IF files[name[p]] = NoFile THEN cache
                      ELSE IF Corrupt(files[name[p]]) THEN cache ELSE CacheLists(p)
      BY <1>9, Zenon DEF ReadFile
    <3>. QED  BY <3>1, CacheListsOK DEF TypeOK
  <2>. QED  BY <1>9, <2>1, <2>2 DEF TypeOK, ReadFile
<1>10. ASSUME NEW p \in Procs, ChangeRefused(p)  PROVE TypeOK'
  BY <1>10 DEF TypeOK, ChangeRefused
<1>11. ASSUME NEW p \in Procs, ChangeGoesOn(p)  PROVE TypeOK'
  BY <1>11 DEF TypeOK, ChangeGoesOn
<1>12. ASSUME NEW p \in Procs, PlanChange(p)  PROVE TypeOK'
  <2>1. CASE Found(rev[p], name[p]) = Error
    BY <1>12, <2>1 DEF TypeOK, PlanChange
  <2>2. CASE Found(rev[p], name[p]) # Error
    <3>1. PICK a : /\ a = MakePlan(files[name[p]], name[p], rev[p], [ver |-> sets + 1, size |-> plan[p].size])
                   /\ plan' = [plan EXCEPT ![p] = a]
                   /\ pc' = [pc EXCEPT ![p] = IF a.how = "split" THEN "write" ELSE SwitchStep(p)]
      BY <1>12, <2>2 DEF PlanChange
    <3>2. pc[p] = "file" /\ phase[p] = "pack" /\ sets' = sets + 1 /\ cache' = CacheLists(p)
      BY <1>12, <2>2, SMTT(30) DEF PlanChange
    <3>3. a.how \in {"place", "split"}
      BY <3>1 DEF MakePlan
    <3>4. a \in Plans
      <4>1. a.how = "place" => a \in Places
        BY <2>2, <3>1, <3>2, PlanFacts, PlaceMade
      <4>2. a.how = "split" => a \in Splits
        BY <2>2, <3>1, <3>2, PlanFacts, SplitMade
      <4>. QED  BY <3>3, <4>1, <4>2 DEF Plans
    <3>5. cache' \subseteq Entries
      BY <2>2, <3>2, CacheListsOK DEF Found
    <3>6. sets' \in 0..MaxSet
      <4>1. sets \in Nat /\ sets < MaxSet
        BY <2>2, <3>2, PlanFacts
      <4>. QED  BY <3>2, <4>1
    <3>7. UNCHANGED <<diskVars, gen, late, writeLock, readVars, latest, ghostVars>>
      BY <1>12 DEF PlanChange
    <3>. QED  BY <3>1, <3>4, <3>5, <3>6, <3>7 DEF TypeOK
  <2>. QED  BY <2>1, <2>2
<1>13. ASSUME NEW p \in Procs, WritePart(p)  PROVE TypeOK'
  <2>1. PICK x \in plan[p].parts :
          /\ files' = [files EXCEPT ![x.name] = Over(@, x.file)]
          /\ torn' = (torn \/ files'[x.name] # x.file)
          /\ plan' = [plan EXCEPT ![p].parts = @ \ {x}]
          /\ IF plan[p].parts = {x} THEN pc' = [pc EXCEPT ![p] = SwitchStep(p)] ELSE pc' = pc
    BY <1>13 DEF WritePart
  <2>2. plan[p] \in Splits
    BY <1>13, SplitType DEF WritePart, PlanType, TypeOK, Writing
  <2>3. x.name \in Names /\ x.file \in Files /\ [plan[p] EXCEPT !.parts = @ \ {x}] \in Splits
    BY <2>1, <2>2 DEF Splits, Parts
  <2>4. Over(files[x.name], x.file) \in Files
    BY <2>3 DEF TypeOK, Over, Files
  <2>5. plan' \in [Procs -> Plans]
    BY <2>1, <2>3 DEF TypeOK, Plans
  <2>6. files' \in [Names -> Files \cup {NoFile}]
    BY <2>1, <2>3, <2>4 DEF TypeOK
  <2>7. torn' \in BOOLEAN
    BY <2>1 DEF TypeOK
  <2>8. pc' \in [Procs -> Steps]
    BY <2>1 DEF TypeOK
  <2>9. UNCHANGED <<manifest, gen, late, cache, writeLock, readVars, latest, sets, skewed, halfDone, unannounced, misled, crashes>>
    BY <1>13 DEF WritePart
  <2>. QED  BY <2>5, <2>6, <2>7, <2>8, <2>9 DEF TypeOK
<1>14. ASSUME NEW p \in Procs, BeginChange(p)  PROVE TypeOK'
  BY <1>14 DEF TypeOK, BeginChange
<1>15. ASSUME NEW p \in Procs, MakeOdd(p)  PROVE TypeOK'
  <2>1. gen' = gen + 1 /\ unannounced' = FALSE
    BY <1>15 DEF MakeOdd, Add
  <2>2. pc' \in [Procs -> Steps]
    BY <1>15 DEF TypeOK, MakeOdd, Goto, Steps
  <2>3. UNCHANGED <<diskVars, late, cache, writeLock, readVars, plan, latest, sets, skewed, torn, halfDone, misled, crashes>>
    BY <1>15 DEF MakeOdd
  <2>5. gen' \in Nat
    BY <2>1 DEF TypeOK
  <2>6. unannounced' \in BOOLEAN
    BY <2>1, Zenon
  <2>. QED  BY <2>2, <2>3, <2>5, <2>6, Zenon DEF TypeOK, vars, diskVars, readVars, ghostVars
<1>16. ASSUME NEW p \in Procs, MoveIntoPlace(p)  PROVE TypeOK'
  <2>1. CASE plan[p].how = "place"
    <3>1. plan[p] \in Places
      BY <2>1, PlaceType DEF TypeOK
    <3>2. plan[p].file \in Files
      BY <3>1 DEF Places
    <3>. QED  BY <1>16, <2>1, <3>2 DEF TypeOK, MoveIntoPlace
  <2>2. CASE plan[p].how = "split"
    <3>1. plan[p] \in Splits
      BY <2>2, SplitType DEF TypeOK
    <3>2. plan[p].manifest \in [Revs -> Names]
      BY <3>1 DEF Splits
    <3>. QED  BY <1>16, <2>2, <3>2 DEF TypeOK, MoveIntoPlace
  <2>. QED  BY <1>16, <2>1, <2>2 DEF MoveIntoPlace
<1>17. ASSUME NEW p \in Procs, EndChange(p)  PROVE TypeOK'
  <2>1. gen' = gen + 1 /\ unannounced' = FALSE
    BY <1>17 DEF EndChange, Add
  <2>2. pc' \in [Procs -> Steps]
    BY <1>17 DEF TypeOK, EndChange, Goto, Steps, LastStep
  <2>3. UNCHANGED <<diskVars, late, cache, writeLock, readVars, plan, latest, sets, skewed, torn, halfDone, misled, crashes>>
    BY <1>17 DEF EndChange
  <2>5. gen' \in Nat
    BY <2>1 DEF TypeOK
  <2>6. unannounced' \in BOOLEAN
    BY <2>1, Zenon
  <2>. QED  BY <2>2, <2>3, <2>5, <2>6, Zenon DEF TypeOK, vars, diskVars, readVars, ghostVars
<1>18. ASSUME NEW p \in Procs, RemoveOld(p)  PROVE TypeOK'
  <2>1. CASE plan[p].old = {}
    BY <1>18, <2>1 DEF TypeOK, RemoveOld
  <2>2. CASE plan[p].old # {}
    <3>1. PICK n \in plan[p].old :
            /\ files' = [files EXCEPT ![n] = NoFile]
            /\ plan' = [plan EXCEPT ![p].old = @ \ {n}]
            /\ disturbed' = [q \in Procs |-> disturbed[q] \/ pc[q] \in {"manifest", "file"}]
            /\ pc' = pc
      BY <1>18, <2>2 DEF RemoveOld
    <3>2. plan[p] \in Splits
      BY <1>18, SplitType DEF RemoveOld, PlanType, TypeOK
    <3>3. [plan[p] EXCEPT !.old = @ \ {n}] \in Splits
      BY <3>2 DEF Splits
    <3>4. plan' \in [Procs -> Plans]
      BY <3>1, <3>3 DEF TypeOK, Plans
    <3>. QED  BY <1>18, <3>1, <3>4 DEF TypeOK, RemoveOld
  <2>. QED  BY <2>1, <2>2
<1>19. ASSUME NEW p \in Procs, Return(p)  PROVE TypeOK'
  <2>1. latest' \in [Revs -> Versions]
    BY <1>19 DEF TypeOK, Return, Versions
  <2>. QED  BY <1>0, <1>19, <2>1 DEF TypeOK, Return, Forget
<1>20. ASSUME NEW p \in Procs, Crash(p)  PROVE TypeOK'
  BY <1>0, <1>20 DEF TypeOK, Crash, Forget
<1>21. ASSUME Timeout  PROVE TypeOK'
  BY <1>21 DEF TypeOK, Timeout
<1>. QED
  BY <1>1, <1>2, <1>3, <1>4, <1>5, <1>6, <1>7, <1>8, <1>9, <1>10, <1>11, <1>12, <1>13, <1>14, <1>15,
     <1>16, <1>17, <1>18, <1>19, <1>20, <1>21 DEF Next

--------------------------------------------------------------------------------
(* The write lock.                                                         *)

\* Every step leaves the write lock with the one that changes something.
LEMMA LockStep ==
  ASSUME TypeOK, LockInv, Next
  PROVE  LockInv'
<1>0. /\ pc \in [Procs -> Steps] /\ phase \in [Procs -> {"read", "table", "pack"}]
      /\ DOMAIN plan = Procs /\ sets \in Int
  BY DEF TypeOK
<1>. USE DEF LockInv, WithCache, Writing, Goto, diskVars, readVars, ghostVars, FirstStep, SwitchStep, LastStep, Bumps
<1>1. ASSUME NEW p \in Procs, NEW r \in Reads, ReadBegin(p, r)  PROVE LockInv'
  BY <1>0, <1>1 DEF ReadBegin
<1>2. ASSUME NEW p \in Procs, NEW c \in Changes, ChangeBegin(p, c[1], c[2])  PROVE LockInv'
  <2>1. c[2] \in Sizes
    BY DEF Sizes
  <2>. QED  BY <1>0, <1>2, <2>1 DEF ChangeBegin
<1>3. ASSUME NEW p \in Procs, ReadGeneration(p)  PROVE LockInv'
  BY <1>0, <1>3 DEF ReadGeneration, AfterGen
<1>4. ASSUME NEW p \in Procs, CheckTimeout(p)  PROVE LockInv'
  BY <1>0, <1>4 DEF CheckTimeout, AfterGen
<1>5. ASSUME NEW p \in Procs, BumpGeneration(p)  PROVE LockInv'
  BY <1>0, <1>5 DEF BumpGeneration, AfterGen
<1>6. ASSUME NEW p \in Procs, CacheHit(p)  PROVE LockInv'
  BY <1>0, <1>6 DEF CacheHit
<1>7. ASSUME NEW p \in Procs, CacheMiss(p)  PROVE LockInv'
  BY <1>0, <1>7 DEF CacheMiss
<1>8. ASSUME NEW p \in Procs, ReadManifest(p)  PROVE LockInv'
  BY <1>0, <1>8 DEF ReadManifest
<1>9. ASSUME NEW p \in Procs, ReadFile(p)  PROVE LockInv'
  BY <1>0, <1>9 DEF ReadFile
<1>10. ASSUME NEW p \in Procs, ChangeRefused(p)  PROVE LockInv'
  BY <1>0, <1>10 DEF ChangeRefused
<1>11. ASSUME NEW p \in Procs, ChangeGoesOn(p)  PROVE LockInv'
  BY <1>0, <1>11 DEF ChangeGoesOn
<1>12. ASSUME NEW p \in Procs, PlanChange(p)  PROVE LockInv'
  <2>1. /\ pc[p] = "file" /\ phase[p] = "pack" /\ phase' = phase /\ writeLock' = writeLock
        /\ \E s \in {"fail", "write", SwitchStep(p)} : pc' = [pc EXCEPT ![p] = s]
        /\ \A q \in Procs \ {p} : plan'[q] = plan[q]
    BY <1>0, <1>12 DEF PlanChange
  <2>2. \A q \in Procs \ {p} : phase[q] = "read"
    BY <1>0, <2>1
  <2>. QED  BY <1>0, <2>1, <2>2
<1>13. ASSUME NEW p \in Procs, WritePart(p)  PROVE LockInv'
  <2>1. /\ pc[p] = "write" /\ phase' = phase /\ writeLock' = writeLock /\ sets' = sets
        /\ pc' = pc \/ pc' = [pc EXCEPT ![p] = SwitchStep(p)]
        /\ \A q \in Procs \ {p} : plan'[q] = plan[q]
    BY <1>0, <1>13 DEF WritePart
  <2>. QED  BY <1>0, <2>1
<1>14. ASSUME NEW p \in Procs, BeginChange(p)  PROVE LockInv'
  BY <1>0, <1>14 DEF BeginChange
<1>15. ASSUME NEW p \in Procs, MakeOdd(p)  PROVE LockInv'
  BY <1>0, <1>15 DEF MakeOdd
<1>16. ASSUME NEW p \in Procs, MoveIntoPlace(p)  PROVE LockInv'
  BY <1>0, <1>16 DEF MoveIntoPlace
<1>17. ASSUME NEW p \in Procs, EndChange(p)  PROVE LockInv'
  BY <1>0, <1>17 DEF EndChange
<1>18. ASSUME NEW p \in Procs, RemoveOld(p)  PROVE LockInv'
  <2>1. /\ pc[p] = "clean" /\ phase' = phase /\ writeLock' = writeLock /\ sets' = sets
        /\ pc' = pc \/ pc' = [pc EXCEPT ![p] = "done"]
        /\ \A q \in Procs \ {p} : plan'[q] = plan[q]
    BY <1>0, <1>18 DEF RemoveOld
  <2>. QED  BY <1>0, <2>1
<1>19. ASSUME NEW p \in Procs, Return(p)  PROVE LockInv'
  BY <1>0, <1>19 DEF Return, Forget
<1>20. ASSUME NEW p \in Procs, Crash(p)  PROVE LockInv'
  BY <1>0, <1>20 DEF Crash, Forget
<1>21. ASSUME Timeout  PROVE LockInv'
  BY <1>0, <1>21 DEF Timeout
<1>. QED
  BY <1>1, <1>2, <1>3, <1>4, <1>5, <1>6, <1>7, <1>8, <1>9, <1>10, <1>11, <1>12, <1>13, <1>14, <1>15,
     <1>16, <1>17, <1>18, <1>19, <1>20, <1>21 DEF Next

--------------------------------------------------------------------------------
(* Steps that leave the files alone.                                       *)

\* Nothing happens to q.
Same(q) ==
  /\ pc'[q] = pc[q] /\ phase'[q] = phase[q] /\ rev'[q] = rev[q] /\ g'[q] = g[q] /\ name'[q] = name[q]
  /\ got'[q] = got[q] /\ plan'[q] = plan[q] /\ floor'[q] = floor[q] /\ disturbed'[q] = disturbed[q]
  /\ q \in misled' <=> q \in misled

\* A step of p that writes no file.  It may move the generation, put what it has read
\* into the cache, read the manifest, complete a change, or make a plan for one.
Quiet(p) ==
  /\ UNCHANGED <<files, manifest, skewed, torn>>
  /\ \A q \in Procs \ {p} : Same(q)
  /\ (gen' = gen /\ (unannounced => unannounced')) \/ gen' = gen + 1
  /\ g'[p] <= gen'
  /\ \A e \in cache' : e \in cache \/ Took(p, e)
  /\ \/ sets' = sets
     \/ sets' = sets + 1 /\ writeLock = p /\ pc[p] = "file" /\ pc'[p] \in {"write", "begin", "move"}
  /\ \A r \in Revs : \/ latest'[r] = latest[r]
                     \/ latest'[r] = sets /\ phase[p] = "pack" /\ pc[p] = "done" /\ rev[p] = r
  /\ halfDone => halfDone'
  /\ pc'[p] = "file" => /\ pc[p] = "manifest" /\ name'[p] = manifest[rev[p]]
                        /\ rev'[p] = rev[p] /\ phase'[p] = phase[p] /\ g'[p] = g[p] /\ floor'[p] = floor[p]
  /\ phase'[p] = "pack" /\ pc'[p] \in {"clean", "done"} =>
       /\ phase[p] = "pack" /\ rev'[p] = rev[p]
       /\ pc[p] \in {"clean", "done"} \/ (pc[p] = "even" /\ gen' = gen + 1)
  /\ pc[p] = "even" => pc'[p] = "even" \/ halfDone' \/ gen' = gen + 1

\* AtLeast in the next state, for a version of this one.
AtLeastNext(v, r) ==
  /\ v >= latest'[r]
  /\ \A p \in Procs : phase'[p] = "pack" /\ pc'[p] \in {"clean", "done"} /\ rev'[p] = r => v >= sets'

\* A step that does not move the generation promises nothing new; nor does one that
\* does, of a version that is not older than the change that ends with it.
LEMMA QuietAtLeast ==
  ASSUME LockInv, NEW p \in Procs, Quiet(p), gen \in Nat, NEW r \in Revs, NEW v, AtLeast(v, r),
         gen' = gen \/ (pc[p] = "even" /\ rev[p] = r => v >= sets)
  PROVE  AtLeastNext(v, r)
<1>1. v >= latest'[r]
  BY DEF Quiet, AtLeast
<1>2. ASSUME NEW q \in Procs, phase'[q] = "pack", pc'[q] \in {"clean", "done"}, rev'[q] = r
      PROVE  v >= sets'
  <2>1. CASE q = p
    BY <1>2, <2>1 DEF Quiet, AtLeast
  <2>2. CASE q # p
    <3>1. phase[q] = "pack" /\ pc[q] \in {"clean", "done"} /\ rev[q] = r
      BY <1>2, <2>2 DEF Quiet, Same
    <3>2. sets' = sets
      BY <2>2, <3>1 DEF Quiet, LockInv
    <3>. QED  BY <3>1, <3>2 DEF AtLeast
  <2>. QED  BY <2>1, <2>2
<1>. QED  BY <1>1, <1>2 DEF AtLeastNext

\* What holds of the file that the manifest names for r.
LEMMA DiskFacts ==
  ASSUME TypeOK, FilesInv, NEW r \in Revs, DiskOK(r)
  PROVE  /\ manifest[r] \in Names /\ files[manifest[r]] \in Files /\ InShard(files[manifest[r]])
         /\ Has(files[manifest[r]], r) /\ Settled(manifest[r])
         /\ Current(r) \in Lists /\ Current(r) # Error /\ Current(r).ver \in Nat
<1>1. manifest[r] \in Names /\ files[manifest[r]] \in Files /\ InShard(files[manifest[r]]) /\ Has(files[manifest[r]], r)
  BY DEF TypeOK, FilesInv, DiskOK
<1>2. files[manifest[r]].first \in Revs /\ Has(files[manifest[r]], files[manifest[r]].first)
  BY <1>1 DEF Files, InShard, Has, Revs
<1>3. Settled(manifest[r])
  BY <1>2 DEF DiskOK, Settled
<1>4. Current(r) \in Lists /\ Current(r) # Error /\ Current(r).ver \in Versions
  BY <1>1, ListOfType DEF Current
<1>. QED  BY <1>1, <1>3, <1>4 DEF Versions

\* What p itself must see to for the invariant to hold after its step.
Own(p) ==
  /\ PlanType(p)
  /\ ~skewed =>
       /\ pc[p] = "done" /\ phase[p] = "read" /\ p \notin misled =>
            IF got[p] = Error THEN disturbed[p] \/ torn ELSE got[p].ver >= floor[p]
       /\ PromiseOK(p) /\ PlanOK(p)
       /\ Informed(p) => ChangeOK(p)

\* In such a step what is not conditional on the manifest being right stays so.
LEMMA QuietPlain ==
  ASSUME IInv, TypeOK', LockInv', NEW p \in Procs, Quiet(p), PlanType(p)'
  PROVE  /\ GenInv' /\ FilesInv'
         /\ \A q \in Procs : PlanType(q)' /\ (phase'[q] # "read" /\ pc'[q] = "file" => name'[q] = manifest'[rev'[q]])
<1>0. /\ TypeOK /\ LockInv /\ GenInv /\ FilesInv
      /\ \A q \in Procs : PlanType(q) /\ (phase[q] # "read" /\ pc[q] = "file" => name[q] = manifest[rev[q]])
  BY DEF IInv
<1>1. gen \in Nat /\ sets \in Nat /\ gen' \in Nat /\ sets' \in Nat /\ g \in [Procs -> Nat] /\ cache \subseteq Entries
  BY <1>0 DEF TypeOK
<1>2. GenInv'
  <2>1. \A q \in Procs : g'[q] <= gen'
    BY <1>0, <1>1 DEF Quiet, Same, GenInv
  <2>2. \A e \in cache' : e.gen <= gen'
    BY <1>0, <1>1 DEF Quiet, Took, GenInv, Entries
  <2>. QED  BY <2>1, <2>2 DEF GenInv
<1>3. FilesInv'
  <2>1. \A r \in Revs : manifest[r][2] \in Nat /\ latest[r] \in Nat
    BY <1>0 DEF TypeOK, Names, Versions
  <2>2. \A r \in Revs : manifest'[r][2] <= sets' /\ latest'[r] <= sets'
    BY <1>0, <1>1, <2>1 DEF Quiet, FilesInv
  <2>3. \A n \in Names : files'[n] # NoFile => InShard(files'[n])
    BY <1>0 DEF Quiet, FilesInv
  <2>. QED  BY <2>2, <2>3 DEF FilesInv, InShard
<1>4. ASSUME NEW q \in Procs  PROVE PlanType(q)'
  <2>1. CASE q = p
    BY <2>1
  <2>2. CASE q # p
    <3>1. pc'[q] = pc[q] /\ plan'[q] = plan[q]
      BY <2>2 DEF Quiet, Same
    <3>2. CASE pc[q] \notin Writing \cup {"even", "clean"}
      BY <3>1, <3>2 DEF PlanType
    <3>3. CASE pc[q] \in Writing \cup {"even", "clean"}
      <4>1. sets' = sets
        BY <1>0, <2>2, <3>3 DEF Quiet, LockInv
      <4>. QED  BY <1>0, <3>1, <4>1 DEF PlanType, InShard, Corrupt
    <3>. QED  BY <3>2, <3>3
  <2>. QED  BY <2>1, <2>2
<1>5. ASSUME NEW q \in Procs  PROVE phase'[q] # "read" /\ pc'[q] = "file" => name'[q] = manifest'[rev'[q]]
  BY <1>0 DEF Quiet, Same
<1>. QED  BY <1>2, <1>3, <1>4, <1>5

\* What is on disk, and what is read, is still as fresh as promised.
LEMMA QuietDisk ==
  ASSUME IInv, TypeOK', LockInv', NEW p \in Procs, Quiet(p), ~skewed
  PROVE  CacheInv' /\ (\A r \in Revs : DiskOK(r)') /\ \A q \in Procs : ReadOK(q)'
<1>0. /\ TypeOK /\ LockInv /\ GenInv /\ FilesInv /\ CacheInv
      /\ (\A r \in Revs : DiskOK(r)) /\ \A q \in Procs : ReadOK(q) /\ PromiseOK(q) /\ PlanOK(q)
  BY DEF IInv
<1>1. /\ gen \in Nat /\ g \in [Procs -> Nat] /\ cache \subseteq Entries /\ cache' \subseteq Entries
      /\ files' = files /\ manifest' = manifest /\ torn' = torn
  BY <1>0 DEF TypeOK, Quiet
<1>2. ASSUME NEW r \in Revs, NEW v, AtLeast(v, r), gen' = gen  PROVE AtLeastNext(v, r)
  BY <1>0, <1>1, <1>2, QuietAtLeast
<1>3. CacheInv'
  <2>. SUFFICES ASSUME ~unannounced', NEW e \in cache', e.gen = gen'  PROVE AtLeast(e.list.ver, e.rev)'
    BY DEF CacheInv
  <2>1. e.rev \in Revs /\ e.gen \in Nat
    BY <1>1 DEF Entries
  <2>2. e.gen <= gen /\ gen' = gen /\ ~unannounced
    BY <1>0, <1>1, <2>1 DEF Quiet, Took, GenInv
  <2>3. AtLeast(e.list.ver, e.rev)
    <3>1. CASE e \in cache
      BY <1>0, <2>2, <3>1 DEF CacheInv
    <3>2. CASE Took(p, e)
      BY <1>0, <2>1, <2>2, <3>2 DEF ReadOK, Took
    <3>. QED  BY <3>1, <3>2 DEF Quiet
  <2>. QED  BY <1>2, <2>1, <2>2, <2>3 DEF AtLeast, AtLeastNext
<1>4. ASSUME NEW r \in Revs  PROVE DiskOK(r)'
  <2>1. PICK v : v = ListOf(files[manifest[r]], r).ver
    OBVIOUS
  <2>2. AtLeast(v, r) /\ (pc[p] = "even" /\ rev[p] = r => v >= sets)
    BY <1>0, <2>1 DEF DiskOK, PlanOK, Current
  <2>3. AtLeastNext(v, r)
    BY <1>0, <1>1, <2>2, QuietAtLeast
  <2>4. AtLeast(ListOf(files[manifest[r]], r).ver, r)'
    BY <1>1, <2>1, <2>3 DEF AtLeast, AtLeastNext, ListOf
  <2>5. /\ files'[manifest'[r]] # NoFile /\ manifest'[r][1] = files'[manifest'[r]].first
        /\ Has(files'[manifest'[r]], r) /\ manifest'[r][2] <= manifest'[1][2]
        /\ (Corrupt(files'[manifest'[r]]) => torn')
        /\ \A q \in Revs : Has(files'[manifest'[r]], q) => manifest'[q] = manifest'[r]
    BY <1>0, <1>1 DEF DiskOK
  <2>. QED  BY <2>4, <2>5 DEF DiskOK, Has, Corrupt, ListOf
<1>5. ASSUME NEW q \in Procs  PROVE ReadOK(q)'
  <2>. DEFINE c == files[name'[q]]
  <2>. SUFFICES ASSUME pc'[q] = "file"
                PROVE  /\ Settled(name'[q]) /\ (c = NoFile => disturbed'[q])
                       /\ c # NoFile =>
                            /\ (Corrupt(c) => torn) /\ Has(c, rev'[q])
                            /\ phase'[q] = "read" => ListOf(c, rev'[q]).ver >= floor'[q]
                            /\ g'[q] = gen' /\ ~unannounced' => \A r \in Revs : Has(c, r) => AtLeastNext(ListOf(c, r).ver, r)
    BY <1>1 DEF ReadOK, Settled, Corrupt, Has, ListOf, AtLeast, AtLeastNext
  <2>1. ASSUME NEW r \in Revs, AtLeast(ListOf(c, r).ver, r), gen' = gen
        PROVE  AtLeastNext(ListOf(c, r).ver, r)
    BY <1>2, <2>1
  <2>2. CASE q # p
    <3>1. Same(q) /\ pc[q] = "file"
      BY <2>2 DEF Quiet, Same
    <3>2. g'[q] = gen' => gen' = gen /\ g[q] = gen /\ (~unannounced' => ~unannounced)
      BY <1>0, <1>1, <3>1 DEF Quiet, Same, GenInv
    <3>. QED  BY <1>0, <2>1, <3>1, <3>2 DEF ReadOK, Same
  <2>3. CASE q = p
    <3>1. rev[p] \in Revs /\ rev'[p] = rev[p] /\ name'[p] = manifest[rev[p]] /\ g'[p] = g[p]
      BY <1>0, <2>3 DEF Quiet, TypeOK
    <3>2. DiskOK(rev[p]) /\ Settled(name'[q]) /\ c \in Files /\ c # NoFile
      BY <1>0, <2>3, <3>1, DiskFacts
    <3>3. (Corrupt(c) => torn) /\ Has(c, rev'[q])
      BY <2>3, <3>1, <3>2 DEF DiskOK
    <3>4. phase'[q] = "read" => ListOf(c, rev'[q]).ver >= floor'[q]
      <4>1. ListOf(c, rev[p]).ver >= latest[rev[p]]
        BY <3>1, <3>2, <2>3 DEF DiskOK, AtLeast
      <4>2. phase'[q] = "read" => floor'[q] <= latest[rev[p]]
        BY <1>0, <2>3 DEF PromiseOK, Quiet
      <4>3. ListOf(c, rev[p]).ver \in Nat /\ latest[rev[p]] \in Nat /\ floor'[q] \in Nat
        BY <1>0, <2>3, <3>1, <3>2, <3>3, ListOfType DEF TypeOK, Versions
      <4>. QED  BY <2>3, <3>1, <4>1, <4>2, <4>3
    <3>5. ASSUME g'[q] = gen', NEW r \in Revs, Has(c, r)  PROVE AtLeastNext(ListOf(c, r).ver, r)
      <4>1. gen' = gen
        BY <1>0, <1>1, <2>3, <3>1, <3>5 DEF Quiet, GenInv
      <4>2. manifest[r] = name'[q]
        BY <2>3, <3>1, <3>2, <3>5 DEF DiskOK
      <4>3. AtLeast(ListOf(c, r).ver, r)
        BY <1>0, <4>2 DEF DiskOK
      <4>. QED  BY <2>1, <4>1, <4>3
    <3>. QED  BY <3>2, <3>3, <3>4, <3>5
  <2>. QED  BY <2>2, <2>3
<1>. QED  BY <1>3, <1>4, <1>5

\* A plan is as good as it was while files and manifest stay.
LEMMA PlanKept ==
  ASSUME NEW q \in Procs, files' = files, manifest' = manifest, torn' = torn, sets' = sets,
         plan'[q] = plan[q], rev'[q] = rev[q]
  PROVE  /\ (PlaceOK(q) => PlaceOK(q)') /\ (SplitOK(q) => SplitOK(q)')
         /\ Current(rev[q]).ver >= sets => (Current(rev[q]).ver >= sets)'
<1>1. PlaceOK(q) => PlaceOK(q)'
  BY DEF PlaceOK, Has, ListOf, Corrupt, NewList
<1>2. ASSUME SplitOK(q)  PROVE SplitOK(q)'
  <2>1. \A f, r : PartOK(q, f, r) => PartOK(q, f, r)'
    BY SMTT(30) DEF PartOK, Has, ListOf, Corrupt, NewList
  <2>2. ASSUME NEW r \in Revs
        PROVE  PartOK(q, files[plan[q].manifest[r]], r) => PartOK(q, files[plan[q].manifest[r]], r)'
    BY DEF PartOK, Has, ListOf, Corrupt, NewList
  <2>. QED  BY <1>2, <2>1, <2>2 DEF SplitOK
<1>3. Current(rev[q]).ver >= sets => (Current(rev[q]).ver >= sets)'
  BY DEF Current, ListOf
<1>. QED  BY <1>1, <1>2, <1>3, SMTT(30)

\* What others have been promised, or plan, is as it was.
LEMMA QuietOthers ==
  ASSUME IInv, TypeOK', LockInv', NEW p \in Procs, Quiet(p), ~skewed, NEW q \in Procs, q # p
  PROVE  PromiseOK(q)' /\ PlanOK(q)'
<1>0. /\ TypeOK /\ LockInv /\ GenInv /\ FilesInv
      /\ (\A r \in Revs : DiskOK(r)) /\ \A o \in Procs : ReadOK(o) /\ PromiseOK(o) /\ PlanOK(o)
  BY DEF IInv
<1>1. /\ files' = files /\ manifest' = manifest /\ torn' = torn /\ Same(q)
      /\ rev \in [Procs -> Revs] /\ rev[q] \in Revs /\ floor[q] \in Nat
  BY <1>0 DEF TypeOK, Quiet, Versions
<1>2. \A r \in Revs : latest[r] \in Nat /\ latest'[r] \in Nat /\ latest[r] <= latest'[r]
  <2>1. \A r \in Revs : latest[r] \in Nat /\ latest'[r] \in Nat /\ latest[r] <= sets /\ sets \in Nat
    BY <1>0 DEF TypeOK, Versions, FilesInv
  <2>. QED  BY <2>1 DEF Quiet
<1>3. PromiseOK(q)'
  <2>. SUFFICES ASSUME phase[q] = "read", pc[q] \in {"gen", "bump", "manifest", "file"} \cup Looking
                PROVE  /\ floor[q] <= latest'[rev[q]]
                       /\ pc[q] \in Looking /\ q \notin misled =>
                            /\ \A e \in cache' : e.gen = g[q] /\ e.rev = rev[q] => e.list.ver >= floor[q]
                            /\ \A o \in Procs : pc'[o] = "file" /\ g'[o] = g[q] =>
                                 (files[name'[o]] # NoFile /\ Has(files[name'[o]], rev[q]) =>
                                   ListOf(files[name'[o]], rev[q]).ver >= floor[q])
    BY <1>1 DEF PromiseOK, Same, Has, ListOf
  <2>1. floor[q] <= latest[rev[q]] /\ floor[q] <= latest'[rev[q]]
    BY <1>0, <1>1, <1>2 DEF PromiseOK
  <2>2. ASSUME pc[q] \in Looking, q \notin misled, NEW e \in cache', e.gen = g[q], e.rev = rev[q]
        PROVE  e.list.ver >= floor[q]
    <3>1. CASE e \in cache
      BY <1>0, <2>2, <3>1 DEF PromiseOK
    <3>2. CASE Took(p, e)
      BY <1>0, <2>2, <3>2 DEF PromiseOK, Took
    <3>. QED  BY <3>1, <3>2 DEF Quiet
  <2>3. ASSUME pc[q] \in Looking, q \notin misled, NEW o \in Procs, pc'[o] = "file", g'[o] = g[q],
               files[name'[o]] # NoFile, Has(files[name'[o]], rev[q])
        PROVE  ListOf(files[name'[o]], rev[q]).ver >= floor[q]
    <3>1. CASE o # p
      BY <1>0, <2>3, <3>1 DEF PromiseOK, Quiet, Same
    <3>2. CASE o = p
      <4>1. name'[p] = manifest[rev[p]] /\ rev[p] \in Revs
        BY <1>1, <2>3, <3>2 DEF Quiet
      <4>2. manifest[rev[q]] = name'[p]
        BY <1>0, <1>1, <2>3, <3>2, <4>1 DEF DiskOK
      <4>3. Current(rev[q]).ver >= latest[rev[q]] /\ Current(rev[q]).ver \in Nat
        BY <1>0, <1>1, DiskFacts DEF DiskOK, AtLeast, Current
      <4>. QED  BY <1>1, <1>2, <2>1, <3>2, <4>2, <4>3 DEF Current
    <3>. QED  BY <3>1, <3>2
  <2>. QED  BY <2>1, <2>2, <2>3
<1>4. PlanOK(q)'
  <2>1. CASE pc[q] \notin Writing \cup {"even", "clean"}
    BY <1>1, <2>1 DEF PlanOK, Same, Writing
  <2>2. CASE pc[q] \in Writing \cup {"even", "clean"}
    <3>1. sets' = sets
      BY <1>0, <2>2 DEF Quiet, LockInv
    <3>2. /\ (PlaceOK(q) => PlaceOK(q)') /\ (SplitOK(q) => SplitOK(q)')
          /\ Current(rev[q]).ver >= sets => (Current(rev[q]).ver >= sets)'
      BY <1>1, <3>1, PlanKept DEF Same
    <3>. QED  BY <1>0, <1>1, <3>2 DEF PlanOK, Same, Settled
  <2>. QED  BY <2>1, <2>2
<1>. QED  BY <1>3, <1>4

\* The present generation, and that of one who changes something, stand for what is on disk.
LEMMA QuietSame ==
  ASSUME IInv, TypeOK', LockInv', NEW p \in Procs, Quiet(p), ~skewed
  PROVE  SameInv' /\ \A q \in Procs \ {p} : Informed(q)' => ChangeOK(q)'
<1>0. /\ TypeOK /\ LockInv /\ GenInv /\ FilesInv
      /\ (\A r \in Revs : DiskOK(r)) /\ SameInv /\ \A q \in Procs : (Informed(q) => ChangeOK(q)) /\ ReadOK(q)
  BY DEF IInv, Quiet
<1>1. /\ files' = files /\ manifest' = manifest /\ (\A r : Current(r)' = Current(r))
      /\ gen \in Nat /\ g \in [Procs -> Nat] /\ cache \subseteq Entries /\ rev \in [Procs -> Revs]
  BY <1>0 DEF TypeOK, Quiet, Current, ListOf
<1>2. ASSUME NEW n, \A o \in Procs : pc[o] = "file" /\ g[o] = n => name[o] = manifest[rev[o]],
             \A e \in cache : e.gen = n => e.list = Current(e.rev)
      PROVE  /\ \A e \in cache' : e.gen = n => e.list = Current(e.rev)
             /\ \A o \in Procs : pc'[o] = "file" /\ g'[o] = n => name'[o] = manifest[rev'[o]]
  <2>1. ASSUME NEW e \in cache', e.gen = n  PROVE e.list = Current(e.rev)
    <3>1. CASE e \in cache
      BY <1>2, <2>1, <3>1
    <3>2. CASE Took(p, e)
      <4>1. name[p] = manifest[rev[p]] /\ rev[p] \in Revs /\ e.rev \in Revs
        BY <1>1, <1>2, <2>1, <3>2 DEF Took, TypeOK, Entries
      <4>2. manifest[e.rev] = name[p]
        BY <1>0, <3>2, <4>1 DEF DiskOK, Took
      <4>. QED  BY <3>2, <4>2 DEF Took, Current
    <3>. QED  BY <3>1, <3>2 DEF Quiet
  <2>2. ASSUME NEW o \in Procs, pc'[o] = "file", g'[o] = n  PROVE name'[o] = manifest[rev'[o]]
    <3>1. CASE o = p
      BY <2>2, <3>1 DEF Quiet
    <3>2. CASE o # p
      BY <1>2, <2>2, <3>2 DEF Quiet, Same
    <3>. QED  BY <3>1, <3>2
  <2>. QED  BY <2>1, <2>2
<1>3. SameInv'
  <2>. SUFFICES ASSUME \A q \in Procs : pc'[q] # "even", ~halfDone', ~unannounced'
                PROVE  /\ \A e \in cache' : e.gen = gen' => e.list = Current(e.rev)
                       /\ \A q \in Procs : pc'[q] = "file" /\ g'[q] = gen' => name'[q] = manifest[rev'[q]]
    BY <1>1 DEF SameInv
  <2>1. CASE gen' = gen
    <3>1. (\A q \in Procs : pc[q] # "even") /\ ~halfDone /\ ~unannounced
      BY <1>1, <2>1 DEF Quiet, Same
    <3>2. /\ \A o \in Procs : pc[o] = "file" /\ g[o] = gen' => name[o] = manifest[rev[o]]
          /\ \A e \in cache : e.gen = gen' => e.list = Current(e.rev)
      BY <1>0, <2>1, <3>1 DEF SameInv
    <3>. QED  BY <1>2, <3>2
  <2>2. CASE gen' = gen + 1
    <3>1. \A e \in cache' : e.gen # gen'
      BY <1>0, <1>1, <2>2 DEF Quiet, Took, GenInv, Entries
    <3>2. \A q \in Procs : pc'[q] = "file" => name'[q] = manifest[rev'[q]] \/ g'[q] # gen'
      BY <1>0, <1>1, <2>2 DEF Quiet, Same, GenInv
    <3>. QED  BY <3>1, <3>2
  <2>. QED  BY <2>1, <2>2 DEF Quiet
<1>4. ASSUME NEW q \in Procs \ {p}, Informed(q)'  PROVE ChangeOK(q)'
  <2>1. Same(q) /\ ChangeOK(q)
    <3>1. Same(q) /\ (halfDone => halfDone')
      BY DEF Quiet
    <3>2. Informed(q)
      BY <1>4, <3>1 DEF Informed, Same
    <3>. QED  BY <1>0, <3>1, <3>2
  <2>2. (Current(rev[q]))' = Current(rev[q])
    BY <1>1, <2>1 DEF Current, ListOf, Same
  <2>3. ASSUME phase[q] = "table", pc[q] \in Looking
        PROVE  /\ \A e \in cache' : e.gen = g[q] => e.list = Current(e.rev)
               /\ \A o \in Procs : pc'[o] = "file" /\ g'[o] = g[q] => name'[o] = manifest[rev'[o]]
    <3>1. /\ \A o \in Procs : pc[o] = "file" /\ g[o] = g[q] => name[o] = manifest[rev[o]]
          /\ \A e \in cache : e.gen = g[q] => e.list = Current(e.rev)
      BY <2>1, <2>3 DEF ChangeOK
    <3>. QED  BY <1>2, <3>1
  <2>. QED  BY <1>1, <2>1, <2>2, <2>3 DEF ChangeOK, Same
<1>. QED  BY <1>3, <1>4

\* So a step that writes no file keeps the invariant, if p sees to its own part.
LEMMA QuietStep ==
  ASSUME IInv, TypeOK', LockInv', NEW p \in Procs, Quiet(p), Own(p)'
  PROVE  IInv'
<1>1. /\ GenInv' /\ FilesInv'
      /\ \A q \in Procs : PlanType(q)' /\ (phase'[q] # "read" /\ pc'[q] = "file" => name'[q] = manifest'[rev'[q]])
  BY QuietPlain DEF Own
<1>2. ASSUME ~skewed'
      PROVE  /\ CacheInv' /\ FreshReads'
             /\ \A r \in Revs : DiskOK(r)'
             /\ \A q \in Procs : ReadOK(q)' /\ PromiseOK(q)' /\ PlanOK(q)'
             /\ SameInv' /\ \A q \in Procs : Informed(q)' => ChangeOK(q)'
  <2>1. ~skewed
    BY <1>2 DEF Quiet
  <2>2. CacheInv' /\ (\A r \in Revs : DiskOK(r)') /\ \A q \in Procs : ReadOK(q)'
    BY <2>1, QuietDisk
  <2>3. \A q \in Procs : PromiseOK(q)' /\ PlanOK(q)'
    BY <1>2, <2>1, QuietOthers DEF Own
  <2>4. SameInv' /\ \A q \in Procs : Informed(q)' => ChangeOK(q)'
    BY <1>2, <2>1, QuietSame DEF Own
  <2>5. FreshReads'
    <3>1. FreshReads
      BY <2>1 DEF IInv
    <3>. QED  BY <1>2, <3>1 DEF FreshReads, Own, Quiet, Same
  <2>. QED  BY <2>2, <2>3, <2>4, <2>5
<1>. QED  BY <1>1, <1>2 DEF IInv

--------------------------------------------------------------------------------
(* The actions that write no file.                                         *)

\* A call begins, or ends, or its process dies.
LEMMA CallSteps ==
  ASSUME IInv, TypeOK', LockInv', NEW p \in Procs,
         \/ \E r \in Reads : ReadBegin(p, r)
         \/ \E c \in Changes : ChangeBegin(p, c[1], c[2])
         \/ ChangeRefused(p) \/ Return(p) \/ Crash(p)
  PROVE  IInv'
<1>0. TypeOK /\ LockInv /\ GenInv
  BY DEF IInv
<1>1. /\ gen \in Nat /\ sets \in Nat /\ g \in [Procs -> Nat] /\ g[p] <= gen
      /\ DOMAIN pc = Procs /\ DOMAIN phase = Procs /\ DOMAIN rev = Procs /\ DOMAIN name = Procs
      /\ DOMAIN got = Procs /\ DOMAIN plan = Procs /\ DOMAIN floor = Procs /\ DOMAIN disturbed = Procs
      /\ DOMAIN latest = Revs /\ (\A r \in Revs : latest[r] \in Nat)
  BY <1>0 DEF TypeOK, GenInv, Versions
<1>. USE DEF Goto, diskVars, readVars, ghostVars, FirstStep
<1>2. ASSUME NEW r \in Reads, ReadBegin(p, r)  PROVE IInv'
  <2>1. r \in Revs
    BY DEF Revs
  <2>2. Quiet(p)
    BY <1>1, <1>2 DEF ReadBegin, Quiet, Same
  <2>3. Own(p)'
    BY <1>1, <1>2, <2>1 DEF ReadBegin, Own, PlanType, PromiseOK, PlanOK, ChangeOK, Looking, Writing
  <2>. QED  BY <2>2, <2>3, QuietStep
<1>3. ASSUME NEW c \in Changes, ChangeBegin(p, c[1], c[2])  PROVE IInv'
  <2>2. Quiet(p)
    BY <1>1, <1>3 DEF ChangeBegin, Quiet, Same
  <2>3. Own(p)'
    BY <1>1, <1>3 DEF ChangeBegin, Own, PlanType, PromiseOK, PlanOK, ChangeOK, Looking, Writing
  <2>. QED  BY <2>2, <2>3, QuietStep
<1>4. ASSUME ChangeRefused(p)  PROVE IInv'
  <2>2. Quiet(p)
    BY <1>1, <1>4 DEF ChangeRefused, Quiet, Same
  <2>3. Own(p)'
    BY <1>1, <1>4 DEF ChangeRefused, Own, PlanType, PromiseOK, PlanOK, ChangeOK, Looking, Writing
  <2>. QED  BY <2>2, <2>3, QuietStep
<1>5. ASSUME Return(p)  PROVE IInv'
  <2>2. Quiet(p)
    BY <1>1, <1>5 DEF Return, Forget, Quiet, Same
  <2>3. Own(p)'
    BY <1>1, <1>5 DEF Return, Forget, Own, PlanType, PromiseOK, PlanOK, ChangeOK, Looking, Writing
  <2>. QED  BY <2>2, <2>3, QuietStep
<1>6. ASSUME Crash(p)  PROVE IInv'
  <2>1. halfDone' <=> halfDone \/ pc[p] = "even"
    BY <1>6, Zenon DEF Crash
  <2>2. Quiet(p)
    <3>1. /\ UNCHANGED <<files, manifest, skewed, torn, unannounced, gen, cache, sets, latest>>
          /\ pc'[p] = "idle" /\ g'[p] = 0 /\ \A q \in Procs \ {p} : Same(q)
      BY <1>1, <1>6 DEF Crash, Forget, Same
    <3>. QED  BY <1>1, <2>1, <3>1 DEF Quiet
  <2>3. Own(p)'
    BY <1>1, <1>6 DEF Crash, Forget, Own, PlanType, PromiseOK, PlanOK, ChangeOK, Looking, Writing
  <2>. QED  BY <2>2, <2>3, QuietStep
<1>. QED  BY <1>2, <1>3, <1>4, <1>5, <1>6

\* The types that every step of p needs.
LEMMA Domains ==
  ASSUME IInv, NEW p \in Procs
  PROVE  /\ gen \in Nat /\ sets \in Nat /\ g \in [Procs -> Nat] /\ g[p] <= gen
         /\ DOMAIN pc = Procs /\ DOMAIN phase = Procs /\ rev \in [Procs -> Revs] /\ DOMAIN name = Procs
         /\ DOMAIN got = Procs /\ DOMAIN plan = Procs /\ DOMAIN floor = Procs /\ DOMAIN disturbed = Procs
         /\ DOMAIN latest = Revs /\ (\A r \in Revs : latest[r] \in Nat) /\ (\A q \in Procs : floor[q] \in Nat)
         /\ phase \in [Procs -> {"read", "table", "pack"}]
BY DEF IInv, TypeOK, GenInv, Versions

\* read_revprop_generation: the generation, and what is taken for granted with it.
LEMMA GenSteps ==
  ASSUME IInv, TypeOK', LockInv', NEW p \in Procs, ReadGeneration(p) \/ CheckTimeout(p) \/ BumpGeneration(p)
  PROVE  IInv'
<1>0. /\ TypeOK /\ LockInv /\ GenInv
      /\ ~skewed => /\ CacheInv
                    /\ \A q \in Procs : ReadOK(q) /\ PromiseOK(q)
                    /\ SameInv /\ \A q \in Procs : Informed(q) => ChangeOK(q)
  BY DEF IInv
<1>1. /\ gen \in Nat /\ sets \in Nat /\ g \in [Procs -> Nat] /\ g[p] <= gen
      /\ DOMAIN pc = Procs /\ DOMAIN phase = Procs /\ rev \in [Procs -> Revs] /\ DOMAIN name = Procs
      /\ (\A r \in Revs : latest[r] \in Nat) /\ (\A q \in Procs : floor[q] \in Nat)
      /\ phase \in [Procs -> {"read", "table", "pack"}]
  BY Domains
<1>2. /\ UNCHANGED <<files, manifest, skewed, torn, halfDone, cache, sets, latest, phase, rev, name, got, floor, disturbed, plan>>
      /\ pc[p] \in {"gen", "late", "bump"} /\ pc'[p] \in {"late", "bump", "lookup", "manifest"}
      /\ \A q \in Procs \ {p} : pc'[q] = pc[q] /\ g'[q] = g[q]
      /\ phase[p] = "pack" => pc'[p] # "lookup"
      /\ \A q \in Procs : q \in misled => q \in misled'
      /\ \A q \in Procs \ {p} : q \in misled' => q \in misled
      /\ \/ gen' = gen /\ g'[p] = gen /\ pc[p] = "gen" /\ (unannounced => p \in misled' /\ unannounced')
         \/ gen' = gen /\ g'[p] = g[p] /\ pc[p] = "late" /\ (unannounced => unannounced')
         \/ gen' = gen + 1 /\ g'[p] = gen + 1 /\ pc[p] = "bump"
  BY <1>1 DEF ReadGeneration, CheckTimeout, BumpGeneration, Add, AfterGen, Goto, diskVars, readVars, ghostVars
<1>3. Quiet(p)
  BY <1>1, <1>2 DEF Quiet, Same
<1>4. ASSUME ~skewed, phase[p] = "read"  PROVE PromiseOK(p)'
  <2>1. floor[p] <= latest[rev[p]] /\ rev[p] \in Revs /\ latest[rev[p]] \in Nat /\ floor[p] \in Nat
    BY <1>0, <1>1, <1>2, <1>4 DEF PromiseOK, Looking
  <2>. SUFFICES ASSUME pc'[p] \in Looking, p \notin misled'
                PROVE  /\ \A e \in cache : e.gen = g'[p] /\ e.rev = rev[p] => e.list.ver >= floor[p]
                       /\ \A q \in Procs \ {p} : pc[q] = "file" /\ g[q] = g'[p] =>
                            (files[name[q]] # NoFile /\ Has(files[name[q]], rev[p]) =>
                              ListOf(files[name[q]], rev[p]).ver >= floor[p])
    BY <1>2, <2>1 DEF PromiseOK, Has, ListOf, Looking
  <2>2. \A e \in cache : e.list.ver \in Nat /\ e.gen \in Nat
    BY <1>0 DEF TypeOK, Entries, Lists, Versions
  <2>3. CASE g'[p] = gen /\ pc[p] = "gen"
    <3>0. ~unannounced
      BY <1>2, <2>3
    <3>1. ASSUME NEW e \in cache, e.gen = gen, e.rev = rev[p]  PROVE e.list.ver >= floor[p]
      BY <1>0, <1>4, <2>1, <2>2, <3>0, <3>1 DEF CacheInv, AtLeast
    <3>2. ASSUME NEW q \in Procs, pc[q] = "file", g[q] = gen, files[name[q]] # NoFile, Has(files[name[q]], rev[p])
          PROVE  ListOf(files[name[q]], rev[p]).ver >= floor[p]
      <4>1. ListOf(files[name[q]], rev[p]).ver >= latest[rev[p]]
        BY <1>0, <1>4, <2>1, <3>0, <3>2 DEF ReadOK, AtLeast
      <4>2. files[name[q]] \in Files
        BY <1>0, <3>2 DEF TypeOK
      <4>3. ListOf(files[name[q]], rev[p]).ver \in Nat
        BY <2>1, <3>2, <4>2, ListOfType DEF Versions
      <4>. QED  BY <2>1, <4>1, <4>3
    <3>. QED  BY <2>3, <3>1, <3>2
  <2>4. CASE g'[p] = g[p] /\ pc[p] = "late"
    BY <1>0, <1>2, <1>4, <2>4 DEF PromiseOK, Looking
  <2>5. CASE g'[p] = gen + 1
    BY <1>0, <1>1, <2>2, <2>5 DEF GenInv
  <2>. QED  BY <1>2, <2>3, <2>4, <2>5
<1>5. ASSUME ~skewed, Informed(p)'  PROVE ChangeOK(p)'
  <2>0. p \in Cached /\ ~halfDone /\ p \notin misled' /\ ChangeOK(p)
    <3>1. p \in Cached /\ ~halfDone /\ p \notin misled'
      BY <1>0, <1>2, <1>5 DEF LockInv, WithCache, Informed
    <3>. QED  BY <1>0, <1>2, <1>5, <3>1 DEF Informed
  <2>1. phase[p] = "pack" => got[p] = Current(rev[p])
    BY <1>2, <2>0 DEF ChangeOK
  <2>2. ASSUME phase[p] = "table", pc'[p] \in Looking
        PROVE  /\ \A e \in cache : e.gen = g'[p] => e.list = Current(e.rev)
               /\ \A q \in Procs \ {p} : pc[q] = "file" /\ g[q] = g'[p] => name[q] = manifest[rev[q]]
    <3>1. \A q \in Procs : pc[q] # "even"
      BY <1>0, <1>2, <2>2 DEF LockInv
    <3>2. CASE g'[p] = gen /\ pc[p] = "gen"
      BY <1>0, <1>2, <1>5, <2>0, <3>1, <3>2 DEF SameInv
    <3>3. CASE g'[p] = g[p] /\ pc[p] = "late"
      BY <2>0, <2>2, <3>3 DEF ChangeOK, Looking
    <3>4. CASE g'[p] = gen + 1
      <4>1. \A e \in cache : e.gen \in Nat
        BY <1>0 DEF TypeOK, Entries
      <4>. QED  BY <1>0, <1>1, <3>4, <4>1 DEF GenInv
    <3>. QED  BY <1>2, <3>2, <3>3, <3>4
  <2>3. (Current(rev[p]))' = Current(rev[p]) /\ \A r : Current(r)' = Current(r)
    BY <1>2 DEF Current, ListOf
  <2>. QED  BY <1>2, <2>1, <2>2, <2>3 DEF ChangeOK, Writing
<1>6. Own(p)'
  <2>1. PlanType(p)' /\ PlanOK(p)'
    BY <1>2 DEF PlanType, PlanOK, Writing
  <2>2. ~skewed' => PromiseOK(p)'
    BY <1>2, <1>4 DEF PromiseOK
  <2>. QED  BY <1>2, <1>5, <2>1, <2>2 DEF Own
<1>. QED  BY <1>3, <1>6, QuietStep

\* get_revision_proplist: the cache, or else the manifest and the file it names.
LEMMA LookupSteps ==
  ASSUME IInv, TypeOK', LockInv', NEW p \in Procs,
         CacheHit(p) \/ CacheMiss(p) \/ ReadManifest(p) \/ ReadFile(p)
  PROVE  IInv'
<1>0. /\ TypeOK /\ LockInv /\ GenInv
      /\ phase[p] # "read" /\ pc[p] = "file" => name[p] = manifest[rev[p]]
      /\ ~skewed => /\ \A q \in Procs : ReadOK(q) /\ PromiseOK(q)
                    /\ \A q \in Procs : Informed(q) => ChangeOK(q)
  BY DEF IInv
<1>1. /\ gen \in Nat /\ sets \in Nat /\ g \in [Procs -> Nat] /\ g[p] <= gen
      /\ DOMAIN pc = Procs /\ DOMAIN phase = Procs /\ rev \in [Procs -> Revs] /\ DOMAIN name = Procs
      /\ DOMAIN got = Procs /\ phase \in [Procs -> {"read", "table", "pack"}]
  BY Domains
<1>. USE DEF Goto, diskVars, readVars, ghostVars
<1>2. ASSUME CacheHit(p)  PROVE IInv'
  <2>1. PICK e \in cache : /\ pc[p] = "lookup" /\ e.rev = rev[p] /\ e.gen = g[p]
                           /\ got' = [got EXCEPT ![p] = e.list]
                           /\ pc' = [pc EXCEPT ![p] = IF phase[p] = "read" THEN "done" ELSE "got"]
    BY <1>2 DEF CacheHit
  <2>2. /\ UNCHANGED <<files, manifest, skewed, torn, halfDone, unannounced, misled, gen, cache, sets, latest, phase, rev, g, name, floor, disturbed, plan>>
        /\ pc'[p] \in {"done", "got"} /\ phase[p] # "pack" /\ (pc'[p] = "done" <=> phase[p] = "read")
    BY <1>0, <1>1, <1>2, <2>1 DEF CacheHit, LockInv
  <2>3. Quiet(p)
    BY <1>1, <2>1, <2>2 DEF Quiet, Same
  <2>4. e.list # Error
    BY <1>0 DEF TypeOK, Entries
  <2>5. ~skewed => PromiseOK(p)' /\ PlanOK(p)' /\ (phase[p] = "read" /\ p \notin misled => e.list.ver >= floor[p])
    BY <1>0, <2>1, <2>2 DEF PromiseOK, PlanOK, Looking, Writing
  <2>6. ~skewed /\ Informed(p) => ChangeOK(p)'
    <3>1. (Current(rev[p]))' = Current(rev[p])
      BY <2>2 DEF Current, ListOf
    <3>2. ~skewed /\ Informed(p) /\ phase[p] = "table" => e.list = Current(rev[p])
      BY <1>0, <2>1 DEF ChangeOK, Looking
    <3>. QED  BY <1>1, <2>1, <2>2, <3>1, <3>2 DEF ChangeOK, Looking
  <2>7. PlanType(p)' /\ got'[p] = e.list
    BY <1>1, <2>1, <2>2 DEF PlanType, Writing
  <2>8. Own(p)'
    BY <2>2, <2>4, <2>5, <2>6, <2>7 DEF Own, Informed
  <2>. QED  BY <2>3, <2>8, QuietStep
<1>3. ASSUME CacheMiss(p)  PROVE IInv'
  <2>1. Quiet(p)
    BY <1>1, <1>3 DEF CacheMiss, Quiet, Same
  <2>2. ~skewed => PromiseOK(p)'
    BY <1>0, <1>1, <1>3 DEF CacheMiss, PromiseOK, Looking
  <2>3. phase'[p] # "pack" /\ pc'[p] = "manifest"
    BY <1>0, <1>1, <1>3 DEF CacheMiss, LockInv
  <2>4. Own(p)'
    BY <2>1, <2>2, <2>3 DEF Own, PlanType, PlanOK, ChangeOK, Looking, Writing, Quiet
  <2>. QED  BY <2>1, <2>4, QuietStep
<1>4. ASSUME ReadManifest(p)  PROVE IInv'
  <2>1. Quiet(p) /\ pc'[p] = "file" /\ pc[p] = "manifest" /\ phase' = phase /\ rev' = rev /\ got' = got
    BY <1>1, <1>4 DEF ReadManifest, Quiet, Same
  <2>2. ~skewed => PromiseOK(p)'
    BY <1>0, <1>1, <1>4 DEF ReadManifest, PromiseOK, Looking
  <2>3. ~skewed /\ Informed(p) => ChangeOK(p)'
    <3>1. (Current(rev[p]))' = Current(rev[p])
      BY <2>1 DEF Current, ListOf, Quiet
    <3>. QED  BY <1>0, <2>1, <3>1 DEF ChangeOK, Looking
  <2>4. Own(p)'
    <3>1. Informed(p)' => Informed(p)
      BY <1>4 DEF ReadManifest, Informed
    <3>. QED  BY <2>1, <2>2, <2>3, <3>1 DEF Own, PlanType, PlanOK, Writing, Quiet
  <2>. QED  BY <2>1, <2>4, QuietStep
<1>5. ASSUME ReadFile(p)  PROVE IInv'
  <2>. DEFINE c == files[name[p]]
              l == Found(rev[p], name[p])
  <2>1. /\ pc[p] = "file" /\ phase[p] # "pack"
        /\ UNCHANGED <<files, manifest, skewed, torn, halfDone, unannounced, misled, gen, sets, latest, phase, rev, g, name, floor, disturbed, plan>>
        /\ got' = [got EXCEPT ![p] = l]
        /\ pc' = [pc EXCEPT ![p] = IF phase[p] = "read" THEN "done" ELSE IF l = Error THEN "fail" ELSE "got"]
    BY <1>5 DEF ReadFile
  <2>2. cache' = IF c = NoFile THEN cache ELSE IF Corrupt(c) THEN cache ELSE CacheLists(p)
    BY <1>5, Zenon DEF ReadFile
  <2>3. \A e \in cache' : e \in cache \/ Took(p, e)
    BY <1>0, <2>1, <2>2, CacheListsOK
  <2>. HIDE DEF l
  <2>4. /\ pc'[p] \in {"done", "fail", "got"} /\ (pc'[p] = "done" <=> phase[p] = "read")
        /\ (pc'[p] = "got" => l # Error) /\ got'[p] = l
        /\ \A q \in Procs \ {p} : Same(q)
    BY <1>1, <2>1 DEF Same
  <2>5. Quiet(p)
    BY <1>1, <2>1, <2>3, <2>4 DEF Quiet
  <2>6. c \in Files \cup {NoFile} /\ rev[p] \in Revs
    BY <1>0 DEF TypeOK
  <2>7. ASSUME ~skewed, phase[p] = "read"
        PROVE  IF l = Error THEN disturbed[p] \/ torn ELSE l.ver >= floor[p]
    <3>1. /\ (c = NoFile => disturbed[p])
          /\ c # NoFile => (Corrupt(c) => torn) /\ Has(c, rev[p]) /\ ListOf(c, rev[p]).ver >= floor[p]
      BY <1>0, <2>1, <2>7 DEF ReadOK
    <3>2. c # NoFile => ListOf(c, rev[p]) # Error
      BY <2>6, <3>1, ListOfType
    <3>. QED  BY <3>1, <3>2 DEF l, Found
  <2>8. ChangeOK(p)'
    <3>1. (Current(rev[p]))' = Current(rev[p])
      BY <2>1 DEF Current, ListOf
    <3>2. phase[p] # "read" /\ l # Error => l = Current(rev[p])
      BY <1>0, <2>1 DEF l, Found, Current
    <3>. QED  BY <1>1, <2>1, <2>4, <3>1, <3>2 DEF ChangeOK, Looking
  <2>9. Own(p)'
    <3>1. PlanType(p)' /\ PlanOK(p)' /\ PromiseOK(p)'
      BY <2>4 DEF PlanType, PlanOK, PromiseOK, Looking, Writing
    <3>. QED  BY <2>1, <2>4, <2>7, <2>8, <3>1 DEF Own
  <2>. QED  BY <2>5, <2>9, QuietStep
<1>. QED  BY <1>2, <1>3, <1>4, <1>5

\* A change goes on, begins and ends: begin_revprop_change and end_revprop_change.
LEMMA ChangeSteps ==
  ASSUME IInv, TypeOK', LockInv', NEW p \in Procs,
         ChangeGoesOn(p) \/ BeginChange(p) \/ MakeOdd(p) \/ EndChange(p)
  PROVE  IInv'
<1>0. /\ TypeOK /\ LockInv /\ GenInv /\ PlanType(p)
      /\ ~skewed => PlanOK(p) /\ (Informed(p) => ChangeOK(p))
  BY DEF IInv
<1>1. /\ gen \in Nat /\ sets \in Nat /\ g \in [Procs -> Nat] /\ g[p] <= gen
      /\ DOMAIN pc = Procs /\ DOMAIN phase = Procs /\ rev \in [Procs -> Revs]
      /\ phase \in [Procs -> {"read", "table", "pack"}]
  BY Domains
<1>. USE DEF Goto, diskVars, readVars, ghostVars
<1>2. ASSUME ChangeGoesOn(p)  PROVE IInv'
  <2>1. /\ Quiet(p) /\ pc'[p] \in {"gen", "manifest"} /\ phase'[p] = "pack"
        /\ UNCHANGED <<got, rev, halfDone, misled>>
    BY <1>1, <1>2 DEF ChangeGoesOn, FirstStep, Quiet, Same
  <2>2. (Current(rev[p]))' = Current(rev[p])
    BY <2>1 DEF Current, ListOf, Quiet
  <2>3. ~skewed /\ Informed(p) => got[p] = Current(rev[p])
    BY <1>0, <1>2 DEF ChangeGoesOn, ChangeOK, LockInv
  <2>4. Own(p)'
    BY <2>1, <2>2, <2>3 DEF Own, Informed, PlanType, PlanOK, PromiseOK, ChangeOK, Looking, Writing, Quiet
  <2>. QED  BY <2>1, <2>4, QuietStep
<1>3. ASSUME BeginChange(p) \/ MakeOdd(p) \/ EndChange(p)  PROVE IInv'
  <2>1. /\ UNCHANGED <<files, manifest, skewed, torn, halfDone, misled, cache, sets, latest, phase, rev, g, name, got, floor, disturbed, plan>>
        /\ \A q \in Procs \ {p} : pc'[q] = pc[q]
        /\ (gen' = gen /\ unannounced' = unannounced) \/ gen' = gen + 1
        /\ \/ pc[p] \in {"begin", "odd"} /\ pc'[p] \in {"odd", "move"}
           \/ pc[p] = "even" /\ gen' = gen + 1 /\ pc'[p] \in {"even", "clean", "done"}
        /\ pc'[p] = "clean" => plan[p].how = "split"
    BY <1>1, <1>3 DEF BeginChange, MakeOdd, EndChange, Add, LastStep
  <2>2. phase[p] = "pack"
    BY <1>0, <2>1 DEF LockInv, Writing
  <2>3. Quiet(p)
    BY <1>1, <2>1, <2>2 DEF Quiet, Same
  <2>4. PlanType(p)'
    BY <1>0, <2>1 DEF PlanType, Writing, InShard, Corrupt
  <2>5. /\ (PlaceOK(p) => PlaceOK(p)') /\ (SplitOK(p) => SplitOK(p)')
        /\ Current(rev[p]).ver >= sets => (Current(rev[p]).ver >= sets)'
    BY <2>1, PlanKept
  <2>6. ~skewed => PlanOK(p)'
    BY <1>0, <2>1, <2>5 DEF PlanOK, Writing, Settled
  <2>7. ~skewed /\ Informed(p) => ChangeOK(p)'
    <3>1. (Current(rev[p]))' = Current(rev[p])
      BY <2>1 DEF Current, ListOf
    <3>. QED  BY <1>0, <2>1, <2>2, <3>1 DEF ChangeOK, Looking, Writing
  <2>8. Own(p)'
    BY <2>1, <2>2, <2>4, <2>6, <2>7 DEF Own, Informed, PromiseOK
  <2>. QED  BY <2>3, <2>8, QuietStep
<1>. QED  BY <1>2, <1>3

\* write_packed_revprop: the plan of a change is one that keeps all lists.
LEMMA PlanStep ==
  ASSUME IInv, TypeOK', LockInv', NEW p \in Procs, PlanChange(p)
  PROVE  IInv'
<1>0. /\ TypeOK /\ LockInv /\ GenInv /\ FilesInv
      /\ phase[p] # "read" /\ pc[p] = "file" => name[p] = manifest[rev[p]]
      /\ ~skewed => (\A r \in Revs : DiskOK(r)) /\ (Informed(p) => ChangeOK(p))
  BY DEF IInv
<1>1. /\ gen \in Nat /\ sets \in Nat /\ g \in [Procs -> Nat] /\ g[p] <= gen
      /\ DOMAIN pc = Procs /\ DOMAIN plan = Procs /\ rev \in [Procs -> Revs]
  BY Domains
<1>2. /\ pc[p] = "file" /\ phase[p] = "pack" /\ writeLock = p
      /\ UNCHANGED <<files, manifest, gen, late, writeLock, phase, rev, g, name, got, floor, disturbed, latest, skewed, torn, halfDone, unannounced, misled, crashes>>
  BY <1>0 DEF PlanChange, LockInv, diskVars, readVars, ghostVars
<1>3. CASE Found(rev[p], name[p]) = Error
  <2>1. /\ UNCHANGED <<cache, plan, sets>> /\ pc' = [pc EXCEPT ![p] = "fail"]
    BY <1>3 DEF PlanChange, Goto
  <2>2. Quiet(p)
    BY <1>1, <1>2, <2>1 DEF Quiet, Same
  <2>3. Own(p)'
    BY <1>1, <1>2, <2>1 DEF Own, PlanType, PlanOK, PromiseOK, ChangeOK, Looking, Writing
  <2>. QED  BY <2>2, <2>3, QuietStep
<1>4. CASE Found(rev[p], name[p]) # Error
  <2>. DEFINE c == files[name[p]]
              l == [ver |-> sets + 1, size |-> plan[p].size]
  <2>1. PICK a : /\ a = MakePlan(c, name[p], rev[p], l)
                 /\ plan' = [plan EXCEPT ![p] = a]
                 /\ pc' = [pc EXCEPT ![p] = IF a.how = "split" THEN "write" ELSE SwitchStep(p)]
    BY <1>4 DEF PlanChange, Goto
  <2>2. sets' = sets + 1 /\ cache' = CacheLists(p)
    BY <1>4 DEF PlanChange
  <2>3. /\ c \in Files /\ InShard(c) /\ ~Corrupt(c) /\ c # NoFile
        /\ Has(c, rev[p]) /\ name[p] \in Names /\ rev[p] \in Revs
        /\ sets < MaxSet /\ manifest \in [Revs -> Names]
        /\ \A q \in Revs : manifest[q][2] <= sets
        /\ l \in Lists
    BY <1>0, <1>2, <1>4, PlanFacts, SMTT(30)
  <2>4. a.how \in {"place", "split"} /\ l.ver = sets + 1
    BY <2>1 DEF MakePlan
  <2>. HIDE DEF l
  <2>5. /\ a.how = "split" => pc'[p] = "write"
        /\ a.how # "split" => pc'[p] \in {"begin", "move"}
        /\ plan'[p] = a /\ (\A q \in Procs \ {p} : Same(q))
    BY <1>1, <1>2, <2>1 DEF Same, SwitchStep
  <2>6. Quiet(p)
    <3>1. \A e \in cache' : e \in cache \/ Took(p, e)
      BY <1>0, <1>2, <2>2, <2>3, CacheListsOK
    <3>. QED  BY <1>1, <1>2, <2>2, <2>5, <3>1 DEF Quiet
  <2>7. CASE a.how = "place"
    <3>1. /\ a.name = name[p] /\ InShard(a.file) /\ ~Corrupt(a.file)
          /\ a.file.first = c.first /\ Len(a.file.lists) = Len(c.lists)
          /\ \A q \in Revs : Has(c, q) => ListOf(a.file, q) = IF q = rev[p] THEN l ELSE ListOf(c, q)
      BY <2>1, <2>3, <2>7, PlaceMade
    <3>2. PlanType(p)'
      BY <2>4, <2>5, <2>7, <3>1 DEF PlanType, InShard
    <3>3. PlaceOK(p)'
      BY <1>0, <1>2, <2>2, <2>4, <2>5, <3>1 DEF PlaceOK, NewList, ListOf, Has, Corrupt
    <3>4. PlanOK(p)'
      BY <2>5, <2>7, <3>3 DEF PlanOK, Writing
    <3>5. ~skewed /\ Informed(p) => ChangeOK(p)'
      <4>1. (Current(rev[p]))' = Current(rev[p])
        BY <1>2 DEF Current, ListOf
      <4>. QED  BY <1>0, <1>2, <2>5, <2>7, <4>1 DEF ChangeOK, Looking, Writing
    <3>6. Own(p)'
      BY <1>2, <2>5, <2>7, <3>2, <3>4, <3>5 DEF Own, Informed, PromiseOK
    <3>. QED  BY <2>6, <3>6, QuietStep
  <2>8. CASE a.how = "split"
    <3>1. /\ a \in Splits /\ a.first = c.first
          /\ \A q \in Revs : a.manifest[q][2] <= sets + 1
          /\ \A y \in a.parts :
               /\ InShard(y.file) /\ ~Corrupt(y.file)
               /\ PartName(c, y.name)
      <4>1. a \in Splits /\ a.first = c.first
        BY <1>1, <2>1, <2>3, <2>8, SplitMade
      <4>2. ASSUME NEW q \in Revs  PROVE a.manifest[q][2] <= sets + 1
        BY <1>1, <2>1, <2>3, <2>8, SplitMade
      <4>3. ASSUME NEW y \in a.parts
            PROVE  /\ InShard(y.file) /\ ~Corrupt(y.file)
                   /\ PartName(c, y.name)
        BY <1>1, <2>1, <2>3, <2>8, SplitMade
      <4>. QED  BY <4>1, <4>2, <4>3
    <3>2. PlanType(p)'
      BY <2>2, <2>4, <2>5, <2>8, <3>1 DEF PlanType, InShard, Corrupt
    <3>3. ASSUME ~skewed, NEW y \in a.parts  PROVE ~Settled(y.name)
      <4>1. PICK i \in Nat : i < Len(c.lists) /\ y.name = <<c.first + i, manifest[i + 1][2] + 1>>
        BY <3>1 DEF PartName
      <4>2. c.first \in Revs /\ Len(c.lists) \in Nat /\ i + 1 \in Revs /\ c.first + i \in Revs /\ 1 \in Revs
        <5>1. c.first \in Revs /\ Len(c.lists) \in Nat
          BY <2>3 DEF Files
        <5>2. c.first + Len(c.lists) - 1 <= N /\ i < Len(c.lists)
          BY <2>3, <4>1 DEF InShard
        <5>3. i \in Nat /\ c.first \in 1..N
          BY <4>1, <5>1 DEF Revs
        <5>. HIDE DEF c
        <5>4. i + 1 \in 1..N /\ c.first + i \in 1..N /\ 1 \in 1..N
          BY <5>1, <5>2, <5>3, RevpropsAssumption
        <5>. QED  BY <5>1, <5>4 DEF Revs
      <4>3. Has(c, c.first + i) /\ (\A q \in Revs : Has(c, q) => manifest[q] = name[p]) /\ name[p][1] = c.first
        <5>1. Has(c, c.first + i)
          <6>1. i \in Nat /\ i < Len(c.lists)
            BY <4>1
          <6>. HIDE DEF c
          <6>. QED  BY <4>2, <6>1 DEF Has, Revs
        <5>. QED  BY <1>0, <1>2, <2>3, <3>3, <5>1 DEF DiskOK
      <4>4. manifest[c.first + i] = name[p]
        BY <4>2, <4>3
      <4>5. y.name[1] = c.first + i /\ y.name[2] = manifest[i + 1][2] + 1
        BY <4>1
      <4>6. manifest[1][2] \in Nat /\ \A q \in Revs : manifest[q][2] \in Nat
        BY <2>3, <4>2 DEF Names
      <4>7. CASE i = 0
        BY <4>2, <4>5, <4>6, <4>7 DEF Settled
      <4>8. CASE i # 0
        <5>1. c.first + i # 1 /\ c.first + i # c.first
          BY <4>2, <4>8 DEF Revs
        <5>. QED  BY <4>3, <4>4, <4>5, <5>1 DEF Settled
      <4>. QED  BY <4>7, <4>8
    <3>4. ASSUME ~skewed, a.first = 1
          PROVE  SplitOK(p)' /\ manifest[rev[p]] = manifest[1] /\ a.old = {manifest[1]}
      <4>1. c.first = 1 /\ 1 \in Revs
        BY <2>3, <3>1, <3>4 DEF Revs
      <4>2. \A q \in Revs : Has(c, q) <=> manifest[q] = name[p]
        BY <1>0, <1>2, <2>3, <3>4 DEF DiskOK
      <4>3. manifest[rev[p]] = manifest[1] /\ name[p] = manifest[1]
        <5>1. Has(c, 1)
          BY <2>3, <4>1 DEF Has, InShard, Files
        <5>. QED  BY <1>0, <1>2, <4>1, <4>2, <5>1
      <4>4. /\ a.old = {name[p]}
            /\ \A q \in Revs :
                 /\ manifest[q] # name[p] => a.manifest[q] = manifest[q]
                 /\ manifest[q] = name[p] =>
                      /\ a.manifest[q][2] = name[p][2] + 1
                      /\ \E y \in a.parts : y.name = a.manifest[q]
                      /\ \A y \in a.parts : y.name = a.manifest[q] =>
                           /\ y.file.first = a.manifest[q][1] /\ Has(y.file, q) /\ ~Corrupt(y.file)
                           /\ \A s \in Revs : Has(y.file, s) => a.manifest[s] = a.manifest[q]
                           /\ ListOf(y.file, q) = IF q = rev[p] THEN l ELSE ListOf(c, q)
        BY <2>1, <2>3, <2>8, <4>1, <4>2, SplitFirst
      <4>5. ASSUME NEW q \in Revs, manifest[q] = name[p], NEW y \in a.parts, y.name = a.manifest[q]
            PROVE  PartOK(p, y.file, q)'
        BY <1>2, <2>2, <2>4, <2>5, <4>4, <4>5 DEF PartOK, NewList, Has, ListOf, Corrupt
      <4>6. SplitOK(p)'
        BY <1>2, <2>5, <4>3, <4>4, <4>5 DEF SplitOK
      <4>. QED  BY <4>3, <4>4, <4>6
    <3>5. ~skewed => PlanOK(p)'
      BY <1>2, <2>5, <2>8, <3>3, <3>4 DEF PlanOK, Writing, Settled
    <3>6. ~skewed /\ Informed(p) => ChangeOK(p)'
      <4>1. (Current(rev[p]))' = Current(rev[p])
        BY <1>2 DEF Current, ListOf
      <4>. QED  BY <1>0, <1>2, <2>5, <2>8, <4>1 DEF ChangeOK, Looking, Writing
    <3>7. Own(p)'
      BY <1>2, <2>5, <2>8, <3>2, <3>5, <3>6 DEF Own, Informed, PromiseOK
    <3>. QED  BY <2>6, <3>7, QuietStep
  <2>. QED  BY <2>4, <2>7, <2>8
<1>. QED  BY <1>3, <1>4

--------------------------------------------------------------------------------
(* The actions that write files.                                           *)

\* Who has the write lock is alone in changing something.
LEMMA OneWriter ==
  ASSUME TypeOK, LockInv, NEW p \in Procs, phase[p] = "pack", NEW q \in Procs, q # p
  PROVE  phase[q] = "read" /\ pc[q] \notin Writing \cup {"even", "clean", "got"}
BY DEF TypeOK, LockInv

\* A step of p that writes or removes files beside those that the manifest names.
Aside(p) ==
  /\ UNCHANGED <<manifest, gen, cache, writeLock, phase, rev, g, name, got, floor, latest, sets, skewed, halfDone, unannounced, misled>>
  /\ torn => torn'
  /\ \A q \in Procs : disturbed[q] => disturbed'[q]
  /\ \A q \in Procs \ {p} : pc'[q] = pc[q] /\ plan'[q] = plan[q]
  /\ \/ pc[p] = "write" /\ pc'[p] \in {"write", "begin", "move"}
     \/ pc[p] = "clean" /\ pc'[p] = "clean"
  /\ ~skewed =>
       /\ \A r \in Revs : files'[manifest[r]] = files[manifest[r]]
       /\ \A q \in Procs : pc[q] = "file" =>
            files'[name[q]] = files[name[q]] \/ (files'[name[q]] = NoFile /\ disturbed'[q])

\* It keeps the invariant, if it sees to its files and its plan.
LEMMA AsideStep ==
  ASSUME IInv, TypeOK', LockInv', NEW p \in Procs, Aside(p), FilesInv', PlanType(p)', ~skewed => PlanOK(p)'
  PROVE  IInv'
<1>0. /\ TypeOK /\ LockInv /\ GenInv /\ FilesInv
      /\ \A q \in Procs : PlanType(q) /\ (phase[q] # "read" /\ pc[q] = "file" => name[q] = manifest[rev[q]])
      /\ ~skewed =>
           /\ CacheInv /\ FreshReads
           /\ \A r \in Revs : DiskOK(r)
           /\ \A q \in Procs : ReadOK(q) /\ PromiseOK(q) /\ PlanOK(q)
           /\ SameInv /\ \A q \in Procs : Informed(q) => ChangeOK(q)
  BY DEF IInv
<1>1. phase[p] = "pack"
  BY <1>0 DEF Aside, LockInv, Writing
<1>2. \A q \in Procs \ {p} : phase[q] = "read" /\ pc[q] \notin Writing \cup {"even", "clean", "got"}
  BY <1>0, <1>1, OneWriter
<1>3. GenInv'
  BY <1>0 DEF Aside, GenInv
<1>4. \A q \in Procs : PlanType(q)' /\ (phase'[q] # "read" /\ pc'[q] = "file" => name'[q] = manifest'[rev'[q]])
  BY <1>2 DEF Aside, PlanType
<1>5. ASSUME ~skewed
      PROVE  /\ CacheInv' /\ FreshReads'
             /\ \A r \in Revs : DiskOK(r)'
             /\ \A q \in Procs : ReadOK(q)' /\ PromiseOK(q)' /\ PlanOK(q)'
             /\ SameInv' /\ \A q \in Procs : Informed(q)' => ChangeOK(q)'
  <2>0. \A r \in Revs : files'[manifest[r]] = files[manifest[r]]
    BY <1>5 DEF Aside
  <2>1. \A v, r : AtLeast(v, r) => AtLeastNext(v, r)
    BY DEF AtLeast, AtLeastNext, Aside
  <2>2. CacheInv'
    <3>. SUFFICES ASSUME ~unannounced, NEW e \in cache, e.gen = gen  PROVE AtLeastNext(e.list.ver, e.rev)
      BY DEF CacheInv, Aside, AtLeast, AtLeastNext
    <3>. QED  BY <1>0, <1>5, <2>1 DEF CacheInv
  <2>3. FreshReads'
    BY <1>0, <1>5 DEF FreshReads, Aside
  <2>4. ASSUME NEW r \in Revs  PROVE DiskOK(r)'
    <3>1. AtLeastNext(ListOf(files[manifest[r]], r).ver, r)
      BY <1>0, <1>5, <2>1 DEF DiskOK
    <3>2. AtLeast(ListOf(files[manifest[r]], r).ver, r)'
      BY <2>0, <3>1 DEF AtLeast, AtLeastNext, ListOf, Aside
    <3>3. /\ files'[manifest[r]] # NoFile /\ manifest[r][1] = files'[manifest[r]].first
          /\ Has(files'[manifest[r]], r) /\ manifest[r][2] <= manifest[1][2]
          /\ (Corrupt(files'[manifest[r]]) => torn')
          /\ \A q \in Revs : Has(files'[manifest[r]], q) => manifest[q] = manifest[r]
      BY <1>0, <1>5, <2>0 DEF DiskOK, Aside
    <3>. QED  BY <3>2, <3>3 DEF DiskOK, Has, Corrupt, ListOf, Aside
  <2>5. ASSUME NEW q \in Procs  PROVE ReadOK(q)'
    <3>. DEFINE c == files[name[q]]
    <3>. SUFFICES ASSUME pc'[q] = "file"
                  PROVE  /\ Settled(name[q])
                         /\ files'[name[q]] = NoFile => disturbed'[q]
                         /\ files'[name[q]] # NoFile =>
                              /\ files'[name[q]] = c
                              /\ (Corrupt(c) => torn') /\ Has(c, rev[q])
                              /\ phase[q] = "read" => ListOf(c, rev[q]).ver >= floor[q]
                              /\ g[q] = gen /\ ~unannounced => \A r \in Revs : Has(c, r) => AtLeastNext(ListOf(c, r).ver, r)
      BY DEF ReadOK, Settled, Corrupt, Has, ListOf, AtLeast, AtLeastNext, Aside
    <3>1. q # p /\ pc[q] = "file"
      BY DEF Aside
    <3>2. files'[name[q]] = c \/ (files'[name[q]] = NoFile /\ disturbed'[q])
      BY <1>5, <3>1 DEF Aside
    <3>3. (disturbed[q] => disturbed'[q]) /\ (torn => torn')
      BY DEF Aside
    <3>. QED  BY <1>0, <1>5, <2>1, <3>1, <3>2, <3>3 DEF ReadOK
  <2>6. ASSUME NEW q \in Procs  PROVE PromiseOK(q)'
    <3>1. CASE q = p
      BY <1>1, <3>1 DEF PromiseOK, Aside
    <3>2. CASE q # p
      <4>. SUFFICES ASSUME phase[q] = "read", pc[q] \in {"gen", "bump", "manifest", "file"} \cup Looking
                    PROVE  /\ floor[q] <= latest[rev[q]]
                           /\ pc[q] \in Looking /\ q \notin misled =>
                                /\ \A e \in cache : e.gen = g[q] /\ e.rev = rev[q] => e.list.ver >= floor[q]
                                /\ \A o \in Procs : pc'[o] = "file" /\ g[o] = g[q] =>
                                     (files'[name[o]] # NoFile /\ Has(files'[name[o]], rev[q]) =>
                                       ListOf(files'[name[o]], rev[q]).ver >= floor[q])
        BY <3>2 DEF PromiseOK, Aside, Has, ListOf
      <4>1. \A o \in Procs : pc'[o] = "file" => pc[o] = "file" /\ (files'[name[o]] = files[name[o]] \/ files'[name[o]] = NoFile)
        BY <1>5 DEF Aside
      <4>. QED  BY <1>0, <1>5, <4>1 DEF PromiseOK
    <3>. QED  BY <3>1, <3>2
  <2>7. ASSUME NEW q \in Procs  PROVE PlanOK(q)'
    <3>1. CASE q = p
      BY <1>5, <3>1
    <3>2. CASE q # p
      BY <1>2, <3>2 DEF PlanOK, Aside
    <3>. QED  BY <3>1, <3>2
  <2>8. SameInv' /\ \A q \in Procs : Informed(q)' => ChangeOK(q)'
    <3>0. cache \subseteq Entries /\ rev \in [Procs -> Revs]
      BY <1>0 DEF Aside, TypeOK
    <3>1. \A r \in Revs : Current(r)' = Current(r)
      BY <2>0 DEF Current, ListOf, Aside
    <3>2. \A q \in Procs : pc[q] # "even" /\ (pc'[q] = "file" => pc[q] = "file")
      BY <1>2 DEF Aside
    <3>3. SameInv'
      <4>1. ASSUME ~halfDone, ~unannounced, NEW e \in cache, e.gen = gen  PROVE e.list = Current(e.rev)'
        BY <1>0, <1>5, <3>0, <3>1, <3>2, <4>1 DEF SameInv, Entries
      <4>. QED  BY <1>0, <1>5, <3>0, <3>2, <4>1 DEF SameInv, Aside
    <3>4. ASSUME NEW q \in Procs, Informed(q)'  PROVE ChangeOK(q)'
      <4>0. ChangeOK(q)
        BY <1>0, <1>5, <3>4 DEF Informed, Aside
      <4>1. CASE q = p
        <5>1. (Current(rev[p]))' = Current(rev[p])
          BY <2>0, <3>0 DEF Current, ListOf, Aside
        <5>. QED  BY <1>1, <3>0, <4>0, <4>1, <5>1 DEF ChangeOK, Aside, Looking, Writing
      <4>2. CASE q # p
        BY <1>2, <4>2 DEF ChangeOK, Aside
      <4>. QED  BY <4>1, <4>2
    <3>. QED  BY <3>3, <3>4
  <2>. QED  BY <2>2, <2>3, <2>4, <2>5, <2>6, <2>7, <2>8
<1>6. skewed' = skewed
  BY DEF Aside
<1>. QED  BY <1>3, <1>4, <1>5, <1>6 DEF IInv

\* repack_revprops: a file of a split is written where nobody reads.
LEMMA WriteStep ==
  ASSUME IInv, TypeOK', LockInv', NEW p \in Procs, WritePart(p)
  PROVE  IInv'
<1>0. /\ TypeOK /\ LockInv /\ FilesInv /\ PlanType(p)
      /\ ~skewed => (\A r \in Revs : DiskOK(r)) /\ PlanOK(p) /\ \A q \in Procs : ReadOK(q)
  BY DEF IInv
<1>1. PICK x \in plan[p].parts :
        /\ files' = [files EXCEPT ![x.name] = Over(@, x.file)]
        /\ torn' = (torn \/ files'[x.name] # x.file)
        /\ plan' = [plan EXCEPT ![p].parts = @ \ {x}]
        /\ IF plan[p].parts = {x} THEN pc' = [pc EXCEPT ![p] = SwitchStep(p)] ELSE pc' = pc
  BY DEF WritePart, Goto
<1>2. /\ pc[p] = "write" /\ plan[p].how = "split" /\ plan[p] \in Splits
      /\ UNCHANGED <<manifest, gen, cache, writeLock, phase, rev, g, name, got, floor, disturbed, latest, sets, skewed, halfDone,
                     unannounced, misled>>
  BY <1>0, SplitType DEF WritePart, PlanType, TypeOK, Writing, readVars
<1>3. x.name \in Names /\ x.file \in Files /\ InShard(x.file) /\ ~Corrupt(x.file)
  BY <1>0, <1>1, <1>2 DEF PlanType, Writing, Splits, Parts
<1>. DEFINE a == plan[p]
            b == plan'[p]
            f == files'[x.name]
<1>4. /\ b.how = "split" /\ b.first = a.first /\ b.manifest = a.manifest /\ b.old = a.old
      /\ b.parts = a.parts \ {x} /\ \A q \in Procs \ {p} : plan'[q] = plan[q]
  BY <1>0, <1>1, <1>2 DEF TypeOK, Splits
<1>5. /\ f \in Files /\ f.first = x.file.first /\ f.lists = x.file.lists /\ f # NoFile
      /\ \A n \in Names : n # x.name => files'[n] = files[n]
  <2>1. /\ files \in [Names -> Files \cup {NoFile}] /\ f = Over(files[x.name], x.file)
        /\ \A n \in Names : n # x.name => files'[n] = files[n]
    BY <1>0, <1>1, <1>3 DEF TypeOK
  <2>2. ASSUME NEW o \in Files \cup {NoFile}
        PROVE  /\ Over(o, x.file) \in Files
               /\ Over(o, x.file).first = x.file.first /\ Over(o, x.file).lists = x.file.lists
    BY <1>3, SMTT(20) DEF Over, Files
  <2>3. files[x.name] \in Files \cup {NoFile}
    BY <1>3, <2>1
  <2>. HIDE DEF f
  <2>. QED  BY <2>1, <2>2, <2>3
<1>6. (torn => torn') /\ (Corrupt(f) => torn')
  <2>1. torn' <=> torn \/ f # x.file
    BY <1>1, Zenon
  <2>. QED  BY <1>3, <2>1
<1>7. /\ pc'[p] \in {"write", "begin", "move"} /\ (pc'[p] # "write" => a.parts = {x})
      /\ \A q \in Procs \ {p} : pc'[q] = pc[q]
  BY <1>0, <1>1, <1>2 DEF TypeOK, SwitchStep
<1>8. FilesInv'
  <2>1. InShard(f)
    BY <1>3, <1>5 DEF InShard
  <2>2. \A n \in Names : files'[n] # NoFile => InShard(files'[n])
    BY <1>0, <1>5, <2>1 DEF FilesInv
  <2>. HIDE DEF f
  <2>. QED  BY <1>0, <1>2, <2>2 DEF FilesInv, InShard
<1>9. PlanType(p)'
  <2>1. \A y \in b.parts : InShard(y.file) /\ ~Corrupt(y.file)
    BY <1>0, <1>2, <1>4 DEF PlanType, Writing
  <2>2. \A r \in Revs : b.manifest[r][2] <= sets
    BY <1>0, <1>2, <1>4 DEF PlanType, Writing
  <2>. QED  BY <1>2, <1>4, <2>1, <2>2 DEF PlanType, InShard, Corrupt
<1>10. ASSUME ~skewed
       PROVE  /\ \A r \in Revs : files'[manifest[r]] = files[manifest[r]]
              /\ \A q \in Procs : pc[q] = "file" => files'[name[q]] = files[name[q]]
  <2>1. ~Settled(x.name)
    BY <1>0, <1>1, <1>2, <1>10 DEF PlanOK, Writing
  <2>2. \A r \in Revs : manifest[r] \in Names /\ Settled(manifest[r])
    BY <1>0, <1>10, DiskFacts
  <2>3. \A q \in Procs : name[q] \in Names /\ (pc[q] = "file" => Settled(name[q]))
    BY <1>0, <1>10 DEF ReadOK, TypeOK
  <2>. QED  BY <1>5, <2>1, <2>2, <2>3
<1>11. Aside(p)
  BY <1>2, <1>4, <1>6, <1>7, <1>10 DEF Aside
<1>12. ASSUME ~skewed, a.first = 1  PROVE SplitOK(p)'
  <2>0. SplitOK(p) /\ a.manifest \in [Revs -> Names] /\ rev[p] \in Revs
    BY <1>0, <1>2, <1>12 DEF PlanOK, Writing, Splits, TypeOK
  <2>1. \A c, r : r \in Revs /\ PartOK(p, c, r) => PartOK(p, c, r)'
    <3>. SUFFICES ASSUME NEW c, NEW r \in Revs, PartOK(p, c, r)  PROVE PartOK(p, c, r)'
      OBVIOUS
    <3>1. /\ b.manifest = a.manifest /\ rev' = rev /\ sets' = sets /\ (torn => torn')
          /\ files'[manifest'[r]] = files[manifest[r]]
      BY <1>2, <1>4, <1>6, <1>10, <1>12, SMTT(30)
    <3>. QED  BY <3>1 DEF PartOK, NewList, Has, ListOf, Corrupt
  <2>2. ASSUME NEW r \in Revs, manifest[r] = manifest[rev[p]],
               ~\E y \in b.parts : y.name = b.manifest[r]
        PROVE  files'[b.manifest[r]] # NoFile /\ PartOK(p, files[plan[p].manifest[r]], r)'
    <3>0. b.manifest[r] \in Names
      BY <1>4, <2>0
    <3>1. PICK c : c = files'[b.manifest[r]]
      OBVIOUS
    <3>2. c # NoFile /\ PartOK(p, c, r)'
      <4>1. CASE a.manifest[r] = x.name
        <5>1. PartOK(p, x.file, r)'
          BY <1>1, <2>0, <2>1, <2>2, <4>1 DEF SplitOK
        <5>2. c = f
          BY <1>4, <3>1, <4>1
        <5>. QED  BY <1>5, <1>6, <5>1, <5>2 DEF PartOK, NewList, Has, ListOf, Corrupt
      <4>2. CASE a.manifest[r] # x.name
        <5>1. c = files[a.manifest[r]]
          BY <1>4, <1>5, <3>0, <3>1, <4>2
        <5>2. ~\E y \in a.parts : y.name = a.manifest[r]
          BY <1>4, <2>2, <4>2
        <5>. QED  BY <2>0, <2>1, <2>2, <5>1, <5>2 DEF SplitOK
      <4>. QED  BY <4>1, <4>2
    <3>. QED  BY <3>1, <3>2 DEF PartOK, NewList, Has, ListOf, Corrupt
  <2>3. ASSUME NEW r \in Revs, manifest[r] = manifest[rev[p]]
        PROVE  /\ b.manifest[r][2] = manifest[1][2] + 1
               /\ \A y \in b.parts : y.name = b.manifest[r] => PartOK(p, y.file, r)'
    BY <1>4, <2>0, <2>1, <2>3 DEF SplitOK
  <2>4. ASSUME NEW r \in Revs, manifest[r] # manifest[rev[p]]  PROVE b.manifest[r] = manifest[r]
    BY <1>4, <2>0, <2>4 DEF SplitOK
  <2>. QED  BY <1>2, <2>2, <2>3, <2>4 DEF SplitOK
<1>13. ~skewed => PlanOK(p)'
  <2>. SUFFICES ASSUME ~skewed
                PROVE  /\ \A y \in b.parts : ~Settled(y.name)
                       /\ pc'[p] # "write" => b.parts = {}
                       /\ a.first = 1 => manifest[rev[p]] = manifest[1] /\ a.old = {manifest[1]}
    BY <1>2, <1>4, <1>7, <1>12 DEF PlanOK, Writing, Settled
  <2>. QED  BY <1>0, <1>2, <1>4, <1>7 DEF PlanOK, Writing
<1>. QED  BY <1>8, <1>9, <1>11, <1>13, AsideStep

\* The files of before the split go, which the manifest no longer names.
LEMMA RemoveStep ==
  ASSUME IInv, TypeOK', LockInv', NEW p \in Procs, RemoveOld(p)
  PROVE  IInv'
<1>0. /\ TypeOK /\ LockInv /\ FilesInv /\ PlanType(p)
      /\ ~skewed => (\A r \in Revs : DiskOK(r)) /\ PlanOK(p)
  BY DEF IInv
<1>1. /\ gen \in Nat /\ g[p] <= gen /\ DOMAIN pc = Procs
      /\ DOMAIN files = Names /\ manifest \in [Revs -> Names] /\ name \in [Procs -> Names]
  BY <1>0, Domains DEF TypeOK
<1>2. /\ pc[p] = "clean" /\ phase[p] = "pack" /\ plan[p].how = "split" /\ plan[p] \in Splits
      /\ UNCHANGED <<manifest, gen, cache, writeLock, phase, rev, g, name, got, floor, latest, sets, skewed, torn, halfDone,
                     unannounced, misled>>
  BY <1>0, SplitType DEF RemoveOld, PlanType, LockInv, TypeOK, ghostVars
<1>3. CASE plan[p].old = {}
  <2>1. UNCHANGED <<files, plan, disturbed>> /\ pc' = [pc EXCEPT ![p] = "done"]
    BY <1>3 DEF RemoveOld, Goto
  <2>2. Quiet(p)
    BY <1>1, <1>2, <2>1 DEF Quiet, Same
  <2>3. Own(p)'
    BY <1>1, <1>2, <2>1 DEF Own, PlanType, PlanOK, PromiseOK, ChangeOK, Looking, Writing
  <2>. QED  BY <2>2, <2>3, QuietStep
<1>4. CASE plan[p].old # {}
  <2>. DEFINE a == plan[p]
              b == plan'[p]
  <2>1. PICK n \in plan[p].old :
          /\ files' = [files EXCEPT ![n] = NoFile]
          /\ plan' = [plan EXCEPT ![p].old = @ \ {n}]
          /\ disturbed' = [q \in Procs |-> disturbed[q] \/ pc[q] \in {"manifest", "file"}]
          /\ pc' = pc
    BY <1>4 DEF RemoveOld
  <2>2. /\ b.how = "split" /\ b.manifest = a.manifest /\ b.parts = a.parts /\ b.old = a.old \ {n}
        /\ \A q \in Procs \ {p} : plan'[q] = plan[q]
    BY <1>0, <1>2, <2>1 DEF TypeOK, Splits
  <2>3. n \in Names /\ files'[n] = NoFile /\ \A m \in Names : m # n => files'[m] = files[m]
    BY <1>1, <1>2, <2>1 DEF Splits
  <2>4. \A q \in Procs : (disturbed[q] => disturbed'[q]) /\ (pc[q] = "file" => disturbed'[q])
    BY <2>1
  <2>5. ~skewed => \A m \in a.old, r \in Revs : manifest[r] # m
    BY <1>0, <1>2 DEF PlanOK
  <2>6. Aside(p)
    <3>1. ~skewed => \A r \in Revs : files'[manifest[r]] = files[manifest[r]]
      BY <1>1, <2>1, <2>3, <2>5
    <3>2. \A q \in Procs : pc[q] = "file" =>
            files'[name[q]] = files[name[q]] \/ (files'[name[q]] = NoFile /\ disturbed'[q])
      BY <1>1, <2>3, <2>4
    <3>. QED  BY <1>2, <2>1, <2>2, <2>4, <3>1, <3>2 DEF Aside
  <2>7. FilesInv'
    <3>1. \A m \in Names : files'[m] # NoFile => InShard(files'[m])
      BY <1>0, <2>3 DEF FilesInv
    <3>. QED  BY <1>0, <1>2, <3>1 DEF FilesInv, InShard
  <2>8. PlanType(p)'
    <3>1. /\ \A r \in Revs : a.manifest[r][2] <= sets
          /\ \A x \in a.parts : InShard(x.file) /\ ~Corrupt(x.file)
      BY <1>0, <1>2 DEF PlanType
    <3>. QED  BY <1>2, <2>1, <2>2, <3>1 DEF PlanType, InShard, Corrupt
  <2>9. ~skewed => PlanOK(p)'
    BY <1>2, <2>1, <2>2, <2>5 DEF PlanOK, Writing
  <2>. QED  BY <2>6, <2>7, <2>8, <2>9, AsideStep
<1>. QED  BY <1>3, <1>4

\* A step that changes nothing but the clock keeps the invariant.
LEMMA ClockStep ==
  ASSUME IInv, TypeOK', LockInv',
         UNCHANGED <<files, manifest, gen, cache, writeLock, pc, readVars, plan, latest, sets, ghostVars>>
  PROVE  IInv'
<1>. USE DEF readVars, ghostVars
<1>1. (GenInv => GenInv') /\ (FilesInv => FilesInv') /\ \A q \in Procs : PlanType(q) => PlanType(q)'
  BY DEF GenInv, FilesInv, InShard, PlanType, Corrupt
<1>2. (CacheInv => CacheInv') /\ (FreshReads => FreshReads') /\ \A r \in Revs : DiskOK(r) => DiskOK(r)'
  BY DEF CacheInv, FreshReads, DiskOK, AtLeast, Has, ListOf, Corrupt
<1>3. \A q \in Procs : (ReadOK(q) => ReadOK(q)') /\ (PromiseOK(q) => PromiseOK(q)')
  <2>. SUFFICES ASSUME NEW q \in Procs
                PROVE  (ReadOK(q) => ReadOK(q)') /\ (PromiseOK(q) => PromiseOK(q)')
    OBVIOUS
  <2>1. ReadOK(q) => ReadOK(q)'
    BY DEF ReadOK, Settled, AtLeast, Has, ListOf, Corrupt
  <2>2. PromiseOK(q) => PromiseOK(q)'
    BY DEF PromiseOK, Has, ListOf
  <2>. QED  BY <2>1, <2>2
<1>4. ASSUME NEW q \in Procs  PROVE PlanOK(q) => PlanOK(q)'
  <2>1. /\ (PlaceOK(q) => PlaceOK(q)') /\ (SplitOK(q) => SplitOK(q)')
        /\ Current(rev[q]).ver >= sets => (Current(rev[q]).ver >= sets)'
    BY PlanKept
  <2>. QED  BY <2>1 DEF PlanOK, Settled
<1>5. (SameInv => SameInv') /\ \A q \in Procs : (Informed(q)' => Informed(q)) /\ (ChangeOK(q) => ChangeOK(q)')
  BY DEF SameInv, ChangeOK, Current, ListOf, Informed
<1>. QED  BY <1>1, <1>2, <1>3, <1>4, <1>5 DEF IInv

\* What a step that moves something into place leaves alone.
Moving(p) ==
  /\ pc[p] = "move" /\ phase[p] = "pack"
  /\ \/ pc'[p] = "even" /\ p \in Cached
     \/ pc'[p] = "clean" /\ plan[p].how = "split" /\ unannounced'
     \/ pc'[p] = "done" /\ unannounced'
  /\ unannounced => unannounced'
  /\ UNCHANGED <<gen, cache, writeLock, phase, rev, g, name, got, floor, disturbed, plan, latest, sets, torn, halfDone, misled>>
  /\ \A q \in Procs \ {p} : pc'[q] = pc[q]

\* Such a step promises nothing to those who have the cache, nobody else has a plan, and
\* the generation stands for nothing until it has moved.
LEMMA MovingStep ==
  ASSUME IInv, TypeOK', LockInv', NEW p \in Procs, Moving(p), FilesInv', skewed => skewed',
         ~skewed' => /\ \A r \in Revs : DiskOK(r)'
                     /\ \A q \in Procs : ReadOK(q)' /\ PromiseOK(q)'
                     /\ PlanOK(p)'
  PROVE  IInv'
<1>0. /\ TypeOK /\ LockInv /\ GenInv
      /\ \A q \in Procs : PlanType(q)
      /\ ~skewed => CacheInv /\ FreshReads
  BY DEF IInv
<1>1. \A q \in Procs \ {p} : phase[q] = "read" /\ pc[q] \notin Writing \cup {"even", "clean", "got"}
  BY <1>0, OneWriter DEF Moving
<1>2. GenInv'
  BY <1>0 DEF GenInv, Moving
<1>3. \A q \in Procs : PlanType(q)' /\ (phase'[q] # "read" /\ pc'[q] = "file" => name'[q] = manifest'[rev'[q]])
  <2>1. PlanType(p)'
    BY <1>0 DEF PlanType, InShard, Corrupt, Moving, Writing
  <2>. QED  BY <1>1, <2>1 DEF PlanType, Moving
<1>4. ~skewed' => CacheInv' /\ FreshReads'
  <2>1. CASE pc'[p] = "even"
    BY <1>0, <2>1 DEF CacheInv, AtLeast, FreshReads, Moving
  <2>2. CASE pc'[p] # "even"
    BY <1>0, <2>2 DEF CacheInv, FreshReads, Moving
  <2>. QED  BY <2>1, <2>2
<1>5. SameInv'
  BY DEF SameInv, Moving
<1>6. \A q \in Procs : ChangeOK(q)'
  BY <1>1 DEF ChangeOK, Moving, Looking, Writing
<1>7. ~skewed' => \A q \in Procs : PlanOK(q)'
  BY <1>1 DEF PlanOK, Moving
<1>. QED  BY <1>2, <1>3, <1>4, <1>5, <1>6, <1>7 DEF IInv

\* switch_to_new_revprop with a pack file: all lists of the old one are in the new one.
LEMMA PlaceStep ==
  ASSUME IInv, TypeOK', LockInv', NEW p \in Procs, Moving(p), plan[p].how = "place",
         files' = [files EXCEPT ![plan[p].name] = plan[p].file], UNCHANGED <<manifest, skewed>>
  PROVE  IInv'
<1>0. /\ TypeOK /\ LockInv /\ FilesInv /\ PlanType(p)
      /\ ~skewed => /\ \A r \in Revs : DiskOK(r)
                    /\ \A q \in Procs : ReadOK(q) /\ PromiseOK(q)
                    /\ PlanOK(p)
  BY DEF IInv
<1>. DEFINE n == plan[p].name
            c == files[n]
            f == plan[p].file
<1>1. /\ n \in Names /\ f \in Files /\ InShard(f) /\ files'[n] = f
      /\ \A m \in Names : m # n => files'[m] = files[m]
  <2>1. plan[p] \in Places
    BY <1>0, PlaceType DEF TypeOK
  <2>2. n \in Names /\ f \in Files /\ InShard(f)
    BY <1>0, <2>1 DEF Places, PlanType, Moving, Writing
  <2>. QED  BY <1>0, <2>2 DEF TypeOK
<1>2. FilesInv'
  <2>1. \A m \in Names : files'[m] # NoFile => InShard(files'[m])
    BY <1>0, <1>1 DEF FilesInv
  <2>. QED  BY <1>0, <2>1 DEF FilesInv, InShard, Moving
<1>3. ASSUME ~skewed'
      PROVE  /\ \A r \in Revs : DiskOK(r)'
             /\ \A q \in Procs : ReadOK(q)' /\ PromiseOK(q)'
             /\ PlanOK(p)'
  <2>0. ~skewed /\ rev[p] \in Revs /\ sets \in Nat /\ manifest \in [Revs -> Names] /\ name \in [Procs -> Names]
    BY <1>0, <1>3 DEF TypeOK
  <2>1. PlaceOK(p) /\ n = manifest[rev[p]]
    BY <1>0, <2>0 DEF PlanOK, PlaceOK, Moving, Writing
  <2>2. c \in Files /\ c # NoFile /\ Has(c, rev[p])
    BY <1>0, <2>0, <2>1, DiskFacts
  <2>3. \A r \in Revs : Has(f, r) <=> Has(c, r)
    BY <2>1 DEF PlaceOK, Has
  <2>4. \A r \in Revs : AtLeast(sets, r) /\ latest[r] \in Nat
    BY <1>0, <2>0 DEF AtLeast, FilesInv, TypeOK, Versions
  <2>5. \A v, r : AtLeast(v, r) /\ (r # rev[p] \/ v >= sets \/ ~unannounced') => AtLeastNext(v, r)
    BY DEF AtLeast, AtLeastNext, Moving
  <2>6. ASSUME NEW r \in Revs, Has(c, r)
        PROVE  /\ r = rev[p] => ListOf(f, r).ver = sets
               /\ r # rev[p] => ListOf(f, r) = ListOf(c, r)
    BY <2>1, <2>6 DEF PlaceOK, NewList
  <2>7. ASSUME NEW r \in Revs, Has(c, r), AtLeast(ListOf(c, r).ver, r)  PROVE AtLeastNext(ListOf(f, r).ver, r)
    BY <2>0, <2>4, <2>5, <2>6, <2>7
  <2>8. ASSUME NEW r \in Revs  PROVE DiskOK(r)'
    <3>0. DiskOK(r) /\ manifest[r] \in Names /\ AtLeast(ListOf(files[manifest[r]], r).ver, r)
      BY <1>0, <2>0, SMTT(30) DEF DiskOK
    <3>1. CASE manifest[r] # n
      <4>1. files'[manifest[r]] = files[manifest[r]]
        BY <1>1, <3>0, <3>1
      <4>2. AtLeastNext(ListOf(files[manifest[r]], r).ver, r)
        BY <2>1, <2>5, <3>0, <3>1, SMTT(30)
      <4>3. AtLeast(ListOf(files[manifest[r]], r).ver, r)'
        BY <4>1, <4>2, SMTT(30) DEF AtLeast, AtLeastNext, ListOf
      <4>. QED  BY <3>0, <4>1, <4>3 DEF DiskOK, Has, Corrupt, ListOf, Moving
    <3>2. CASE manifest[r] = n
      <4>1. Has(c, r) /\ AtLeastNext(ListOf(f, r).ver, r)
        BY <2>7, <3>0, <3>2, SMTT(30) DEF DiskOK
      <4>2. AtLeast(ListOf(files[manifest[r]], r).ver, r)'
        BY <1>1, <3>2, <4>1 DEF AtLeast, AtLeastNext, ListOf
      <4>3. /\ f # NoFile /\ n[1] = f.first /\ Has(f, r) /\ n[2] <= manifest[1][2] /\ ~Corrupt(f)
            /\ \A q \in Revs : Has(f, q) => manifest[q] = n
        BY <1>1, <2>1, <2>3, <3>0, <3>2, <4>1 DEF DiskOK, PlaceOK
      <4>. QED  BY <1>1, <3>2, <4>2, <4>3 DEF DiskOK, Has, Corrupt, ListOf
    <3>. QED  BY <3>1, <3>2
  <2>9. ASSUME NEW q \in Procs, pc[q] = "file"
        PROVE  \/ files'[name[q]] = files[name[q]]
               \/ name[q] = n /\ files'[name[q]] = f /\ files[name[q]] = c
    BY <1>1, <2>0
  <2>10. ASSUME NEW q \in Procs  PROVE ReadOK(q)'
    <3>. DEFINE d == files'[name[q]]
                e == files[name[q]]
    <3>. SUFFICES ASSUME pc'[q] = "file"
                  PROVE  /\ Settled(name[q])
                         /\ d = NoFile => disturbed[q]
                         /\ d # NoFile =>
                              /\ (Corrupt(d) => torn) /\ Has(d, rev[q])
                              /\ phase[q] = "read" => ListOf(d, rev[q]).ver >= floor[q]
                              /\ g[q] = gen /\ ~unannounced' => \A r \in Revs : Has(d, r) => AtLeastNext(ListOf(d, r).ver, r)
      BY DEF ReadOK, Settled, Corrupt, Has, ListOf, AtLeast, AtLeastNext, Moving
    <3>1. pc[q] = "file" /\ rev[q] \in Revs
      BY <1>0 DEF Moving, TypeOK
    <3>2. /\ Settled(name[q])
          /\ e = NoFile => disturbed[q]
          /\ e # NoFile =>
               /\ (Corrupt(e) => torn) /\ Has(e, rev[q])
               /\ phase[q] = "read" => ListOf(e, rev[q]).ver >= floor[q]
               /\ g[q] = gen /\ ~unannounced' => \A r \in Revs : Has(e, r) => AtLeast(ListOf(e, r).ver, r)
      BY <1>0, <2>0, <3>1 DEF ReadOK, Moving
    <3>3. CASE d = e
      BY <2>5, <3>2, <3>3
    <3>4. CASE d = f /\ e = c
      <4>1. ~Corrupt(f) /\ f # NoFile /\ Has(f, rev[q])
        BY <1>1, <2>1, <2>2, <2>3, <3>1, <3>2, <3>4 DEF PlaceOK
      <4>2. phase[q] = "read" => ListOf(f, rev[q]).ver >= floor[q]
        <5>1. phase[q] = "read" => floor[q] <= sets
          <6>1. phase[q] = "read" => floor[q] <= latest[rev[q]]
            BY <1>0, <2>0, <3>1 DEF PromiseOK
          <6>2. latest[rev[q]] <= sets /\ latest[rev[q]] \in Nat /\ floor[q] \in Nat
            BY <1>0, <3>1 DEF FilesInv, TypeOK, Versions
          <6>. QED  BY <2>0, <6>1, <6>2
        <5>2. floor[q] \in Nat
          BY <1>0 DEF TypeOK, Versions
        <5>. QED  BY <2>0, <2>2, <2>6, <3>1, <3>2, <3>4, <5>1, <5>2
      <4>3. g[q] = gen /\ ~unannounced' => \A r \in Revs : Has(f, r) => AtLeastNext(ListOf(f, r).ver, r)
        BY <2>2, <2>3, <2>7, <3>2, <3>4
      <4>. QED  BY <3>2, <3>4, <4>1, <4>2, <4>3
    <3>. QED  BY <2>9, <3>1, <3>3, <3>4, SMTT(30)
  <2>11. ASSUME NEW q \in Procs  PROVE PromiseOK(q)'
    <3>1. CASE q = p
      BY <3>1 DEF PromiseOK, Moving
    <3>2. CASE q # p
      <4>. SUFFICES ASSUME phase[q] = "read", pc[q] \in {"gen", "bump", "manifest", "file"} \cup Looking
                    PROVE  /\ floor[q] <= latest[rev[q]]
                           /\ pc[q] \in Looking /\ q \notin misled =>
                                /\ \A e \in cache : e.gen = g[q] /\ e.rev = rev[q] => e.list.ver >= floor[q]
                                /\ \A o \in Procs : pc'[o] = "file" /\ g[o] = g[q] =>
                                     (files'[name[o]] # NoFile /\ Has(files'[name[o]], rev[q]) =>
                                       ListOf(files'[name[o]], rev[q]).ver >= floor[q])
        BY <3>2 DEF PromiseOK, Moving, Has, ListOf
      <4>1. floor[q] <= latest[rev[q]]
        BY <1>0, <2>0 DEF PromiseOK
      <4>2. rev[q] \in Revs /\ floor[q] \in Nat /\ floor[q] <= sets
        <5>1. rev[q] \in Revs /\ floor[q] \in Nat
          BY <1>0 DEF TypeOK, Versions
        <5>2. latest[rev[q]] \in Nat /\ latest[rev[q]] <= sets
          BY <1>0, <5>1 DEF TypeOK, Versions, FilesInv
        <5>. QED  BY <2>0, <4>1, <5>1, <5>2
      <4>3. ASSUME pc[q] \in Looking, q \notin misled, NEW o \in Procs, pc'[o] = "file", g[o] = g[q],
                   files'[name[o]] # NoFile, Has(files'[name[o]], rev[q])
            PROVE  ListOf(files'[name[o]], rev[q]).ver >= floor[q]
        <5>1. pc[o] = "file"
          BY <4>3 DEF Moving
        <5>2. CASE files'[name[o]] = files[name[o]]
          BY <1>0, <2>0, <4>3, <5>1, <5>2 DEF PromiseOK
        <5>3. CASE name[o] = n /\ files'[name[o]] = f /\ files[name[o]] = c
          <6>1. Has(c, rev[q]) /\ ListOf(c, rev[q]).ver >= floor[q]
            BY <1>0, <2>0, <2>2, <2>3, <4>2, <4>3, <5>1, <5>3 DEF PromiseOK
          <6>. QED  BY <2>0, <2>6, <4>2, <5>3, <6>1
        <5>. QED  BY <2>9, <5>1, <5>2, <5>3
      <4>. QED  BY <1>0, <2>0, <4>1, <4>3 DEF PromiseOK
    <3>. QED  BY <3>1, <3>2
  <2>12. PlanOK(p)'
    <3>1. (Current(rev[p]).ver >= sets)'
      <4>1. ListOf(f, rev[p]).ver = sets
        BY <2>0, <2>2, <2>6
      <4>2. files'[manifest'[rev'[p]]] = f /\ rev' = rev /\ sets' = sets
        BY <1>1, <2>1 DEF Moving
      <4>. QED  BY <2>0, <4>1, <4>2 DEF Current, ListOf
    <3>. QED  BY <3>1 DEF PlanOK, Moving, Writing
  <2>. QED  BY <2>8, <2>10, <2>11, <2>12
<1>. QED  BY <1>2, <1>3, MovingStep

\* switch_to_new_revprop with a manifest: if the first pack file was split, each of its
\* revisions is in a new file, and the others are where they were.
LEMMA ManifestStep ==
  ASSUME IInv, TypeOK', LockInv', NEW p \in Procs, Moving(p), plan[p].how = "split",
         manifest' = plan[p].manifest, skewed' = (skewed \/ plan[p].first # 1), UNCHANGED files
  PROVE  IInv'
<1>0. /\ TypeOK /\ LockInv /\ FilesInv /\ PlanType(p)
      /\ ~skewed => /\ \A r \in Revs : DiskOK(r)
                    /\ \A q \in Procs : ReadOK(q) /\ PromiseOK(q)
                    /\ PlanOK(p)
  BY DEF IInv
<1>1. skewed' <=> skewed \/ plan[p].first # 1
  BY Zenon
<1>2. FilesInv'
  <2>1. \A r \in Revs : manifest'[r][2] <= sets
    BY <1>0 DEF PlanType, Moving, Writing
  <2>. QED  BY <1>0, <2>1 DEF FilesInv, InShard, Moving
<1>3. ASSUME ~skewed'
      PROVE  /\ \A r \in Revs : DiskOK(r)'
             /\ \A q \in Procs : ReadOK(q)' /\ PromiseOK(q)'
             /\ PlanOK(p)'
  <2>. DEFINE a == plan[p]
              M == manifest'
  <2>0. /\ ~skewed /\ a.first = 1 /\ 1 \in Revs /\ rev[p] \in Revs /\ sets \in Nat
        /\ manifest \in [Revs -> Names] /\ M \in [Revs -> Names]
    BY <1>0, <1>1, <1>3, SMTT(20) DEF TypeOK, Revs
  <2>1. SplitOK(p) /\ manifest[rev[p]] = manifest[1] /\ a.old = {manifest[1]} /\ a.parts = {}
    BY <1>0, <2>0 DEF PlanOK, Moving, Writing
  <2>2. ASSUME NEW r \in Revs, manifest[r] # manifest[1]  PROVE M[r] = manifest[r]
    BY <2>1, <2>2 DEF SplitOK
  <2>3. ASSUME NEW r \in Revs, manifest[r] = manifest[1]
        PROVE  M[r][2] = manifest[1][2] + 1 /\ files[M[r]] # NoFile /\ PartOK(p, files[M[r]], r)
    BY <2>1, <2>3 DEF SplitOK
  <2>4. \A r \in Revs : manifest[r][2] \in Nat /\ M[r][2] \in Nat
    BY <2>0 DEF Names
  <2>5. M[1][2] = manifest[1][2] + 1
    BY <2>0, <2>3
  <2>6. \A r \in Revs : AtLeast(sets, r)
    BY <1>0, <2>0 DEF AtLeast, FilesInv, TypeOK, Versions
  <2>7. \A v, r : AtLeast(v, r) /\ (r # rev[p] \/ v >= sets \/ ~unannounced') => AtLeastNext(v, r)
    BY DEF AtLeast, AtLeastNext, Moving
  <2>8. \A r \in Revs : manifest[r][1] # 1 => manifest[r] # manifest[1]
    <3>1. manifest[1][1] = 1
      <4>1. DiskOK(1) /\ files[manifest[1]] \in Files /\ Has(files[manifest[1]], 1)
        BY <1>0, <2>0, DiskFacts
      <4>. QED  BY <4>1 DEF DiskOK, Has, Files, Revs
    <3>. QED  BY <3>1
  <2>9. ASSUME NEW m \in Names, Settled(m)  PROVE Settled(m)'
    <3>1. m[2] \in Nat /\ m[1] \in Revs
      BY DEF Names
    <3>2. m[2] <= M[1][2]
      BY <2>0, <2>4, <2>5, <2>9, <3>1 DEF Settled
    <3>3. m[1] = 1 \/ M[m[1]] = m
      BY <2>2, <2>8, <2>9, <3>1 DEF Settled
    <3>. QED  BY <3>2, <3>3 DEF Settled
  <2>10. ASSUME NEW r \in Revs  PROVE DiskOK(r)'
    <3>0. DiskOK(r)
      BY <1>0, <2>0
    <3>1. CASE manifest[r] # manifest[1]
      <4>1. M[r] = manifest[r] /\ AtLeastNext(ListOf(files[manifest[r]], r).ver, r)
        BY <2>1, <2>2, <2>7, <3>0, <3>1, SMTT(30) DEF DiskOK
      <4>2. AtLeast(ListOf(files[manifest[r]], r).ver, r)'
        BY <4>1 DEF AtLeast, AtLeastNext, ListOf
      <4>3. M[r][2] <= M[1][2]
        BY <2>0, <2>4, <2>5, <3>0, <4>1 DEF DiskOK
      <4>4. \A q \in Revs : Has(files[M[r]], q) => M[q] = M[r]
        BY <2>2, <3>0, <3>1, <4>1, SMTT(30) DEF DiskOK
      <4>. QED  BY <3>0, <4>1, <4>2, <4>3, <4>4 DEF DiskOK, Has, Corrupt, ListOf, Moving
    <3>2. CASE manifest[r] = manifest[1]
      <4>1. M[r][2] = M[1][2] /\ files[M[r]] # NoFile /\ PartOK(p, files[M[r]], r)
        BY <2>3, <2>5, <3>2
      <4>2. AtLeastNext(ListOf(files[M[r]], r).ver, r)
        <5>1. AtLeast(ListOf(files[M[r]], r).ver, r) /\ (r = rev[p] => ListOf(files[M[r]], r).ver = sets)
          BY <2>6, <3>0, <4>1, SMTT(30) DEF PartOK, NewList, DiskOK
        <5>. QED  BY <2>0, <2>7, <5>1
      <4>3. AtLeast(ListOf(files[manifest[r]], r).ver, r)'
        BY <4>2 DEF AtLeast, AtLeastNext, ListOf
      <4>4. /\ M[r][1] = files[M[r]].first /\ Has(files[M[r]], r) /\ (Corrupt(files[M[r]]) => torn)
            /\ \A q \in Revs : Has(files[M[r]], q) => M[q] = M[r]
        BY <4>1 DEF PartOK
      <4>5. M[r][2] <= M[1][2]
        BY <2>0, <2>4, <4>1
      <4>. QED  BY <4>1, <4>3, <4>4, <4>5 DEF DiskOK, Has, Corrupt, ListOf, Moving
    <3>. QED  BY <3>1, <3>2
  <2>11. ASSUME NEW q \in Procs  PROVE ReadOK(q)'
    <3>. DEFINE c == files[name[q]]
    <3>. SUFFICES ASSUME pc'[q] = "file"
                  PROVE  /\ Settled(name[q])'
                         /\ c = NoFile => disturbed[q]
                         /\ c # NoFile =>
                              /\ (Corrupt(c) => torn) /\ Has(c, rev[q])
                              /\ phase[q] = "read" => ListOf(c, rev[q]).ver >= floor[q]
                              /\ g[q] = gen /\ ~unannounced' => \A r \in Revs : Has(c, r) => AtLeastNext(ListOf(c, r).ver, r)
      BY DEF ReadOK, Corrupt, Has, ListOf, AtLeast, AtLeastNext, Moving
    <3>1. pc[q] = "file" /\ name[q] \in Names /\ ReadOK(q)
      BY <1>0, <2>0 DEF Moving, TypeOK
    <3>2. PICK m \in Names : m = name[q]
      BY <3>1
    <3>3. Settled(m)'
      BY <2>9, <3>1, <3>2 DEF ReadOK
    <3>4. Settled(name[q])'
      BY <3>2, <3>3 DEF Settled, Moving
    <3>. QED  BY <2>7, <3>1, <3>4 DEF ReadOK, Moving
  <2>12. ASSUME NEW q \in Procs  PROVE PromiseOK(q)'
    <3>1. PromiseOK(q) /\ \A o \in Procs : pc'[o] = pc[o] \/ o = p
      BY <1>0, <2>0 DEF Moving
    <3>. QED  BY <3>1 DEF PromiseOK, Has, ListOf, Moving
  <2>13. PlanOK(p)'
    <3>1. (Current(rev[p]).ver >= sets)'
      <4>1. ListOf(files[M[rev[p]]], rev[p]).ver = sets
        BY <2>0, <2>1, <2>3 DEF PartOK, NewList
      <4>2. Current(rev[p])' = ListOf(files[M[rev[p]]], rev[p]) /\ sets' = sets
        BY Zenon DEF Current, ListOf, Moving
      <4>. QED  BY <2>0, <4>1, <4>2
    <3>2. \A m \in a.old, r \in Revs : M[r] # m
      BY <2>0, <2>1, <2>2, <2>3, <2>4
    <3>. QED  BY <3>1, <3>2 DEF PlanOK, Moving, Writing
  <2>. QED  BY <2>10, <2>11, <2>12, <2>13
<1>4. skewed => skewed'
  BY <1>1
<1>. QED  BY <1>2, <1>3, <1>4, MovingStep

\* switch_to_new_revprop.
LEMMA MoveStep ==
  ASSUME IInv, TypeOK', LockInv', NEW p \in Procs, MoveIntoPlace(p)
  PROVE  IInv'
<1>1. pc[p] = "move" /\ phase[p] = "pack" /\ DOMAIN pc = Procs
  BY DEF MoveIntoPlace, IInv, LockInv, Writing, TypeOK
<1>2. Moving(p)
  <2>1. unannounced' <=> unannounced \/ p \notin Cached
    BY Zenon DEF MoveIntoPlace
  <2>. QED  BY <1>1, <2>1 DEF Moving, MoveIntoPlace, Goto, Bumps, LastStep, readVars
<1>3. CASE /\ plan[p].how = "place" /\ files' = [files EXCEPT ![plan[p].name] = plan[p].file]
           /\ UNCHANGED <<manifest, skewed>>
  BY <1>2, <1>3, PlaceStep
<1>4. CASE /\ plan[p].how = "split" /\ manifest' = plan[p].manifest
           /\ skewed' = (skewed \/ plan[p].first # 1) /\ UNCHANGED files
  BY <1>2, <1>4, ManifestStep
<1>. QED  BY <1>3, <1>4 DEF MoveIntoPlace

--------------------------------------------------------------------------------
(* The theorems.                                                           *)

\* The shard as it was packed.
LEMMA PackedLists ==
  Packed \in Seq(Lists) /\ Len(Packed) = N /\ \A r \in Revs : Packed[r].ver = 0
<1>1. [ver |-> 0, size |-> 1] \in Lists
  BY DEF Lists, Versions
<1>2. Packed \in [1..N -> Lists] /\ \A r \in Revs : Packed[r].ver = 0
  BY <1>1 DEF Packed, Revs
<1>3. Packed \in Seq(Lists)
  BY <1>2, SeqDef
<1>4. DOMAIN Packed = 1..N /\ DOMAIN Packed = 1..Len(Packed) /\ Len(Packed) \in Nat
  BY <1>2, <1>3, LenProperties
<1>. QED  BY <1>2, <1>3, <1>4

\* The invariant holds of a shard that has just been packed.
LEMMA InitInv ==
  ASSUME Init
  PROVE  IInv
<1>. DEFINE c == NewFile(1, Packed)
<1>1. Packed \in Seq(Lists) /\ Len(Packed) = N /\ \A r \in Revs : Packed[r].ver = 0
  BY PackedLists
<1>2. 1 \in Revs /\ <<1, 0>> \in Names /\ 0 \in Versions /\ NoPlan \in Plans
  BY DEF Revs, Names, Versions, Plans
<1>3. c \in Files /\ ~Corrupt(c) /\ c.first = 1 /\ c.lists = Packed
  BY <1>1, <1>2, NewFileOK
<1>4. /\ files = [n \in Names |-> IF n = <<1, 0>> THEN c ELSE NoFile]
      /\ manifest = [r \in Revs |-> <<1, 0>>]
  BY DEF Init
<1>. HIDE DEF c
<1>5. /\ files[<<1, 0>>] = c /\ c # NoFile /\ InShard(c)
      /\ \A r \in Revs : Has(c, r) /\ ListOf(c, r).ver = 0 /\ manifest[r] = <<1, 0>>
  <2>1. InShard(c)
    BY <1>1, <1>3 DEF InShard
  <2>2. \A r \in Revs : r - 1 + 1 = r /\ r >= 1 /\ r < 1 + N
    BY DEF Revs
  <2>3. \A r \in Revs : Has(c, r) /\ ListOf(c, r).ver = 0
    BY <1>1, <1>3, <2>2 DEF Has, ListOf
  <2>. QED  BY <1>2, <1>3, <1>4, <2>1, <2>3
<1>6. TypeOK
  <2>1. files \in [Names -> Files \cup {NoFile}] /\ manifest \in [Revs -> Names]
    BY <1>2, <1>3, <1>4
  <2>2. /\ pc = [p \in Procs |-> "idle"] /\ phase = [p \in Procs |-> "read"] /\ rev = [p \in Procs |-> 1]
        /\ g = [p \in Procs |-> 0] /\ name = [p \in Procs |-> <<1, 0>>] /\ got = [p \in Procs |-> Error]
        /\ plan = [p \in Procs |-> NoPlan] /\ floor = [p \in Procs |-> 0]
        /\ disturbed = [p \in Procs |-> FALSE] /\ latest = [r \in Revs |-> 0]
    BY DEF Init
  <2>3. /\ gen = 2 /\ late = TRUE /\ cache = {} /\ writeLock = NoProc /\ sets = 0
        /\ skewed = FALSE /\ torn = FALSE /\ halfDone = FALSE /\ crashes = 0
        /\ unannounced = FALSE /\ misled = {}
    BY DEF Init
  <2>4. pc \in [Procs -> Steps]
    BY <2>2 DEF Steps
  <2>5. phase \in [Procs -> {"read", "table", "pack"}] /\ g \in [Procs -> Nat]
    BY <2>2
  <2>6. rev \in [Procs -> Revs] /\ name \in [Procs -> Names]
    BY <1>2, <2>2
  <2>7. got \in [Procs -> Lists \cup {Error}] /\ plan \in [Procs -> Plans]
    BY <1>2, <2>2, Zenon
  <2>8. floor \in [Procs -> Versions] /\ latest \in [Revs -> Versions]
    BY <1>2, <2>2
  <2>9. disturbed \in [Procs -> BOOLEAN]
    BY <2>2, Zenon
  <2>10. gen \in Nat /\ cache \subseteq Entries /\ writeLock \in Procs \cup {NoProc}
    BY <2>3
  <2>11. /\ late \in BOOLEAN /\ skewed \in BOOLEAN /\ torn \in BOOLEAN /\ halfDone \in BOOLEAN
         /\ unannounced \in BOOLEAN /\ misled \subseteq Procs
    BY <2>3, Zenon
  <2>12. sets \in 0..MaxSet /\ crashes \in 0..MaxCrash
    BY <2>3, RevpropsAssumption
  <2>. QED  BY <2>1, <2>4, <2>5, <2>6, <2>7, <2>8, <2>9, <2>10, <2>11, <2>12, Zenon DEF TypeOK
<1>7. /\ \A p \in Procs : pc[p] = "idle" /\ phase[p] = "read" /\ g[p] = 0
      /\ gen = 2 /\ cache = {} /\ writeLock = NoProc /\ sets = 0 /\ \A r \in Revs : latest[r] = 0
  BY DEF Init
<1>8. LockInv /\ GenInv
  BY <1>7 DEF LockInv, WithCache, GenInv, Writing
<1>9. FilesInv
  <2>1. \A n \in Names : files[n] # NoFile => InShard(files[n])
    BY <1>4, <1>5
  <2>. QED  BY <1>5, <1>7, <2>1 DEF FilesInv
<1>10. ASSUME NEW r \in Revs  PROVE DiskOK(r)
  <2>1. AtLeast(0, r)
    BY <1>7 DEF AtLeast
  <2>2. manifest[r] = <<1, 0>> /\ manifest[1] = <<1, 0>> /\ files[manifest[r]] = c /\ AtLeast(ListOf(c, r).ver, r)
    BY <1>2, <1>5, <2>1
  <2>3. <<1, 0>>[1] = 1 /\ <<1, 0>>[2] = 0
    OBVIOUS
  <2>. QED  BY <1>3, <1>5, <2>2, <2>3 DEF DiskOK
<1>11. \A p \in Procs : PlanType(p) /\ ReadOK(p) /\ PromiseOK(p) /\ PlanOK(p) /\ ChangeOK(p)
  BY <1>7 DEF PlanType, ReadOK, PromiseOK, PlanOK, ChangeOK, Writing, Looking
<1>12. CacheInv /\ FreshReads /\ SameInv
  BY <1>7 DEF CacheInv, FreshReads, SameInv
<1>. QED  BY <1>6, <1>7, <1>8, <1>9, <1>10, <1>11, <1>12 DEF IInv

\* Every step keeps it.
LEMMA NextInv ==
  ASSUME IInv, [Next]_vars
  PROVE  IInv'
<1>1. CASE UNCHANGED vars
  <2>1. TypeOK' /\ LockInv'
    BY <1>1 DEF IInv, TypeOK, LockInv, vars, diskVars, readVars, ghostVars
  <2>. QED  BY <1>1, <2>1, ClockStep DEF vars, diskVars
<1>2. CASE Next
  <2>0. TypeOK' /\ LockInv'
    BY <1>2, TypeStep, LockStep DEF IInv
  <2>1. ASSUME NEW p \in Procs, NEW r \in Reads, ReadBegin(p, r)  PROVE IInv'
    BY <2>0, <2>1, CallSteps
  <2>2. ASSUME NEW p \in Procs, NEW c \in Changes, ChangeBegin(p, c[1], c[2])  PROVE IInv'
    BY <2>0, <2>2, CallSteps
  <2>3. ASSUME NEW p \in Procs, ChangeRefused(p) \/ Return(p) \/ Crash(p)  PROVE IInv'
    BY <2>0, <2>3, CallSteps
  <2>4. ASSUME NEW p \in Procs, ReadGeneration(p) \/ CheckTimeout(p) \/ BumpGeneration(p)  PROVE IInv'
    BY <2>0, <2>4, GenSteps
  <2>5. ASSUME NEW p \in Procs, CacheHit(p) \/ CacheMiss(p) \/ ReadManifest(p) \/ ReadFile(p)  PROVE IInv'
    BY <2>0, <2>5, LookupSteps
  <2>6. ASSUME NEW p \in Procs, ChangeGoesOn(p) \/ BeginChange(p) \/ MakeOdd(p) \/ EndChange(p)  PROVE IInv'
    BY <2>0, <2>6, ChangeSteps
  <2>7. ASSUME NEW p \in Procs, PlanChange(p)  PROVE IInv'
    BY <2>0, <2>7, PlanStep
  <2>8. ASSUME NEW p \in Procs, WritePart(p)  PROVE IInv'
    BY <2>0, <2>8, WriteStep
  <2>9. ASSUME NEW p \in Procs, MoveIntoPlace(p)  PROVE IInv'
    BY <2>0, <2>9, MoveStep
  <2>10. ASSUME NEW p \in Procs, RemoveOld(p)  PROVE IInv'
    BY <2>0, <2>10, RemoveStep
  <2>11. ASSUME Timeout  PROVE IInv'
    BY <2>0, <2>11, ClockStep DEF Timeout, diskVars
  <2>. QED
    BY <1>2, <2>1, <2>2, <2>3, <2>4, <2>5, <2>6, <2>7, <2>8, <2>9, <2>10, <2>11 DEF Next
<1>. QED  BY <1>1, <1>2

\* The files, the cache and every process of the packed shard keep to IInv, whatever
\* the shard, the pack size and the changes.
THEOREM Invariance == Spec => []IInv
<1>1. Init => IInv
  BY InitInv
<1>2. IInv /\ [Next]_vars => IInv'
  BY NextInv
<1>. QED  BY <1>1, <1>2, PTL DEF Spec

\* On disk is a list, and it is the current one.
LEMMA OnDiskCurrent ==
  ASSUME IInv, ~skewed, ~torn, NEW r \in Revs
  PROVE  OnDisk(r) = Current(r) /\ OnDisk(r) # Error /\ OnDisk(r).ver >= latest[r]
<1>1. DiskOK(r) /\ TypeOK /\ FilesInv
  BY DEF IInv
<1>2. files[manifest[r]] # NoFile /\ ~Corrupt(files[manifest[r]]) /\ Has(files[manifest[r]], r)
  BY <1>1 DEF DiskOK
<1>3. OnDisk(r) = Current(r)
  BY <1>2 DEF OnDisk, Found, Current
<1>4. Current(r) # Error
  BY <1>1, DiskFacts
<1>5. Current(r).ver >= latest[r]
  BY <1>1 DEF DiskOK, AtLeast, Current
<1>. QED  BY <1>3, <1>4, <1>5

\* The types hold, and the list last set on a revision is found through the manifest, as
\* long as only the first pack file was split and no split wrote over an older file
\* (write_packed_revprop, repack_revprops).
THEOREM ListsSurvive == Spec => []ListsKept
<1>1. IInv => ListsKept
  BY OnDiskCurrent DEF ListsKept, IInv
<1>. QED  BY <1>1, Invariance, PTL

\* A read that begins after a change has returned gives that list or a later one, with
\* any number of processes with and without the cache that move the generation on or
\* leave it alone; except to one that has the cache and reads the generation after a
\* change that left it alone (set_revision_proplist).
THEOREM ReadsFresh == Spec => []FreshReads
<1>1. IInv => FreshReads
  BY DEF IInv, FreshReads
<1>. QED  BY <1>1, Invariance, PTL

\* What the cache has under an even generation is what is on disk when nobody changes
\* anything, unless a writer died half-way (switch_to_new_revprop) or the last change
\* left the generation alone.
THEOREM CacheTrue == Spec => []CacheCurrent
<1>1. ASSUME IInv  PROVE CacheCurrent
  <2>. SUFFICES ASSUME writeLock = NoProc, ~halfDone, ~unannounced, ~skewed, ~torn, NEW e \in cache, e.gen = gen
                PROVE  e.list = OnDisk(e.rev)
    BY DEF CacheCurrent
  <2>1. \A p \in Procs : pc[p] # "even"
    BY <1>1 DEF IInv, LockInv
  <2>2. e.rev \in Revs /\ e.list = Current(e.rev)
    BY <1>1, <2>1 DEF IInv, TypeOK, Entries, SameInv
  <2>. QED  BY <1>1, <2>2, OnDiskCurrent
<1>. QED  BY <1>1, Invariance, PTL

\* A change is moved into place only over the list it was made from: no change undoes
\* another one (change_rev_prop_body), whoever of those who have the cache or not makes
\* it; except one that has the cache, after a writer died half-way or left the
\* generation alone.
THEOREM ChangesKept == Spec => NoLostChange
<1>1. ASSUME IInv, [Next]_vars
      PROVE  [\A p \in Procs : pc[p] = "move" /\ pc'[p] \in {"even", "clean", "done"} /\ Informed(p) /\ ~skewed /\ ~torn =>
                got[p] = OnDisk(rev[p])]_vars
  <2>1. ASSUME NEW p \in Procs, pc[p] = "move", Informed(p), ~skewed, ~torn  PROVE got[p] = OnDisk(rev[p])
    <3>1. phase[p] = "pack" /\ rev[p] \in Revs
      BY <1>1, <2>1 DEF IInv, LockInv, TypeOK, Writing
    <3>2. got[p] = Current(rev[p])
      BY <1>1, <2>1, <3>1 DEF IInv, ChangeOK, Writing
    <3>. QED  BY <1>1, <2>1, <3>1, <3>2, OnDiskCurrent
  <2>. QED  BY <2>1
<1>. QED  BY <1>1, Invariance, PTL DEF Spec, NoLostChange

--------------------------------------------------------------------------------
(* Sizes.                                                                  *)

\* ks is what follows the first a elements of ls, or the beginning of it.
IsPart(ks, ls, a) == a + Len(ks) <= Len(ls) /\ \A k \in 1..Len(ks) : ks[k] = ls[a + k]

\* Running sums grow, and differ where the sums of two sequences differ.
LEMMA SumDifference ==
  ASSUME NEW ls \in Seq(Lists), NEW f, IsSum(f, ls), NEW ks \in Seq(Lists), NEW h, IsSum(h, ks),
         NEW a \in Nat, IsPart(ks, ls, a)
  PROVE  h[Len(ks)] = f[a + Len(ks)] - f[a]
<1>n. PICK n \in Nat, m \in Nat : n = Len(ls) /\ m = Len(ks)
  OBVIOUS
<1>1. /\ f \in [0..n -> Nat] /\ h \in [0..m -> Nat] /\ h[0] = 0 /\ a + m <= n
      /\ \A k \in 1..n : f[k] = f[k - 1] + ls[k].size
      /\ \A k \in 1..m : h[k] = h[k - 1] + ks[k].size
      /\ \A k \in 1..m : ks[k] = ls[a + k]
  BY <1>n DEF IsSum, IsPart
<1>. DEFINE C == {k \in Nat : k <= m => h[k] = f[a + k] - f[a]}
<1>2. 0 \in C
  <2>1. a \in 0..n /\ a + 0 = a /\ f[a] \in Nat
    BY <1>1
  <2>2. f[a] - f[a] = 0
    BY <2>1
  <2>. QED  BY <1>1, <2>1, <2>2
<1>3. ASSUME NEW k \in Nat, k \in C  PROVE k + 1 \in C
  <2>. SUFFICES ASSUME k + 1 <= m  PROVE h[k + 1] = f[a + (k + 1)] - f[a]
    OBVIOUS
  <2>0. h[k] = f[a + k] - f[a]
    BY <1>3
  <2>. HIDE DEF C
  <2>1. /\ k + 1 \in 1..m /\ (k + 1) - 1 = k /\ a + (k + 1) \in 1..n /\ (a + (k + 1)) - 1 = a + k
        /\ k \in 0..m /\ a + k \in 0..n /\ a \in 0..n
    BY <1>1
  <2>2. ls[a + (k + 1)].size \in Nat
    <3>1. ls[a + (k + 1)] \in Lists
      BY <1>n, <2>1, ElementOfSeq
    <3>. QED  BY <3>1 DEF Lists, Sizes
  <2>3. h[k + 1] = h[k] + ls[a + (k + 1)].size
    <3>1. h[k + 1] = h[(k + 1) - 1] + ks[k + 1].size /\ ks[k + 1] = ls[a + (k + 1)]
      BY <1>1, <2>1
    <3>. QED  BY <2>1, <3>1
  <2>4. f[a + (k + 1)] = f[a + k] + ls[a + (k + 1)].size
    BY <1>1, <2>1
  <2>5. h[k] \in Nat /\ f[a + k] \in Nat /\ f[a] \in Nat
    BY <1>1, <2>1
  <2>. QED  BY <2>0, <2>2, <2>3, <2>4, <2>5
<1>. HIDE DEF C
<1>4. m \in C
  BY <1>2, <1>3, SetInduction
<1>. QED  BY <1>n, <1>4 DEF C

\* A part of a sequence has the difference of two running sums.
LEMMA PartSum ==
  ASSUME NEW ls \in Seq(Lists), NEW f, IsSum(f, ls), NEW a \in Nat, NEW b \in Nat, a <= b, b <= Len(ls)
  PROVE  /\ SubSeq(ls, a + 1, b) \in Seq(Lists) /\ Len(SubSeq(ls, a + 1, b)) = b - a
         /\ TotalSize(SubSeq(ls, a + 1, b)) = f[b] - f[a]
         /\ \A k \in 1..b - a : SubSeq(ls, a + 1, b)[k] = ls[a + k]
<1>0. Len(ls) \in Nat
  OBVIOUS
<1>1. PICK ks : ks = SubSeq(ls, a + 1, b)
  OBVIOUS
<1>2. \A i \in a + 1..b : i \in 1..Len(ls)
  BY <1>0
<1>3. ks \in Seq(Lists) /\ Len(ks) = b - a
  <2>1. ks \in Seq(Lists)
    BY <1>0, <1>1, <1>2, SubSeqProperties
  <2>2. Len(ks) = b - a
    BY <1>0, <1>1, <1>2, SubSeqProperties
  <2>. QED  BY <2>1, <2>2
<1>4. ASSUME NEW k \in 1..Len(ks)  PROVE ks[k] = ls[a + k]
  <2>1. ks[k] = ls[(a + 1) + k - 1]
    BY <1>0, <1>1, <1>2, <1>3, SubSeqProperties
  <2>2. (a + 1) + k - 1 = a + k
    BY <1>3
  <2>. QED  BY <2>1, <2>2
<1>5. PICK h : IsSum(h, ks) /\ TotalSize(ks) = h[Len(ks)]
  BY <1>3, TotalSizeSum
<1>6. a + Len(ks) = b /\ a + Len(ks) <= Len(ls)
  BY <1>0, <1>3
<1>7. h[Len(ks)] = f[a + Len(ks)] - f[a]
  <2>1. IsPart(ks, ls, a)
    BY <1>4, <1>6 DEF IsPart
  <2>. QED  BY <1>3, <1>5, <2>1, SumDifference
<1>. QED  BY <1>1, <1>3, <1>4, <1>5, <1>6, <1>7

\* The sizes that the loop goes by are those of the two sides.
LEMMA SplitSizes ==
  ASSUME NEW ls \in Seq(Lists), NEW f, IsSum(f, ls), NEW s, s = SplitPoint(ls)
  PROVE  /\ s.left \in 0..Len(ls)
         /\ s.leftSize = f[s.left] + (s.left + 2) * Overhead
         /\ s.rightSize = (f[Len(ls)] - f[s.left]) + ((Len(ls) - s.left) + 2) * Overhead
<1>n. PICK n \in Nat : n = Len(ls)
  OBVIOUS
<1>0. /\ f \in [0..n -> Nat] /\ f[0] = 0
      /\ \A k \in 1..n : f[k] = f[k - 1] + ls[k].size
  BY <1>n DEF IsSum
<1>s. \A k \in 1..n : ls[k].size \in Nat
  <2>. TAKE k \in 1..n
  <2>1. ls[k] \in Lists
    BY <1>n, ElementOfSeq
  <2>. QED  BY <2>1 DEF Lists, Sizes
<1>1. PICK b : IsSides(b, ls) /\ s = b[n]
  BY <1>n, SplitTurns
<1>. DEFINE OK(k) == \E x \in 0..k :
                       b[k] = [left |-> x, right |-> (n - 1) - (k - x), leftSize |-> f[x] + (x + 2),
                               rightSize |-> (f[n] - f[n - (k - x)]) + ((k - x) + 2)]
            C == {k \in Nat : k <= n => OK(k)}
<1>2. 0 \in C
  <2>1. b[0] = [left |-> 0, right |-> n - 1, leftSize |-> 2, rightSize |-> 2]
    BY <1>n, <1>1 DEF IsSides, Overhead
  <2>2. /\ (n - 1) - (0 - 0) = n - 1 /\ f[0] + (0 + 2) = 2
        /\ (f[n] - f[n - (0 - 0)]) + ((0 - 0) + 2) = 2
    BY <1>0
  <2>3. OK(0)
    BY <2>1, <2>2
  <2>. QED  BY <2>3
<1>3. ASSUME NEW k \in Nat, k \in C  PROVE k + 1 \in C
  <2>. HIDE DEF OK
  <2>. SUFFICES ASSUME k + 1 <= n  PROVE OK(k + 1)
    OBVIOUS
  <2>k. OK(k)
    BY <1>3
  <2>. HIDE DEF C
  <2>0. PICK x \in 0..k : b[k] = [left |-> x, right |-> (n - 1) - (k - x), leftSize |-> f[x] + (x + 2),
                                  rightSize |-> (f[n] - f[n - (k - x)]) + ((k - x) + 2)]
    BY <2>k DEF OK
  <2>1. k + 1 \in 1..n /\ (k + 1) - 1 = k
    OBVIOUS
  <2>2. b[k + 1] = Grow(ls, b[k])
    BY <1>n, <1>1, <2>1 DEF IsSides
  <2>. DEFINE y == n - (k - x)
  <2>3. /\ x + 1 \in 1..n /\ (x + 1) - 1 = x /\ x \in 0..n
        /\ y \in 1..n /\ y - 1 \in 0..n /\ n \in 0..n /\ ((n - 1) - (k - x)) + 1 = y
    BY <2>1
  <2>4. f[x + 1] = f[x] + ls[x + 1].size /\ f[y] = f[y - 1] + ls[y].size
    BY <1>0, <2>3
  <2>5. ls[x + 1].size \in Nat /\ ls[y].size \in Nat
    BY <1>s, <2>3
  <2>6. f[x] \in Nat /\ f[x + 1] \in Nat /\ f[y] \in Nat /\ f[y - 1] \in Nat /\ f[n] \in Nat
    BY <1>0, <2>3
  <2>y. y = n - (k - x) /\ y \in Nat
    BY <2>3
  <2>. HIDE DEF y
  <2>7. CASE b[k + 1] = [left |-> x + 1, right |-> (n - 1) - (k - x),
                         leftSize |-> (f[x] + (x + 2)) + ls[x + 1].size + 1,
                         rightSize |-> (f[n] - f[y]) + ((k - x) + 2)]
    <3>1. /\ (k + 1) - (x + 1) = k - x /\ x + 1 \in 0..k + 1
      OBVIOUS
    <3>2. PICK u \in Nat, v \in Nat, w \in Nat : u = f[x] /\ v = f[x + 1] /\ w = ls[x + 1].size
      BY <2>5, <2>6
    <3>3. v = u + w
      BY <2>4, <3>2
    <3>4. (u + (x + 2)) + w + 1 = v + ((x + 1) + 2)
      BY <3>3
    <3>5. (f[x] + (x + 2)) + ls[x + 1].size + 1 = f[x + 1] + ((x + 1) + 2)
      BY <3>2, <3>4
    <3>. QED  BY <2>7, <2>y, <3>1, <3>5 DEF OK
  <2>8. CASE b[k + 1] = [left |-> x, right |-> ((n - 1) - (k - x)) - 1,
                         leftSize |-> f[x] + (x + 2),
                         rightSize |-> ((f[n] - f[y]) + ((k - x) + 2)) + ls[y].size + 1]
    <3>1. /\ ((n - 1) - (k - x)) - 1 = (n - 1) - ((k + 1) - x) /\ x \in 0..k + 1
          /\ n - ((k + 1) - x) = y - 1
      BY <2>y
    <3>2. PICK u \in Nat, v \in Nat, w \in Nat, t \in Nat :
            u = f[y] /\ v = f[y - 1] /\ w = ls[y].size /\ t = f[n]
      BY <2>5, <2>6
    <3>3. u = v + w
      BY <2>4, <3>2
    <3>4. ((t - u) + ((k - x) + 2)) + w + 1 = (t - v) + (((k + 1) - x) + 2)
      BY <3>3
    <3>5. ((f[n] - f[y]) + ((k - x) + 2)) + ls[y].size + 1 = (f[n] - f[y - 1]) + (((k + 1) - x) + 2)
      BY <3>2, <3>4
    <3>. QED  BY <2>8, <3>1, <3>5 DEF OK
  <2>9. /\ b[k].left = x /\ b[k].right + 1 = y /\ b[k].right = (n - 1) - (k - x)
        /\ b[k].leftSize = f[x] + (x + 2) /\ b[k].rightSize = (f[n] - f[y]) + ((k - x) + 2)
    BY <2>0, <2>3, <2>y
  <2>. QED  BY <2>2, <2>7, <2>8, <2>9 DEF Grow, Overhead
<1>. HIDE DEF C
<1>4. n \in C
  BY <1>2, <1>3, SetInduction
<1>k. OK(n)
  <2>. HIDE DEF OK
  <2>. QED  BY <1>4 DEF C
<1>5. PICK x \in 0..n : s = [left |-> x, right |-> (n - 1) - (n - x), leftSize |-> f[x] + (x + 2),
                             rightSize |-> (f[n] - f[n - (n - x)]) + ((n - x) + 2)]
  BY <1>1, <1>k
<1>6. n - (n - x) = x
  OBVIOUS
<1>. QED  BY <1>n, <1>5, <1>6 DEF Overhead

\* The parts of a split fit, if the file did before the change: the two sides by the sizes
\* the loop has found, and of three the outer ones because their lists are old.
LEMMA RangesFit ==
  ASSUME NEW c \in Files, Fits(c.lists), NEW r \in Revs, Has(c, r), NEW l \in Lists,
         NEW ls, ls = Changed(c, r, l), NEW x \in Ranges(ls, r - c.first)
  PROVE  Fits(SubSeq(ls, x[1] + 1, x[2]))
<1>1. ls \in Seq(Lists) /\ Len(ls) = Len(c.lists) /\ r - c.first \in 0..Len(ls) - 1 /\ c.lists \in Seq(Lists)
  BY ChangedLists DEF Files
<1>n. PICK n \in Nat, i \in Nat : n = Len(ls) /\ i = r - c.first /\ i < n
  BY <1>1
<1>2. PICK f : IsSum(f, ls)
  BY <1>1, TotalSizeSum
<1>3. PICK F : IsSum(F, c.lists) /\ TotalSize(c.lists) = F[n]
  BY <1>1, <1>n, TotalSizeSum
<1>4. PICK s : s = SplitPoint(ls)
  OBVIOUS
<1>5. s.left \in 0..n /\ s.leftSize = f[s.left] + (s.left + 2) /\ s.rightSize = (f[n] - f[s.left]) + ((n - s.left) + 2)
  BY <1>1, <1>n, <1>2, <1>4, SplitSizes DEF Overhead
<1>6. f \in [0..n -> Nat] /\ f[0] = 0 /\ F \in [0..n -> Nat] /\ F[0] = 0
  BY <1>1, <1>n, <1>2, <1>3 DEF IsSum
<1>7. x \in Ranges(ls, i)
  BY <1>n
<1>8. \A k \in 1..n : k # i + 1 => ls[k] = c.lists[k]
  <2>1. r - c.first + 1 = i + 1 /\ i + 1 \in 1..Len(c.lists)
    BY <1>1, <1>n
  <2>. QED  BY <1>1, <1>n, <2>1, ExceptSeq DEF Changed
<1>9. CASE s.leftSize > PackSize \/ s.rightSize > PackSize
  <2>1. x \in {<<0, i>>, <<i, i + 1>>, <<i + 1, n>>} /\ x[1] < x[2]
    BY <1>n, <1>4, <1>7, <1>9 DEF Ranges
  <2>2. PICK a \in Nat, b \in Nat : a = x[1] /\ b = x[2] /\ a < b /\ b <= n /\ (b <= i \/ a >= i + 1 \/ b - a = 1)
    BY <1>n, <2>1
  <2>0. a <= b /\ b <= Len(ls) /\ b <= Len(c.lists)
    BY <1>1, <1>n, <2>2
  <2>k. PICK ks : ks = SubSeq(ls, a + 1, b)
    OBVIOUS
  <2>3. ks \in Seq(Lists) /\ Len(ks) = b - a /\ \A k \in 1..b - a : ks[k] = ls[a + k]
    BY <1>1, <1>2, <2>0, <2>k, PartSum
  <2>4. CASE b - a = 1
    BY <2>2, <2>3, <2>4, <2>k DEF Fits
  <2>5. CASE b <= i \/ a >= i + 1
    <3>1. ks = SubSeq(c.lists, a + 1, b)
      <4>1. PICK js : js = SubSeq(c.lists, a + 1, b)
        OBVIOUS
      <4>2. js \in Seq(Lists) /\ Len(js) = b - a /\ \A k \in 1..b - a : js[k] = c.lists[a + k]
        BY <1>1, <1>3, <2>0, <4>1, PartSum
      <4>3. ASSUME NEW k \in 1..b - a  PROVE ks[k] = js[k]
        <5>1. ks[k] = ls[a + k] /\ js[k] = c.lists[a + k]
          BY <2>3, <4>2
        <5>2. a + k \in 1..n /\ a + k # i + 1
          BY <2>2, <2>5
        <5>. QED  BY <1>8, <5>1, <5>2
      <4>. QED  BY <2>3, <4>1, <4>2, <4>3, SeqEqual
    <3>2. TotalSize(ks) = F[b] - F[a]
      BY <1>1, <1>3, <2>0, <3>1, PartSum
    <3>3. F[n] - F[b] \in Nat
      <4>1. TotalSize(SubSeq(c.lists, b + 1, n)) = F[n] - F[b] /\ SubSeq(c.lists, b + 1, n) \in Seq(Lists)
        <5>1. b <= n /\ n <= Len(c.lists)
          BY <1>1, <1>n, <2>2
        <5>. QED  BY <1>1, <1>3, <5>1, PartSum
      <4>. QED  BY <4>1, TotalSizeType
    <3>4. PICK u \in Nat, v \in Nat, w \in Nat : u = F[a] /\ v = F[b] /\ w = F[n]
      BY <1>6, <2>2, SMTT(30)
    <3>5. n > 1 => w + (n + 2) <= PackSize
      BY <1>1, <1>n, <1>3, <3>4 DEF Fits, Estimate, Overhead
    <3>6. b - a > 1 => (v - u) + ((b - a) + 2) <= PackSize
      BY <2>2, <3>3, <3>4, <3>5
    <3>7. TotalSize(ks) = v - u /\ Len(ks) = b - a
      BY <2>3, <2>k, <3>2, <3>4
    <3>8. Len(ks) > 1 => TotalSize(ks) + (Len(ks) + 2) * 1 <= PackSize
      BY <2>2, <3>4, <3>6, <3>7
    <3>9. Fits(ks)
      BY <3>8 DEF Fits, Estimate, Overhead
    <3>. QED  BY <2>2, <2>k, <3>9
  <2>. QED  BY <2>2, <2>4, <2>5
<1>10. CASE ~(s.leftSize > PackSize \/ s.rightSize > PackSize)
  <2>1. x \in {<<0, s.left>>, <<s.left, n>>} /\ x[1] < x[2]
    BY <1>n, <1>4, <1>7, <1>10 DEF Ranges
  <2>2. PICK a \in Nat, b \in Nat : /\ a = x[1] /\ b = x[2] /\ a < b /\ b <= n
                                    /\ ((a = 0 /\ b = s.left) \/ (a = s.left /\ b = n))
    BY <1>5, <2>1
  <2>0. a <= b /\ b <= Len(ls)
    BY <1>n, <2>2
  <2>3. /\ Len(SubSeq(ls, a + 1, b)) = b - a
        /\ TotalSize(SubSeq(ls, a + 1, b)) = f[b] - f[a]
    BY <1>1, <1>2, <2>0, PartSum
  <2>4. PICK u \in Nat, v \in Nat, w \in Nat : u = f[s.left] /\ v = f[n] /\ w = f[0] /\ w = 0
    BY <1>5, <1>6, SMTT(30)
  <2>5. s.leftSize = u + (s.left + 2) /\ s.rightSize = (v - u) + ((n - s.left) + 2)
    BY <1>5, <2>4
  <2>6. (f[b] - f[a]) + ((b - a) + 2) <= PackSize
    <3>0. s.leftSize <= PackSize /\ s.rightSize <= PackSize /\ s.left \in Nat
      BY <1>5, <1>10, <2>4, <2>5
    <3>1. CASE a = 0 /\ b = s.left
      <4>1. f[b] = u /\ f[a] = 0
        BY <1>6, <2>4, <3>1
      <4>. QED  BY <2>5, <3>0, <3>1, <4>1
    <3>2. CASE a = s.left /\ b = n
      <4>1. f[b] = v /\ f[a] = u
        BY <2>4, <3>2
      <4>. QED  BY <2>5, <3>0, <3>2, <4>1
    <3>. QED  BY <2>2, <3>1, <3>2
  <2>. QED  BY <2>2, <2>3, <2>6 DEF Fits, Estimate, Overhead
<1>. QED  BY <1>9, <1>10

\* What write_packed_revprop prepares fits.
LEMMA MadePlanFits ==
  ASSUME NEW c \in Files, Fits(c.lists), NEW n, NEW r \in Revs, Has(c, r), NEW l \in Lists,
         NEW a, a = MakePlan(c, n, r, l)
  PROVE  PlanFits(a)
<1>0. PICK ls : ls = Changed(c, r, l)
  OBVIOUS
<1>1. ls \in Seq(Lists)
  BY <1>0, ChangedLists
<1>2. Estimate(ls) \in Nat /\ Len(ls) \in Nat
  BY <1>1, EstimateType
<1>3. CASE Estimate(ls) < PackSize \/ Len(ls) = 1
  <2>1. a = [how |-> "place", name |-> n, file |-> NewFile(c.first, ls)]
    BY <1>0, <1>3 DEF MakePlan, Changed
  <2>2. a.how = "place" /\ a.file.lists = ls
    BY <2>1 DEF NewFile
  <2>3. Fits(ls)
    <3>1. PICK e \in Nat, m \in Nat : e = Estimate(ls) /\ m = Len(ls)
      BY <1>2
    <3>2. m > 1 => e <= PackSize
      BY <1>3, <3>1
    <3>. QED  BY <3>1, <3>2 DEF Fits
  <2>. QED  BY <2>2, <2>3 DEF PlanFits
<1>4. CASE ~(Estimate(ls) < PackSize \/ Len(ls) = 1)
  <2>. DEFINE xs == Ranges(ls, r - c.first)
              File(x) == NewFile(c.first + x[1], SubSeq(ls, x[1] + 1, x[2]))
  <2>1. /\ a.how = "split"
        /\ a.parts = {[name |-> <<c.first + x[1], OldName(x)[2] + 1>>, file |-> File(x)] : x \in xs}
    BY <1>0, <1>4 DEF MakePlan, Changed
  <2>. HIDE DEF xs
  <2>2. ASSUME NEW y \in a.parts  PROVE Fits(y.file.lists)
    <3>1. PICK x \in xs : y = [name |-> <<c.first + x[1], OldName(x)[2] + 1>>, file |-> File(x)]
      BY <2>1
    <3>2. y.file.lists = SubSeq(ls, x[1] + 1, x[2])
      BY <3>1 DEF NewFile
    <3>3. Fits(SubSeq(ls, x[1] + 1, x[2]))
      BY <1>0, RangesFit DEF xs
    <3>. QED  BY <3>2, <3>3
  <2>. QED  BY <2>1, <2>2 DEF PlanFits
<1>. QED  BY <1>3, <1>4

\* A step that touches neither a file nor a plan, but to drop it, keeps SizeInv.
LEMMA SizeQuiet ==
  ASSUME SizeInv, files' = files, \A q \in Procs : plan'[q] = plan[q] \/ plan'[q].how = "none"
  PROVE  SizeInv'
<1>1. PackSizeKept'
  BY DEF SizeInv, PackSizeKept, Fits
<1>2. ASSUME NEW q \in Procs  PROVE PlanFits(plan'[q])
  <2>1. PlanFits(plan[q])
    BY DEF SizeInv
  <2>2. plan'[q].how = "none" => PlanFits(plan'[q])
    BY DEF PlanFits
  <2>. QED  BY <2>1, <2>2
<1>. QED  BY <1>1, <1>2 DEF SizeInv

\* Every step keeps SizeInv.
LEMMA SizeNext ==
  ASSUME IInv, SizeInv, [Next]_vars
  PROVE  SizeInv'
<1>0. /\ TypeOK /\ plan \in [Procs -> Plans] /\ files \in [Names -> Files \cup {NoFile}]
      /\ \A q \in Procs : PlanType(q)
  BY DEF IInv, TypeOK
<1>1. CASE UNCHANGED vars
  BY <1>1, SizeQuiet DEF vars, diskVars
<1>2. ASSUME NEW p \in Procs, NEW r \in Reads, ReadBegin(p, r)  PROVE SizeInv'
  BY <1>2, SizeQuiet DEF ReadBegin, diskVars
<1>3. ASSUME NEW p \in Procs, NEW c \in Changes, ChangeBegin(p, c[1], c[2])  PROVE SizeInv'
  <2>1. files' = files /\ \A q \in Procs : plan'[q] = plan[q] \/ plan'[q].how = "none"
    BY <1>0, <1>3 DEF ChangeBegin, diskVars
  <2>. QED  BY <2>1, SizeQuiet
<1>4. ASSUME NEW p \in Procs, Return(p) \/ Crash(p)  PROVE SizeInv'
  <2>1. files' = files /\ \A q \in Procs : plan'[q] = plan[q] \/ plan'[q].how = "none"
    BY <1>0, <1>4 DEF Return, Crash, Forget, NoPlan, diskVars
  <2>. QED  BY <2>1, SizeQuiet
<1>5. ASSUME NEW p \in Procs,
             \/ ChangeRefused(p) \/ ReadGeneration(p) \/ CheckTimeout(p) \/ BumpGeneration(p)
             \/ CacheHit(p) \/ CacheMiss(p) \/ ReadManifest(p) \/ ReadFile(p)
      PROVE  SizeInv'
  <2>1. files' = files /\ plan' = plan
    BY <1>5 DEF ChangeRefused, ReadGeneration, CheckTimeout, BumpGeneration, CacheHit, CacheMiss, ReadManifest,
                ReadFile, diskVars
  <2>. QED  BY <2>1, SizeQuiet
<1>6. ASSUME NEW p \in Procs, ChangeGoesOn(p) \/ BeginChange(p) \/ MakeOdd(p) \/ EndChange(p)  PROVE SizeInv'
  <2>1. files' = files /\ plan' = plan
    BY <1>6 DEF ChangeGoesOn, BeginChange, MakeOdd, EndChange, diskVars
  <2>. QED  BY <2>1, SizeQuiet
<1>7. ASSUME Timeout  PROVE SizeInv'
  BY <1>7, SizeQuiet DEF Timeout, diskVars
<1>8. ASSUME NEW p \in Procs, PlanChange(p)  PROVE SizeInv'
  <2>. DEFINE c == files[name[p]]
              l == [ver |-> sets + 1, size |-> plan[p].size]
  <2>1. files' = files
    BY <1>8 DEF PlanChange, diskVars
  <2>2. CASE Found(rev[p], name[p]) = Error
    <3>1. plan' = plan
      BY <1>8, <2>2 DEF PlanChange
    <3>. QED  BY <2>1, <3>1, SizeQuiet
  <2>3. CASE Found(rev[p], name[p]) # Error
    <3>1. PICK a : a = MakePlan(c, name[p], rev[p], l) /\ plan' = [plan EXCEPT ![p] = a]
      BY <1>8, <2>3 DEF PlanChange
    <3>2. /\ c \in Files /\ Has(c, rev[p]) /\ rev[p] \in Revs /\ Fits(c.lists) /\ l \in Lists
      <4>1. name[p] \in Names /\ rev[p] \in Revs /\ sets \in Nat
        BY <1>0 DEF TypeOK
      <4>2. c \in Files /\ Has(c, rev[p])
        BY <1>0, <2>3, <4>1 DEF Found
      <4>3. Fits(c.lists)
        BY <4>1, <4>2 DEF SizeInv, PackSizeKept
      <4>4. sets < MaxSet /\ plan[p].size \in Sizes
        BY <1>8 DEF PlanChange, IInv, LockInv, Writing
      <4>5. l \in Lists
        BY <4>1, <4>4 DEF Lists, Versions
      <4>. QED  BY <4>1, <4>2, <4>3, <4>5
    <3>3. PlanFits(a)
      BY <3>1, <3>2, MadePlanFits
    <3>4. plan'[p] = a /\ \A q \in Procs \ {p} : plan'[q] = plan[q]
      BY <1>0, <3>1
    <3>5. \A q \in Procs : PlanFits(plan'[q])
      BY <3>3, <3>4 DEF SizeInv
    <3>6. PackSizeKept'
      BY <2>1 DEF SizeInv, PackSizeKept
    <3>. QED  BY <3>5, <3>6 DEF SizeInv
  <2>. QED  BY <2>2, <2>3
<1>9. ASSUME NEW p \in Procs, WritePart(p)  PROVE SizeInv'
  <2>1. PICK x \in plan[p].parts : /\ files' = [files EXCEPT ![x.name] = Over(@, x.file)]
                                   /\ plan' = [plan EXCEPT ![p].parts = @ \ {x}]
    BY <1>9 DEF WritePart
  <2>2. plan[p].how = "split" /\ plan[p] \in Splits
    BY <1>0, <1>9, SplitType DEF WritePart, PlanType, Writing
  <2>0. PlanFits(plan[p])
    BY DEF SizeInv
  <2>3. Fits(x.file.lists) /\ x.file \in Files /\ x.name \in Names
    BY <2>0, <2>1, <2>2 DEF PlanFits, Splits, Parts
  <2>4. ASSUME NEW o  PROVE Over(o, x.file).lists = x.file.lists
    BY <2>3 DEF Over, Files
  <2>5. PackSizeKept'
    BY <1>0, <2>1, <2>3, <2>4 DEF SizeInv, PackSizeKept, Fits
  <2>6. /\ plan'[p].how = "split" /\ plan'[p].parts = plan[p].parts \ {x}
        /\ \A q \in Procs \ {p} : plan'[q] = plan[q]
    BY <1>0, <2>1, <2>2 DEF Splits
  <2>7. PlanFits(plan'[p])
    BY <2>0, <2>2, <2>6 DEF PlanFits
  <2>8. \A q \in Procs : PlanFits(plan'[q])
    BY <2>6, <2>7 DEF SizeInv
  <2>. QED  BY <2>5, <2>8 DEF SizeInv
<1>10. ASSUME NEW p \in Procs, MoveIntoPlace(p)  PROVE SizeInv'
  <2>1. plan' = plan
    BY <1>10 DEF MoveIntoPlace
  <2>2. CASE plan[p].how = "place" /\ files' = [files EXCEPT ![plan[p].name] = plan[p].file]
    <3>1. PlanFits(plan[p])
      BY DEF SizeInv
    <3>2. Fits(plan[p].file.lists)
      BY <2>2, <3>1 DEF PlanFits
    <3>3. ASSUME NEW n \in Names  PROVE files'[n] = NoFile \/ Fits(files'[n].lists)
      <4>1. files'[n] = plan[p].file \/ files'[n] = files[n]
        BY <1>0, <2>2
      <4>. QED  BY <3>2, <4>1 DEF SizeInv, PackSizeKept
    <3>. QED  BY <2>1, <3>3 DEF SizeInv, PackSizeKept
  <2>3. CASE files' = files
    BY <2>1, <2>3, SizeQuiet
  <2>. QED  BY <1>10, <2>2, <2>3 DEF MoveIntoPlace
<1>11. ASSUME NEW p \in Procs, RemoveOld(p)  PROVE SizeInv'
  <2>1. CASE plan[p].old = {}
    BY <1>11, <2>1, SizeQuiet DEF RemoveOld
  <2>2. CASE plan[p].old # {}
    <3>1. PICK n \in plan[p].old : /\ files' = [files EXCEPT ![n] = NoFile]
                                   /\ plan' = [plan EXCEPT ![p].old = @ \ {n}]
      BY <1>11, <2>2 DEF RemoveOld
    <3>2. plan[p].how = "split" /\ plan[p] \in Splits
      <4>1. plan[p].how = "split"
        BY <1>0, <1>11 DEF RemoveOld, PlanType, Writing
      <4>. QED  BY <1>0, <4>1, SplitType
    <3>3. PackSizeKept'
      BY <1>0, <3>1 DEF SizeInv, PackSizeKept, Fits
    <3>4. /\ plan'[p].how = "split" /\ plan'[p].parts = plan[p].parts
          /\ \A q \in Procs \ {p} : plan'[q] = plan[q]
      BY <1>0, <3>1, <3>2 DEF Splits
    <3>5. PlanFits(plan[p])
      BY DEF SizeInv
    <3>6. PlanFits(plan'[p])
      BY <3>2, <3>4, <3>5 DEF PlanFits
    <3>7. \A q \in Procs : PlanFits(plan'[q])
      BY <3>4, <3>6 DEF SizeInv
    <3>. QED  BY <3>3, <3>7 DEF SizeInv
  <2>. QED  BY <2>1, <2>2
<1>. QED
  BY <1>1, <1>2, <1>3, <1>4, <1>5, <1>6, <1>7, <1>8, <1>9, <1>10, <1>11 DEF Next

\* A pack file of several lists never outgrows revprop_pack_size, if the shard did not
\* when it was packed: the split of write_packed_revprop always makes room, whatever
\* the lists grow to, also where it splits the wrong file or writes over a leftover.
THEOREM SizesKept == Spec => []PackSizeKept
<1>1. Init => SizeInv
  <2>. SUFFICES ASSUME Init  PROVE SizeInv
    OBVIOUS
  <2>1. /\ files = [n \in Names |-> IF n = <<1, 0>> THEN NewFile(1, Packed) ELSE NoFile]
        /\ plan = [p \in Procs |-> NoPlan]
    BY DEF Init
  <2>2. Fits(Packed)
    BY PackedLists, ShardFits DEF Fits
  <2>3. NewFile(1, Packed).lists = Packed
    BY DEF NewFile
  <2>4. PackSizeKept
    BY <2>1, <2>2, <2>3 DEF PackSizeKept
  <2>5. PlanFits(NoPlan)
    BY DEF PlanFits, NoPlan
  <2>. QED  BY <2>1, <2>4, <2>5 DEF SizeInv
<1>2. IInv /\ SizeInv /\ [Next]_vars => SizeInv'
  BY SizeNext
<1>3. SizeInv => PackSizeKept
  BY DEF SizeInv
<1>. QED  BY <1>1, <1>2, <1>3, Invariance, PTL DEF Spec
================================================================================
