----------------------------- MODULE FsfsPackProofs ----------------------------
(***************************************************************************)
(* Proofs about FsfsPack, for any number of processes, revisions per       *)
(* shard, revisions, property changes and crashes.                         *)
(***************************************************************************)
EXTENDS FsfsPack, SequenceTheorems, TLAPS

--------------------------------------------------------------------------------
(* Shards *)

\* A revision is in one shard, at one place.
LEMMA ShardBounds ==
  ASSUME NEW r \in Nat
  PROVE  /\ ShardOf(r) \in Nat /\ ShardOf(r) * N <= r /\ r < ShardOf(r) * N + N
         /\ r % N \in 0 .. N - 1 /\ r = ShardOf(r) * N + (r % N)
  BY PackAssumption DEF ShardOf

\* Shards do not overlap.
LEMMA ShardsApart ==
  ASSUME NEW s \in Nat, NEW t \in Nat, s < t
  PROVE  s * N + N <= t * N
<1>1. PICK d \in Nat : t = s + 1 + d
  <2>1. t - s - 1 \in Nat /\ t = s + 1 + (t - s - 1)
    OBVIOUS
  <2>. QED  BY <2>1
<1>2. t * N = s * N + N + d * N
  BY <1>1, PackAssumption
<1>3. d * N \in Nat
  BY PackAssumption
<1>4. s * N \in Nat /\ N \in Nat /\ t * N \in Nat
  BY PackAssumption
<1>. QED  BY <1>2, <1>3, <1>4

\* A revision is in one shard.
LEMMA ShardUnique ==
  ASSUME NEW r \in Nat, NEW s \in Nat, s * N <= r, r < s * N + N
  PROVE  ShardOf(r) = s
<1>1. /\ ShardOf(r) \in Nat /\ ShardOf(r) * N <= r /\ r < ShardOf(r) * N + N
      /\ ShardOf(r) * N \in Nat /\ s * N \in Nat /\ N \in Nat
  BY ShardBounds, PackAssumption
<1>2. ~(s < ShardOf(r))
  <2>. SUFFICES ASSUME s < ShardOf(r)  PROVE FALSE
    OBVIOUS
  <2>1. s * N + N <= ShardOf(r) * N
    BY <1>1, ShardsApart
  <2>. QED  BY <1>1, <2>1
<1>3. ~(ShardOf(r) < s)
  <2>. SUFFICES ASSUME ShardOf(r) < s  PROVE FALSE
    OBVIOUS
  <2>1. ShardOf(r) * N + N <= s * N
    BY <1>1, ShardsApart
  <2>. QED  BY <1>1, <2>1
<1>. QED  BY <1>1, <1>2, <1>3

\* A shard that has begun below a boundary ends there at the latest.
LEMMA WholeShards ==
  ASSUME NEW m \in Nat, Aligned(m), NEW s \in Nat
  PROVE  /\ s * N < m => s * N + N <= m
         /\ \A r \in Nat : r < m => ShardOf(r) * N + N <= m
<1>1. PICK k \in 0..m : m = k * N
  BY DEF Aligned
<1>2. ASSUME NEW t \in Nat, t * N < m  PROVE t * N + N <= m
  <2>1. t < k
    <3>. SUFFICES ASSUME k <= t  PROVE FALSE
      BY <1>1
    <3>1. k * N \in Nat /\ t * N \in Nat /\ N \in Nat
      BY <1>1, PackAssumption
    <3>2. k = t \/ k * N + N <= t * N
      BY <1>1, ShardsApart
    <3>. QED  BY <1>1, <1>2, <3>1, <3>2
  <2>. QED  BY <1>1, <2>1, ShardsApart
<1>3. ASSUME NEW r \in Nat, r < m  PROVE ShardOf(r) * N + N <= m
  <2>1. ShardOf(r) \in Nat /\ ShardOf(r) * N <= r
    BY <1>3, ShardBounds
  <2>2. ShardOf(r) * N < m
    <3>1. ShardOf(r) * N \in Nat
      BY <2>1, PackAssumption
    <3>. QED  BY <1>3, <2>1, <3>1
  <2>. QED  BY <1>2, <2>1, <2>2
<1>. QED  BY <1>2, <1>3

\* Shards are those of revisions.
LEMMA ShardType ==
  ASSUME NEW s \in Nat
  PROVE  /\ s \in Shards <=> s * N <= MaxRev
         /\ s * N \in Nat /\ N \in Nat /\ N > 0
<1>1. MaxRev \in Nat /\ N \in Nat /\ N > 0 /\ s * N \in Nat
  BY PackAssumption
<1>. DEFINE t == ShardOf(MaxRev)
<1>2. t \in Nat /\ t * N <= MaxRev /\ MaxRev < t * N + N /\ t * N \in Nat
  BY <1>1, ShardBounds
<1>3. s \in Shards <=> s <= t
  BY <1>1, <1>2 DEF Shards, ShardOf
<1>4. ASSUME s <= t  PROVE s * N <= MaxRev
  <2>1. s = t \/ s * N + N <= t * N
    BY <1>2, <1>4, ShardsApart
  <2>. QED  BY <1>1, <1>2, <2>1
<1>5. ASSUME t < s  PROVE MaxRev < s * N
  <2>1. t * N + N <= s * N
    BY <1>2, <1>5, ShardsApart
  <2>. QED  BY <1>1, <1>2, <2>1
<1>. QED  BY <1>1, <1>2, <1>3, <1>4, <1>5

\* A revision's shard and the names of its files.
LEMMA RevType ==
  ASSUME NEW r \in Revs
  PROVE  r \in Nat /\ ShardOf(r) \in Shards /\ PackFile(ShardOf(r)) \in Handles /\ RevFile(r) \in Handles
<1>1. r \in Nat /\ r <= MaxRev /\ MaxRev \in Nat
  BY PackAssumption DEF Revs
<1>2. ShardOf(r) \in Nat /\ ShardOf(r) * N <= r
  BY <1>1, ShardBounds
<1>3. ShardOf(r) * N <= MaxRev
  <2>1. ShardOf(r) * N \in Nat
    BY <1>2, ShardType
  <2>. QED  BY <1>1, <1>2, <2>1
<1>4. ShardOf(r) \in Shards
  BY <1>2, <1>3, ShardType
<1>. QED  BY <1>1, <1>4 DEF Handles

--------------------------------------------------------------------------------
(* What a reader finds *)

\* A revision that a process takes for packed is at its place in the pack file, however
\* old the process's copy of min-unpacked-rev is; one in a file of its own is there.
LEMMA ContentRight ==
  ASSUME IInv, NEW p \in Procs, want[p] \in 0..current
  PROVE  ContentAt(p, Place(p, want[p]), want[p]) = want[p]
<1>. SUFFICES ASSUME NEW r, r = want[p]  PROVE ContentAt(p, Place(p, r), r) = r
  OBVIOUS
<1>0. TypeOK /\ BoundInv /\ FileInv
  BY DEF IInv
<1>1. r \in Revs /\ r \in Nat /\ ShardOf(r) \in Shards /\ ShardOf(r) \in Nat
  <2>1. r \in Revs
    BY <1>0, PackAssumption DEF TypeOK, Revs
  <2>. QED  BY <2>1, RevType, ShardBounds
<1>2. CASE ~Packed(p, r)
  BY <1>2 DEF ContentAt, Place, RevFile
<1>3. CASE Packed(p, r)
  <2>. DEFINE s == ShardOf(r)
              i == (r % N) + 1
  <2>1. cachedMin[p] \in Nat /\ Aligned(cachedMin[p]) /\ cachedMin[p] <= minUnpacked /\ minUnpacked \in Nat
    BY <1>0, PackAssumption DEF TypeOK, BoundInv
  <2>2. r < cachedMin[p]
    BY <1>3 DEF Packed
  <2>3. s * N + N <= cachedMin[p]
    BY <1>1, <2>1, <2>2, WholeShards
  <2>4. s * N \in Nat /\ N \in Nat
    BY <1>1, ShardType
  <2>5. s * N + N <= minUnpacked
    BY <2>1, <2>3, <2>4
  <2>6. Copied(s, N)
    BY <1>0, <1>1, <2>5 DEF FileInv
  <2>7. r % N \in 0 .. N - 1 /\ r = s * N + (r % N)
    BY <1>1, ShardBounds
  <2>. HIDE DEF s
  <2>8. i \in 1..N /\ s * N + i - 1 = r
    BY <1>1, <2>4, <2>7
  <2>9. /\ DOMAIN manifest[s] = 1..N /\ Len(pack[s]) = N
        /\ manifest[s][i] = i - 1 /\ pack[s][i] = r
    <3>1. manifest[s] \in Seq(0..N) /\ Len(manifest[s]) = N /\ Len(pack[s]) = N
      BY <2>6 DEF Copied
    <3>2. manifest[s][i] = i - 1 /\ pack[s][i] = s * N + i - 1
      <4>. HIDE DEF i
      <4>. QED  BY <2>6, <2>8 DEF Copied
    <3>3. DOMAIN manifest[s] = 1..N
      BY <3>1
    <3>. QED  BY <2>8, <3>1, <3>2, <3>3
  <2>10. i \in DOMAIN manifest[s] /\ manifest[s][i] < Len(pack[s]) /\ pack[s][manifest[s][i] + 1] = r
    <3>1. manifest[s][i] + 1 = i /\ manifest[s][i] < N
      BY <2>4, <2>8, <2>9
    <3>. QED  BY <2>8, <2>9, <3>1
  <2>11. Place(p, r) = <<"pack", s>>
    BY <1>3 DEF Place, PackFile, s
  <2>. QED  BY <1>3, <2>10, <2>11 DEF ContentAt, s
<1>. QED  BY <1>2, <1>3

\* The text in a transaction is not in the file that is taken for its revision's.
LEMMA ContentProto ==
  ASSUME NEW p, NEW r
  PROVE  ContentAt(p, ProtoFile, r) = Garbage
  BY DEF ContentAt, ProtoFile

\* What UseHint reads.
LEMMA HintRead ==
  ASSUME IInv, NEW p \in Procs, UseHint(p)
  PROVE  /\ want[p] \in 0..current
         /\ \/ file[p] = Place(p, want[p]) /\ ContentAt(p, file[p], want[p]) = want[p]
            \/ ContentAt(p, file[p], want[p]) = Garbage /\ "txnrep" \in Requests
<1>0. TypeOK /\ RepOK(p)
  BY DEF IInv
<1>1. /\ pc[p] = "rep" /\ file[p] # NoHandle /\ hintRev[p] < cachedMin[p] /\ want[p] < cachedMin[p]
      /\ CShard(hintRev[p]) = CShard(want[p])
  BY DEF UseHint, HintUsable
<1>2. want[p] \in 0..current /\ HintOK(p)
  BY <1>0, <1>1 DEF RepOK
<1>3. CASE file[p] = ProtoFile /\ "txnrep" \in Requests
  BY <1>2, <1>3, ContentProto
<1>4. CASE hintRev[p] \in Revs /\ file[p] = Place(p, hintRev[p])
  <2>1. hintRev[p] \in Nat /\ want[p] \in Nat
    BY <1>0, <1>2, <1>4, RevType DEF TypeOK
  <2>2. ShardOf(hintRev[p]) = ShardOf(want[p])
    BY <1>1, <2>1 DEF CShard, ShardOf
  <2>3. file[p] = Place(p, want[p])
    BY <1>1, <1>4, <2>2 DEF Place, Packed
  <2>. QED  BY <1>2, <2>3, ContentRight
<1>. QED  BY <1>1, <1>2, <1>3, <1>4 DEF HintOK

--------------------------------------------------------------------------------
(* Types *)

\* A call returns: its locals are gone.
LEMMA ReturnTypes ==
  ASSUME TypeOK, NEW p \in Procs, Return(p)
  PROVE  /\ pc' \in [Procs -> {"idle"} \cup Packing \cup Reading]
         /\ shard' \in [Procs -> 0..(MaxRev \div N) + 1]
         /\ want' \in [Procs -> Revs \cup {Txn}]
         /\ file' \in [Procs -> Handles]
         /\ hintRev' \in [Procs -> Revs \cup {Txn}]
         /\ got' \in [Procs -> Revs \cup Values \cup {Txn, NoFile, Error, Garbage}]
         /\ valid' \in [Procs -> SUBSET Values]
<1>1. 0 \in Revs /\ NoHandle \in Handles
  BY PackAssumption DEF Revs, Handles
<1>2. 0 \in 0..(MaxRev \div N) + 1
  <2>1. MaxRev \in Revs /\ MaxRev \div N \in Nat
    BY PackAssumption, ShardBounds DEF Revs, ShardOf
  <2>. QED  BY <2>1
<1>3. pc' \in [Procs -> {"idle"} \cup Packing \cup Reading]
  BY DEF TypeOK, Return, Goto
<1>4. shard' \in [Procs -> 0..(MaxRev \div N) + 1]
  BY <1>2 DEF TypeOK, Return
<1>5. want' \in [Procs -> Revs \cup {Txn}] /\ hintRev' \in [Procs -> Revs \cup {Txn}]
  BY <1>1 DEF TypeOK, Return
<1>6. file' \in [Procs -> Handles]
  BY <1>1 DEF TypeOK, Return
<1>7. got' \in [Procs -> Revs \cup Values \cup {Txn, NoFile, Error, Garbage}]
  BY DEF TypeOK, Return
<1>8. valid' \in [Procs -> SUBSET Values]
  BY DEF TypeOK, Return
<1>. QED  BY <1>3, <1>4, <1>5, <1>6, <1>7, <1>8

\* A text was found, or was not.
LEMMA FoundTypes ==
  ASSUME TypeOK, NEW p \in Procs, NEW f \in Handles,
         NEW c \in Revs \cup {Txn, Error, Garbage}, Found(p, f, c)
  PROVE  /\ pc' \in [Procs -> {"idle"} \cup Packing \cup Reading]
         /\ file' \in [Procs -> Handles]
         /\ hintRev' \in [Procs -> Revs \cup {Txn}]
         /\ got' \in [Procs -> Revs \cup Values \cup {Txn, NoFile, Error, Garbage}]
<1>1. pc' \in [Procs -> {"idle"} \cup Packing \cup Reading]
  BY DEF TypeOK, Found, Goto, Reading
<1>2. file' \in [Procs -> Handles]
  BY DEF TypeOK, Found
<1>3. hintRev' \in [Procs -> Revs \cup {Txn}]
  BY DEF TypeOK, Found
<1>4. got' \in [Procs -> Revs \cup Values \cup {Txn, NoFile, Error, Garbage}]
  BY DEF TypeOK, Found
<1>. QED  BY <1>1, <1>2, <1>3, <1>4

\* Steps of 'svnadmin pack'.
PackSteps(p) ==
  \/ PackBegin(p) \/ PackEnd(p) \/ PackShard(p) \/ PackRev(p) \/ PackPropShard(p) \/ PackProp(p)
  \/ PackPropsDone(p) \/ PackBump(p) \/ RemoveRev(p) \/ RemoveRevsDone(p) \/ RemoveProp(p)
  \/ RemovePropsDone(p) \/ ("cancel" \in Requests /\ PackCancel(p))

\* Packing keeps the types.
LEMMA PackTypes ==
  ASSUME IInv, NEW p \in Procs, PackSteps(p)
  PROVE  TypeOK'
<1>. USE DEF repoVars, readVars
<1>0. TypeOK /\ PackOK(p) /\ BoundInv
  BY DEF IInv
<1>n. /\ N \in Nat /\ N > 0 /\ MaxRev \in Nat /\ current \in Nat /\ current <= MaxRev
      /\ minUnpacked \in Nat /\ minUnpacked <= current + 1
  BY <1>0, PackAssumption DEF TypeOK, Revs, BoundInv
<1>s. shard \in [Procs -> Nat]
  <2>1. MaxRev \div N \in Nat
    BY <1>n, ShardBounds DEF ShardOf
  <2>. QED  BY <1>0, <2>1 DEF TypeOK
<1>t. ASSUME NEW s \in Nat, s * N <= MaxRev + 1  PROVE s \in 0..(MaxRev \div N) + 1
  <2>1. CASE s = 0
    <3>1. MaxRev \div N \in Nat
      BY <1>n, ShardBounds DEF ShardOf
    <3>. QED  BY <2>1, <3>1
  <2>2. CASE s # 0
    <3>1. s - 1 \in Nat /\ (s - 1) * N \in Nat /\ s * N = (s - 1) * N + N
      BY <1>n, <2>2
    <3>2. (s - 1) * N <= MaxRev
      BY <1>n, <1>t, <3>1
    <3>3. s - 1 \in Shards
      BY <3>1, <3>2, ShardType
    <3>4. MaxRev \div N \in Nat
      BY <1>n, ShardBounds DEF ShardOf
    <3>. QED  BY <1>t, <3>1, <3>3, <3>4 DEF Shards
  <2>. QED  BY <2>1, <2>2
<1>1. CASE PackBegin(p)
  <2>1. shard' \in [Procs -> 0..(MaxRev \div N) + 1]
    <3>1. minUnpacked \div N \in Nat /\ (minUnpacked \div N) * N <= minUnpacked
      BY <1>n, ShardBounds DEF ShardOf
    <3>2. (minUnpacked \div N) * N <= MaxRev + 1
      <4>1. (minUnpacked \div N) * N \in Nat
        BY <1>n, <3>1
      <4>. QED  BY <1>n, <3>1, <4>1
    <3>3. minUnpacked \div N \in 0..(MaxRev \div N) + 1
      BY <1>t, <3>1, <3>2
    <3>. QED  BY <1>0, <1>1, <3>3 DEF TypeOK, PackBegin
  <2>. QED  BY <1>0, <1>1, <2>1 DEF TypeOK, PackBegin, UpdateMinUnpacked, Goto, Packing
<1>2. CASE PackEnd(p) \/ PackCancel(p)
  BY <1>0, <1>2, ReturnTypes DEF TypeOK, PackEnd, PackCancel
<1>3. CASE PackShard(p)
  <2>e. PICK e : e = <<>> /\ e \in Seq(Revs) /\ e \in Seq(0..N)
    <3>1. <<>> \in Seq(Revs) /\ <<>> \in Seq(0..N)
      BY EmptySeq
    <3>. QED  BY <3>1
  <2>1. pack' \in [Shards -> Seq(Revs) \cup {NoFile}]
    <3>1. pack' = [pack EXCEPT ![shard[p]] = e]
      BY <1>3, <2>e DEF PackShard
    <3>. QED  BY <1>0, <2>e, <3>1 DEF TypeOK
  <2>2. manifest' \in [Shards -> Seq(0..N) \cup {NoFile}]
    <3>1. manifest' = [manifest EXCEPT ![shard[p]] = e]
      BY <1>3, <2>e DEF PackShard
    <3>. QED  BY <1>0, <2>e, <3>1 DEF TypeOK
  <2>. QED  BY <1>0, <1>3, <2>1, <2>2 DEF TypeOK, PackShard, Goto, Packing
<1>4. CASE PackRev(p)
  <2>1. PICK n \in 0..N : Copied(shard[p], n)
    BY <1>0, <1>4 DEF PackRev, PackOK
  <2>2. /\ Len(pack[shard[p]]) \in 0..N /\ pack[shard[p]] \in Seq(Revs)
        /\ manifest[shard[p]] \in Seq(0..N)
    BY <1>n, <2>1 DEF Copied
  <2>3. pack' \in [Shards -> Seq(Revs) \cup {NoFile}]
    <3>. DEFINE r == shard[p] * N + Len(pack[shard[p]])
    <3>1. r \in Revs /\ pack' = [pack EXCEPT ![shard[p]] = Append(@, r)]
      BY <1>0, <1>4 DEF TypeOK, PackRev
    <3>. HIDE DEF r
    <3>2. Append(pack[shard[p]], r) \in Seq(Revs)
      BY <2>2, <3>1
    <3>. QED  BY <1>0, <3>1, <3>2 DEF TypeOK
  <2>4. manifest' \in [Shards -> Seq(0..N) \cup {NoFile}]
    <3>1. manifest' = [manifest EXCEPT ![shard[p]] = Append(@, Len(pack[shard[p]]))]
      BY <1>4 DEF PackRev
    <3>2. Append(manifest[shard[p]], Len(pack[shard[p]])) \in Seq(0..N)
      BY <2>2
    <3>. QED  BY <1>0, <3>1, <3>2 DEF TypeOK
  <2>. QED  BY <1>0, <1>4, <2>3, <2>4 DEF TypeOK, PackRev
<1>5. CASE PackPropShard(p)
  <2>1. propPack' \in [Revs -> Values \cup {NoFile}]
    BY <1>0, <1>5 DEF TypeOK, PackPropShard
  <2>. QED  BY <1>0, <1>5, <2>1 DEF TypeOK, PackPropShard, Goto, Packing
<1>6. CASE PackProp(p)
  <2>1. PICK r \in Uncopied(shard[p]) : props[r] # NoFile /\ propPack' = [propPack EXCEPT ![r] = props[r]]
    BY <1>6 DEF PackProp
  <2>2. r \in Revs
    <3>1. /\ shard[p] \in Nat /\ shard[p] * N + N <= current + 1 /\ shard[p] * N \in Nat
          /\ r \in shard[p] * N .. shard[p] * N + N - 1
      BY <1>0, <1>6, <1>s, <2>1, ShardType DEF PackProp, PackOK, Uncopied, RevsOf
    <3>. QED  BY <1>n, <3>1 DEF Revs
  <2>3. propPack' \in [Revs -> Values \cup {NoFile}]
    BY <1>0, <2>1, <2>2 DEF TypeOK
  <2>. QED  BY <1>0, <1>6, <2>3 DEF TypeOK, PackProp
<1>7. CASE PackPropsDone(p) \/ RemoveRevsDone(p)
  BY <1>0, <1>7 DEF TypeOK, PackPropsDone, RemoveRevsDone, Goto, Packing
<1>8. CASE PackBump(p)
  <2>1. minUnpacked' = shard[p] * N + N
    BY <1>8, <1>n, <1>s DEF PackBump
  <2>2. shard[p] * N + N <= current + 1 /\ shard[p] * N \in Nat
    BY <1>0, <1>8, <1>s, ShardType DEF PackBump, PackOK
  <2>3. minUnpacked' \in 0..MaxRev + 1
    BY <1>n, <2>1, <2>2
  <2>. QED  BY <1>0, <1>8, <2>3 DEF TypeOK, PackBump, Goto, Packing
<1>9. CASE RemoveRev(p)
  BY <1>0, <1>9 DEF TypeOK, RemoveRev
<1>10. CASE RemoveProp(p)
  <2>1. props' \in [Revs -> Values \cup {NoFile}]
    BY <1>0, <1>10 DEF TypeOK, RemoveProp
  <2>. QED  BY <1>0, <1>10, <2>1 DEF TypeOK, RemoveProp
<1>11. CASE RemovePropsDone(p)
  <2>1. shard[p] + 1 \in Nat /\ (shard[p] + 1) * N = shard[p] * N + N /\ shard[p] * N + N = minUnpacked
    BY <1>0, <1>11, <1>n, <1>s DEF RemovePropsDone, PackOK
  <2>2. shard[p] + 1 \in 0..(MaxRev \div N) + 1
    BY <1>n, <1>t, <2>1
  <2>3. shard' \in [Procs -> 0..(MaxRev \div N) + 1]
    BY <1>0, <1>11, <2>2 DEF TypeOK, RemovePropsDone
  <2>. QED  BY <1>0, <1>11, <2>3 DEF TypeOK, RemovePropsDone, Goto, Packing
<1>. QED
  BY <1>1, <1>2, <1>3, <1>4, <1>5, <1>6, <1>7, <1>8, <1>9, <1>10, <1>11 DEF PackSteps

\* What SeekRevision reads.
LEMMA SeekRead ==
  ASSUME IInv, NEW p \in Procs, SeekRevision(p)
  PROVE  /\ want[p] \in 0..current /\ file[p] = Place(p, want[p])
         /\ ContentAt(p, file[p], want[p]) = want[p]
<1>1. want[p] \in 0..current /\ file[p] = Place(p, want[p])
  BY DEF IInv, RepOK, SeekRevision, Opening
<1>. QED  BY <1>1, ContentRight

\* Steps of a reader of representations.
RepSteps(p) ==
  \/ "rep" \in Requests /\ \E r \in Revs : ReadRep(p, r) \/ NextBase(p, r)
  \/ "txnrep" \in Requests /\ ReadRep(p, Txn)
  \/ UseHint(p) \/ OpenProto(p) \/ OpenRevision(p) \/ OpenFile(p) \/ OpenFails(p)
  \/ RefreshMin(p) \/ SeekRevision(p)

\* Steps of a reader of revision properties.
PropSteps(p) ==
  \/ "props" \in Requests /\ \E r \in Revs : ReadProps(p, r)
  \/ ReadNonPacked(p) \/ DoubleCheckPacked(p) \/ ReadPacked(p)

\* Steps of writers, and the end of any read.
OtherSteps(p) ==
  \/ OpenFs(p) \/ ("commit" \in Requests /\ Commit(p)) \/ ("set" \in Requests /\ \E r \in Revs : SetProps(p, r))
  \/ ReadDone(p) \/ Crash(p)

\* Reading a representation keeps the types.
LEMMA RepTypes ==
  ASSUME IInv, NEW p \in Procs, RepSteps(p)
  PROVE  TypeOK'
<1>. USE DEF repoVars, readVars
<1>0. TypeOK
  BY DEF IInv
<1>1. CASE \E r \in Revs \cup {Txn} : ReadRep(p, r)
  <2>1. PICK r \in Revs \cup {Txn} : ReadRep(p, r)
    BY <1>1
  <2>. QED  BY <1>0, <2>1 DEF TypeOK, ReadRep, Goto, Reading
<1>2. CASE \E b \in Revs : NextBase(p, b)
  <2>1. PICK b \in Revs : NextBase(p, b)
    BY <1>2
  <2>2. want' \in [Procs -> Revs \cup {Txn}]
    BY <1>0, <2>1 DEF TypeOK, NextBase
  <2>3. got' \in [Procs -> Revs \cup Values \cup {Txn, NoFile, Error, Garbage}]
    BY <1>0, <2>1 DEF TypeOK, NextBase
  <2>. QED  BY <1>0, <2>1, <2>2, <2>3 DEF TypeOK, NextBase, Goto, Reading
<1>3. CASE UseHint(p) \/ SeekRevision(p)
  <2>1. file[p] \in Handles /\ want[p] \in Revs \cup {Txn}
    BY <1>0 DEF TypeOK
  <2>2. ContentAt(p, file[p], want[p]) \in {want[p], Garbage}
    BY <1>3, HintRead, SeekRead
  <2>3. PICK c \in Revs \cup {Txn, Error, Garbage} : Found(p, file[p], c)
    BY <1>3, <2>1, <2>2 DEF UseHint, SeekRevision
  <2>. QED  BY <1>0, <1>3, <2>1, <2>3, FoundTypes DEF TypeOK, UseHint, SeekRevision
<1>4. CASE OpenProto(p)
  <2>1. ProtoFile \in Handles /\ Found(p, ProtoFile, Txn)
    BY <1>4 DEF Handles, OpenProto
  <2>2. PICK c \in Revs \cup {Txn, Error, Garbage} : Found(p, ProtoFile, c)
    BY <2>1
  <2>. QED  BY <1>0, <1>4, <2>1, <2>2, FoundTypes DEF TypeOK, OpenProto
<1>5. CASE OpenRevision(p)
  BY <1>0, <1>5 DEF TypeOK, OpenRevision, Goto, Reading
<1>6. CASE OpenFile(p)
  <2>1. want[p] \in Revs
    BY <1>0, <1>6, PackAssumption DEF IInv, RepOK, OpenFile, Opening, TypeOK, Revs
  <2>2. file' \in [Procs -> Handles]
    <3>1. PICK h \in Handles : file' = [file EXCEPT ![p] = h]
      BY <1>6, <2>1, RevType DEF OpenFile
    <3>. QED  BY <1>0, <3>1 DEF TypeOK
  <2>. QED  BY <1>0, <1>6, <2>2 DEF TypeOK, OpenFile, Goto, Reading
<1>7. CASE OpenFails(p)
  <2>1. CASE Found(p, NoHandle, Error)
    <3>1. NoHandle \in Handles
      BY DEF Handles
    <3>2. PICK c \in Revs \cup {Txn, Error, Garbage} : Found(p, NoHandle, c)
      BY <2>1
    <3>. QED  BY <1>0, <1>7, <3>1, <3>2, FoundTypes DEF TypeOK, OpenFails
  <2>2. CASE Goto(p, "refresh") /\ UNCHANGED <<file, hintRev, got>>
    BY <1>0, <1>7, <2>2 DEF TypeOK, OpenFails, Goto, Reading
  <2>. QED  BY <1>7, <2>1, <2>2 DEF OpenFails
<1>8. CASE RefreshMin(p)
  BY <1>0, <1>8 DEF TypeOK, RefreshMin, UpdateMinUnpacked, Goto, Reading
<1>. QED
  BY <1>1, <1>2, <1>3, <1>4, <1>5, <1>6, <1>7, <1>8 DEF RepSteps

\* Reading properties keeps the types.
LEMMA PropTypes ==
  ASSUME IInv, NEW p \in Procs, PropSteps(p)
  PROVE  TypeOK'
<1>. USE DEF repoVars, readVars
<1>0. TypeOK
  BY DEF IInv
<1>1. CASE \E r \in Revs : ReadProps(p, r)
  <2>1. PICK r \in Revs : ReadProps(p, r)
    BY <1>1
  <2>2. latest[r] \in Values
    BY <1>0, <2>1 DEF TypeOK
  <2>3. valid' \in [Procs -> SUBSET Values]
    BY <1>0, <2>1, <2>2 DEF TypeOK, ReadProps
  <2>4. want' \in [Procs -> Revs \cup {Txn}]
    BY <1>0, <2>1 DEF TypeOK, ReadProps
  <2>. QED  BY <1>0, <2>1, <2>3, <2>4 DEF TypeOK, ReadProps, Goto, Reading
<1>2. CASE DoubleCheckPacked(p)
  <2>1. cachedMin' \in [Procs -> 0..MaxRev + 1]
    BY <1>0, <1>2 DEF TypeOK, DoubleCheckPacked, UpdateMinUnpacked
  <2>. QED  BY <1>0, <1>2, <2>1 DEF TypeOK, DoubleCheckPacked, Goto, Reading
<1>3. CASE ReadNonPacked(p) \/ ReadPacked(p)
  <2>1. want[p] \in Revs
    BY <1>0, <1>3, PackAssumption DEF IInv, PropOK, ReadNonPacked, ReadPacked, TypeOK, Revs
  <2>2. props[want[p]] \in Values \cup {NoFile} /\ propPack[want[p]] \in Values \cup {NoFile}
    BY <1>0, <2>1 DEF TypeOK
  <2>3. \/ got' = got
        \/ \E c \in Values \cup {NoFile, Error} : got' = [got EXCEPT ![p] = c]
    BY <1>3, <2>2 DEF ReadNonPacked, ReadPacked, GotProps
  <2>4. got' \in [Procs -> Revs \cup Values \cup {Txn, NoFile, Error, Garbage}]
    BY <1>0, <2>3 DEF TypeOK
  <2>5. pc' \in [Procs -> {"idle"} \cup Packing \cup Reading]
    <3>1. pc' = [pc EXCEPT ![p] = "gotprops"] \/ pc' = [pc EXCEPT ![p] = "ppack"]
      BY <1>3 DEF ReadNonPacked, ReadPacked, GotProps, Goto
    <3>. QED  BY <1>0, <3>1 DEF TypeOK, Reading
  <2>. QED  BY <1>0, <1>3, <2>4, <2>5 DEF TypeOK, ReadNonPacked, ReadPacked
<1>. QED  BY <1>1, <1>2, <1>3 DEF PropSteps

\* The other steps keep the types.
LEMMA OtherTypes ==
  ASSUME IInv, NEW p \in Procs, OtherSteps(p)
  PROVE  TypeOK'
<1>. USE DEF repoVars, readVars
<1>0. TypeOK
  BY DEF IInv
<1>1. CASE OpenFs(p)
  BY <1>0, <1>1 DEF TypeOK, OpenFs, UpdateMinUnpacked
<1>2. CASE Commit(p)
  <2>1. current + 1 \in Revs /\ 0 \in Values
    BY <1>0, <1>2, PackAssumption DEF TypeOK, Commit, Revs, Values
  <2>2. props' \in [Revs -> Values \cup {NoFile}]
    BY <1>0, <1>2, <2>1 DEF TypeOK, Commit
  <2>3. cachedMin' \in [Procs -> 0..MaxRev + 1]
    BY <1>0, <1>2 DEF TypeOK, Commit, UpdateMinUnpacked
  <2>. QED  BY <1>0, <1>2, <2>1, <2>2, <2>3 DEF TypeOK, Commit
<1>3. CASE \E r \in Revs : SetProps(p, r)
  <2>1. PICK r \in Revs : SetProps(p, r)
    BY <1>3
  <2>2. sets + 1 \in Values
    BY <1>0, <2>1, PackAssumption DEF TypeOK, SetProps, Values
  <2>3. props' \in [Revs -> Values \cup {NoFile}] /\ propPack' \in [Revs -> Values \cup {NoFile}]
    BY <1>0, <2>1, <2>2 DEF TypeOK, SetProps
  <2>4. cachedMin' \in [Procs -> 0..MaxRev + 1]
    BY <1>0, <2>1 DEF TypeOK, SetProps, UpdateMinUnpacked
  <2>5. valid' \in [Procs -> SUBSET Values]
    BY <1>0, <2>1, <2>2 DEF TypeOK, SetProps
  <2>6. latest' \in [Revs -> Values] /\ sets' \in Values
    BY <1>0, <2>1, <2>2 DEF TypeOK, SetProps
  <2>. QED  BY <1>0, <2>1, <2>3, <2>4, <2>5, <2>6 DEF TypeOK, SetProps
<1>4. CASE ReadDone(p)
  BY <1>0, <1>4, ReturnTypes DEF TypeOK, ReadDone
<1>5. CASE Crash(p)
  <2>1. crashes' \in 0..MaxCrash
    BY <1>0, <1>5, PackAssumption DEF TypeOK, Crash
  <2>2. cachedMin' \in [Procs -> 0..MaxRev + 1]
    BY <1>0, <1>5 DEF TypeOK, Crash, UpdateMinUnpacked
  <2>3. writeLock' \in Procs \cup {NoProc}
    BY <1>0, <1>5 DEF TypeOK, Crash
  <2>. QED  BY <1>0, <1>5, <2>1, <2>2, <2>3, ReturnTypes DEF TypeOK, Crash
<1>. QED  BY <1>1, <1>2, <1>3, <1>4, <1>5 DEF OtherSteps

--------------------------------------------------------------------------------
(* What a step leaves alone *)

Do(p) == PackSteps(p) \/ RepSteps(p) \/ PropSteps(p) \/ OtherSteps(p)

\* A step of the system is a step of one process.
LEMMA NextDo ==
  ASSUME Next
  PROVE  \E p \in Procs : Do(p)
<1>1. PICK p \in Procs : Step(p) \/ Request(p) \/ Crash(p)
  BY DEF Next
<1>2. CASE Step(p)
  BY <1>2 DEF Step, Do, PackSteps, RepSteps, PropSteps, OtherSteps
<1>3. CASE Request(p)
  BY <1>3 DEF Request, Do, PackSteps, RepSteps, PropSteps, OtherSteps
<1>4. CASE Crash(p)
  BY <1>4 DEF Do, OtherSteps
<1>. QED  BY <1>1, <1>2, <1>3, <1>4

\* What a process remembers stays, and the lists valid for its read can only be more.
OwnKept(q) ==
  /\ pc'[q] = pc[q] /\ shard'[q] = shard[q] /\ cachedMin'[q] = cachedMin[q]
  /\ want'[q] = want[q] /\ file'[q] = file[q] /\ hintRev'[q] = hintRev[q] /\ got'[q] = got[q]
  /\ valid[q] \subseteq valid'[q]

\* No process touches what another one remembers.
LEMMA OthersKept ==
  ASSUME TypeOK, NEW p \in Procs, NEW q \in Procs, q # p, Do(p)
  PROVE  OwnKept(q)
<1>. USE DEF repoVars, readVars, OwnKept, TypeOK
<1>0. q \in Procs /\ q # p /\ DOMAIN pc = Procs
  BY DEF TypeOK
<1>1. CASE PackBegin(p)
  BY <1>0, <1>1 DEF PackBegin, UpdateMinUnpacked, Goto
<1>2. CASE PackEnd(p) \/ PackCancel(p)
  BY <1>0, <1>2 DEF PackEnd, PackCancel, Return, Goto
<1>3. CASE PackShard(p)
  BY <1>0, <1>3 DEF PackShard, Goto
<1>4. CASE PackRev(p)
  BY <1>0, <1>4 DEF PackRev
<1>5. CASE PackPropShard(p)
  BY <1>0, <1>5 DEF PackPropShard, Goto
<1>6. CASE PackProp(p)
  BY <1>0, <1>6 DEF PackProp
<1>7. CASE PackPropsDone(p) \/ RemoveRevsDone(p)
  BY <1>0, <1>7 DEF PackPropsDone, RemoveRevsDone, Goto
<1>8. CASE PackBump(p)
  BY <1>0, <1>8 DEF PackBump, Goto
<1>9. CASE RemoveRev(p) \/ RemoveProp(p)
  BY <1>0, <1>9 DEF RemoveRev, RemoveProp
<1>10. CASE RemovePropsDone(p)
  BY <1>0, <1>10 DEF RemovePropsDone, Goto
<1>11. CASE \E r \in Revs \cup {Txn} : ReadRep(p, r)
  BY <1>0, <1>11 DEF ReadRep, Goto
<1>12. CASE \E b \in Revs : NextBase(p, b)
  BY <1>0, <1>12 DEF NextBase, Goto
<1>13. CASE UseHint(p) \/ SeekRevision(p) \/ OpenProto(p)
  BY <1>0, <1>13 DEF UseHint, SeekRevision, OpenProto, Found, Goto
<1>14. CASE OpenRevision(p) \/ OpenFile(p)
  BY <1>0, <1>14 DEF OpenRevision, OpenFile, Goto
<1>15. CASE OpenFails(p)
  BY <1>0, <1>15 DEF OpenFails, Found, Goto
<1>16. CASE RefreshMin(p)
  BY <1>0, <1>16 DEF RefreshMin, UpdateMinUnpacked, Goto
<1>17. CASE \E r \in Revs : ReadProps(p, r)
  BY <1>0, <1>17 DEF ReadProps, Goto
<1>18. CASE ReadNonPacked(p)
  BY <1>0, <1>18 DEF ReadNonPacked, GotProps, Goto
<1>19. CASE DoubleCheckPacked(p)
  BY <1>0, <1>19 DEF DoubleCheckPacked, UpdateMinUnpacked, Goto
<1>20. CASE ReadPacked(p)
  BY <1>0, <1>20 DEF ReadPacked, GotProps, Goto
<1>21. CASE OpenFs(p)
  BY <1>0, <1>21 DEF OpenFs, UpdateMinUnpacked
<1>22. CASE Commit(p)
  BY <1>0, <1>22 DEF Commit, UpdateMinUnpacked
<1>23. CASE \E r \in Revs : SetProps(p, r)
  BY <1>0, <1>23 DEF SetProps, UpdateMinUnpacked
<1>24. CASE ReadDone(p)
  BY <1>0, <1>24 DEF ReadDone, Return, Goto
<1>25. CASE Crash(p)
  BY <1>0, <1>25 DEF Crash, UpdateMinUnpacked, Return, Goto
<1>. QED
  BY <1>1, <1>2, <1>3, <1>4, <1>5, <1>6, <1>7, <1>8, <1>9, <1>10, <1>11, <1>12, <1>13, <1>14, <1>15, <1>16, <1>17, <1>18, <1>19, <1>20, <1>21, <1>22, <1>23, <1>24, <1>25
  DEF Do, PackSteps, RepSteps, PropSteps, OtherSteps

\* A process's copy of min-unpacked-rev stays, or is read anew; crashes are counted.
LEMMA OwnMin ==
  ASSUME TypeOK, NEW p \in Procs, Do(p)
  PROVE  /\ cachedMin'[p] \in {cachedMin[p], minUnpacked}
         /\ crashes' \in {crashes, crashes + 1}
<1>. USE DEF repoVars, readVars
<1>0. DOMAIN cachedMin = Procs
  BY DEF TypeOK
<1>1. CASE PackBegin(p)
  BY <1>0, <1>1 DEF PackBegin, UpdateMinUnpacked, Goto
<1>2. CASE PackEnd(p) \/ PackCancel(p)
  BY <1>0, <1>2 DEF PackEnd, PackCancel, Return, Goto
<1>3. CASE PackShard(p)
  BY <1>0, <1>3 DEF PackShard, Goto
<1>4. CASE PackRev(p)
  BY <1>0, <1>4 DEF PackRev
<1>5. CASE PackPropShard(p)
  BY <1>0, <1>5 DEF PackPropShard, Goto
<1>6. CASE PackProp(p)
  BY <1>0, <1>6 DEF PackProp
<1>7. CASE PackPropsDone(p) \/ RemoveRevsDone(p)
  BY <1>0, <1>7 DEF PackPropsDone, RemoveRevsDone, Goto
<1>8. CASE PackBump(p)
  BY <1>0, <1>8 DEF PackBump, Goto
<1>9. CASE RemoveRev(p) \/ RemoveProp(p)
  BY <1>0, <1>9 DEF RemoveRev, RemoveProp
<1>10. CASE RemovePropsDone(p)
  BY <1>0, <1>10 DEF RemovePropsDone, Goto
<1>11. CASE \E r \in Revs \cup {Txn} : ReadRep(p, r)
  BY <1>0, <1>11 DEF ReadRep, Goto
<1>12. CASE \E b \in Revs : NextBase(p, b)
  BY <1>0, <1>12 DEF NextBase, Goto
<1>13. CASE UseHint(p) \/ SeekRevision(p) \/ OpenProto(p)
  BY <1>0, <1>13 DEF UseHint, SeekRevision, OpenProto, Found, Goto
<1>14. CASE OpenRevision(p) \/ OpenFile(p)
  BY <1>0, <1>14 DEF OpenRevision, OpenFile, Goto
<1>15. CASE OpenFails(p)
  BY <1>0, <1>15 DEF OpenFails, Found, Goto
<1>16. CASE RefreshMin(p)
  BY <1>0, <1>16 DEF RefreshMin, UpdateMinUnpacked, Goto
<1>17. CASE \E r \in Revs : ReadProps(p, r)
  BY <1>0, <1>17 DEF ReadProps, Goto
<1>18. CASE ReadNonPacked(p)
  BY <1>0, <1>18 DEF ReadNonPacked, GotProps, Goto
<1>19. CASE DoubleCheckPacked(p)
  BY <1>0, <1>19 DEF DoubleCheckPacked, UpdateMinUnpacked, Goto
<1>20. CASE ReadPacked(p)
  BY <1>0, <1>20 DEF ReadPacked, GotProps, Goto
<1>21. CASE OpenFs(p)
  BY <1>0, <1>21 DEF OpenFs, UpdateMinUnpacked
<1>22. CASE Commit(p)
  BY <1>0, <1>22 DEF Commit, UpdateMinUnpacked
<1>23. CASE \E r \in Revs : SetProps(p, r)
  BY <1>0, <1>23 DEF SetProps, UpdateMinUnpacked
<1>24. CASE ReadDone(p)
  BY <1>0, <1>24 DEF ReadDone, Return, Goto
<1>25. CASE Crash(p)
  BY <1>0, <1>25 DEF Crash, UpdateMinUnpacked, Return, Goto
<1>. QED
  BY <1>1, <1>2, <1>3, <1>4, <1>5, <1>6, <1>7, <1>8, <1>9, <1>10, <1>11, <1>12, <1>13, <1>14, <1>15, <1>16, <1>17, <1>18, <1>19, <1>20, <1>21, <1>22, <1>23, <1>24, <1>25
  DEF Do, PackSteps, RepSteps, PropSteps, OtherSteps

\* The write lock is taken when it is free, and given up when packing ends.
LEMMA LockMoves ==
  ASSUME TypeOK, LockInv, NEW p \in Procs, Do(p)
  PROVE  \/ writeLock' = writeLock /\ (pc'[p] \in Packing => pc[p] \in Packing)
         \/ writeLock = NoProc /\ writeLock' = p
         \/ writeLock = p /\ pc'[p] \notin Packing
<1>. USE DEF repoVars, readVars, Packing
<1>0. DOMAIN pc = Procs /\ (pc[p] \in Packing => writeLock = p)
  BY DEF TypeOK, LockInv
<1>1. CASE PackBegin(p)
  BY <1>0, <1>1 DEF PackBegin, UpdateMinUnpacked, Goto
<1>2. CASE PackEnd(p) \/ PackCancel(p)
  BY <1>0, <1>2 DEF PackEnd, PackCancel, Return, Goto
<1>3. CASE PackShard(p)
  BY <1>0, <1>3 DEF PackShard, Goto
<1>4. CASE PackRev(p)
  BY <1>0, <1>4 DEF PackRev
<1>5. CASE PackPropShard(p)
  BY <1>0, <1>5 DEF PackPropShard, Goto
<1>6. CASE PackProp(p)
  BY <1>0, <1>6 DEF PackProp
<1>7. CASE PackPropsDone(p) \/ RemoveRevsDone(p)
  BY <1>0, <1>7 DEF PackPropsDone, RemoveRevsDone, Goto
<1>8. CASE PackBump(p)
  BY <1>0, <1>8 DEF PackBump, Goto
<1>9. CASE RemoveRev(p) \/ RemoveProp(p)
  BY <1>0, <1>9 DEF RemoveRev, RemoveProp
<1>10. CASE RemovePropsDone(p)
  BY <1>0, <1>10 DEF RemovePropsDone, Goto
<1>11. CASE \E r \in Revs \cup {Txn} : ReadRep(p, r)
  BY <1>0, <1>11 DEF ReadRep, Goto
<1>12. CASE \E b \in Revs : NextBase(p, b)
  BY <1>0, <1>12 DEF NextBase, Goto
<1>13. CASE UseHint(p) \/ SeekRevision(p) \/ OpenProto(p)
  BY <1>0, <1>13 DEF UseHint, SeekRevision, OpenProto, Found, Goto
<1>14. CASE OpenRevision(p) \/ OpenFile(p)
  BY <1>0, <1>14 DEF OpenRevision, OpenFile, Goto
<1>15. CASE OpenFails(p)
  BY <1>0, <1>15 DEF OpenFails, Found, Goto
<1>16. CASE RefreshMin(p)
  BY <1>0, <1>16 DEF RefreshMin, UpdateMinUnpacked, Goto
<1>17. CASE \E r \in Revs : ReadProps(p, r)
  BY <1>0, <1>17 DEF ReadProps, Goto
<1>18. CASE ReadNonPacked(p)
  BY <1>0, <1>18 DEF ReadNonPacked, GotProps, Goto
<1>19. CASE DoubleCheckPacked(p)
  BY <1>0, <1>19 DEF DoubleCheckPacked, UpdateMinUnpacked, Goto
<1>20. CASE ReadPacked(p)
  BY <1>0, <1>20 DEF ReadPacked, GotProps, Goto
<1>21. CASE OpenFs(p)
  BY <1>0, <1>21 DEF OpenFs, UpdateMinUnpacked
<1>22. CASE Commit(p)
  BY <1>0, <1>22 DEF Commit, UpdateMinUnpacked
<1>23. CASE \E r \in Revs : SetProps(p, r)
  BY <1>0, <1>23 DEF SetProps, UpdateMinUnpacked
<1>24. CASE ReadDone(p)
  BY <1>0, <1>24 DEF ReadDone, Return, Goto
<1>25. CASE Crash(p)
  BY <1>0, <1>25 DEF Crash, UpdateMinUnpacked, Return, Goto
<1>. QED
  BY <1>1, <1>2, <1>3, <1>4, <1>5, <1>6, <1>7, <1>8, <1>9, <1>10, <1>11, <1>12, <1>13, <1>14, <1>15, <1>16, <1>17, <1>18, <1>19, <1>20, <1>21, <1>22, <1>23, <1>24, <1>25
  DEF Do, PackSteps, RepSteps, PropSteps, OtherSteps

\* Who packs has the write lock.
LEMMA LockStep ==
  ASSUME IInv, NEW p \in Procs, Do(p)
  PROVE  LockInv'
<1>0. TypeOK /\ LockInv
  BY DEF IInv
<1>. SUFFICES ASSUME NEW q \in Procs, pc'[q] \in Packing  PROVE writeLock' = q
  BY DEF LockInv
<1>1. q # p => pc[q] \in Packing
  BY <1>0, OthersKept DEF OwnKept
<1>2. q # p => writeLock = q
  BY <1>0, <1>1 DEF LockInv
<1>3. pc[p] \in Packing => writeLock = p
  BY <1>0 DEF LockInv
<1>. QED  BY <1>0, <1>2, <1>3, LockMoves, PackAssumption

\* Which step writes which file.
LEMMA FilesMove ==
  ASSUME NEW p \in Procs, Do(p)
  PROVE  /\ current' = current \/ Commit(p)
         /\ minUnpacked' = minUnpacked \/ PackBump(p)
         /\ UNCHANGED <<pack, manifest>> \/ PackShard(p) \/ PackRev(p)
         /\ revFiles' = revFiles \/ Commit(p) \/ RemoveRev(p)
         /\ props' = props \/ Commit(p) \/ RemoveProp(p) \/ \E r \in Revs : SetProps(p, r)
         /\ propPack' = propPack \/ PackPropShard(p) \/ PackProp(p) \/ \E r \in Revs : SetProps(p, r)
         /\ latest' = latest \/ \E r \in Revs : SetProps(p, r)
<1>. USE DEF repoVars, readVars
<1>0. TRUE
  OBVIOUS
<1>1. CASE PackBegin(p)
  BY <1>0, <1>1 DEF PackBegin, UpdateMinUnpacked, Goto
<1>2. CASE PackEnd(p) \/ PackCancel(p)
  BY <1>0, <1>2 DEF PackEnd, PackCancel, Return, Goto
<1>3. CASE PackShard(p)
  BY <1>0, <1>3 DEF PackShard, Goto
<1>4. CASE PackRev(p)
  BY <1>0, <1>4 DEF PackRev
<1>5. CASE PackPropShard(p)
  BY <1>0, <1>5 DEF PackPropShard, Goto
<1>6. CASE PackProp(p)
  BY <1>0, <1>6 DEF PackProp
<1>7. CASE PackPropsDone(p) \/ RemoveRevsDone(p)
  BY <1>0, <1>7 DEF PackPropsDone, RemoveRevsDone, Goto
<1>8. CASE PackBump(p)
  BY <1>0, <1>8 DEF PackBump, Goto
<1>9. CASE RemoveRev(p) \/ RemoveProp(p)
  BY <1>0, <1>9 DEF RemoveRev, RemoveProp
<1>10. CASE RemovePropsDone(p)
  BY <1>0, <1>10 DEF RemovePropsDone, Goto
<1>11. CASE \E r \in Revs \cup {Txn} : ReadRep(p, r)
  BY <1>0, <1>11 DEF ReadRep, Goto
<1>12. CASE \E b \in Revs : NextBase(p, b)
  BY <1>0, <1>12 DEF NextBase, Goto
<1>13. CASE UseHint(p) \/ SeekRevision(p) \/ OpenProto(p)
  BY <1>0, <1>13 DEF UseHint, SeekRevision, OpenProto, Found, Goto
<1>14. CASE OpenRevision(p) \/ OpenFile(p)
  BY <1>0, <1>14 DEF OpenRevision, OpenFile, Goto
<1>15. CASE OpenFails(p)
  BY <1>0, <1>15 DEF OpenFails, Found, Goto
<1>16. CASE RefreshMin(p)
  BY <1>0, <1>16 DEF RefreshMin, UpdateMinUnpacked, Goto
<1>17. CASE \E r \in Revs : ReadProps(p, r)
  BY <1>0, <1>17 DEF ReadProps, Goto
<1>18. CASE ReadNonPacked(p)
  BY <1>0, <1>18 DEF ReadNonPacked, GotProps, Goto
<1>19. CASE DoubleCheckPacked(p)
  BY <1>0, <1>19 DEF DoubleCheckPacked, UpdateMinUnpacked, Goto
<1>20. CASE ReadPacked(p)
  BY <1>0, <1>20 DEF ReadPacked, GotProps, Goto
<1>21. CASE OpenFs(p)
  BY <1>0, <1>21 DEF OpenFs, UpdateMinUnpacked
<1>22. CASE Commit(p)
  BY <1>0, <1>22 DEF Commit, UpdateMinUnpacked
<1>23. CASE \E r \in Revs : SetProps(p, r)
  BY <1>0, <1>23 DEF SetProps, UpdateMinUnpacked
<1>24. CASE ReadDone(p)
  BY <1>0, <1>24 DEF ReadDone, Return, Goto
<1>25. CASE Crash(p)
  BY <1>0, <1>25 DEF Crash, UpdateMinUnpacked, Return, Goto
<1>. QED
  BY <1>1, <1>2, <1>3, <1>4, <1>5, <1>6, <1>7, <1>8, <1>9, <1>10, <1>11, <1>12, <1>13, <1>14, <1>15, <1>16, <1>17, <1>18, <1>19, <1>20, <1>21, <1>22, <1>23, <1>24, <1>25
  DEF Do, PackSteps, RepSteps, PropSteps, OtherSteps

\* The numbers are natural numbers, in their order.
LEMMA Bounds ==
  ASSUME IInv
  PROVE  /\ N \in Nat /\ N > 0 /\ MaxRev \in Nat
         /\ current \in Nat /\ current <= MaxRev /\ current \in Revs
         /\ minUnpacked \in Nat /\ minUnpacked <= current + 1
         /\ shard \in [Procs -> Nat]
         /\ \A q \in Procs : cachedMin[q] \in Nat /\ cachedMin[q] <= minUnpacked
<1>1. TypeOK /\ BoundInv
  BY DEF IInv
<1>2. N \in Nat /\ N > 0 /\ MaxRev \in Nat
  BY PackAssumption
<1>3. current \in Nat /\ current <= MaxRev /\ current \in Revs
  BY <1>1, <1>2 DEF TypeOK, Revs
<1>4. minUnpacked \in Nat /\ minUnpacked <= current + 1
  BY <1>1, <1>2 DEF TypeOK, BoundInv
<1>5. shard \in [Procs -> Nat]
  <2>1. MaxRev \div N \in Nat
    BY <1>2, ShardBounds DEF ShardOf
  <2>. QED  BY <1>1, <2>1 DEF TypeOK
<1>6. \A q \in Procs : cachedMin[q] \in Nat /\ cachedMin[q] <= minUnpacked
  BY <1>1, <1>2 DEF TypeOK, BoundInv
<1>. QED  BY <1>2, <1>3, <1>4, <1>5, <1>6

\* The shard that is packed is the first that is not, until the moment min-unpacked-rev moves.
LEMMA PackedShard ==
  ASSUME IInv, NEW p \in Procs
  PROVE  /\ shard[p] \in Nat /\ shard[p] * N \in Nat
         /\ pc[p] \in {"pack", "copy", "pcopy", "bump"} => shard[p] * N = minUnpacked
         /\ pc[p] \in {"copy", "pcopy", "bump"} => shard[p] \in Shards /\ shard[p] * N + N <= current + 1
         /\ pc[p] \in {"rmrev", "rmprop"} => shard[p] \in Shards /\ shard[p] * N + N = minUnpacked
<1>1. shard[p] \in Nat /\ shard[p] * N \in Nat
  BY Bounds, ShardType
<1>2. PackOK(p)
  BY DEF IInv
<1>. QED  BY <1>1, <1>2 DEF PackOK

\* db/current and min-unpacked-rev never go back.
LEMMA Grows ==
  ASSUME IInv, NEW p \in Procs, Do(p)
  PROVE  /\ current' \in Nat /\ current <= current'
         /\ minUnpacked' \in Nat /\ minUnpacked <= minUnpacked'
<1>1. current' \in Nat /\ current <= current'
  BY Bounds, FilesMove DEF Commit
<1>2. CASE PackBump(p)
  <2>1. minUnpacked' = shard[p] * N + N /\ minUnpacked = shard[p] * N
    BY <1>2, Bounds, PackedShard DEF PackBump
  <2>. QED  BY <1>1, <2>1, Bounds
<1>. QED  BY <1>1, <1>2, Bounds, FilesMove

\* min-unpacked-rev is the first of a shard, and a process' copy of it is never ahead.
LEMMA BoundStep ==
  ASSUME IInv, NEW p \in Procs, Do(p)
  PROVE  BoundInv'
<1>0. TypeOK /\ BoundInv
  BY DEF IInv
<1>1. Aligned(minUnpacked') /\ minUnpacked' <= current' + 1
  <2>1. CASE minUnpacked' = minUnpacked
    BY <1>0, <2>1, Bounds, Grows DEF BoundInv
  <2>2. CASE PackBump(p)
    <3>1. minUnpacked' = (shard[p] + 1) * N /\ current' = current
      BY <2>2 DEF PackBump
    <3>2. shard[p] \in Nat /\ shard[p] * N \in Nat /\ shard[p] * N + N <= current + 1
      BY <2>2, PackedShard DEF PackBump
    <3>3. (shard[p] + 1) * N = shard[p] * N + N
      BY <3>2, Bounds
    <3>4. shard[p] + 1 \in 0 .. (shard[p] + 1) * N
      <4>1. PICK k \in Nat, n \in Nat : k = shard[p] + 1 /\ N = n + 1
        <5>1. shard[p] + 1 \in Nat /\ N - 1 \in Nat /\ N = (N - 1) + 1
          BY <3>2, Bounds
        <5>. QED  BY <5>1
      <4>2. k * N = k * n + k /\ k * n \in Nat
        <5>1. k * (n + 1) = k * n + k
          OBVIOUS
        <5>2. k * n \in Nat
          OBVIOUS
        <5>. QED  BY <4>1, <5>1, <5>2
      <4>. QED  BY <4>1, <4>2
    <3>. QED  BY <3>1, <3>2, <3>3, <3>4, Bounds DEF Aligned
  <2>. QED  BY <2>1, <2>2, FilesMove
<1>2. ASSUME NEW q \in Procs  PROVE Aligned(cachedMin'[q]) /\ cachedMin'[q] <= minUnpacked'
  <2>1. cachedMin'[q] \in {cachedMin[q], minUnpacked}
    BY <1>0, OthersKept, OwnMin DEF OwnKept
  <2>. QED  BY <1>0, <2>1, Bounds, Grows DEF BoundInv
<1>. QED  BY <1>1, <1>2 DEF BoundInv, Aligned

\* The pack file of a packed shard is left alone: pack_body is at a later one.
LEMMA PackedKept ==
  ASSUME IInv, NEW p \in Procs, Do(p), NEW s \in Shards, s * N + N <= minUnpacked
  PROVE  pack'[s] = pack[s] /\ manifest'[s] = manifest[s]
<1>0. TypeOK
  BY DEF IInv
<1>1. CASE PackShard(p) \/ PackRev(p)
  <2>1. shard[p] * N = minUnpacked
    BY <1>1, PackedShard DEF PackShard, PackRev
  <2>2. s # shard[p]
    <3>1. s * N \in Nat
      BY ShardType, Bounds DEF Shards
    <3>. QED  BY <2>1, <3>1, Bounds
  <2>. QED  BY <1>0, <1>1, <2>2 DEF TypeOK, PackShard, PackRev
<1>. QED  BY <1>1, FilesMove

\* What has been copied to the pack file stays there.
LEMMA CopiedKept ==
  ASSUME NEW s, NEW n, Copied(s, n), pack'[s] = pack[s], manifest'[s] = manifest[s]
  PROVE  Copied(s, n)'
  BY DEF Copied

\* A revision that exists has its file, or is in the pack file.
LEMMA FileStep ==
  ASSUME IInv, NEW p \in Procs, Do(p)
  PROVE  FileInv'
<1>0. TypeOK /\ FileInv
  BY DEF IInv
<1>1. revFiles' \subseteq 0..current' /\ minUnpacked'..current' \subseteq revFiles'
  <2>1. CASE Commit(p)
    <3>1. current' = current + 1 /\ revFiles' = revFiles \cup {current + 1} /\ minUnpacked' = minUnpacked
      BY <2>1 DEF Commit
    <3>2. revFiles \subseteq 0..current /\ \A x \in minUnpacked..current : x \in revFiles
      BY <1>0 DEF FileInv
    <3>3. revFiles' \subseteq 0..current'
      <4>1. 0..current \subseteq 0..current + 1 /\ current + 1 \in 0..current + 1
        BY Bounds
      <4>. QED  BY <3>1, <3>2, <4>1
    <3>4. \A x \in minUnpacked..current + 1 : x \in minUnpacked..current \/ x = current + 1
      BY Bounds
    <3>5. minUnpacked'..current' \subseteq revFiles'
      BY <3>1, <3>2, <3>4
    <3>. QED  BY <3>3, <3>5
  <2>2. CASE RemoveRev(p)
    <3>1. PICK r \in RevsOf(shard[p]) : revFiles' = revFiles \ {r}
      BY <2>2 DEF RemoveRev
    <3>2. shard[p] * N + N = minUnpacked /\ shard[p] * N \in Nat
      BY <2>2, PackedShard DEF RemoveRev
    <3>3. r < minUnpacked
      BY <3>1, <3>2, Bounds DEF RevsOf
    <3>4. current' = current /\ minUnpacked' = minUnpacked
      BY <2>2 DEF RemoveRev
    <3>5. r \notin minUnpacked..current
      BY <3>3, Bounds
    <3>. QED  BY <1>0, <3>1, <3>4, <3>5 DEF FileInv
  <2>3. CASE ~Commit(p) /\ ~RemoveRev(p)
    <3>1. current' = current /\ revFiles' = revFiles
      BY <2>3, FilesMove
    <3>2. minUnpacked'..current' \subseteq minUnpacked..current
      BY <3>1, Bounds, Grows
    <3>. QED  BY <1>0, <3>1, <3>2 DEF FileInv
  <2>. QED  BY <2>1, <2>2, <2>3
<1>2. ASSUME NEW s \in Shards, s * N + N <= minUnpacked'  PROVE Copied(s, N)'
  <2>0. s \in Nat /\ s * N \in Nat
    BY ShardType, Bounds DEF Shards
  <2>1. CASE s * N + N <= minUnpacked
    <3>1. Copied(s, N)
      BY <1>0, <2>1 DEF FileInv
    <3>. QED  BY <2>1, <3>1, PackedKept, CopiedKept
  <2>2. CASE ~(s * N + N <= minUnpacked)
    <3>1. PackBump(p)
      BY <1>2, <2>2, FilesMove
    <3>2. minUnpacked' = shard[p] * N + N /\ shard[p] * N = minUnpacked /\ shard[p] \in Nat
      BY <3>1, Bounds, PackedShard DEF PackBump
    <3>3. s = shard[p]
      <4>1. s < shard[p] => s * N + N <= shard[p] * N
        BY <2>0, <3>2, ShardsApart
      <4>2. shard[p] < s => shard[p] * N + N <= s * N
        BY <2>0, <3>2, ShardsApart
      <4>. QED  BY <1>2, <2>0, <2>2, <3>2, <4>1, <4>2, Bounds
    <3>4. Copied(s, N)
      BY <3>1, <3>3 DEF IInv, PackOK, PackBump
    <3>5. pack' = pack /\ manifest' = manifest
      BY <3>1 DEF PackBump
    <3>. QED  BY <3>4, <3>5, CopiedKept
  <2>. QED  BY <2>1, <2>2
<1>. QED  BY <1>1, <1>2 DEF FileInv

\* A property list that exists has its file, or is in the pack file.
LEMMA PropStep ==
  ASSUME IInv, NEW p \in Procs, Do(p), TypeOK'
  PROVE  PropInv'
<1>0. TypeOK /\ PropInv
  BY DEF IInv
<1>1. ASSUME NEW r \in Revs, r > current'  PROVE latest'[r] = 0
  <2>0. r > current /\ latest[r] = 0
    BY <1>0, <1>1, Bounds, Grows DEF PropInv, Revs
  <2>1. CASE \E x \in Revs : SetProps(p, x)
    <3>1. PICK x \in Revs : SetProps(p, x)
      BY <2>1
    <3>2. x # r
      BY <2>0, <3>1, Bounds DEF SetProps, Revs
    <3>. QED  BY <1>0, <2>0, <3>1, <3>2 DEF SetProps, TypeOK
  <2>. QED  BY <2>0, <2>1, FilesMove
<1>2. ASSUME NEW r \in 0..current'
      PROVE  IF r < minUnpacked' /\ r # 0 THEN propPack'[r] = latest'[r] ELSE props'[r] = latest'[r]
  <2>0. r \in Nat /\ r \in Revs
    <3>1. current' \in 0..MaxRev /\ MaxRev \in Nat
      BY Bounds DEF TypeOK, Revs
    <3>. QED  BY <1>2, <3>1 DEF Revs
  <2>1. CASE Commit(p)
    <3>1. /\ current' = current + 1 /\ minUnpacked' = minUnpacked /\ propPack' = propPack /\ latest' = latest
          /\ props' = [props EXCEPT ![current + 1] = 0]
      BY <2>1 DEF Commit
    <3>2. CASE r = current + 1
      <4>1. latest[r] = 0 /\ ~(r < minUnpacked) /\ props'[r] = 0
        BY <1>0, <2>0, <3>1, <3>2, Bounds DEF PropInv, TypeOK
      <4>. QED  BY <3>1, <4>1
    <3>3. CASE r # current + 1
      <4>1. r \in 0..current /\ props'[r] = props[r]
        BY <1>0, <1>2, <2>0, <3>1, <3>3, Bounds DEF TypeOK
      <4>. QED  BY <1>0, <3>1, <4>1 DEF PropInv
    <3>. QED  BY <3>2, <3>3
  <2>2. CASE ~Commit(p)
    <3>0. current' = current /\ r \in 0..current
      BY <1>2, <2>2, FilesMove
    <3>r. IF r < minUnpacked /\ r # 0 THEN propPack[r] = latest[r] ELSE props[r] = latest[r]
      BY <1>0, <3>0 DEF PropInv
    <3>1. CASE \E x \in Revs : SetProps(p, x)
      <4>1. PICK x \in Revs : SetProps(p, x)
        BY <3>1
      <4>2. CASE x = r
        BY <1>0, <2>0, <4>1, <4>2 DEF SetProps, TypeOK
      <4>3. CASE x # r
        BY <1>0, <2>0, <3>r, <4>1, <4>3 DEF SetProps, TypeOK
      <4>. QED  BY <4>2, <4>3
    <3>2. CASE RemoveProp(p)
      <4>1. PICK x \in Undeleted(shard[p]) : props' = [props EXCEPT ![x] = NoFile]
        BY <3>2 DEF RemoveProp
      <4>2. x # 0 /\ x < minUnpacked
        <5>1. shard[p] * N \in Nat /\ shard[p] * N + N = minUnpacked
          BY <3>2, PackedShard DEF RemoveProp
        <5>2. x # 0 /\ x \in shard[p] * N .. shard[p] * N + N - 1
          BY <4>1 DEF Undeleted, RevsOf
        <5>. QED  BY <5>1, <5>2, Bounds
      <4>3. minUnpacked' = minUnpacked /\ propPack' = propPack /\ latest' = latest
        BY <3>2 DEF RemoveProp
      <4>. QED  BY <1>0, <2>0, <3>r, <4>1, <4>2, <4>3 DEF TypeOK
    <3>3. CASE PackPropShard(p) \/ PackProp(p)
      <4>1. shard[p] * N = minUnpacked
        BY <3>3, PackedShard DEF PackPropShard, PackProp
      <4>2. r < minUnpacked => r \notin RevsOf(shard[p])
        BY <2>0, <4>1, Bounds DEF RevsOf
      <4>3. r \notin RevsOf(shard[p]) => propPack'[r] = propPack[r]
        <5>1. CASE PackPropShard(p)
          BY <2>0, <5>1 DEF PackPropShard
        <5>2. CASE PackProp(p)
          <6>1. PICK x \in RevsOf(shard[p]) : propPack' = [propPack EXCEPT ![x] = props[x]]
            BY <5>2 DEF PackProp, Uncopied
          <6>. QED  BY <1>0, <2>0, <6>1 DEF TypeOK
        <5>. QED  BY <3>3, <5>1, <5>2
      <4>4. minUnpacked' = minUnpacked /\ props' = props /\ latest' = latest
        BY <3>3 DEF PackPropShard, PackProp
      <4>. QED  BY <3>r, <4>2, <4>3, <4>4
    <3>4. CASE PackBump(p)
      <4>1. minUnpacked' = shard[p] * N + N /\ minUnpacked = shard[p] * N
        BY <3>4, Bounds, PackedShard DEF PackBump
      <4>2. \A x \in RevsOf(shard[p]) \ {0} : propPack[x] = latest[x]
        BY <3>4 DEF IInv, PackOK, PackBump
      <4>3. r < minUnpacked' /\ ~(r < minUnpacked) => r \in RevsOf(shard[p])
        BY <2>0, <4>1, Bounds DEF RevsOf
      <4>4. r < minUnpacked => r < minUnpacked'
        BY <2>0, <4>1, Bounds
      <4>5. propPack' = propPack /\ props' = props /\ latest' = latest
        BY <3>4 DEF PackBump
      <4>. QED  BY <3>r, <4>2, <4>3, <4>4, <4>5
    <3>5. CASE UNCHANGED <<minUnpacked, propPack, props, latest>>
      BY <3>r, <3>5
    <3>. QED  BY <2>2, <3>1, <3>2, <3>3, <3>4, <3>5, FilesMove
  <2>. QED  BY <2>1, <2>2
<1>. QED  BY <1>1, <1>2 DEF PropInv

\* A pack_body that removes the originals goes on, ends, is cancelled or dies.
LEMMA RemovalGoesOn ==
  ASSUME TypeOK, NEW p \in Procs, Do(p), pc[p] \in {"rmrev", "rmprop"}
  PROVE  \/ pc'[p] \in {"rmrev", "rmprop"} /\ shard'[p] = shard[p]
         \/ RemovePropsDone(p) \/ "cancel" \in Requests \/ crashes' = crashes + 1
<1>. USE DEF repoVars, readVars, Packing
<1>0. pc[p] \in {"rmrev", "rmprop"} /\ DOMAIN pc = Procs /\ DOMAIN shard = Procs
  BY DEF TypeOK
<1>1. CASE PackBegin(p)
  BY <1>0, <1>1 DEF PackBegin, UpdateMinUnpacked, Goto
<1>2. CASE PackEnd(p) \/ ("cancel" \in Requests /\ PackCancel(p))
  BY <1>0, <1>2 DEF PackEnd
<1>3. CASE PackShard(p)
  BY <1>0, <1>3 DEF PackShard, Goto
<1>4. CASE PackRev(p)
  BY <1>0, <1>4 DEF PackRev
<1>5. CASE PackPropShard(p)
  BY <1>0, <1>5 DEF PackPropShard, Goto
<1>6. CASE PackProp(p)
  BY <1>0, <1>6 DEF PackProp
<1>7. CASE PackPropsDone(p) \/ RemoveRevsDone(p)
  BY <1>0, <1>7 DEF PackPropsDone, RemoveRevsDone, Goto
<1>8. CASE PackBump(p)
  BY <1>0, <1>8 DEF PackBump, Goto
<1>9. CASE RemoveRev(p) \/ RemoveProp(p)
  BY <1>0, <1>9 DEF RemoveRev, RemoveProp
<1>10. CASE RemovePropsDone(p)
  BY <1>0, <1>10 DEF RemovePropsDone, Goto
<1>11. CASE \E r \in Revs \cup {Txn} : ReadRep(p, r)
  BY <1>0, <1>11 DEF ReadRep, Goto
<1>12. CASE \E b \in Revs : NextBase(p, b)
  BY <1>0, <1>12 DEF NextBase, Goto
<1>13. CASE UseHint(p) \/ SeekRevision(p) \/ OpenProto(p)
  BY <1>0, <1>13 DEF UseHint, SeekRevision, OpenProto, Found, Goto
<1>14. CASE OpenRevision(p) \/ OpenFile(p)
  BY <1>0, <1>14 DEF OpenRevision, OpenFile, Goto
<1>15. CASE OpenFails(p)
  BY <1>0, <1>15 DEF OpenFails, Found, Goto
<1>16. CASE RefreshMin(p)
  BY <1>0, <1>16 DEF RefreshMin, UpdateMinUnpacked, Goto
<1>17. CASE \E r \in Revs : ReadProps(p, r)
  BY <1>0, <1>17 DEF ReadProps, Goto
<1>18. CASE ReadNonPacked(p)
  BY <1>0, <1>18 DEF ReadNonPacked, GotProps, Goto
<1>19. CASE DoubleCheckPacked(p)
  BY <1>0, <1>19 DEF DoubleCheckPacked, UpdateMinUnpacked, Goto
<1>20. CASE ReadPacked(p)
  BY <1>0, <1>20 DEF ReadPacked, GotProps, Goto
<1>21. CASE OpenFs(p)
  BY <1>0, <1>21 DEF OpenFs, UpdateMinUnpacked
<1>22. CASE Commit(p)
  BY <1>0, <1>22 DEF Commit, UpdateMinUnpacked
<1>23. CASE \E r \in Revs : SetProps(p, r)
  BY <1>0, <1>23 DEF SetProps, UpdateMinUnpacked
<1>24. CASE ReadDone(p)
  BY <1>0, <1>24 DEF ReadDone, Return, Goto
<1>25. CASE Crash(p)
  BY <1>0, <1>25 DEF Crash, UpdateMinUnpacked, Return, Goto
<1>. QED
  BY <1>1, <1>2, <1>3, <1>4, <1>5, <1>6, <1>7, <1>8, <1>9, <1>10, <1>11, <1>12, <1>13, <1>14, <1>15, <1>16, <1>17, <1>18, <1>19, <1>20, <1>21, <1>22, <1>23, <1>24, <1>25
  DEF Do, PackSteps, RepSteps, PropSteps, OtherSteps

\* One process packs; while one does, nobody commits or sets properties.
LEMMA OnePacker ==
  ASSUME IInv, NEW p \in Procs, NEW q \in Procs, pc[q] \in Packing, q # p
  PROVE  /\ pc[p] \notin Packing /\ writeLock # NoProc
         /\ ~PackSteps(p) /\ ~Commit(p) /\ \A r \in Revs : ~SetProps(p, r)
<1>1. writeLock = q /\ writeLock # NoProc /\ pc[p] \notin Packing
  BY PackAssumption DEF IInv, LockInv
<1>. QED
  BY <1>1 DEF PackSteps, Commit, SetProps, PackBegin, PackEnd, PackShard, PackRev, PackPropShard,
    PackProp, PackPropsDone, PackBump, RemoveRev, RemoveRevsDone, RemoveProp, RemovePropsDone,
    PackCancel, Packing

\* Property files of packed shards are being removed, if no pack was cut short.
LEMMA LeftStep ==
  ASSUME IInv, NEW p \in Procs, Do(p)
  PROVE  LeftInv'
<1>0. TypeOK /\ LeftInv /\ PropInv
  BY DEF IInv
<1>. DEFINE Gone(r) == \E q \in Procs : pc[q] \in {"rmrev", "rmprop"} /\ r \in RevsOf(shard[q])
            GoneNext(r) == \E q \in Procs : pc'[q] \in {"rmrev", "rmprop"} /\ r \in RevsOf(shard'[q])
<1>. SUFFICES ASSUME Uncut', NEW r \in Revs \ {0}, r < minUnpacked', props'[r] # NoFile
              PROVE  props'[r] = latest'[r] /\ GoneNext(r)
  BY DEF LeftInv, RevsOf
<1>1. Uncut /\ crashes' = 0 /\ crashes = 0 /\ "cancel" \notin Requests
  <2>1. crashes \in Nat
    BY <1>0, PackAssumption DEF TypeOK
  <2>. QED  BY <1>0, <2>1, OwnMin DEF Uncut
<1>2. ASSUME r < minUnpacked, props[r] # NoFile  PROVE props[r] = latest[r] /\ Gone(r)
  BY <1>0, <1>1, <1>2 DEF LeftInv
<1>3. r \in Nat /\ r # 0 /\ r \in Revs
  BY DEF Revs
<1>. HIDE DEF Gone, GoneNext
<1>4. CASE PackBump(p)
  <2>1. /\ minUnpacked' = shard[p] * N + N /\ shard[p] * N = minUnpacked
        /\ shard[p] * N + N <= current + 1 /\ shard[p] * N \in Nat
    BY <1>4, Bounds, PackedShard DEF PackBump
  <2>2. props' = props /\ latest' = latest /\ shard' = shard /\ pc'[p] = "rmrev"
    BY <1>0, <1>4 DEF PackBump, Goto, TypeOK
  <2>3. ~(r < minUnpacked)
    <3>. SUFFICES ASSUME r < minUnpacked  PROVE FALSE
      OBVIOUS
    <3>1. PICK q \in Procs : pc[q] \in {"rmrev", "rmprop"}
      BY <1>2, <2>2 DEF Gone
    <3>2. q # p
      BY <1>4, <3>1 DEF PackBump
    <3>3. PackSteps(p) /\ pc[q] \in Packing
      BY <1>4, <3>1 DEF PackSteps, Packing
    <3>. QED  BY <3>2, <3>3, OnePacker
  <2>4. r \in RevsOf(shard[p]) /\ r \in 0..current
    BY <1>3, <2>1, <2>3, Bounds DEF RevsOf
  <2>5. props[r] = latest[r]
    BY <1>0, <2>3, <2>4 DEF PropInv
  <2>6. GoneNext(r)
    BY <2>2, <2>4 DEF GoneNext
  <2>. QED  BY <2>2, <2>5, <2>6
<1>5. CASE ~PackBump(p)
  <2>0. minUnpacked' = minUnpacked /\ r < minUnpacked
    BY <1>5, FilesMove
  <2>1. props'[r] = props[r]
    <3>1. CASE Commit(p)
      <4>1. props' = [props EXCEPT ![current + 1] = 0] /\ r # current + 1
        BY <1>3, <2>0, <3>1, Bounds DEF Commit
      <4>. QED  BY <1>0, <1>3, <4>1 DEF TypeOK
    <3>2. CASE RemoveProp(p)
      BY <1>0, <1>3, <3>2 DEF RemoveProp, TypeOK
    <3>3. CASE \E x \in Revs : SetProps(p, x)
      BY <1>0, <1>3, <2>0, <3>3 DEF SetProps, TypeOK
    <3>. QED  BY <3>1, <3>2, <3>3, FilesMove
  <2>2. props[r] = latest[r] /\ Gone(r)
    BY <1>2, <2>0, <2>1
  <2>3. PICK q \in Procs : pc[q] \in {"rmrev", "rmprop"} /\ r \in RevsOf(shard[q])
    BY <2>2 DEF Gone
  <2>4. latest' = latest
    <3>. SUFFICES ASSUME NEW x \in Revs, SetProps(p, x)  PROVE FALSE
      BY FilesMove
    <3>1. pc[q] \in Packing /\ q # p
      BY <2>3 DEF SetProps, Packing
    <3>. QED  BY <3>1, OnePacker
  <2>5. ASSUME q # p  PROVE GoneNext(r)
    BY <1>0, <2>3, <2>5, OthersKept DEF OwnKept, GoneNext
  <2>6. ASSUME q = p  PROVE GoneNext(r)
    <3>1. ~RemovePropsDone(p)
      <4>. SUFFICES ASSUME Undeleted(shard[p]) = {}  PROVE FALSE
        BY DEF RemovePropsDone
      <4>1. r \in Undeleted(shard[p])
        BY <1>3, <2>1, <2>3, <2>6 DEF Undeleted
      <4>. QED  BY <4>1
    <3>2. pc'[p] \in {"rmrev", "rmprop"} /\ shard'[p] = shard[p]
      BY <1>0, <1>1, <2>3, <2>6, <3>1, RemovalGoesOn
    <3>. QED  BY <2>3, <2>6, <3>2 DEF GoneNext
  <2>7. GoneNext(r)
    BY <2>5, <2>6
  <2>. QED  BY <2>1, <2>2, <2>4, <2>7
<1>. QED  BY <1>4, <1>5

\* A packer that nobody disturbs is where it was.
LEMMA PackFrame ==
  ASSUME NEW q \in Procs, PackOK(q), pc'[q] = pc[q], shard'[q] = shard[q],
         UNCHANGED <<current, minUnpacked, pack, manifest, propPack, latest>>
  PROVE  PackOK(q)'
  BY DEF PackOK, Copied, RevsOf

\* The steps of others do not disturb a packer.
LEMMA PackOther ==
  ASSUME IInv, NEW p \in Procs, Do(p), NEW q \in Procs, q # p
  PROVE  PackOK(q)'
<1>0. TypeOK /\ PackOK(q)
  BY DEF IInv
<1>1. pc'[q] = pc[q] /\ shard'[q] = shard[q]
  BY <1>0, OthersKept DEF OwnKept
<1>2. CASE pc[q] \in Packing
  <2>1. ~PackSteps(p) /\ ~Commit(p) /\ \A r \in Revs : ~SetProps(p, r)
    BY <1>2, OnePacker
  <2>2. UNCHANGED <<current, minUnpacked, pack, manifest, propPack, latest>>
    BY <2>1, FilesMove DEF PackSteps
  <2>. QED  BY <1>0, <1>1, <2>2, PackFrame
<1>3. CASE pc[q] \notin Packing
  BY <1>1, <1>3 DEF PackOK, Packing
<1>. QED  BY <1>2, <1>3

\* Only pack_body is in pack_body.
LEMMA NotPacking ==
  ASSUME TypeOK, NEW p \in Procs, RepSteps(p) \/ PropSteps(p) \/ OtherSteps(p)
  PROVE  pc'[p] \notin Packing
<1>. USE DEF repoVars, readVars, Packing
<1>0. DOMAIN pc = Procs
  BY DEF TypeOK
<1>1. CASE \E r \in Revs \cup {Txn} : ReadRep(p, r)
  BY <1>0, <1>1 DEF ReadRep, Goto
<1>2. CASE \E b \in Revs : NextBase(p, b)
  BY <1>0, <1>2 DEF NextBase, Goto
<1>3. CASE UseHint(p) \/ SeekRevision(p) \/ OpenProto(p)
  BY <1>0, <1>3 DEF UseHint, SeekRevision, OpenProto, Found, Goto
<1>4. CASE OpenRevision(p) \/ OpenFile(p)
  BY <1>0, <1>4 DEF OpenRevision, OpenFile, Goto
<1>5. CASE OpenFails(p)
  BY <1>0, <1>5 DEF OpenFails, Found, Goto
<1>6. CASE RefreshMin(p)
  BY <1>0, <1>6 DEF RefreshMin, UpdateMinUnpacked, Goto
<1>7. CASE \E r \in Revs : ReadProps(p, r)
  BY <1>0, <1>7 DEF ReadProps, Goto
<1>8. CASE ReadNonPacked(p)
  BY <1>0, <1>8 DEF ReadNonPacked, GotProps, Goto
<1>9. CASE DoubleCheckPacked(p)
  BY <1>0, <1>9 DEF DoubleCheckPacked, UpdateMinUnpacked, Goto
<1>10. CASE ReadPacked(p)
  BY <1>0, <1>10 DEF ReadPacked, GotProps, Goto
<1>11. CASE OpenFs(p)
  BY <1>0, <1>11 DEF OpenFs, UpdateMinUnpacked
<1>12. CASE Commit(p)
  BY <1>0, <1>12 DEF Commit, UpdateMinUnpacked
<1>13. CASE \E r \in Revs : SetProps(p, r)
  BY <1>0, <1>13 DEF SetProps, UpdateMinUnpacked
<1>14. CASE ReadDone(p)
  BY <1>0, <1>14 DEF ReadDone, Return, Goto
<1>15. CASE Crash(p)
  BY <1>0, <1>15 DEF Crash, UpdateMinUnpacked, Return, Goto
<1>. QED
  BY <1>1, <1>2, <1>3, <1>4, <1>5, <1>6, <1>7, <1>8, <1>9, <1>10, <1>11, <1>12, <1>13, <1>14, <1>15
  DEF RepSteps, PropSteps, OtherSteps

\* The packer's own steps.
LEMMA PackOwn ==
  ASSUME IInv, NEW p \in Procs, Do(p)
  PROVE  PackOK(p)'
<1>. USE DEF repoVars, readVars
<1>0. TypeOK /\ PackOK(p) /\ PropInv /\ BoundInv
  BY DEF IInv
<1>. PICK s : s = shard[p]
  OBVIOUS
<1>p. DOMAIN pc = Procs /\ DOMAIN shard = Procs
  BY <1>0 DEF TypeOK
<1>s. s \in Nat /\ s * N \in Nat
  BY PackedShard
<1>1. CASE PackBegin(p)
  <2>1. PICK k \in 0..minUnpacked : minUnpacked = k * N
    BY <1>0 DEF BoundInv, Aligned
  <2>2. ShardOf(minUnpacked) = k
    BY <2>1, ShardUnique, Bounds
  <2>3. pc'[p] = "pack" /\ shard'[p] = k /\ minUnpacked' = minUnpacked
    BY <1>p, <1>1, <2>2 DEF PackBegin, Goto, ShardOf
  <2>. QED  BY <2>1, <2>3 DEF PackOK
<1>2. CASE PackEnd(p) \/ PackCancel(p)
  <2>1. pc'[p] = "idle"
    BY <1>p, <1>2 DEF PackEnd, PackCancel, Return, Goto
  <2>. QED  BY <2>1 DEF PackOK
<1>3. CASE PackShard(p)
  <2>1. s * N + N <= current + 1 /\ s \in Shards
    <3>1. s < ShardOf(current + 1)
      BY <1>3 DEF PackShard, CompletedShards, ShardOf
    <3>2. s * N + N <= ShardOf(current + 1) * N /\ ShardOf(current + 1) * N <= current + 1
      <4>1. current + 1 \in Nat
        BY Bounds
      <4>2. ShardOf(current + 1) \in Nat /\ ShardOf(current + 1) * N <= current + 1
        BY <4>1, ShardBounds
      <4>3. s * N + N <= ShardOf(current + 1) * N
        BY <1>s, <3>1, <4>2, ShardsApart
      <4>. QED  BY <4>2, <4>3
    <3>3. ShardOf(current + 1) * N \in Nat
      <4>1. ShardOf(current + 1) \in Nat
        BY Bounds, ShardBounds
      <4>. QED  BY <4>1, ShardType
    <3>4. s * N + N <= current + 1
      BY <1>s, <3>2, <3>3, Bounds
    <3>5. s * N <= MaxRev
      BY <1>s, <3>4, Bounds
    <3>. QED  BY <1>s, <3>4, <3>5, ShardType
  <2>2. s * N = minUnpacked
    BY <1>3, PackedShard DEF PackShard
  <2>3. /\ pc'[p] = "copy" /\ shard'[p] = s /\ minUnpacked' = minUnpacked /\ current' = current
        /\ pack'[s] = <<>> /\ manifest'[s] = <<>>
    BY <1>0, <1>p, <1>3, <2>1 DEF PackShard, Goto, TypeOK
  <2>4. Copied(s, 0)'
    <3>1. <<>> \in Seq(Revs) /\ <<>> \in Seq(0..N) /\ Len(<<>>) = 0
      BY EmptySeq
    <3>2. \A i \in 1..0 : FALSE
      OBVIOUS
    <3>. QED  BY <2>3, <3>1, <3>2 DEF Copied
  <2>5. \E n \in 0..N : Copied(s, n)'
    BY <2>4, Bounds
  <2>. QED  BY <2>1, <2>2, <2>3, <2>5 DEF PackOK, Copied
<1>4. CASE PackRev(p)
  <2>1. PICK n \in 0..N : Copied(s, n)
    BY <1>0, <1>4 DEF PackRev, PackOK
  <2>2. n < N /\ n \in Nat /\ n + 1 \in 0..N
    BY <1>4, <2>1, Bounds DEF PackRev, Copied
  <2>3. /\ pc'[p] = pc[p] /\ pc[p] = "copy" /\ shard'[p] = s /\ minUnpacked' = minUnpacked /\ current' = current
        /\ s * N + n \in revFiles
        /\ manifest' = [manifest EXCEPT ![s] = Append(@, n)] /\ pack' = [pack EXCEPT ![s] = Append(@, s * N + n)]
    BY <1>4, <2>1 DEF PackRev, Copied
  <2>4. s * N = minUnpacked /\ s \in Shards /\ s * N + N <= current + 1
    BY <2>3, PackedShard
  <2>5. manifest'[s] = Append(manifest[s], n) /\ pack'[s] = Append(pack[s], s * N + n)
    BY <1>0, <2>3, <2>4 DEF TypeOK
  <2>6. Copied(s, n + 1)'
    <3>. PICK r \in Revs : r = s * N + n
      BY <1>0, <2>3 DEF TypeOK
    <3>1. /\ pack[s] \in Seq(Revs) /\ Len(pack[s]) = n /\ manifest[s] \in Seq(0..N) /\ Len(manifest[s]) = n
          /\ \A i \in 1..n : pack[s][i] = s * N + i - 1 /\ manifest[s][i] = i - 1
      BY <2>1 DEF Copied
    <3>2. pack'[s] \in Seq(Revs) /\ Len(pack'[s]) = n + 1
      BY <2>5, <3>1
    <3>3. manifest'[s] \in Seq(0..N) /\ Len(manifest'[s]) = n + 1
      BY <2>2, <2>5, <3>1
    <3>4. ASSUME NEW i \in 1 .. n + 1  PROVE pack'[s][i] = s * N + i - 1 /\ manifest'[s][i] = i - 1
      <4>1. CASE i \in 1..n
        <5>1. pack'[s][i] = pack[s][i] /\ manifest'[s][i] = manifest[s][i]
          BY <2>2, <2>5, <3>1, <4>1
        <5>. QED  BY <3>1, <4>1, <5>1
      <4>2. CASE i = n + 1
        <5>1. pack'[s][i] = r /\ manifest'[s][i] = n
          BY <2>2, <2>5, <3>1, <4>2
        <5>. QED  BY <1>s, <2>2, <4>2, <5>1
      <4>. QED  BY <2>2, <3>4, <4>1, <4>2
    <3>. QED  BY <3>2, <3>3, <3>4 DEF Copied
  <2>7. \E m \in 0..N : Copied(s, m)'
    BY <2>2, <2>6
  <2>. QED  BY <2>3, <2>4, <2>7 DEF PackOK, Copied
<1>5. CASE PackPropShard(p)
  <2>1. PICK n \in 0..N : Copied(s, n)
    BY <1>0, <1>5 DEF PackPropShard, PackOK
  <2>2. Copied(s, N)
    BY <1>5, <2>1 DEF PackPropShard, Copied
  <2>3. s * N = minUnpacked /\ s \in Shards /\ s * N + N <= current + 1
    BY <1>5, PackedShard DEF PackPropShard
  <2>4. \A r \in RevsOf(s) : r \in Revs
    BY <1>s, <2>3, Bounds DEF RevsOf, Revs
  <2>5. /\ pc'[p] = "pcopy" /\ shard'[p] = s
        /\ UNCHANGED <<minUnpacked, current, pack, manifest>>
        /\ \A r \in RevsOf(s) : propPack'[r] = NoFile
    BY <1>p, <1>5, <2>4 DEF PackPropShard, Goto
  <2>6. Copied(s, N)'
    BY <2>2, <2>5, CopiedKept
  <2>. QED  BY <2>3, <2>5, <2>6 DEF PackOK, Copied, RevsOf
<1>6. CASE PackProp(p)
  <2>1. PICK x \in Uncopied(s) : propPack' = [propPack EXCEPT ![x] = props[x]]
    BY <1>6 DEF PackProp
  <2>2. s * N = minUnpacked /\ s \in Shards /\ s * N + N <= current + 1
    BY <1>6, PackedShard DEF PackProp
  <2>3. props[x] = latest[x]
    <3>1. x \in 0..current /\ ~(x < minUnpacked)
      BY <1>s, <2>1, <2>2, Bounds DEF Uncopied, RevsOf
    <3>. QED  BY <1>0, <3>1 DEF PropInv
  <2>4. Copied(s, N) /\ \A r \in RevsOf(s) \ {0} : propPack[r] \in {NoFile, latest[r]}
    BY <1>0, <1>6 DEF PackProp, PackOK
  <2>5. /\ pc'[p] = "pcopy" /\ shard'[p] = s
        /\ UNCHANGED <<minUnpacked, current, pack, manifest, latest>>
    BY <1>6 DEF PackProp
  <2>6. \A r \in RevsOf(s) \ {0} : propPack'[r] \in {NoFile, latest'[r]}
    <3>1. \A r \in RevsOf(s) : r \in Revs
      BY <1>s, <2>2, Bounds DEF RevsOf, Revs
    <3>. QED  BY <1>0, <2>1, <2>3, <2>4, <2>5, <3>1 DEF TypeOK
  <2>7. Copied(s, N)'
    BY <2>4, <2>5, CopiedKept
  <2>. QED  BY <2>2, <2>5, <2>6, <2>7 DEF PackOK, Copied, RevsOf
<1>7. CASE PackPropsDone(p)
  <2>1. s * N = minUnpacked /\ s \in Shards /\ s * N + N <= current + 1
    BY <1>7, PackedShard DEF PackPropsDone
  <2>2. Copied(s, N) /\ \A r \in RevsOf(s) \ {0} : propPack[r] = latest[r]
    BY <1>0, <1>7 DEF PackPropsDone, PackOK, Uncopied
  <2>3. /\ pc'[p] = "bump" /\ shard'[p] = s
        /\ UNCHANGED <<minUnpacked, current, pack, manifest, propPack, latest>>
    BY <1>p, <1>7 DEF PackPropsDone, Goto
  <2>. QED  BY <2>1, <2>2, <2>3 DEF PackOK, Copied, RevsOf
<1>8. CASE PackBump(p)
  <2>1. s \in Shards
    BY <1>8, PackedShard DEF PackBump
  <2>2. pc'[p] = "rmrev" /\ shard'[p] = s /\ minUnpacked' = s * N + N
    BY <1>p, <1>s, <1>8, Bounds DEF PackBump, Goto
  <2>. QED  BY <2>1, <2>2 DEF PackOK
<1>9. CASE RemoveRev(p) \/ RemoveProp(p) \/ RemoveRevsDone(p)
  <2>1. s \in Shards /\ s * N + N = minUnpacked
    BY <1>9, PackedShard DEF RemoveRev, RemoveProp, RemoveRevsDone
  <2>2. pc'[p] \in {"rmrev", "rmprop"} /\ shard'[p] = s /\ minUnpacked' = minUnpacked
    BY <1>p, <1>9 DEF RemoveRev, RemoveProp, RemoveRevsDone, Goto
  <2>. QED  BY <2>1, <2>2 DEF PackOK
<1>10. CASE RemovePropsDone(p)
  <2>1. s * N + N = minUnpacked
    BY <1>10, PackedShard DEF RemovePropsDone
  <2>2. pc'[p] = "pack" /\ shard'[p] = s + 1 /\ minUnpacked' = minUnpacked
    BY <1>p, <1>10 DEF RemovePropsDone, Goto
  <2>3. (s + 1) * N = s * N + N
    BY <1>s, Bounds
  <2>. QED  BY <2>1, <2>2, <2>3 DEF PackOK
<1>11. CASE RepSteps(p) \/ PropSteps(p) \/ OtherSteps(p)
  BY <1>0, <1>11, NotPacking DEF PackOK, Packing
<1>. QED
  BY <1>1, <1>2, <1>3, <1>4, <1>5, <1>6, <1>7, <1>8, <1>9, <1>10, <1>11 DEF Do, PackSteps

\* A reader of a representation is not disturbed by others.
LEMMA RepFrame ==
  ASSUME IInv, NEW p \in Procs, Do(p), NEW q \in Procs, q # p
  PROVE  RepOK(q)'
<1>0. TypeOK /\ RepOK(q)
  BY DEF IInv
<1>1. OwnKept(q)
  BY <1>0, OthersKept
<1>2. 0..current \subseteq 0..current'
  BY Bounds, Grows
<1>3. want[q] \in 0..current /\ want[q] < minUnpacked => want[q] < minUnpacked'
  BY Bounds, Grows
<1>4. HintOK(q) => HintOK(q)'
  BY <1>1 DEF OwnKept, HintOK, Place, Packed
<1>5. Place(q, want[q])' = Place(q, want[q])
  BY <1>1 DEF OwnKept, Place, Packed
<1>. QED  BY <1>0, <1>1, <1>2, <1>3, <1>4, <1>5 DEF OwnKept, RepOK, Opening

\* Only a reader of representations has a file open.
LEMMA NotReading ==
  ASSUME TypeOK, NEW p \in Procs, RepOK(p), PackSteps(p) \/ PropSteps(p) \/ OtherSteps(p)
  PROVE  pc'[p] \notin Opening \cup {"rep", "got"} /\ file'[p] = NoHandle
<1>. USE DEF repoVars, readVars, Opening, Packing
<1>0. /\ DOMAIN pc = Procs /\ DOMAIN file = Procs
      /\ pc[p] \notin Opening \cup {"rep", "got"} => file[p] = NoHandle
  BY DEF TypeOK, RepOK
<1>1. CASE PackBegin(p)
  BY <1>0, <1>1 DEF PackBegin, UpdateMinUnpacked, Goto
<1>2. CASE PackEnd(p) \/ PackCancel(p)
  BY <1>0, <1>2 DEF PackEnd, PackCancel, Return, Goto
<1>3. CASE PackShard(p)
  BY <1>0, <1>3 DEF PackShard, Goto
<1>4. CASE PackRev(p)
  BY <1>0, <1>4 DEF PackRev
<1>5. CASE PackPropShard(p)
  BY <1>0, <1>5 DEF PackPropShard, Goto
<1>6. CASE PackProp(p)
  BY <1>0, <1>6 DEF PackProp
<1>7. CASE PackPropsDone(p) \/ RemoveRevsDone(p)
  BY <1>0, <1>7 DEF PackPropsDone, RemoveRevsDone, Goto
<1>8. CASE PackBump(p)
  BY <1>0, <1>8 DEF PackBump, Goto
<1>9. CASE RemoveRev(p) \/ RemoveProp(p)
  BY <1>0, <1>9 DEF RemoveRev, RemoveProp
<1>10. CASE RemovePropsDone(p)
  BY <1>0, <1>10 DEF RemovePropsDone, Goto
<1>11. CASE \E r \in Revs : ReadProps(p, r)
  BY <1>0, <1>11 DEF ReadProps, Goto
<1>12. CASE ReadNonPacked(p)
  BY <1>0, <1>12 DEF ReadNonPacked, GotProps, Goto
<1>13. CASE DoubleCheckPacked(p)
  BY <1>0, <1>13 DEF DoubleCheckPacked, UpdateMinUnpacked, Goto
<1>14. CASE ReadPacked(p)
  BY <1>0, <1>14 DEF ReadPacked, GotProps, Goto
<1>15. CASE OpenFs(p)
  BY <1>0, <1>15 DEF OpenFs, UpdateMinUnpacked
<1>16. CASE Commit(p)
  BY <1>0, <1>16 DEF Commit, UpdateMinUnpacked
<1>17. CASE \E r \in Revs : SetProps(p, r)
  BY <1>0, <1>17 DEF SetProps, UpdateMinUnpacked
<1>18. CASE ReadDone(p)
  BY <1>0, <1>18 DEF ReadDone, Return, Goto
<1>19. CASE Crash(p)
  BY <1>0, <1>19 DEF Crash, UpdateMinUnpacked, Return, Goto
<1>. QED
  BY <1>1, <1>2, <1>3, <1>4, <1>5, <1>6, <1>7, <1>8, <1>9, <1>10, <1>11, <1>12, <1>13, <1>14, <1>15, <1>16, <1>17, <1>18, <1>19
  DEF PackSteps, PropSteps, OtherSteps

\* The pack file of a revision that a process takes for packed is there.
LEMMA PackThere ==
  ASSUME IInv, NEW p \in Procs, NEW r \in 0..current, r < minUnpacked
  PROVE  pack[ShardOf(r)] # NoFile
<1>1. r \in Nat /\ r \in Revs /\ Aligned(minUnpacked)
  BY Bounds DEF Revs, IInv, BoundInv
<1>2. ShardOf(r) \in Shards /\ ShardOf(r) * N + N <= minUnpacked
  BY <1>1, RevType, WholeShards, Bounds
<1>3. Copied(ShardOf(r), N)
  BY <1>2 DEF IInv, FileInv
<1>. QED  BY <1>3, ResultsAssumption DEF Copied

\* The reader's own steps.
LEMMA RepOwn ==
  ASSUME IInv, NEW p \in Procs, Do(p)
  PROVE  RepOK(p)'
<1>. USE DEF repoVars, readVars
<1>0. TypeOK /\ RepOK(p) /\ FileInv
  BY DEF IInv
<1>p. /\ DOMAIN pc = Procs /\ DOMAIN file = Procs /\ DOMAIN hintRev = Procs /\ DOMAIN want = Procs
      /\ DOMAIN got = Procs /\ DOMAIN cachedMin = Procs
  BY <1>0 DEF TypeOK
<1>1. CASE "rep" \in Requests /\ \E r \in Revs : ReadRep(p, r)
  <2>1. PICK r \in Revs : ReadRep(p, r)
    BY <1>1
  <2>2. pc'[p] = "rep" /\ want'[p] = r /\ file'[p] = NoHandle /\ current' = current /\ r \in 0..current /\ r # Txn
    BY <1>0, <1>p, <2>1, Bounds DEF ReadRep, Goto, RepOK, Opening, Revs, Txn
  <2>. QED  BY <2>2 DEF RepOK, Opening, HintOK
<1>2. CASE "txnrep" \in Requests /\ ReadRep(p, Txn)
  <2>2. pc'[p] = "rep" /\ want'[p] = Txn /\ file'[p] = NoHandle
    BY <1>0, <1>p, <1>2 DEF ReadRep, Goto, RepOK, Opening
  <2>. QED  BY <1>2, <2>2 DEF RepOK, Opening, HintOK
<1>3. CASE \E b \in Revs : NextBase(p, b)
  <2>1. PICK b \in Revs : NextBase(p, b)
    BY <1>3
  <2>2. got[p] # Garbage
    BY <1>0, <2>1, ResultsAssumption DEF NextBase, TypeOK
  <2>3. HintOK(p)
    BY <1>0, <2>1, <2>2 DEF NextBase, RepOK
  <2>4. /\ pc'[p] = "rep" /\ want'[p] = b /\ current' = current /\ b \in 0..current /\ b # Txn
        /\ file' = file /\ hintRev' = hintRev /\ cachedMin' = cachedMin
    BY <1>p, <2>1, Bounds DEF NextBase, Goto, Revs, Txn
  <2>5. HintOK(p)'
    BY <2>3, <2>4 DEF HintOK, Place, Packed
  <2>. QED  BY <2>4, <2>5 DEF RepOK, Opening
<1>4. CASE UseHint(p) \/ SeekRevision(p)
  <2>1. /\ want[p] \in 0..current
        /\ \/ file[p] = Place(p, want[p]) /\ ContentAt(p, file[p], want[p]) = want[p]
           \/ ContentAt(p, file[p], want[p]) = Garbage /\ "txnrep" \in Requests
    BY <1>4, HintRead, SeekRead
  <2>2. /\ pc'[p] = "got" /\ want' = want /\ current' = current /\ cachedMin' = cachedMin
        /\ file'[p] = file[p] /\ hintRev'[p] = want[p] /\ got'[p] = ContentAt(p, file[p], want[p])
    BY <1>p, <1>4 DEF UseHint, SeekRevision, Found, Goto
  <2>3. want[p] \in Revs
    BY <1>0, <2>1, Bounds DEF Revs
  <2>4. file[p] = Place(p, want[p]) => HintOK(p)'
    BY <2>2, <2>3 DEF HintOK, Place, Packed
  <2>. QED  BY <2>1, <2>2, <2>4 DEF RepOK, Opening
<1>5. CASE OpenProto(p)
  <2>1. want[p] = Txn /\ pc[p] = "rep"
    BY <1>5 DEF OpenProto
  <2>2. "txnrep" \in Requests
    BY <1>0, <2>1 DEF RepOK, Txn
  <2>3. pc'[p] = "got" /\ want' = want /\ file'[p] = ProtoFile /\ hintRev'[p] = Txn /\ got'[p] = Txn
    BY <1>p, <1>5, <2>1 DEF OpenProto, Found, Goto
  <2>. QED  BY <2>1, <2>2, <2>3 DEF RepOK, Opening, HintOK
<1>6. CASE OpenRevision(p)
  <2>1. want[p] \in 0..current /\ pc'[p] = "open" /\ want' = want /\ current' = current
    BY <1>0, <1>p, <1>6 DEF OpenRevision, Goto, RepOK
  <2>. QED  BY <2>1 DEF RepOK, Opening
<1>7. CASE OpenFile(p)
  <2>1. want[p] \in 0..current /\ pc'[p] = "seek" /\ want' = want /\ current' = current /\ cachedMin' = cachedMin
    BY <1>0, <1>p, <1>7 DEF OpenFile, Goto, RepOK, Opening
  <2>2. file'[p] = Place(p, want[p])
    BY <1>p, <1>7 DEF OpenFile, Place
  <2>3. file'[p] = Place(p, want[p])'
    BY <2>1, <2>2 DEF Place, Packed
  <2>. QED  BY <2>1, <2>3 DEF RepOK, Opening
<1>8. CASE OpenFails(p)
  <2>0. want[p] \in 0..current /\ ~FileThere(p) /\ cachedMin[p] \in Nat /\ cachedMin[p] <= minUnpacked
    BY <1>0, <1>8, Bounds DEF OpenFails, RepOK, Opening
  <2>1. want[p] < minUnpacked
    <3>1. CASE Packed(p, want[p])
      BY <2>0, <3>1, Bounds DEF Packed
    <3>2. CASE ~Packed(p, want[p])
      <4>1. want[p] \notin minUnpacked..current
        BY <1>0, <2>0, <3>2 DEF FileThere, FileInv
      <4>. QED  BY <2>0, <4>1, Bounds
    <3>. QED  BY <3>1, <3>2
  <2>2. pc[p] # "reopen"
    <3>. SUFFICES ASSUME pc[p] = "reopen"  PROVE FALSE
      OBVIOUS
    <3>1. want[p] < cachedMin[p]
      BY <1>0 DEF RepOK
    <3>2. pack[ShardOf(want[p])] # NoFile
      BY <2>0, <2>1, PackThere
    <3>. QED  BY <2>0, <3>1, <3>2 DEF FileThere, Packed
  <2>3. pc'[p] = "refresh" /\ want' = want /\ current' = current /\ minUnpacked' = minUnpacked
    BY <1>p, <1>8, <2>2 DEF OpenFails, Goto
  <2>. QED  BY <2>0, <2>1, <2>3 DEF RepOK, Opening
<1>9. CASE RefreshMin(p)
  <2>1. want[p] \in 0..current /\ want[p] < minUnpacked
    BY <1>0, <1>9 DEF RefreshMin, RepOK, Opening
  <2>2. pc'[p] = "reopen" /\ want' = want /\ current' = current /\ cachedMin'[p] = minUnpacked
    BY <1>p, <1>9 DEF RefreshMin, UpdateMinUnpacked, Goto
  <2>. QED  BY <2>1, <2>2 DEF RepOK, Opening
<1>10. CASE PackSteps(p) \/ PropSteps(p) \/ OtherSteps(p)
  BY <1>0, <1>10, NotReading DEF RepOK, Opening
<1>. QED
  BY <1>1, <1>2, <1>3, <1>4, <1>5, <1>6, <1>7, <1>8, <1>9, <1>10 DEF Do, RepSteps

\* A reader of properties is not disturbed by others.
LEMMA PropFrame ==
  ASSUME IInv, NEW p \in Procs, Do(p), NEW q \in Procs, q # p
  PROVE  PropOK(q)'
<1>0. TypeOK /\ PropOK(q)
  BY DEF IInv
<1>1. OwnKept(q)
  BY <1>0, OthersKept
<1>2. 0..current \subseteq 0..current'
  BY Bounds, Grows
<1>3. want[q] \in 0..current /\ want[q] < minUnpacked => want[q] < minUnpacked'
  BY Bounds, Grows
<1>4. pc[q] \in {"props", "ppack", "pread"} => latest'[want[q]] \in valid'[q]
  <2>. SUFFICES ASSUME pc[q] \in {"props", "ppack", "pread"}  PROVE latest'[want[q]] \in valid'[q]
    OBVIOUS
  <2>1. want[q] \in 0..current /\ latest[want[q]] \in valid[q]
    BY <1>0 DEF PropOK
  <2>2. CASE \E r \in Revs : SetProps(p, r)
    <3>1. PICK r \in Revs : SetProps(p, r)
      BY <2>2
    <3>2. latest' = [latest EXCEPT ![r] = sets + 1] /\ DOMAIN latest = Revs
      BY <1>0, <3>1 DEF SetProps, TypeOK
    <3>3. CASE want[q] = r
      <4>1. valid'[q] = valid[q] \cup {sets + 1}
        BY <3>1, <3>3 DEF SetProps
      <4>. QED  BY <3>2, <3>3, <4>1
    <3>4. CASE want[q] # r
      <4>1. latest'[want[q]] = latest[want[q]]
        <5>1. want[q] \in Revs
          BY <2>1, Bounds DEF Revs
        <5>. QED  BY <3>2, <3>4, <5>1
      <4>. QED  BY <1>1, <2>1, <4>1 DEF OwnKept
    <3>. QED  BY <3>3, <3>4
  <2>3. CASE latest' = latest
    BY <1>1, <2>1, <2>3 DEF OwnKept
  <2>. QED  BY <2>2, <2>3, FilesMove
<1>5. ~Uncut => ~Uncut'
  <2>1. crashes \in Nat
    BY <1>0, PackAssumption DEF TypeOK
  <2>. QED  BY <1>0, <2>1, OwnMin DEF Uncut
<1>6. PackedProp(q, want[q])' = PackedProp(q, want[q])
  BY <1>1 DEF OwnKept, PackedProp
<1>. QED
  BY <1>0, <1>1, <1>2, <1>3, <1>4, <1>5, <1>6 DEF OwnKept, PropOK

\* Only a reader of revision properties is in get_revision_proplist.
LEMMA NotProps ==
  ASSUME TypeOK, NEW p \in Procs, PackSteps(p) \/ RepSteps(p) \/ OtherSteps(p)
  PROVE  pc'[p] \notin {"props", "ppack", "pread", "gotprops"}
<1>. USE DEF repoVars, readVars, Packing
<1>0. DOMAIN pc = Procs
  BY DEF TypeOK
<1>1. CASE PackBegin(p)
  BY <1>0, <1>1 DEF PackBegin, UpdateMinUnpacked, Goto
<1>2. CASE PackEnd(p) \/ PackCancel(p)
  BY <1>0, <1>2 DEF PackEnd, PackCancel, Return, Goto
<1>3. CASE PackShard(p)
  BY <1>0, <1>3 DEF PackShard, Goto
<1>4. CASE PackRev(p)
  BY <1>0, <1>4 DEF PackRev
<1>5. CASE PackPropShard(p)
  BY <1>0, <1>5 DEF PackPropShard, Goto
<1>6. CASE PackProp(p)
  BY <1>0, <1>6 DEF PackProp
<1>7. CASE PackPropsDone(p) \/ RemoveRevsDone(p)
  BY <1>0, <1>7 DEF PackPropsDone, RemoveRevsDone, Goto
<1>8. CASE PackBump(p)
  BY <1>0, <1>8 DEF PackBump, Goto
<1>9. CASE RemoveRev(p) \/ RemoveProp(p)
  BY <1>0, <1>9 DEF RemoveRev, RemoveProp
<1>10. CASE RemovePropsDone(p)
  BY <1>0, <1>10 DEF RemovePropsDone, Goto
<1>11. CASE \E r \in Revs \cup {Txn} : ReadRep(p, r)
  BY <1>0, <1>11 DEF ReadRep, Goto
<1>12. CASE \E b \in Revs : NextBase(p, b)
  BY <1>0, <1>12 DEF NextBase, Goto
<1>13. CASE UseHint(p) \/ SeekRevision(p) \/ OpenProto(p)
  BY <1>0, <1>13 DEF UseHint, SeekRevision, OpenProto, Found, Goto
<1>14. CASE OpenRevision(p) \/ OpenFile(p)
  BY <1>0, <1>14 DEF OpenRevision, OpenFile, Goto
<1>15. CASE OpenFails(p)
  BY <1>0, <1>15 DEF OpenFails, Found, Goto
<1>16. CASE RefreshMin(p)
  BY <1>0, <1>16 DEF RefreshMin, UpdateMinUnpacked, Goto
<1>17. CASE OpenFs(p)
  BY <1>0, <1>17 DEF OpenFs, UpdateMinUnpacked
<1>18. CASE Commit(p)
  BY <1>0, <1>18 DEF Commit, UpdateMinUnpacked
<1>19. CASE \E r \in Revs : SetProps(p, r)
  BY <1>0, <1>19 DEF SetProps, UpdateMinUnpacked
<1>20. CASE ReadDone(p)
  BY <1>0, <1>20 DEF ReadDone, Return, Goto
<1>21. CASE Crash(p)
  BY <1>0, <1>21 DEF Crash, UpdateMinUnpacked, Return, Goto
<1>. QED
  BY <1>1, <1>2, <1>3, <1>4, <1>5, <1>6, <1>7, <1>8, <1>9, <1>10, <1>11, <1>12, <1>13, <1>14, <1>15, <1>16, <1>17, <1>18, <1>19, <1>20, <1>21
  DEF PackSteps, RepSteps, OtherSteps

\* The steps of a reader of properties.
LEMMA PropOwn ==
  ASSUME IInv, NEW p \in Procs, Do(p)
  PROVE  PropOK(p)'
<1>. USE DEF repoVars, readVars
<1>0. TypeOK /\ PropOK(p) /\ PropInv /\ LeftInv
  BY DEF IInv
<1>p. DOMAIN pc = Procs /\ DOMAIN want = Procs /\ DOMAIN got = Procs /\ DOMAIN cachedMin = Procs /\ DOMAIN valid = Procs
  BY <1>0 DEF TypeOK
<1>n. cachedMin[p] \in Nat /\ cachedMin[p] <= minUnpacked /\ minUnpacked \in Nat
  BY Bounds
<1>1. CASE \E r \in Revs : ReadProps(p, r)
  <2>1. PICK r \in Revs : ReadProps(p, r)
    BY <1>1
  <2>2. /\ pc'[p] = "props" /\ want'[p] = r /\ valid'[p] = {latest[r]} /\ latest' = latest
        /\ current' = current /\ r \in 0..current
    BY <1>p, <2>1, Bounds DEF ReadProps, Goto, Revs
  <2>. QED  BY <2>2 DEF PropOK
<1>2. CASE ReadNonPacked(p)
  <2>. PICK w : w = want[p]
    OBVIOUS
  <2>1. w \in 0..current /\ latest[w] \in valid[p] /\ w \in Revs /\ w \in Nat
    BY <1>0, <1>2, Bounds DEF ReadNonPacked, PropOK, Revs
  <2>2. /\ want' = want /\ valid' = valid /\ latest' = latest /\ current' = current /\ minUnpacked' = minUnpacked
        /\ crashes' = crashes
    BY <1>2 DEF ReadNonPacked
  <2>3. CASE ~PackedProp(p, w) /\ props[w] # NoFile
    <3>1. pc'[p] = "gotprops" /\ got'[p] = props[w]
      BY <1>p, <1>2, <2>3 DEF ReadNonPacked, GotProps, Goto
    <3>2. props[w] = latest[w] \/ ~Uncut
      <4>1. CASE w < minUnpacked /\ w # 0
        BY <1>0, <2>1, <2>3, <4>1 DEF LeftInv
      <4>2. CASE ~(w < minUnpacked /\ w # 0)
        BY <1>0, <2>1, <4>2 DEF PropInv
      <4>. QED  BY <4>1, <4>2
    <3>3. Uncut' = Uncut
      BY <2>2 DEF Uncut
    <3>. QED  BY <2>1, <2>2, <3>1, <3>2, <3>3 DEF PropOK
  <2>4. CASE ~(~PackedProp(p, w) /\ props[w] # NoFile)
    <3>1. pc'[p] = "ppack"
      BY <1>p, <1>2, <2>4 DEF ReadNonPacked, Goto
    <3>2. w # 0 /\ w < minUnpacked
      <4>1. CASE PackedProp(p, w)
        BY <1>n, <2>1, <4>1 DEF PackedProp
      <4>2. CASE props[w] = NoFile
        <5>1. latest[w] # NoFile
          <6>1. latest[w] \in Values
            BY <1>0, <2>1 DEF TypeOK
          <6>. QED  BY <6>1, ResultsAssumption
        <5>. QED  BY <1>0, <2>1, <4>2, <5>1 DEF PropInv
      <4>. QED  BY <2>4, <4>1, <4>2
    <3>. QED  BY <2>1, <2>2, <3>1, <3>2 DEF PropOK
  <2>. QED  BY <2>3, <2>4
<1>3. CASE DoubleCheckPacked(p)
  <2>1. want[p] \in 0..current /\ latest[want[p]] \in valid[p] /\ want[p] # 0 /\ want[p] < minUnpacked
    BY <1>0, <1>3 DEF DoubleCheckPacked, PropOK
  <2>2. pc'[p] = "pread" /\ want' = want /\ valid' = valid /\ latest' = latest /\ current' = current
    BY <1>p, <1>3 DEF DoubleCheckPacked, Goto
  <2>3. PackedProp(p, want[p])'
    BY <1>p, <1>3, <2>1, <2>2 DEF DoubleCheckPacked, UpdateMinUnpacked, PackedProp
  <2>. QED  BY <2>1, <2>2, <2>3 DEF PropOK
<1>4. CASE ReadPacked(p)
  <2>. PICK w : w = want[p]
    OBVIOUS
  <2>1. w \in 0..current /\ latest[w] \in valid[p] /\ w \in Revs /\ w \in Nat /\ PackedProp(p, w)
    BY <1>0, <1>4, Bounds DEF ReadPacked, PropOK, Revs
  <2>2. w < minUnpacked /\ w # 0
    BY <1>n, <2>1 DEF PackedProp
  <2>3. propPack[w] = latest[w]
    BY <1>0, <2>1, <2>2 DEF PropInv
  <2>4. latest[w] # NoFile
    <3>1. latest[w] \in Values
      BY <1>0, <2>1 DEF TypeOK
    <3>. QED  BY <3>1, ResultsAssumption
  <2>5. pc'[p] = "gotprops" /\ got'[p] = latest[w] /\ valid' = valid
    BY <1>p, <1>4, <2>1, <2>3, <2>4 DEF ReadPacked, GotProps, Goto
  <2>. QED  BY <2>1, <2>5 DEF PropOK
<1>5. CASE PackSteps(p) \/ RepSteps(p) \/ OtherSteps(p)
  BY <1>0, <1>5, NotProps DEF PropOK
<1>. QED  BY <1>1, <1>2, <1>3, <1>4, <1>5 DEF Do, PropSteps

--------------------------------------------------------------------------------
(* The theorems *)

\* The invariant holds of a new repository.
LEMMA InitInv ==
  ASSUME Init
  PROVE  IInv
<1>. USE DEF Init
<1>n. N \in Nat /\ N > 0 /\ MaxRev \in Nat /\ MaxSet \in Nat /\ MaxCrash \in Nat
  BY PackAssumption
<1>z. 0 \in Revs /\ 0 \in Values /\ NoHandle \in Handles /\ 0 \in 0..(MaxRev \div N) + 1
  <2>1. MaxRev \div N \in Nat
    BY <1>n, ShardBounds DEF ShardOf
  <2>. QED  BY <1>n, <2>1 DEF Revs, Values, Handles
<1>1. TypeOK
  <2>1. /\ current \in Revs /\ minUnpacked \in 0..MaxRev + 1 /\ revFiles \subseteq Revs
        /\ sets \in Values /\ crashes \in 0..MaxCrash /\ writeLock \in Procs \cup {NoProc}
    BY <1>n, <1>z
  <2>2. pack \in [Shards -> Seq(Revs) \cup {NoFile}] /\ manifest \in [Shards -> Seq(0..N) \cup {NoFile}]
    OBVIOUS
  <2>3. /\ props \in [Revs -> Values \cup {NoFile}] /\ propPack \in [Revs -> Values \cup {NoFile}]
        /\ latest \in [Revs -> Values]
    BY <1>z
  <2>4. pc \in [Procs -> {"idle"} \cup Packing \cup Reading]
    OBVIOUS
  <2>5. cachedMin \in [Procs -> 0..MaxRev + 1] /\ shard \in [Procs -> 0..(MaxRev \div N) + 1]
    BY <1>n, <1>z
  <2>6. /\ want \in [Procs -> Revs \cup {Txn}] /\ file \in [Procs -> Handles]
        /\ hintRev \in [Procs -> Revs \cup {Txn}]
    BY <1>z
  <2>7. got \in [Procs -> Revs \cup Values \cup {Txn, NoFile, Error, Garbage}]
    OBVIOUS
  <2>8. valid \in [Procs -> SUBSET Values]
    OBVIOUS
  <2>. QED  BY <2>1, <2>2, <2>3, <2>4, <2>5, <2>6, <2>7, <2>8 DEF TypeOK
<1>2. LockInv
  BY DEF LockInv, Packing
<1>3. BoundInv
  <2>1. Aligned(0)
    BY <1>n DEF Aligned
  <2>. QED  BY <2>1 DEF BoundInv
<1>4. FileInv
  <2>1. revFiles \subseteq 0..current /\ minUnpacked..current \subseteq revFiles
    OBVIOUS
  <2>2. ASSUME NEW s \in Shards, s * N + N <= minUnpacked  PROVE FALSE
    <3>1. s \in Nat /\ s * N \in Nat
      BY ShardType, <1>n DEF Shards
    <3>. QED  BY <1>n, <2>2, <3>1
  <2>. QED  BY <2>1, <2>2 DEF FileInv
<1>5. PropInv
  <2>1. ASSUME NEW r \in 0..current  PROVE r = 0 /\ props[r] = latest[r]
    BY <1>z
  <2>2. \A r \in Revs : latest[r] = 0
    OBVIOUS
  <2>. QED  BY <2>1, <2>2 DEF PropInv
<1>6. LeftInv
  BY <1>n DEF LeftInv, Revs
<1>7. ASSUME NEW p \in Procs  PROVE PackOK(p) /\ RepOK(p) /\ PropOK(p)
  <2>1. pc[p] = "idle" /\ file[p] = NoHandle
    OBVIOUS
  <2>. QED  BY <2>1 DEF PackOK, RepOK, PropOK, Opening
<1>. QED  BY <1>1, <1>2, <1>3, <1>4, <1>5, <1>6, <1>7 DEF IInv

\* Every step keeps the invariant.
LEMMA NextInv ==
  ASSUME IInv, [Next]_vars
  PROVE  IInv'
<1>1. ASSUME Next  PROVE IInv'
  <2>1. PICK p \in Procs : Do(p)
    BY <1>1, NextDo
  <2>2. TypeOK'
    BY <2>1, PackTypes, RepTypes, PropTypes, OtherTypes DEF Do
  <2>3. LockInv' /\ BoundInv' /\ FileInv' /\ PropInv' /\ LeftInv'
    BY <2>1, <2>2, LockStep, BoundStep, FileStep, PropStep, LeftStep
  <2>4. \A q \in Procs : PackOK(q)' /\ RepOK(q)' /\ PropOK(q)'
    BY <2>1, PackOther, PackOwn, RepFrame, RepOwn, PropFrame, PropOwn
  <2>. QED  BY <2>2, <2>3, <2>4 DEF IInv
<1>2. ASSUME UNCHANGED vars  PROVE IInv'
  <2>. USE <1>2 DEF vars, repoVars, readVars
  <2>1. TypeOK' /\ LockInv'
    BY DEF IInv, TypeOK, LockInv
  <2>2. BoundInv'
    BY DEF IInv, BoundInv, Aligned
  <2>3. FileInv'
    BY DEF IInv, FileInv, Copied
  <2>4. PropInv'
    BY DEF IInv, PropInv
  <2>5. LeftInv'
    BY DEF IInv, LeftInv, Uncut, RevsOf
  <2>6. ASSUME NEW q \in Procs  PROVE PackOK(q)' /\ RepOK(q)' /\ PropOK(q)'
    <3>1. PackOK(q) /\ RepOK(q) /\ PropOK(q)
      BY DEF IInv
    <3>2. PackOK(q)'
      BY <3>1, PackFrame
    <3>3. RepOK(q)'
      BY <3>1 DEF RepOK, Opening, HintOK, Place, Packed
    <3>4. PropOK(q)'
      BY <3>1 DEF PropOK, PackedProp, Uncut
    <3>. QED  BY <3>2, <3>3, <3>4
  <2>. QED  BY <2>1, <2>2, <2>3, <2>4, <2>5, <2>6 DEF IInv
<1>. QED  BY <1>1, <1>2

\* The invariant of packing and of its readers: what is packed is whole, pack_body is where
\* min-unpacked-rev says, and each reader looks where what it wants is or has been.
THEOREM Invariance == Spec => []IInv
<1>1. Init => IInv
  BY InitInv
<1>2. IInv /\ [Next]_vars => IInv'
  BY NextInv
<1>. QED  BY <1>1, <1>2, PTL DEF Spec

\* Every revision and its latest property list are where min-unpacked-rev sends a process, at
\* every moment of pack_body and after it was cut short anywhere, for any size of shard.
THEOREM NoRevisionLost == Spec => []NothingLost
<1>1. ASSUME IInv  PROVE NothingLost
  <2>0. TypeOK /\ BoundInv /\ FileInv /\ PropInv
    BY <1>1 DEF IInv
  <2>1. ASSUME NEW r \in 0..current  PROVE Findable(r)
    <3>0. r \in Nat /\ r \in Revs /\ Aligned(minUnpacked)
      BY <1>1, <2>0, <2>1, Bounds DEF Revs, BoundInv
    <3>1. IF r < minUnpacked /\ r # 0 THEN propPack[r] = latest[r] ELSE props[r] = latest[r]
      BY <2>0, <2>1 DEF PropInv
    <3>2. ~(r < minUnpacked) => r \in revFiles
      <4>1. ~(r < minUnpacked) => r \in minUnpacked..current
        BY <1>1, <2>1, <3>0, Bounds
      <4>. QED  BY <2>0, <4>1 DEF FileInv
    <3>3. ASSUME r < minUnpacked
          PROVE  /\ pack[ShardOf(r)] # NoFile /\ Len(pack[ShardOf(r)]) = N /\ Len(manifest[ShardOf(r)]) = N
                 /\ pack[ShardOf(r)][manifest[ShardOf(r)][(r % N) + 1] + 1] = r
      <4>. PICK s, i : s = ShardOf(r) /\ i = (r % N) + 1
        OBVIOUS
      <4>1. s \in Shards /\ s \in Nat /\ s * N + N <= minUnpacked /\ s * N \in Nat
        <5>1. s \in Nat /\ s \in Shards
          BY <3>0, ShardBounds, RevType
        <5>2. s * N + N <= minUnpacked
          BY <1>1, <3>0, <3>3, WholeShards, Bounds
        <5>. QED  BY <5>1, <5>2, ShardType
      <4>2. Copied(s, N)
        BY <2>0, <4>1 DEF FileInv
      <4>3. i \in 1..N /\ s * N + i - 1 = r
        <5>1. r % N \in 0 .. N - 1 /\ r = s * N + (r % N)
          BY <3>0, ShardBounds
        <5>. QED  BY <1>1, <4>1, <5>1, Bounds
      <4>4. pack[s] # NoFile /\ Len(pack[s]) = N /\ Len(manifest[s]) = N
        BY <4>2, ResultsAssumption DEF Copied
      <4>5. manifest[s][i] = i - 1 /\ pack[s][i] = r
        BY <4>2, <4>3 DEF Copied
      <4>6. manifest[s][i] + 1 = i
        BY <4>3, <4>5
      <4>. QED  BY <4>4, <4>5, <4>6
    <3>. QED  BY <3>1, <3>2, <3>3 DEF Findable
  <2>. QED  BY <2>0, <2>1 DEF NothingLost
<1>. QED  BY <1>1, Invariance, PTL

\* The pack file and the manifest of a packed shard never change again: what a process cached
\* of them is right for as long as it runs.
THEOREM PackedForGood == Spec => PackedShardsFinal
<1>1. ASSUME IInv, [Next]_vars
      PROVE  [\A s \in Shards : (s + 1) * N <= minUnpacked =>
                pack'[s] = pack[s] /\ manifest'[s] = manifest[s]]_vars
  <2>. SUFFICES ASSUME Next, NEW s \in Shards, (s + 1) * N <= minUnpacked
                PROVE  pack'[s] = pack[s] /\ manifest'[s] = manifest[s]
    BY <1>1
  <2>1. PICK p \in Procs : Do(p)
    BY NextDo
  <2>2. s \in Nat /\ N \in Nat
    BY <1>1, Bounds DEF Shards
  <2>3. (s + 1) * N = s * N + N
    BY <2>2
  <2>. QED  BY <1>1, <2>1, <2>3, PackedKept
<1>. QED  BY <1>1, Invariance, PTL DEF Spec, PackedShardsFinal

\* A reader of committed texts always finds the text it wants: it takes no lock, its copy of
\* min-unpacked-rev may be arbitrarily old, and the one retry of open_pack_or_rev_file is enough.
\* (Texts in transactions are left out: create_rep_state_body may take their file for shard 0's.)
THEOREM ReadersFind ==
  ASSUME "txnrep" \notin Requests
  PROVE  Spec => []ReadsRight
<1>1. IInv => ReadsRight
  BY DEF IInv, RepOK, ReadsRight
<1>. QED  BY <1>1, Invariance, PTL

\* Where no pack_body is cancelled, and until a process dies, a reader of revision properties
\* gets a property list that was the latest at some moment of its read.
THEOREM PropReaders ==
  ASSUME "cancel" \notin Requests
  PROVE  Spec => [](crashes = 0 => PropsFresh)
<1>1. IInv => (crashes = 0 => PropsFresh)
  BY DEF IInv, PropOK, Uncut, PropsFresh
<1>. QED  BY <1>1, Invariance, PTL
================================================================================
