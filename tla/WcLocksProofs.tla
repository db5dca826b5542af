----------------------------- MODULE WcLocksProofs -----------------------------
(***************************************************************************)
(* Proofs about WcLocks, for any processes, directories and levels.        *)
(*                                                                         *)
(* Rows that are not within reach of each other make the walk of           *)
(* wclock_obtain_cb exact: a row that reaches a directory is the first on  *)
(* the way from the directory to the root.  The walk then keeps a new row  *)
(* out of the reach of those above it, and the query of the rows below     *)
(* keeps those out of its own.  That nobody writes over a row makes the    *)
(* rows of a directory and the memory of a lock on it go together, until   *)
(* a row is taken from one who remembers the lock.                         *)
(***************************************************************************)
EXTENDS WcLocks, SequenceTheorems, TLAPS

--------------------------------------------------------------------------------
(* Paths *)

\* The prefixes of a directory are directories, with the length one expects.
LEMMA PrefixType ==
  ASSUME NEW d \in Dirs, NEW k \in 0..Len(d)
  PROVE  /\ Len(d) \in Nat
         /\ Prefix(d, k) \in Dirs
         /\ Len(Prefix(d, k)) = k
         /\ AtOrAbove(Prefix(d, k), d)
<1>1. d \in Seq(STRING) /\ Len(d) \in Nat
  BY WcLocksAssumption
<1>2. \A i \in 1..k : d[i] \in STRING
  BY <1>1
<1>3. Len(Prefix(d, k)) = k
  BY <1>1, <1>2, SubSeqProperties DEF Prefix
<1>4. Prefix(d, k) \in Dirs
  BY WcLocksAssumption
<1>. QED  BY <1>1, <1>3, <1>4 DEF AtOrAbove

\* A directory is at or above itself.
LEMMA AtItself ==
  ASSUME NEW d \in Dirs
  PROVE  AtOrAbove(d, d) /\ Prefix(d, Len(d)) = d /\ Len(d) \in Nat
<1>1. d \in Seq(STRING)
  BY WcLocksAssumption
<1>. QED  BY <1>1, SubSeqFull DEF AtOrAbove, Prefix

\* A prefix of a prefix is a prefix.
LEMMA PrefixOfPrefix ==
  ASSUME NEW d \in Dirs, NEW k \in 0..Len(d), NEW j \in 0..k
  PROVE  Prefix(Prefix(d, k), j) = Prefix(d, j)
<1>1. d \in Seq(STRING) /\ Len(d) \in Nat
  BY WcLocksAssumption
<1>2. DEFINE s == Prefix(Prefix(d, k), j)
             t == Prefix(d, j)
<1>3. /\ Prefix(d, k) \in Seq(STRING) /\ Len(Prefix(d, k)) = k
      /\ \A i \in 1..k : Prefix(d, k)[i] = d[i]
  <2>1. \A i \in 1..k : d[i] \in STRING
    BY <1>1
  <2>. QED  BY <1>1, <2>1, SubSeqProperties DEF Prefix
<1>4. t \in Seq(STRING) /\ Len(t) = j /\ \A i \in 1..j : t[i] = d[i]
  <2>1. \A i \in 1..j : d[i] \in STRING
    BY <1>1
  <2>. QED  BY <1>1, <2>1, SubSeqProperties DEF Prefix
<1>5. s \in Seq(STRING) /\ Len(s) = j /\ \A i \in 1..j : s[i] = d[i]
  <2>1. \A i \in 1..j : Prefix(d, k)[i] \in STRING
    BY <1>1, <1>3
  <2>. QED  BY <1>1, <1>3, <2>1, SubSeqProperties DEF Prefix
<1>. QED  BY <1>4, <1>5, SeqEqual

\* Of two directories on the way to a third, the shorter one is above.
LEMMA OnTheWay ==
  ASSUME NEW a \in Dirs, NEW b \in Dirs, NEW d \in Dirs,
         AtOrAbove(a, d), AtOrAbove(b, d), Len(a) <= Len(b)
  PROVE  AtOrAbove(a, b)
<1>1. Len(a) \in Nat /\ Len(b) \in Nat /\ Len(d) \in Nat
  BY AtItself
<1>2. Len(b) \in 0..Len(d) /\ Len(a) \in 0..Len(b)
  BY <1>1 DEF AtOrAbove
<1>3. Prefix(b, Len(a)) = Prefix(d, Len(a))
  BY <1>2, PrefixOfPrefix DEF AtOrAbove
<1>. QED  BY <1>3 DEF AtOrAbove

--------------------------------------------------------------------------------
(* Reach *)

\* A table of rows.
Tables == [Dirs -> AllLevels \cup {NoRow}]

\* Levels as the comparisons of wclock_obtain_cb use them.
LEMMA LevelType ==
  /\ Infinite = -1 /\ NoRow = -2 /\ AllLevels \subseteq Nat \cup {Infinite}
  /\ \A row \in Tables, a \in Dirs : row[a] # NoRow => row[a] \in Nat \cup {Infinite}
<1>1. Infinite = -1 /\ NoRow = -2 /\ AllLevels \subseteq Nat \cup {Infinite}
  BY WcLocksAssumption DEF Infinite, NoRow, AllLevels
<1>2. ASSUME NEW row \in Tables, NEW a \in Dirs, row[a] # NoRow  PROVE row[a] \in AllLevels
  BY <1>2 DEF Tables
<1>. QED  BY <1>1, <1>2

\* A row reaches its own directory.
LEMMA ReachesItself ==
  ASSUME NEW row \in Tables, NEW d \in Dirs, row[d] # NoRow
  PROVE  Reaches(d, row[d], d)
  BY AtItself, LevelType DEF Reaches

\* What reaches a directory reaches every directory between.
LEMMA ReachesBetween ==
  ASSUME NEW row \in Tables, NEW a \in Dirs, NEW b \in Dirs, NEW d \in Dirs,
         row[a] # NoRow, Reaches(a, row[a], d), AtOrAbove(b, d), Len(a) <= Len(b)
  PROVE  Reaches(a, row[a], b)
<1>1. AtOrAbove(a, b)
  BY OnTheWay DEF Reaches
<1>2. Len(a) \in Nat /\ Len(b) \in Nat /\ Len(d) \in Nat
  BY AtItself
<1>3. Len(b) <= Len(d)
  BY DEF AtOrAbove
<1>. QED  BY <1>1, <1>2, <1>3, LevelType DEF Reaches

\* Where no row is within reach of another, a row that reaches d is the first that the walk from d
\* to the root finds, so the walk may end there.
LEMMA WalkExact ==
  ASSUME NEW row \in Tables, Apart(row), NEW d \in Dirs, NEW a \in Dirs,
         row[a] # NoRow, Reaches(a, row[a], d)
  PROVE  RefusedAbove(row, d)
<1>1. Len(a) \in Nat /\ Len(d) \in Nat /\ Len(a) <= Len(d) /\ Prefix(d, Len(a)) = a
  BY AtItself DEF Reaches, AtOrAbove
<1>2. Len(a) \in HasRow(row, d)
  BY <1>1 DEF HasRow
<1>3. ASSUME NEW j \in HasRow(row, d), j > Len(a)  PROVE FALSE
  <2>1. j \in 0..Len(d) /\ row[Prefix(d, j)] # NoRow
    BY <1>3 DEF HasRow
  <2>2. Prefix(d, j) \in Dirs /\ Len(Prefix(d, j)) = j /\ AtOrAbove(Prefix(d, j), d)
    BY <2>1, PrefixType
  <2>3. Reaches(a, row[a], Prefix(d, j))
    BY <1>1, <1>3, <2>1, <2>2, ReachesBetween
  <2>4. a # Prefix(d, j)
    BY <1>1, <1>3, <2>1, <2>2
  <2>. QED  BY <2>1, <2>2, <2>3, <2>4 DEF Apart
<1>4. \A j \in HasRow(row, d) : j <= Len(a)
  BY <1>1, <1>3 DEF HasRow
<1>. QED  BY <1>1, <1>2, <1>4 DEF RefusedAbove

\* A directory with a row of its own refuses a lock, wherever the other rows are.
LEMMA OwnRowRefuses ==
  ASSUME NEW row \in Tables, NEW d \in Dirs, row[d] # NoRow
  PROVE  RefusedAbove(row, d)
<1>1. Len(d) \in Nat /\ Prefix(d, Len(d)) = d
  BY AtItself
<1>2. Len(d) \in HasRow(row, d) /\ \A j \in HasRow(row, d) : j <= Len(d)
  BY <1>1 DEF HasRow
<1>. QED  BY <1>1, <1>2, ReachesItself DEF RefusedAbove

\* A row that is not refused and comes upon no row leaves the rows apart.
LEMMA RowAdded ==
  ASSUME NEW row \in Tables, Apart(row), NEW d \in Dirs, NEW levels \in AllLevels,
         ~RefusedAbove(row, d),
         \A b \in Dirs : row[b] # NoRow /\ Above(d, b) => ~Reaches(d, levels, b)
  PROVE  Apart([row EXCEPT ![d] = levels])
<1>. DEFINE new == [row EXCEPT ![d] = levels]
<1>1. \A b \in Dirs : new[b] = IF b = d THEN levels ELSE row[b]
  BY DEF Tables
<1>2. SUFFICES ASSUME NEW a \in Dirs, NEW b \in Dirs, a # b, new[a] # NoRow, new[b] # NoRow,
                      Reaches(a, new[a], b)
               PROVE  FALSE
  BY DEF Apart
<1>3. CASE a = d
  <2>1. row[b] # NoRow /\ Reaches(d, levels, b)
    BY <1>1, <1>2, <1>3
  <2>. QED  BY <1>2, <1>3, <2>1 DEF Above, Reaches
<1>4. CASE b = d
  <2>1. row[a] # NoRow /\ Reaches(a, row[a], d)
    BY <1>1, <1>2, <1>4
  <2>. QED  BY <2>1, WalkExact
<1>5. CASE a # d /\ b # d
  BY <1>1, <1>2, <1>5 DEF Apart
<1>. QED  BY <1>3, <1>4, <1>5

\* Taking rows away leaves the others apart.
LEMMA RowsRemoved ==
  ASSUME NEW row \in Tables, NEW new \in Tables, Apart(row),
         \A d \in Dirs : new[d] # NoRow => new[d] = row[d]
  PROVE  Apart(new)
<1>. SUFFICES ASSUME NEW a \in Dirs, NEW b \in Dirs, a # b, new[a] # NoRow, new[b] # NoRow
              PROVE  ~Reaches(a, new[a], b)
  BY DEF Apart
<1>1. new[a] = row[a] /\ new[b] = row[b]
  OBVIOUS
<1>. QED  BY <1>1 DEF Apart

--------------------------------------------------------------------------------
(* The invariant *)

\* The invariant holds of a working copy without locks.
LEMMA InitInv == Init => IInv
<1>. SUFFICES ASSUME Init PROVE IInv
  OBVIOUS
<1>1. TypeOK
  <2>1. crashes \in 0..MaxCrash /\ steals \in 0..MaxSteal
    BY WcLocksAssumption DEF Init
  <2>2. extended \in BOOLEAN
    BY DEF Init
  <2>3. /\ rows \in [Dirs -> AllLevels \cup {NoRow}] /\ owned \in [Procs -> SUBSET LockRecords]
        /\ by \in [Dirs -> Procs \cup {Nobody}] /\ adding \in [Procs -> SUBSET Dirs]
        /\ nodes \subseteq Dirs /\ robbed \subseteq Dirs
    BY WcLocksAssumption DEF Init
  <2>. QED  BY <2>1, <2>2, <2>3 DEF TypeOK
<1>2. ByInv
  BY DEF Init, ByInv
<1>3. Apart(rows)
  BY DEF Init, Apart
<1>4. LocksHeld
  BY DEF Init, LocksHeld
<1>. QED  BY <1>1, <1>2, <1>3, <1>4 DEF IInv

\* A lock that is remembered where nobody was robbed has a row.
LEMMA HeldHasRow ==
  ASSUME IInv, NEW p \in Procs, NEW l \in owned[p], l.path \notin robbed
  PROVE  l.path \in Dirs /\ by[l.path] = p /\ rows[l.path] = l.levels /\ rows[l.path] # NoRow
<1>1. l \in LockRecords
  BY DEF IInv, TypeOK
<1>2. l.path \in Dirs
  BY <1>1 DEF LockRecords
<1>3. by[l.path] = p /\ rows[l.path] = l.levels
  BY DEF IInv, LocksHeld, Held
<1>. QED  BY <1>2, <1>3, WcLocksAssumption DEF IInv, ByInv

\* Taking a lock keeps the invariant, whatever becomes of adding.
LEMMA TakeLockInv ==
  ASSUME IInv, NEW p \in Procs, NEW d \in Dirs, NEW levels \in AllLevels, TakeLock(p, d, levels),
         adding' \in [Procs -> SUBSET Dirs], UNCHANGED <<nodes, robbed, crashes, steals>>
  PROVE  IInv'
<1>1. TypeOK'
  <2>1. [path |-> d, levels |-> levels] \in LockRecords
    BY DEF LockRecords
  <2>. QED  BY <2>1 DEF IInv, TypeOK, TakeLock
<1>2. ByInv'
  <2>1. \A b \in Dirs : rows'[b] = (IF b = d THEN levels ELSE rows[b]) /\ by'[b] = IF b = d THEN p ELSE by[b]
    BY DEF IInv, TypeOK, TakeLock
  <2>2. levels # NoRow /\ p # Nobody
    BY WcLocksAssumption, LevelType
  <2>. QED  BY <2>1, <2>2 DEF IInv, ByInv
<1>3. ASSUME ~extended'  PROVE Apart(rows')
  <2>1. Apart(rows) /\ rows \in Tables /\ RowsBelow(d, levels) = {}
    BY <1>3 DEF IInv, TypeOK, Tables, TakeLock
  <2>2. ASSUME NEW b \in Dirs, rows[b] # NoRow, Above(d, b)
        PROVE  ~Reaches(d, levels, b)
    <3>1. ~(levels = Infinite \/ Len(b) <= Len(d) + levels)
      BY <2>1, <2>2 DEF RowsBelow
    <3>. QED  BY <3>1, AtItself, LevelType DEF Reaches
  <2>. QED  BY <2>1, <2>2, RowAdded DEF TakeLock, MayObtain
<1>4. LocksHeld'
  <2>. SUFFICES ASSUME NEW q \in Procs, NEW l \in owned'[q], l.path \notin robbed
                PROVE  Held(q, l)'
    BY DEF LocksHeld
  <2>1. rows[d] = NoRow
    BY OwnRowRefuses DEF IInv, TypeOK, Tables, TakeLock, MayObtain
  <2>2. rows'[d] = levels /\ by'[d] = p /\ \A b \in Dirs : b # d => rows'[b] = rows[b] /\ by'[b] = by[b]
    BY DEF IInv, TypeOK, TakeLock
  <2>3. CASE l \in owned[q]
    BY <2>1, <2>2, <2>3, HeldHasRow DEF Held
  <2>4. CASE l \notin owned[q]
    <3>1. q = p /\ l = [path |-> d, levels |-> levels]
      BY <2>4 DEF IInv, TypeOK, TakeLock
    <3>2. l.path = d /\ l.levels = levels
      BY <3>1
    <3>. QED  BY <2>2, <3>1, <3>2 DEF Held
  <2>. QED  BY <2>3, <2>4
<1>. QED  BY <1>1, <1>2, <1>3, <1>4 DEF IInv

\* svn_wc__db_wclock_obtain keeps the invariant.
LEMMA ObtainInv ==
  ASSUME IInv, NEW p \in Procs, NEW d \in Dirs, NEW levels \in Levels, Obtain(p, d, levels)
  PROVE  IInv'
<1>1. levels \in AllLevels
  BY DEF AllLevels
<1>2. adding' \in [Procs -> SUBSET Dirs]
  BY DEF IInv, TypeOK, Obtain
<1>. QED  BY <1>1, <1>2, TakeLockInv DEF Obtain

\* svn cleanup keeps the invariant.
LEMMA StealInv ==
  ASSUME IInv, NEW p \in Procs, NEW d \in Dirs, Steal(p, d)
  PROVE  IInv'
<1>1. TypeOK'
  <2>1. [path |-> d, levels |-> Infinite] \in LockRecords
    BY DEF LockRecords, AllLevels
  <2>2. owned' \in [Procs -> SUBSET LockRecords]
    BY <2>1 DEF IInv, TypeOK, Steal
  <2>3. steals' \in 0..MaxSteal /\ crashes' \in 0..MaxCrash /\ extended' \in BOOLEAN
    BY WcLocksAssumption DEF IInv, TypeOK, Steal
  <2>4. rows' \in [Dirs -> AllLevels \cup {NoRow}] /\ by' \in [Dirs -> Procs \cup {Nobody}]
    BY DEF IInv, TypeOK, Steal, Stolen, AllLevels
  <2>5. nodes' \subseteq Dirs /\ robbed' \subseteq Dirs /\ adding' \in [Procs -> SUBSET Dirs]
    BY DEF IInv, TypeOK, Steal, Remembered
  <2>. QED  BY <2>2, <2>3, <2>4, <2>5 DEF TypeOK
<1>2. ByInv'
  BY WcLocksAssumption, LevelType, AtItself DEF IInv, TypeOK, ByInv, Steal, Stolen
<1>3. ASSUME ~extended'  PROVE Apart(rows')
  <2>1. Apart(rows) /\ rows \in Tables /\ Stolen(d) \in Tables
    BY <1>3 DEF IInv, TypeOK, Tables, Steal, Stolen
  <2>2. Apart(Stolen(d))
    BY <2>1, RowsRemoved DEF Stolen
  <2>3. \A b \in Dirs : Stolen(d)[b] # NoRow => ~Above(d, b)
    BY DEF Stolen, Above
  <2>4. Infinite \in AllLevels
    BY DEF AllLevels
  <2>. QED  BY <2>1, <2>2, <2>3, <2>4, RowAdded DEF Steal
<1>4. LocksHeld'
  <2>. SUFFICES ASSUME NEW q \in Procs, NEW l \in owned'[q], l.path \notin robbed'
                PROVE  Held(q, l)'
    BY DEF LocksHeld
  <2>1. rows'[d] = Infinite /\ by'[d] = p
    BY DEF IInv, TypeOK, Steal, Stolen
  <2>2. CASE l \in owned[q]
    <3>1. l.path \notin robbed
      BY DEF Steal
    <3>2. l.path \in Dirs /\ by[l.path] = q /\ rows[l.path] = l.levels
      BY <2>2, <3>1, HeldHasRow
    <3>3. ~AtOrAbove(d, l.path)
      BY <2>2, <3>2 DEF Steal, Remembered, OwnsExactly
    <3>4. rows'[l.path] = rows[l.path] /\ by'[l.path] = by[l.path]
      BY <3>2, <3>3, AtItself DEF Steal, Stolen
    <3>. QED  BY <3>2, <3>4 DEF Held
  <2>3. CASE l \notin owned[q]
    <3>1. q = p /\ l = [path |-> d, levels |-> Infinite]
      BY <2>3 DEF IInv, TypeOK, Steal
    <3>2. l.path = d /\ l.levels = Infinite
      BY <3>1
    <3>. QED  BY <2>1, <3>1, <3>2 DEF Held
  <2>. QED  BY <2>2, <2>3
<1>. QED  BY <1>1, <1>2, <1>3, <1>4 DEF IInv

\* Giving a lock back keeps the invariant: nobody else remembers a lock on that directory, unless
\* one was robbed there.
LEMMA ReleaseInv ==
  ASSUME IInv, NEW p \in Procs, NEW l \in owned[p], Release(p, l)
  PROVE  IInv'
<1>1. TypeOK'
  BY DEF IInv, TypeOK, Release, Forgotten
<1>2. ByInv'
  BY DEF IInv, TypeOK, ByInv, Release
<1>3. ASSUME ~extended'  PROVE Apart(rows')
  <2>1. Apart(rows) /\ rows \in Tables /\ rows' \in Tables
    BY <1>1, <1>3 DEF IInv, TypeOK, Tables, Release
  <2>2. \A d \in Dirs : rows'[d] # NoRow => rows'[d] = rows[d]
    BY DEF IInv, TypeOK, Release
  <2>. QED  BY <2>1, <2>2, RowsRemoved
<1>4. LocksHeld'
  <2>. SUFFICES ASSUME NEW q \in Procs, NEW k \in owned'[q], k.path \notin robbed'
                PROVE  Held(q, k)'
    BY DEF LocksHeld
  <2>1. k \in owned[q] /\ (q = p => k # l)
    BY DEF IInv, TypeOK, Release
  <2>2. k.path \notin robbed
    BY DEF Release, Forgotten
  <2>3. k.path \in Dirs /\ by[k.path] = q /\ rows[k.path] = k.levels
    BY <2>1, <2>2, HeldHasRow
  <2>4. k.path # l.path
    <3>. SUFFICES ASSUME k.path = l.path PROVE FALSE
      OBVIOUS
    <3>1. by[l.path] = p /\ rows[l.path] = l.levels
      BY <2>2, HeldHasRow
    <3>2. q = p /\ k.levels = l.levels
      BY <2>3, <3>1
    <3>3. k \in LockRecords /\ l \in LockRecords
      BY <2>1 DEF IInv, TypeOK
    <3>4. k = l
      BY <3>2, <3>3 DEF LockRecords
    <3>. QED  BY <2>1, <3>2, <3>4
  <2>5. rows'[k.path] = rows[k.path] /\ by'[k.path] = by[k.path]
    BY <2>3, <2>4 DEF IInv, TypeOK, Release
  <2>. QED  BY <2>3, <2>5 DEF Held
<1>. QED  BY <1>1, <1>2, <1>3, <1>4 DEF IInv

\* Adding a directory keeps the invariant.
LEMMA AddInv ==
  ASSUME IInv, NEW p \in Procs, NEW d \in Dirs, Add(p, d)
  PROVE  IInv'
<1>1. TypeOK'
  BY DEF IInv, TypeOK, Add
<1>. QED  BY <1>1 DEF IInv, ByInv, LocksHeld, Held, Add, Apart

\* Locking it, too.
LEMMA LockAddedInv ==
  ASSUME IInv, NEW p \in Procs, NEW d \in Dirs, LockAdded(p, d)
  PROVE  IInv'
<1>1. adding' \in [Procs -> SUBSET Dirs] /\ 0 \in AllLevels
  BY DEF IInv, TypeOK, LockAdded, AllLevels
<1>2. CASE TakeLock(p, d, 0)
  BY <1>1, <1>2, TakeLockInv DEF LockAdded
<1>3. CASE UNCHANGED <<rows, owned, by, extended>>
  <2>1. TypeOK'
    BY <1>1, <1>3 DEF IInv, TypeOK, LockAdded
  <2>. QED  BY <1>3, <2>1 DEF IInv, ByInv, LocksHeld, Held, LockAdded, Apart
<1>. QED  BY <1>2, <1>3 DEF LockAdded

\* Reverting or deleting what was added keeps the invariant.
LEMMA RemoveInv ==
  ASSUME IInv, NEW p \in Procs, NEW d \in Dirs, Remove(p, d)
  PROVE  IInv'
<1>1. TypeOK'
  <2>1. rows' \in [Dirs -> AllLevels \cup {NoRow}] /\ by' \in [Dirs -> Procs \cup {Nobody}]
    BY DEF IInv, TypeOK, Remove
  <2>2. nodes' \subseteq Dirs /\ robbed' \subseteq Dirs
    BY DEF IInv, TypeOK, Remove, Remembered, Orphans
  <2>. QED  BY <2>1, <2>2 DEF IInv, TypeOK, Remove
<1>2. ByInv'
  BY DEF IInv, TypeOK, ByInv, Remove
<1>3. ASSUME ~extended'  PROVE Apart(rows')
  <2>1. Apart(rows) /\ rows \in Tables /\ rows' \in Tables
    BY <1>1, <1>3 DEF IInv, TypeOK, Tables, Remove
  <2>2. \A b \in Dirs : rows'[b] # NoRow => rows'[b] = rows[b]
    BY DEF Remove
  <2>. QED  BY <2>1, <2>2, RowsRemoved
<1>4. LocksHeld'
  <2>. SUFFICES ASSUME NEW q \in Procs, NEW l \in owned[q], l.path \notin robbed'
                PROVE  Held(q, l)'
    BY DEF LocksHeld, Remove
  <2>1. l.path \notin robbed
    BY DEF Remove
  <2>2. l.path \in Dirs /\ by[l.path] = q /\ rows[l.path] = l.levels
    BY <2>1, HeldHasRow
  <2>3. l.path \notin Orphans(d)
    BY DEF Remove, Remembered, OwnsExactly
  <2>4. rows'[l.path] = rows[l.path] /\ by'[l.path] = by[l.path]
    BY <2>2, <2>3 DEF Remove
  <2>. QED  BY <2>2, <2>4 DEF Held
<1>. QED  BY <1>1, <1>2, <1>3, <1>4 DEF IInv

\* A crash keeps the invariant.
LEMMA CrashInv ==
  ASSUME IInv, NEW p \in Procs, Crash(p)
  PROVE  IInv'
<1>1. TypeOK'
  BY WcLocksAssumption DEF IInv, TypeOK, Crash, Forgotten
<1>2. LocksHeld'
  <2>. SUFFICES ASSUME NEW q \in Procs, NEW l \in owned'[q], l.path \notin robbed'
                PROVE  Held(q, l)'
    BY DEF LocksHeld
  <2>1. l \in owned[q]
    BY DEF IInv, TypeOK, Crash
  <2>2. l.path \notin robbed
    BY DEF Crash, Forgotten
  <2>. QED  BY <2>1, <2>2 DEF IInv, LocksHeld, Held, Crash
<1>. QED  BY <1>1, <1>2 DEF IInv, ByInv, Crash, Apart

\* The rows of WC_LOCK stay out of the reach of each other until a process locks a directory above
\* one of its own.
THEOREM Invariance == Spec => []IInv
<1>1. Init => IInv
  BY InitInv
<1>2. IInv /\ [Next]_vars => IInv'
  <2>. SUFFICES ASSUME IInv, [Next]_vars PROVE IInv'
    OBVIOUS
  <2>1. CASE Next
    BY <2>1, ObtainInv, StealInv, ReleaseInv, AddInv, LockAddedInv, RemoveInv, CrashInv DEF Next
  <2>2. CASE UNCHANGED vars
    BY <2>2 DEF vars, IInv, TypeOK, ByInv, LocksHeld, Held, Apart
  <2>. QED  BY <2>1, <2>2
<1>. QED  BY <1>1, <1>2, PTL DEF Spec

--------------------------------------------------------------------------------
(* What follows *)

\* wclock_obtain_cb may end its walk at the first row it finds.
THEOREM WalkMayStop == Spec => []NoneHigher
<1>1. IInv => NoneHigher
  BY WalkExact DEF IInv, TypeOK, Tables, NoneHigher, IsLocked
<1>. QED  BY <1>1, Invariance, PTL

\* No directory is within reach of locks of two processes.
THEOREM MutualExclusion == Spec => []Exclusive
<1>1. IInv => Exclusive
  <2>. SUFFICES ASSUME IInv, ~extended, NEW p \in Procs, NEW q \in Procs, p # q,
                       NEW l \in owned[p], NEW k \in owned[q], Held(p, l), Held(q, k),
                       NEW d \in Dirs, Reaches(l.path, l.levels, d), Reaches(k.path, k.levels, d)
                PROVE  FALSE
    BY DEF Exclusive
  <2>3. l \in LockRecords /\ k \in LockRecords /\ rows \in Tables
    BY DEF IInv, TypeOK, Tables
  <2>4. /\ l.path \in Dirs /\ k.path \in Dirs
        /\ rows[l.path] = l.levels /\ rows[k.path] = k.levels
        /\ by[l.path] = p /\ by[k.path] = q
    BY <2>3 DEF Held, LockRecords
  <2>5. rows[l.path] # NoRow /\ rows[k.path] # NoRow /\ l.path # k.path
    BY <2>4, WcLocksAssumption DEF IInv, ByInv
  <2>6. Len(l.path) \in Nat /\ Len(k.path) \in Nat
    BY <2>4, AtItself
  <2>7. CASE Len(l.path) <= Len(k.path)
    <3>1. Reaches(l.path, rows[l.path], k.path)
      BY <2>3, <2>4, <2>5, <2>7, ReachesBetween DEF Reaches
    <3>. QED  BY <2>4, <2>5, <3>1 DEF IInv, Apart
  <2>8. CASE Len(k.path) <= Len(l.path)
    <3>1. Reaches(k.path, rows[k.path], l.path)
      BY <2>3, <2>4, <2>5, <2>8, ReachesBetween DEF Reaches
    <3>. QED  BY <2>4, <2>5, <3>1 DEF IInv, Apart
  <2>. QED  BY <2>6, <2>7, <2>8
<1>. QED  BY <1>1, Invariance, PTL

\* What a process remembers is in the table, but where `svn cleanup', a revert or a delete has taken
\* the row of one who remembers the lock.
THEOREM MemoryTrue == Spec => []LocksHeld
<1>1. IInv => LocksHeld
  BY DEF IInv
<1>. QED  BY <1>1, Invariance, PTL
================================================================================
