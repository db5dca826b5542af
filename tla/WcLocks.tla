-------------------------------- MODULE WcLocks --------------------------------
(***************************************************************************)
(* The write locks of a working copy (wc_db.c).                            *)
(*                                                                         *)
(* A lock is a row in wc.db for a directory, with the number of levels it  *)
(* reaches down, and an entry in the memory of the process that took it.   *)
(* The row does not say whose it is.  Subversion's own commands lock whole *)
(* trees; the old access batons lock single directories, and one process   *)
(* may do both.  `svn cleanup' steals the locks of whoever had them.  A    *)
(* directory that was added goes again when it is reverted or deleted, and *)
(* the row of a lock on it goes with it, whoever remembers the lock.       *)
(*                                                                         *)
(* A path is the sequence of its names, the root << >>.  The directories   *)
(* of BASE stay: that an update removes some of them is left out.          *)
(***************************************************************************)
EXTENDS Integers, Sequences

CONSTANTS
  Procs,    \* processes with a database handle each
  Dirs,     \* the directories, versioned or not, prefix-closed
  Base,     \* those of them that are in BASE, prefix-closed
  Levels,   \* the levels that are asked for
  MaxCrash, \* bound: processes that die with locks
  MaxSteal, \* bound: runs of `svn cleanup' while a process has locks
  Nobody    \* no process

Infinite == -1
NoRow    == -2

Prefix(d, k)    == SubSeq(d, 1, k)
AtOrAbove(a, d) == Len(a) <= Len(d) /\ Prefix(d, Len(a)) = a
Above(a, d)     == AtOrAbove(a, d) /\ a # d

ASSUME WcLocksAssumption ==
  /\ Levels \subseteq Nat \cup {Infinite} /\ MaxCrash \in Nat /\ MaxSteal \in Nat /\ Nobody \notin Procs
  /\ Dirs \subseteq Seq(STRING)
  /\ << >> \in Dirs /\ \A d \in Dirs : \A k \in 0..Len(d) : Prefix(d, k) \in Dirs
  /\ Base \subseteq Dirs
  /\ << >> \in Base /\ \A d \in Base : \A k \in 0..Len(d) : Prefix(d, k) \in Base

VARIABLES
  nodes,    \* the directories in the NODES table
  rows,     \* the WC_LOCK table: directory -> levels, or NoRow
  owned,    \* p -> owned_locks, the [path, levels] it has taken
  adding,   \* p -> the directory it has just added and not yet locked, if any
  by,       \* who wrote the row, which the table does not say: for the properties only
  extended, \* a process has taken a lock above one of its own: for the properties only
  robbed,   \* the directories whose row was taken from one who remembered the lock, as long as
            \* anybody remembers a lock on them: likewise
  crashes,  \* processes that died so far
  steals    \* runs of `svn cleanup' so far while a process had locks

vars == <<nodes, rows, owned, adding, by, extended, robbed, crashes, steals>>

\* svn_wc_add4 and `svn cleanup' ask for these levels by themselves.
AllLevels == Levels \cup {0, Infinite}

LockRecords == [path : Dirs, levels : AllLevels]

\* The types of the WC_LOCK table and of the locks a process remembers: the depths wclock_obtain_cb
\* writes are depths relative to the locked directory.
TypeOK ==
  /\ nodes \subseteq Dirs /\ robbed \subseteq Dirs
  /\ rows \in [Dirs -> AllLevels \cup {NoRow}]
  /\ owned \in [Procs -> SUBSET LockRecords] /\ adding \in [Procs -> SUBSET Dirs]
  /\ by \in [Dirs -> Procs \cup {Nobody}] /\ extended \in BOOLEAN /\ crashes \in 0..MaxCrash /\ steals \in 0..MaxSteal

Init ==
  /\ nodes = Base
  /\ rows = [d \in Dirs |-> NoRow]
  /\ owned = [p \in Procs |-> {}] /\ adding = [p \in Procs |-> {}]
  /\ by = [d \in Dirs |-> Nobody] /\ extended = FALSE /\ robbed = {} /\ crashes = 0 /\ steals = 0

--------------------------------------------------------------------------------

\* A lock on a with these levels holds for d.
Reaches(a, levels, d) == AtOrAbove(a, d) /\ (levels = Infinite \/ levels + Len(a) >= Len(d))

\* wclock_owns_lock, exact or not.
OwnsExactly(p, d) == \E l \in owned[p] : l.path = d
Owns(p, d)        == \E l \in owned[p] : Reaches(l.path, l.levels, d)

\* is_wclocked
IsLocked(d) == \E a \in Dirs : rows[a] # NoRow /\ Reaches(a, rows[a], d)

\* Bugs to compare with: the last level is not looked at; nothing below is.
RowsBelow_OffByOne(d, levels) ==
  {b \in Dirs : rows[b] # NoRow /\ Above(d, b) /\ (levels = Infinite \/ Len(b) < Len(d) + levels)}
RowsBelow_Unchecked(d, levels) == {}

\* The rows below d that a lock on d of these levels comes upon.
RowsBelow(d, levels) ==
  {b \in Dirs : rows[b] # NoRow /\ Above(d, b) /\ (levels = Infinite \/ Len(b) <= Len(d) + levels)}

\* The walk of wclock_obtain_cb from d to the root ends at the first row it finds, which refuses
\* the lock or not.
HasRow(row, d) == {k \in 0..Len(d) : row[Prefix(d, k)] # NoRow}
RefusedAbove(row, d) ==
  \E k \in HasRow(row, d) :
    /\ \A j \in HasRow(row, d) : j <= k
    /\ Reaches(Prefix(d, k), row[Prefix(d, k)], d)

\* svn_wc__db_wclock_obtain: refused if the process has the lock already, if another has one
\* within reach below, or if there is one above.
MayObtain(p, d, levels) ==
  /\ d \in nodes /\ ~Owns(p, d)
  /\ \A b \in RowsBelow(d, levels) : OwnsExactly(p, b)
  /\ ~RefusedAbove(rows, d)

TakeLock(p, d, levels) ==
  /\ MayObtain(p, d, levels)
  /\ rows' = [rows EXCEPT ![d] = levels]
  /\ owned' = [owned EXCEPT ![p] = @ \cup {[path |-> d, levels |-> levels]}]
  /\ by' = [by EXCEPT ![d] = p]
  /\ extended' = (extended \/ RowsBelow(d, levels) # {})

Obtain(p, d, levels) ==
  /\ adding[p] = {}
  /\ TakeLock(p, d, levels)
  /\ UNCHANGED <<nodes, adding, robbed, crashes, steals>>

\* The directories in ds on which a process remembers a lock.
Remembered(ds) == {d \in ds : \E q \in Procs : OwnsExactly(q, d)}

\* A process has forgotten a lock, or all.
Forgotten == robbed' = {d \in robbed : \E q \in Procs : \E l \in owned'[q] : l.path = d}

\* The same with steal_lock, as `svn cleanup' calls it on a database handle of its own: the rows at
\* and below d go, whoever has them; a lock above still refuses.
Stolen(d) == [b \in Dirs |-> IF AtOrAbove(d, b) THEN NoRow ELSE rows[b]]
Steal(p, d) ==
  /\ owned[p] = {} /\ d \in nodes
  /\ IF \A q \in Procs : owned[q] = {}
     THEN UNCHANGED steals
     ELSE steals < MaxSteal /\ steals' = steals + 1
  /\ ~RefusedAbove(Stolen(d), d)
  /\ rows' = [Stolen(d) EXCEPT ![d] = Infinite]
  /\ owned' = [owned EXCEPT ![p] = {[path |-> d, levels |-> Infinite]}]
  /\ by' = [b \in Dirs |-> IF b = d THEN p ELSE IF AtOrAbove(d, b) THEN Nobody ELSE by[b]]
  /\ robbed' = robbed \cup Remembered({b \in Dirs : AtOrAbove(d, b)})
  /\ UNCHANGED <<nodes, adding, extended, crashes>>

\* A bug to compare with: the rows below go as well.
Release_Tree(p, l) ==
  /\ l \in owned[p] /\ adding[p] = {}
  /\ owned' = [owned EXCEPT ![p] = @ \ {l}]
  /\ rows' = [d \in Dirs |-> IF AtOrAbove(l.path, d) THEN NoRow ELSE rows[d]]
  /\ by' = [d \in Dirs |-> IF AtOrAbove(l.path, d) THEN Nobody ELSE by[d]]
  /\ Forgotten
  /\ UNCHANGED <<nodes, adding, extended, crashes, steals>>

\* svn_wc__db_wclock_release: the entry goes, and the row of that directory, whose ever it is now.
Release(p, l) ==
  /\ l \in owned[p] /\ adding[p] = {}
  /\ owned' = [owned EXCEPT ![p] = @ \ {l}]
  /\ rows' = [rows EXCEPT ![l.path] = NoRow]
  /\ by' = [by EXCEPT ![l.path] = Nobody]
  /\ Forgotten
  /\ UNCHANGED <<nodes, adding, extended, crashes, steals>>

\* The directory whose lock svn_wc__write_check looks for, in memory, before d changes.
Parent(d) == Prefix(d, Len(d) - 1)
ParentOrRoot(d) == IF d = << >> THEN d ELSE Parent(d)

\* svn_wc_add4 of a directory.  The node is added in one transaction; the new directory is locked
\* in another, unless the lock of its parent reaches it, and another process may be first.
Add(p, d) ==
  /\ adding[p] = {}
  /\ d \notin nodes /\ Parent(d) \in nodes /\ Owns(p, Parent(d))
  /\ nodes' = nodes \cup {d}
  /\ adding' = [adding EXCEPT ![p] = IF Owns(p, d) THEN {} ELSE {d}]
  /\ UNCHANGED <<rows, owned, by, extended, robbed, crashes, steals>>

LockAdded(p, d) ==
  /\ d \in adding[p]
  /\ adding' = [adding EXCEPT ![p] = {}]
  /\ TakeLock(p, d, 0) \/ (~MayObtain(p, d, 0) /\ UNCHANGED <<rows, owned, by, extended>>)
  /\ UNCHANGED <<nodes, robbed, crashes, steals>>

\* op_revert_txn, op_revert_recursive_txn, op_delete_txn: what was added at and below d is no longer
\* versioned, and the rows of the locks on it go, whoever remembers them.  That a deleted directory
\* of BASE takes no additions until it is reverted is left out.
Orphans(d) == {b \in nodes \ Base : AtOrAbove(d, b)}
Remove(p, d) ==
  /\ adding[p] = {}
  /\ d \in nodes /\ Owns(p, ParentOrRoot(d))
  /\ nodes' = nodes \ Orphans(d)
  /\ rows' = [b \in Dirs |-> IF b \in Orphans(d) THEN NoRow ELSE rows[b]]
  /\ by' = [b \in Dirs |-> IF b \in Orphans(d) THEN Nobody ELSE by[b]]
  /\ robbed' = robbed \cup Remembered(Orphans(d))
  /\ UNCHANGED <<owned, adding, extended, crashes, steals>>

\* A process dies, or ends with work left in the queue, and leaves its rows.
Crash(p) ==
  /\ owned[p] # {} /\ crashes < MaxCrash
  /\ crashes' = crashes + 1
  /\ owned' = [owned EXCEPT ![p] = {}] /\ adding' = [adding EXCEPT ![p] = {}]
  /\ Forgotten
  /\ UNCHANGED <<nodes, rows, by, extended, steals>>

Next ==
  \E p \in Procs :
    \/ \E d \in Dirs, levels \in Levels : Obtain(p, d, levels)
    \/ \E d \in Dirs : Steal(p, d)
    \/ \E l \in owned[p] : Release(p, l)
    \/ \E d \in Dirs : Add(p, d) \/ LockAdded(p, d) \/ Remove(p, d)
    \/ Crash(p)

Spec == Init /\ [][Next]_vars

--------------------------------------------------------------------------------

\* The lock that p remembers is in the table, and the row is its own.
Held(p, l) == by[l.path] = p /\ rows[l.path] = l.levels

\* No directory is within reach of the locks of two processes that both have their row in place
\* (svn_wc__db_wclock_obtain), if no process took a lock above one of its own.
Exclusive ==
  ~extended => \A p, q \in Procs : p # q =>
    \A l \in owned[p], k \in owned[q] : Held(p, l) /\ Held(q, k) =>
      \A d \in Dirs : ~(Reaches(l.path, l.levels, d) /\ Reaches(k.path, k.levels, d))

\* The walk upwards may stop at the first row (wclock_obtain_cb: "There can't be interesting locks on
\* higher nodes"): when that row does not reach the directory, none above it does.
NoneHigher == TypeOK /\ (~extended => \A d \in Dirs : IsLocked(d) => RefusedAbove(rows, d))

\* What a process remembers (owned_locks) is in the table, whatever the others take, give back, add
\* and remove, and whatever locks they extend; but for the directories whose row `svn cleanup', a
\* revert or a delete has taken from one who remembered it.  Until nobody remembers a lock there,
\* svn_wc__db_wclock_release, which deletes by path alone, may take the row of the next one, too.
LocksHeld == \A p \in Procs : \A l \in owned[p] : l.path \in robbed \/ Held(p, l)

--------------------------------------------------------------------------------
(* The inductive invariant of WcLocksProofs *)

\* Somebody has written every row there is.
ByInv == \A d \in Dirs : by[d] = Nobody <=> rows[d] = NoRow

\* No row is within reach of another.
Apart(row) ==
  \A a, b \in Dirs : a # b /\ row[a] # NoRow /\ row[b] # NoRow => ~Reaches(a, row[a], b)

IInv == TypeOK /\ ByInv /\ LocksHeld /\ (~extended => Apart(rows))
================================================================================
