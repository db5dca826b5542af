---------------------------- MODULE FsfsCommitProofs ---------------------------
(***************************************************************************)
(* Proofs about FsfsCommit, for any number of processes, paths,            *)
(* transactions, revisions and crashes.                                    *)
(*                                                                         *)
(* The argument is one inductive invariant, IInv.  Every action preserves  *)
(* it (one lemma per action, one step per part of the invariant); it       *)
(* implies the safety properties the model checker checks on small         *)
(* instances; and it shows that every step either leaves the history of    *)
(* revisions as it is or appends one revision to it, which is RevisionLog. *)
(***************************************************************************)
EXTENDS FsfsCommit, TLAPS

USE BoundsAssumption, SentinelAssumption
    DEF Txns, Inodes, Revs, dbVars, txnVars, keyVars, mergeVars, auxVars, procVars

--------------------------------------------------------------------------------
(* Types of the values the actions assign                                  *)

\* The empty tree is a tree.
LEMMA EmptyTreeType == EmptyTree \in Trees
  BY DEF EmptyTree, Trees, Entries

\* A revision up to db/current has a tree.
LEMMA TreeType ==
  ASSUME IInv, NEW r \in Revs, r <= current
  PROVE  Tree(r) \in Trees
<1>1. r \in 0..current
  BY DEF IInv, TypeOK
<1>2. revFile[r] # NoFile
  BY <1>1 DEF IInv, FileInv
<1>. QED  BY <1>2 DEF IInv, FileInv, Tree

\* The local variables of a process that returns to its caller.
LEMMA ReturnType ==
  ASSUME TypeOK, NEW p \in Procs, Return(p)
  PROVE  /\ pc' \in [Procs -> Stages]
         /\ txn' \in [Procs -> Inodes]
         /\ rev' \in [Procs -> Revs]
         /\ anc' \in [Procs -> Revs]
         /\ target' \in [Procs -> Trees]
         /\ todo' \in [Procs -> SUBSET Paths]
<1>1. txn' \in [Procs -> Inodes]
  BY DEF TypeOK, Return
<1>2. rev' \in [Procs -> Revs]
  BY DEF TypeOK, Return
<1>3. anc' \in [Procs -> Revs]
  BY DEF TypeOK, Return
<1>4. pc' \in [Procs -> Stages] /\ target' \in [Procs -> Trees] /\ todo' \in [Procs -> SUBSET Paths]
  BY EmptyTreeType DEF TypeOK, Return, Stages
<1>. QED  BY <1>1, <1>2, <1>3, <1>4

--------------------------------------------------------------------------------
(* Steps that end in Return                                                *)

\* The process returns, gives up locks it holds, and removes at most a
\* transaction directory and a prototype revision file; with the write lock
\* it may also have published the next revision.
GivesUp(p) ==
  /\ Return(p)
  /\ UNCHANGED <<revFile, revProps, inode, pred, txnCurrent, tried, origin>>
  /\ \/ current' = current
     \/ /\ writeLock = p
        /\ current' = current + 1
        /\ current' \in Revs
        /\ revFile[current'] # NoFile
        /\ revProps[current'] # NoFile
  /\ writeLock' = writeLock \/ (writeLock = p /\ writeLock' = NoProc)
  /\ txnCurrentLock' = txnCurrentLock \/ (txnCurrentLock = p /\ txnCurrentLock' = NoProc)
  /\ protoLock' \in [Txns -> Procs \cup {NoProc}]
  /\ \A t \in Txns : protoLock[t] # p => protoLock'[t] = protoLock[t]
  /\ txnDir' \subseteq txnDir
  /\ protoRev' \subseteq protoRev
  /\ txnBase' \in [Txns -> Revs]
  /\ \A t \in Txns : txnBase'[t] <= current
  /\ txnTree' \in [Txns -> Trees]
  /\ crashes' \in 0..MaxCrash

\* Giving up preserves the invariant: all it says of the other processes is
\* about locks, keys and files that the one that returns does not touch.
LEMMA GivesUpInv ==
  ASSUME IInv, NEW p \in Procs, GivesUp(p)
  PROVE  IInv'
<1>1. TypeOK'
  <2>1. current' \in Revs
    BY DEF IInv, GivesUp, TypeOK
  <2>. QED  BY <2>1, ReturnType DEF IInv, GivesUp, TypeOK
<1>2. LockInv'
  BY DEF IInv, GivesUp, TypeOK, LockInv, Return, Locked, CommitLocked
<1>3. BaseInv'
  <2>1. current \in Nat /\ (current' = current \/ current' = current + 1)
    BY DEF IInv, GivesUp, TypeOK
  <2>2. ASSUME NEW q \in Procs
        PROVE  /\ rev'[q] \in Nat /\ rev'[q] <= current
               /\ anc'[q] \in Nat /\ anc'[q] <= current
    BY <2>1 DEF IInv, GivesUp, TypeOK, BaseInv, Return
  <2>3. ASSUME NEW t \in Txns  PROVE  txnBase'[t] \in Nat /\ txnBase'[t] <= current
    BY DEF GivesUp
  <2>. QED  BY <2>1, <2>2, <2>3 DEF BaseInv
<1>4. KeyInv'
  <2>1. ASSUME NEW q \in Procs, q # p
        PROVE  pc'[q] = pc[q] /\ txn'[q] = txn[q]
    BY <2>1 DEF IInv, GivesUp, TypeOK, Return
  <2>2. pc'[p] = "idle" /\ txn'[p] = 0
    BY DEF IInv, GivesUp, TypeOK, Return
  <2>3. txnCurrent \in Nat \ {0}
    BY DEF IInv, TypeOK
  <2>4. /\ \A t \in txnDir' \cup protoRev' : t < txnCurrent
        /\ \A r \in Revs : revFile[r] \in Inodes => revFile[r] < txnCurrent
    BY DEF IInv, GivesUp, KeyInv
  <2>5. ASSUME NEW q \in Procs, q # p
        PROVE  /\ pc[q] = "key" => txn[q] = txnCurrent /\ txnCurrentLock' = q
               /\ pc[q] # "key" => txn[q] < txnCurrent
               /\ pc[q] \notin {"idle", "recover"} => txn[q] \in Txns
    <3>1. NoProc # q /\ (txnCurrentLock = q => txnCurrentLock' = q)
      BY <2>5 DEF GivesUp
    <3>. QED  BY <3>1 DEF IInv, KeyInv
  <2>6. ASSUME NEW q \in Procs, q # p, pc[q] = "mkdir"
        PROVE  /\ txn[q] \notin txnDir' \cup protoRev'
               /\ \A r \in Revs : revFile[r] # txn[q]
               /\ \A v \in Procs \ {q} : txn'[v] # txn[q]
    <3>1. txn[q] \in Txns /\ txn[q] \notin txnDir \cup protoRev /\ (\A r \in Revs : revFile[r] # txn[q])
          /\ \A v \in Procs \ {q} : txn[v] # txn[q]
      BY <2>6 DEF IInv, KeyInv
    <3>2. txn[q] # 0
      BY <3>1
    <3>3. txnDir' \subseteq txnDir /\ protoRev' \subseteq protoRev
      BY DEF GivesUp
    <3>. QED  BY <2>1, <2>2, <3>1, <3>2, <3>3
  <2>7. UNCHANGED <<revFile, txnCurrent>>
    BY DEF GivesUp
  <2>. QED  BY <2>1, <2>2, <2>3, <2>4, <2>5, <2>6, <2>7 DEF KeyInv
<1>5. ProtoInv'
  <2>1. ASSUME NEW q \in Procs, pc'[q] \in ProtoLocked
        PROVE  protoLock'[txn'[q]] = q
    <3>1. q # p /\ pc'[q] = pc[q] /\ txn'[q] = txn[q]
      BY <2>1 DEF IInv, GivesUp, TypeOK, Return, ProtoLocked
    <3>2. txn[q] \in Txns /\ protoLock[txn[q]] = q
      BY <2>1, <3>1 DEF IInv, KeyInv, ProtoInv, ProtoLocked
    <3>. QED  BY <3>1, <3>2 DEF GivesUp
  <2>2. ASSUME NEW q \in Procs, pc'[q] \in {"write", "final", "move"}
        PROVE  \A r \in Revs : revFile'[r] # txn'[q]
    BY <2>2 DEF IInv, GivesUp, TypeOK, ProtoInv, Return
  <2>3. \A t \in protoRev', r \in Revs : revFile'[r] # t
    BY DEF IInv, GivesUp, ProtoInv
  <2>. QED  BY <2>1, <2>2, <2>3 DEF ProtoInv
<1>6. FileInv'
  <2>1. CASE current' = current
    BY <2>1 DEF IInv, GivesUp, FileInv
  <2>2. CASE current' = current + 1 /\ revFile[current'] # NoFile /\ revProps[current'] # NoFile
    <3>1. current \in Nat
      BY DEF IInv, TypeOK
    <3>2. ASSUME NEW r \in 0..current'  PROVE  revFile[r] # NoFile /\ revProps[r] # NoFile
      BY <2>2, <3>1 DEF IInv, FileInv
    <3>3. ASSUME NEW r \in Revs, r > current' + 1  PROVE  revFile[r] = NoFile
      BY <2>2, <3>1, <3>3 DEF IInv, FileInv
    <3>. QED  BY <3>2, <3>3 DEF IInv, GivesUp, FileInv
  <2>. QED  BY <2>1, <2>2 DEF GivesUp
<1>7. CommitInv'
  BY DEF IInv, GivesUp, TypeOK, CommitInv, Return
<1>. QED  BY <1>1, <1>2, <1>3, <1>4, <1>5, <1>6, <1>7 DEF IInv

\* What is left of a transaction whose directory is removed.
LEMMA RemoveTxnDirType ==
  ASSUME IInv, NEW t \in Txns, RemoveTxnDir(t)
  PROVE  /\ txnDir' \subseteq txnDir
         /\ txnBase' \in [Txns -> Revs]
         /\ \A u \in Txns : txnBase'[u] <= current
         /\ txnTree' \in [Txns -> Trees]
<1>1. txnTree' \in [Txns -> Trees]
  BY EmptyTreeType DEF IInv, TypeOK, RemoveTxnDir
<1>2. txnBase' \in [Txns -> Revs]
  BY DEF IInv, TypeOK, RemoveTxnDir
<1>3. \A u \in Txns : txnBase'[u] <= current
  BY DEF IInv, TypeOK, BaseInv, RemoveTxnDir
<1>. QED  BY <1>1, <1>2, <1>3 DEF RemoveTxnDir

\* The actions at whose end a process returns, having changed nothing that
\* is not its own (recover: nothing but db/current).
LEMMA GiveUpSteps ==
  ASSUME IInv, NEW p \in Procs,
         \/ RemoveProtoRev(p) \/ MergeTxnGone(p) \/ CommitLocksFail(p)
         \/ CommitProtoFail(p) \/ CommitBadRoot(p) \/ CommitTxnGone(p)
         \/ CommitPurge(p) \/ Recover(p) \/ Crash(p)
         \/ \E x \in Paths : MergeConflict(p, x)
  PROVE  IInv'
<1>. SUFFICES GivesUp(p)
  BY GivesUpInv
<1>0. /\ txnBase \in [Txns -> Revs] /\ txnTree \in [Txns -> Trees]
      /\ protoLock \in [Txns -> Procs \cup {NoProc}] /\ crashes \in 0..MaxCrash
      /\ \A t \in Txns : txnBase[t] <= current
  BY DEF IInv, TypeOK, BaseInv
<1>1. CASE RemoveProtoRev(p)
  BY <1>0, <1>1 DEF RemoveProtoRev, GivesUp
<1>2. CASE MergeTxnGone(p) \/ \E x \in Paths : MergeConflict(p, x)
  BY <1>0, <1>2 DEF MergeTxnGone, MergeConflict, GivesUp
<1>3. CASE pc[p] \in CommitLocked /\ CommitError(p)
  BY <1>0, <1>3 DEF IInv, LockInv, Locked, CommitError, GivesUp
<1>4. CASE CommitLocksFail(p) \/ CommitProtoFail(p) \/ CommitBadRoot(p) \/ CommitTxnGone(p)
  BY <1>3, <1>4 DEF CommitLocksFail, CommitProtoFail, CommitBadRoot, CommitTxnGone, CommitLocked
<1>5. CASE CommitPurge(p)
  <2>1. txn[p] \in Txns /\ writeLock = p
    BY <1>5 DEF IInv, KeyInv, LockInv, CommitPurge, Locked, CommitLocked
  <2>2. RemoveTxnDir(txn[p])
    BY <1>5 DEF CommitPurge
  <2>. QED  BY <1>0, <1>5, <2>1, <2>2, RemoveTxnDirType DEF CommitPurge, GivesUp
<1>6. CASE Recover(p)
  <2>1. writeLock = p
    BY <1>6 DEF IInv, LockInv, Recover, Locked
  <2>2. PICK m \in Revs :
          /\ LargestRevision(m)
          /\ current' = IF current <= m /\ revProps[m] # NoFile THEN m ELSE current
    BY <1>6 DEF Recover
  <2>3. m <= current + 1
    BY <2>2 DEF IInv, TypeOK, FileInv, LargestRevision
  <2>4. \/ current' = current
        \/ /\ current' = current + 1 /\ current' \in Revs
           /\ revFile[current'] # NoFile /\ revProps[current'] # NoFile
    BY <2>2, <2>3 DEF IInv, TypeOK, LargestRevision
  <2>. QED  BY <1>0, <1>6, <2>1, <2>4 DEF Recover, GivesUp
<1>7. CASE Crash(p)
  <2>1. protoLock' \in [Txns -> Procs \cup {NoProc}]
    BY <1>0, <1>7 DEF Crash
  <2>2. crashes' \in 0..MaxCrash
    BY <1>0, <1>7 DEF Crash
  <2>. QED  BY <1>0, <1>7, <2>1, <2>2 DEF Crash, GivesUp
<1>. QED  BY <1>1, <1>2, <1>4, <1>5, <1>6, <1>7

--------------------------------------------------------------------------------
(* Steps that begin a turn of the commit loop                              *)

\* One turn of the loop in svn_fs_fs__commit_txn begins, the first or another.
StartsMerge(p, t) ==
  /\ pc[p] \in {"idle", "retry"}
  /\ t \in txnDir
  /\ tried' \in SUBSET Txns
  /\ txn' = [txn EXCEPT ![p] = t]
  /\ StartMerge(p, t)
  /\ UNCHANGED <<dbVars, inode, writeLock, keyVars, txnVars, protoLock, origin, crashes, pred>>

\* Starting a merge preserves the invariant: it only reads.
LEMMA StartsMergeInv ==
  ASSUME IInv, NEW p \in Procs, NEW t \in Txns, StartsMerge(p, t)
  PROVE  IInv'
<1>. USE DEF IInv, StartsMerge, StartMerge
<1>1. TypeOK'
  <2>1. rev' \in [Procs -> Revs] /\ anc' \in [Procs -> Revs]
    BY DEF TypeOK
  <2>2. target' \in [Procs -> Trees] /\ todo' \in [Procs -> SUBSET Paths]
    BY DEF TypeOK
  <2>3. txn' \in [Procs -> Inodes]
    BY DEF TypeOK
  <2>4. pc' \in [Procs -> Stages]
    BY DEF TypeOK, Stages
  <2>. QED  BY <2>1, <2>2, <2>3, <2>4 DEF TypeOK
<1>2. LockInv'
  BY DEF TypeOK, LockInv, Locked, CommitLocked
<1>3. BaseInv'
  <2>1. ASSUME NEW q \in Procs
        PROVE  /\ rev'[q] = IF q = p THEN current ELSE rev[q]
               /\ anc'[q] = IF q = p THEN txnBase[t] ELSE anc[q]
    BY DEF TypeOK
  <2>2. current <= current
    BY DEF TypeOK
  <2>. QED  BY <2>1, <2>2 DEF BaseInv
<1>4. KeyInv'
  BY DEF TypeOK, KeyInv
<1>5. ProtoInv'
  <2>1. ASSUME NEW q \in Procs, q # p  PROVE  pc'[q] = pc[q] /\ txn'[q] = txn[q]
    BY <2>1 DEF TypeOK
  <2>2. pc'[p] = "merge"
    BY DEF TypeOK
  <2>. QED  BY <2>1, <2>2 DEF ProtoInv, ProtoLocked
<1>6. FileInv'
  BY DEF TypeOK, FileInv
<1>7. CommitInv'
  BY DEF TypeOK, CommitInv
<1>. QED  BY <1>1, <1>2, <1>3, <1>4, <1>5, <1>6, <1>7

\* The two actions that begin a turn of the commit loop.
LEMMA StartMergeSteps ==
  ASSUME IInv, NEW p \in Procs,
         CommitRetry(p) \/ \E t \in Txns : CommitTxn(p, t)
  PROVE  IInv'
<1>1. ASSUME NEW t \in Txns, CommitTxn(p, t)  PROVE IInv'
  <2>1. StartsMerge(p, t)
    BY <1>1 DEF CommitTxn, StartsMerge, IInv, TypeOK
  <2>. QED  BY <2>1, StartsMergeInv
<1>2. CASE CommitRetry(p) /\ current = rev[p]
  <2>1. GivesUp(p)
    BY <1>2 DEF CommitRetry, GivesUp, IInv, TypeOK, BaseInv
  <2>. QED  BY <2>1, GivesUpInv
<1>3. CASE CommitRetry(p) /\ current # rev[p]
  <2>1. txn[p] \in Txns
    BY <1>3 DEF CommitRetry, IInv, KeyInv
  <2>2. txn' = [txn EXCEPT ![p] = txn[p]]
    BY <1>3 DEF CommitRetry, IInv, TypeOK
  <2>3. tried' \in SUBSET Txns
    BY <1>3 DEF CommitRetry, IInv, TypeOK
  <2>4. StartsMerge(p, txn[p])
    BY <1>3, <2>2, <2>3 DEF CommitRetry, StartsMerge
  <2>. QED  BY <2>1, <2>4, StartsMergeInv
<1>. QED  BY <1>1, <1>2, <1>3

--------------------------------------------------------------------------------
(* The other actions                                                       *)

\* create_txn_dir reads the key: with the txn-current lock nobody else is
\* between reading and writing it, so every key given out so far is smaller.
LEMMA ReadTxnKeyInv ==
  ASSUME IInv, NEW p \in Procs, ReadTxnKey(p)
  PROVE  IInv'
<1>. USE DEF IInv, ReadTxnKey
<1>1. TypeOK'
  <2>1. PICK r \in 0..current : rev' = [rev EXCEPT ![p] = r]
    OBVIOUS
  <2>2. rev' \in [Procs -> Revs]
    <3>1. rev \in [Procs -> Revs]
      BY DEF TypeOK
    <3>2. r \in Revs
      BY DEF TypeOK
    <3>. QED  BY <2>1, <3>1, <3>2, Zenon
  <2>3. txn' \in [Procs -> Inodes]
    BY DEF TypeOK
  <2>. QED  BY <2>2, <2>3 DEF TypeOK, Stages
<1>2. LockInv'
  BY DEF TypeOK, LockInv, Locked, CommitLocked
<1>3. BaseInv'
  BY DEF TypeOK, BaseInv
<1>4. KeyInv'
  <2>1. ASSUME NEW q \in Procs
        PROVE  pc[q] # "key" /\ txn[q] < txnCurrent
    BY DEF KeyInv
  <2>2. ASSUME NEW q \in Procs
        PROVE  /\ pc'[q] = IF q = p THEN "key" ELSE pc[q]
               /\ txn'[q] = IF q = p THEN txnCurrent ELSE txn[q]
    BY DEF TypeOK
  <2>3. txnCurrent \in Txns
    BY DEF TypeOK
  <2>4. ASSUME NEW q \in Procs, pc'[q] = "mkdir"
        PROVE  \A o \in Procs \ {q} : txn'[o] # txn'[q]
    BY <2>1, <2>2, <2>3, <2>4 DEF TypeOK, KeyInv
  <2>. QED  BY <2>1, <2>2, <2>3, <2>4 DEF KeyInv
<1>5. ProtoInv'
  <2>1. ASSUME NEW q \in Procs, q # p  PROVE  pc'[q] = pc[q] /\ txn'[q] = txn[q]
    BY <2>1 DEF TypeOK
  <2>2. pc'[p] = "key"
    BY DEF TypeOK
  <2>. QED  BY <2>1, <2>2 DEF ProtoInv, ProtoLocked
<1>6. FileInv'
  BY DEF TypeOK, FileInv
<1>7. CommitInv'
  BY DEF TypeOK, CommitInv
<1>. QED  BY <1>1, <1>2, <1>3, <1>4, <1>5, <1>6, <1>7

\* create_txn_dir writes the incremented key: the key read becomes the only
\* one of its value.
LEMMA WriteTxnKeyInv ==
  ASSUME IInv, NEW p \in Procs, WriteTxnKey(p)
  PROVE  IInv'
<1>. USE DEF IInv, WriteTxnKey
<1>1. TypeOK'
  <2>1. txn[p] \in Txns
    BY DEF KeyInv
  <2>2. txnCurrent' \in 1..MaxTxn + 1
    BY <2>1
  <2>. QED  BY <2>2 DEF TypeOK, Stages
<1>2. LockInv'
  BY DEF TypeOK, LockInv, Locked, CommitLocked
<1>3. BaseInv'
  BY DEF TypeOK, BaseInv
<1>4. KeyInv'
  <2>1. txn[p] = txnCurrent /\ txnCurrent \in Txns /\ txnCurrent' = txnCurrent + 1
    BY DEF TypeOK, KeyInv
  <2>2. ASSUME NEW q \in Procs, q # p
        PROVE  pc'[q] = pc[q] /\ pc[q] # "key" /\ txn[q] < txnCurrent /\ txn[q] \in Nat
    BY <2>2 DEF TypeOK, KeyInv
  <2>3. pc'[p] = "mkdir"
    BY DEF TypeOK
  <2>4. \A t \in txnDir \cup protoRev : t \in Nat /\ t < txnCurrent
    BY DEF TypeOK, KeyInv
  <2>5. \A r \in Revs : revFile[r] \in Inodes => revFile[r] < txnCurrent
    BY DEF KeyInv
  <2>6. \A r \in Revs : revFile[r] # txnCurrent
    BY <2>1, <2>5 DEF TypeOK
  <2>7. ASSUME NEW q \in Procs, pc'[q] = "mkdir"
        PROVE  /\ txn[q] \notin txnDir \cup protoRev
               /\ \A r \in Revs : revFile[r] # txn[q]
               /\ \A o \in Procs \ {q} : txn[o] # txn[q]
    <3>1. CASE q = p
      BY <3>1, <2>1, <2>2, <2>4, <2>6
    <3>2. CASE q # p
      BY <3>2, <2>2, <2>7 DEF KeyInv
    <3>. QED  BY <3>1, <3>2
  <2>8. ASSUME NEW q \in Procs
        PROVE  /\ pc'[q] # "key"
               /\ txn[q] < txnCurrent'
               /\ pc'[q] \notin {"idle", "recover"} => txn[q] \in Txns
    BY <2>1, <2>2, <2>3 DEF KeyInv
  <2>9. \A t \in txnDir \cup protoRev : t < txnCurrent'
    BY <2>1, <2>4
  <2>10. \A r \in Revs : revFile[r] \in Inodes => revFile[r] < txnCurrent'
    BY <2>1, <2>5
  <2>. QED  BY <2>7, <2>8, <2>9, <2>10 DEF KeyInv
<1>5. ProtoInv'
  <2>1. ASSUME NEW q \in Procs, pc'[q] # "mkdir"  PROVE pc'[q] = pc[q]
    BY <2>1 DEF TypeOK
  <2>2. UNCHANGED <<txn, protoRev, protoLock, revFile>>
    OBVIOUS
  <2>. QED  BY <2>1, <2>2 DEF ProtoInv, ProtoLocked
<1>6. FileInv'
  BY DEF TypeOK, FileInv
<1>7. CommitInv'
  BY DEF TypeOK, CommitInv
<1>. QED  BY <1>1, <1>2, <1>3, <1>4, <1>5, <1>6, <1>7

\* The transaction's files are made: no revision and no other transaction
\* has the key, so no file that is in use is truncated.
LEMMA MakeTxnInv ==
  ASSUME IInv, NEW p \in Procs, MakeTxn(p)
  PROVE  IInv'
<1>. USE DEF IInv, MakeTxn, Return
<1>1. TypeOK'
  <2>1. txn[p] \in Txns
    BY DEF KeyInv
  <2>2. Tree(rev[p]) \in Trees
    BY TreeType DEF TypeOK, BaseInv
  <2>. QED  BY <2>1, <2>2, ReturnType DEF TypeOK
<1>2. LockInv'
  BY DEF TypeOK, LockInv, Locked, CommitLocked
<1>3. BaseInv'
  <2>1. txn[p] \in Txns /\ txnBase \in [Txns -> Revs] /\ rev \in [Procs -> Revs] /\ anc \in [Procs -> Revs]
    BY DEF TypeOK, KeyInv
  <2>2. current \in Nat
    BY DEF TypeOK
  <2>. QED  BY <2>1, <2>2 DEF BaseInv
<1>4. KeyInv'
  <2>0. txnCurrent \in Nat \ {0}
    BY DEF TypeOK
  <2>1. txn[p] \in Txns /\ txn[p] < txnCurrent /\ txnCurrent \in Nat \ {0}
    BY <2>0 DEF KeyInv
  <2>2. ASSUME NEW q \in Procs
        PROVE  /\ pc'[q] = IF q = p THEN "idle" ELSE pc[q]
               /\ txn'[q] = IF q = p THEN 0 ELSE txn[q]
    BY DEF TypeOK
  <2>3. \A t \in txnDir' \cup protoRev' : t < txnCurrent
    BY <2>1 DEF KeyInv
  <2>4. ASSUME NEW q \in Procs, pc'[q] = "mkdir"
        PROVE  /\ txn'[q] \notin txnDir' \cup protoRev'
               /\ \A r \in Revs : revFile[r] # txn'[q]
               /\ \A o \in Procs \ {q} : txn'[o] # txn'[q]
    <3>1. q # p /\ pc[q] = "mkdir" /\ txn'[q] = txn[q] /\ txn[q] \in Txns
      BY <2>2, <2>4 DEF KeyInv
    <3>2. txn[q] # txn[p]
      BY <3>1 DEF KeyInv
    <3>. QED  BY <2>2, <3>1, <3>2 DEF KeyInv
  <2>. QED  BY <2>1, <2>2, <2>3, <2>4 DEF KeyInv
<1>5. ProtoInv'
  <2>1. ASSUME NEW q \in Procs, pc'[q] # "idle"  PROVE pc'[q] = pc[q] /\ txn'[q] = txn[q]
    BY <2>1 DEF TypeOK
  <2>2. UNCHANGED <<protoLock, revFile>> /\ protoRev' = protoRev \cup {txn[p]}
    OBVIOUS
  <2>3. \A r \in Revs : revFile[r] # txn[p]
    BY DEF KeyInv
  <2>. QED  BY <2>1, <2>2, <2>3 DEF ProtoInv, ProtoLocked
<1>6. FileInv'
  <2>1. \A r \in Revs : revFile[r] # txn[p]
    BY DEF KeyInv
  <2>2. \A r \in Revs : revFile[r] # NoFile => inode'[revFile[r]] = inode[revFile[r]]
    BY <2>1 DEF TypeOK
  <2>. QED  BY <2>2 DEF FileInv
<1>7. CommitInv'
  <2>1. ASSUME NEW q \in Procs, q # p
        PROVE  pc'[q] = pc[q] /\ txn'[q] = txn[q] /\ rev'[q] = rev[q] /\ txn[q] # txn[p]
    BY <2>1 DEF TypeOK, KeyInv
  <2>2. pc'[p] = "idle"
    BY DEF TypeOK
  <2>3. ASSUME NEW q \in Procs, q # p  PROVE  inode'[txn[q]] = inode[txn[q]]
    BY <2>1, <2>3 DEF TypeOK
  <2>. QED  BY <2>1, <2>2, <2>3 DEF CommitInv
<1>. QED  BY <1>1, <1>2, <1>3, <1>4, <1>5, <1>6, <1>7

\* A writer closes: by ProtoInv its file is not in place as a revision, and
\* no commit is about to put it there.
LEMMA CloseWriterInv ==
  ASSUME IInv, NEW p \in Procs, CloseWriter(p)
  PROVE  IInv'
<1>. USE DEF IInv, CloseWriter, Return
<1>1. TypeOK'
  BY ReturnType DEF TypeOK, KeyInv
<1>2. LockInv'
  BY DEF TypeOK, LockInv, Locked, CommitLocked
<1>3. BaseInv'
  BY DEF TypeOK, BaseInv
<1>4. KeyInv'
  <2>1. ASSUME NEW q \in Procs
        PROVE  /\ pc'[q] = IF q = p THEN "idle" ELSE pc[q]
               /\ txn'[q] = IF q = p THEN 0 ELSE txn[q]
    BY DEF TypeOK
  <2>2. txnCurrent \in Nat \ {0}
    BY DEF TypeOK
  <2>. QED  BY <2>1, <2>2 DEF KeyInv
<1>5. ProtoInv'
  <2>1. ASSUME NEW q \in Procs, q # p  PROVE  pc'[q] = pc[q] /\ txn'[q] = txn[q]
    BY <2>1 DEF TypeOK
  <2>2. pc'[p] = "idle"
    BY DEF TypeOK
  <2>3. ASSUME NEW q \in Procs, q # p, pc[q] \in ProtoLocked
        PROVE  protoLock[txn[q]] = q /\ txn[q] \in Txns
    BY <2>3 DEF KeyInv, ProtoInv, ProtoLocked
  <2>4. txn[p] \in Txns /\ protoLock[txn[p]] = p
    BY DEF KeyInv, ProtoInv, ProtoLocked
  <2>5. ASSUME NEW q \in Procs, q # p, pc[q] \in ProtoLocked
        PROVE  protoLock'[txn[q]] = q
    BY <2>3, <2>4, <2>5 DEF TypeOK
  <2>. QED  BY <2>1, <2>2, <2>5 DEF ProtoInv, ProtoLocked
<1>6. FileInv'
  <2>1. \A r \in Revs : revFile[r] # txn[p]
    BY DEF ProtoInv
  <2>2. \A r \in Revs : revFile[r] # NoFile => inode'[revFile[r]] = inode[revFile[r]]
    BY <2>1 DEF TypeOK
  <2>. QED  BY <2>2 DEF FileInv
<1>7. CommitInv'
  <2>1. ASSUME NEW q \in Procs, q # p
        PROVE  pc'[q] = pc[q] /\ txn'[q] = txn[q] /\ rev'[q] = rev[q]
    BY <2>1 DEF TypeOK
  <2>2. pc'[p] = "idle"
    BY DEF TypeOK
  <2>3. ASSUME NEW q \in Procs, q # p, pc[q] = "move"
        PROVE  inode'[txn[q]] = inode[txn[q]]
    <3>1. protoLock[txn[q]] = q /\ protoLock[txn[p]] = p
      BY <2>3 DEF ProtoInv, ProtoLocked
    <3>. QED  BY <2>3, <3>1 DEF TypeOK
  <2>. QED  BY <2>1, <2>2, <2>3 DEF CommitInv
<1>. QED  BY <1>1, <1>2, <1>3, <1>4, <1>5, <1>6, <1>7

\* dag_update_ancestry gives the transaction a base that exists.
LEMMA MergeDoneInv ==
  ASSUME IInv, NEW p \in Procs, MergeDone(p)
  PROVE  IInv'
<1>. USE DEF IInv, MergeDone
<1>1. TypeOK'
  <2>1. txn[p] \in Txns
    BY DEF KeyInv
  <2>2. txnBase' \in [Txns -> Revs]
    BY <2>1 DEF TypeOK
  <2>4. anc' \in [Procs -> Revs]
    BY DEF TypeOK
  <2>3. target' \in [Procs -> Trees] /\ pc' \in [Procs -> Stages]
    BY EmptyTreeType DEF TypeOK, Stages
  <2>. QED  BY <2>2, <2>3, <2>4 DEF TypeOK
<1>2. LockInv'
  BY DEF TypeOK, LockInv, Locked, CommitLocked
<1>3. BaseInv'
  <2>1. txn[p] \in Txns
    BY DEF KeyInv
  <2>2. ASSUME NEW t \in Txns  PROVE txnBase'[t] = IF t = txn[p] THEN rev[p] ELSE txnBase[t]
    BY <2>1 DEF TypeOK
  <2>3. ASSUME NEW q \in Procs  PROVE anc'[q] = IF q = p THEN 0 ELSE anc[q]
    BY DEF TypeOK
  <2>4. \A q \in Procs : rev[q] \in Nat /\ rev[q] <= current /\ anc[q] <= current
    BY DEF TypeOK, BaseInv
  <2>5. 0 <= current
    BY DEF TypeOK
  <2>. QED  BY <2>2, <2>3, <2>4, <2>5 DEF BaseInv
<1>4. KeyInv'
  BY DEF TypeOK, KeyInv
<1>5. ProtoInv'
  <2>1. ASSUME NEW q \in Procs, pc'[q] # "lock"  PROVE pc'[q] = pc[q]
    BY <2>1 DEF TypeOK
  <2>2. UNCHANGED <<txn, protoRev, protoLock, revFile>>
    OBVIOUS
  <2>. QED  BY <2>1, <2>2 DEF ProtoInv, ProtoLocked
<1>6. FileInv'
  BY DEF TypeOK, FileInv
<1>7. CommitInv'
  BY DEF TypeOK, CommitInv
<1>. QED  BY <1>1, <1>2, <1>3, <1>4, <1>5, <1>6, <1>7

\* with_lock takes the write lock.
LEMMA CommitLockInv ==
  ASSUME IInv, NEW p \in Procs, CommitLock(p)
  PROVE  IInv'
<1>. USE DEF IInv, CommitLock
<1>1. TypeOK'
  BY DEF TypeOK, Stages, Locked, CommitLocked
<1>2. LockInv'
  BY DEF TypeOK, LockInv, Locked, CommitLocked
<1>3. BaseInv'
  BY DEF TypeOK, BaseInv
<1>4. KeyInv'
  BY DEF TypeOK, KeyInv
<1>5. ProtoInv'
  <2>1. ASSUME NEW q \in Procs, pc'[q] # "check"  PROVE pc'[q] = pc[q]
    BY <2>1 DEF TypeOK
  <2>2. UNCHANGED <<txn, protoRev, protoLock, revFile>>
    OBVIOUS
  <2>. QED  BY <2>1, <2>2 DEF ProtoInv, ProtoLocked
<1>6. FileInv'
  BY DEF TypeOK, FileInv
<1>7. CommitInv'
  BY DEF TypeOK, CommitInv
<1>. QED  BY <1>1, <1>2, <1>3, <1>4, <1>5, <1>6, <1>7

\* commit_body finds the transaction up to date; by LockInv it stays so.
LEMMA CommitCheckInv ==
  ASSUME IInv, NEW p \in Procs, CommitCheck(p)
  PROVE  IInv'
<1>. USE DEF IInv, CommitCheck, UpToDate
<1>1. TypeOK'
  BY DEF TypeOK, Stages, Locked, CommitLocked
<1>2. LockInv'
  BY DEF TypeOK, LockInv, Locked, CommitLocked
<1>3. BaseInv'
  BY DEF TypeOK, BaseInv
<1>4. KeyInv'
  BY DEF TypeOK, KeyInv
<1>5. ProtoInv'
  <2>1. ASSUME NEW q \in Procs, pc'[q] # "proto"  PROVE pc'[q] = pc[q]
    BY <2>1 DEF TypeOK
  <2>2. UNCHANGED <<txn, protoRev, protoLock, revFile>>
    OBVIOUS
  <2>. QED  BY <2>1, <2>2 DEF ProtoInv, ProtoLocked
<1>6. FileInv'
  BY DEF TypeOK, FileInv
<1>7. CommitInv'
  BY DEF TypeOK, CommitInv
<1>. QED  BY <1>1, <1>2, <1>3, <1>4, <1>5, <1>6, <1>7

\* commit_body returns SVN_ERR_FS_TXN_OUT_OF_DATE.
LEMMA CommitOutOfDateInv ==
  ASSUME IInv, NEW p \in Procs, CommitOutOfDate(p)
  PROVE  IInv'
<1>. USE DEF IInv, CommitOutOfDate, UpToDate
<1>1. TypeOK'
  BY DEF TypeOK, Stages, Locked, CommitLocked
<1>2. LockInv'
  BY DEF TypeOK, LockInv, Locked, CommitLocked
<1>3. BaseInv'
  BY DEF TypeOK, BaseInv
<1>4. KeyInv'
  BY DEF TypeOK, KeyInv
<1>5. ProtoInv'
  <2>1. ASSUME NEW q \in Procs, pc'[q] # "retry"  PROVE pc'[q] = pc[q]
    BY <2>1 DEF TypeOK
  <2>2. UNCHANGED <<txn, protoRev, protoLock, revFile>>
    OBVIOUS
  <2>. QED  BY <2>1, <2>2 DEF ProtoInv, ProtoLocked
<1>6. FileInv'
  BY DEF TypeOK, FileInv
<1>7. CommitInv'
  BY DEF TypeOK, CommitInv
<1>. QED  BY <1>1, <1>2, <1>3, <1>4, <1>5, <1>6, <1>7

\* commit_body locks the prototype revision file that nobody has open.
LEMMA CommitProtoInv ==
  ASSUME IInv, NEW p \in Procs, CommitProto(p)
  PROVE  IInv'
<1>. USE DEF IInv, CommitProto, ProtoRevWritable
<1>1. TypeOK'
  BY DEF TypeOK, KeyInv, Stages, Locked, CommitLocked
<1>2. LockInv'
  BY DEF TypeOK, LockInv, Locked, CommitLocked
<1>3. BaseInv'
  BY DEF TypeOK, BaseInv
<1>4. KeyInv'
  <2>1. ASSUME NEW q \in Procs  PROVE pc'[q] = IF q = p THEN "final" ELSE pc[q]
    BY DEF TypeOK
  <2>. QED  BY <2>1 DEF KeyInv
<1>5. ProtoInv'
  <2>1. ASSUME NEW q \in Procs, q # p  PROVE  pc'[q] = pc[q] /\ txn'[q] = txn[q]
    BY <2>1 DEF TypeOK
  <2>2. pc'[p] = "final"
    BY DEF TypeOK
  <2>3. ASSUME NEW q \in Procs, q # p, pc[q] \in ProtoLocked
        PROVE  protoLock[txn[q]] = q /\ txn[q] \in Txns
    BY <2>3 DEF KeyInv, ProtoInv, ProtoLocked
  <2>4. txn[p] \in Txns /\ txn[p] \in protoRev /\ protoLock[txn[p]] = NoProc
    BY DEF KeyInv
  <2>5. ASSUME NEW q \in Procs, q # p, pc[q] \in ProtoLocked
        PROVE  protoLock'[txn[q]] = q
    BY <2>3, <2>4, <2>5 DEF TypeOK
  <2>6. protoLock'[txn[p]] = p
    BY <2>4 DEF TypeOK
  <2>. QED  BY <2>1, <2>2, <2>4, <2>5, <2>6 DEF ProtoInv, ProtoLocked
<1>6. FileInv'
  BY DEF TypeOK, FileInv
<1>7. CommitInv'
  BY DEF TypeOK, CommitInv
<1>. QED  BY <1>1, <1>2, <1>3, <1>4, <1>5, <1>6, <1>7

\* The revision is written to its prototype file, which is no revision yet.
LEMMA CommitFinalInv ==
  ASSUME IInv, NEW p \in Procs, CommitFinal(p)
  PROVE  IInv'
<1>. USE DEF IInv, CommitFinal, ValidRoot
<1>1. TypeOK'
  BY DEF TypeOK, KeyInv, Stages, Locked, CommitLocked
<1>2. LockInv'
  BY DEF TypeOK, LockInv, Locked, CommitLocked
<1>3. BaseInv'
  BY DEF TypeOK, BaseInv
<1>4. KeyInv'
  BY DEF TypeOK, KeyInv
<1>5. ProtoInv'
  BY DEF TypeOK, KeyInv, ProtoInv, ProtoLocked
<1>6. FileInv'
  <2>1. \A r \in Revs : revFile[r] # txn[p]
    BY DEF ProtoInv
  <2>2. \A r \in Revs : revFile[r] # NoFile =>
          inode'[revFile[r]] = inode[revFile[r]] /\ pred'[revFile[r]] = pred[revFile[r]]
    BY <2>1 DEF TypeOK
  <2>. QED  BY <2>2 DEF FileInv
<1>7. CommitInv'
  <2>1. txn[p] \in Txns
    BY DEF KeyInv
  <2>2. inode'[txn[p]] \in Trees /\ pred'[txn[p]] = rev[p]
    BY <2>1 DEF TypeOK
  <2>3. ASSUME NEW q \in Procs, q # p
        PROVE  pc'[q] = pc[q] /\ (pc[q] = "move" => txn[q] # txn[p])
    BY <2>3 DEF TypeOK, ProtoInv, ProtoLocked
  <2>4. ASSUME NEW q \in Procs, q # p, pc[q] = "move"
        PROVE  inode'[txn[q]] = inode[txn[q]] /\ pred'[txn[q]] = pred[txn[q]]
    BY <2>3, <2>4 DEF TypeOK
  <2>5. pc'[p] = "move"
    BY DEF TypeOK
  <2>. QED  BY <2>2, <2>3, <2>4, <2>5 DEF CommitInv
<1>. QED  BY <1>1, <1>2, <1>3, <1>4, <1>5, <1>6, <1>7

\* The file goes to revision current + 1: complete, nobody else's, and with
\* the youngest revision as its root's predecessor.
LEMMA CommitMoveRevInv ==
  ASSUME IInv, NEW p \in Procs, CommitMoveRev(p)
  PROVE  IInv'
<1>. USE DEF IInv, CommitMoveRev
<1>1. TypeOK'
  BY DEF TypeOK, LockInv, KeyInv, Stages, Locked, CommitLocked
<1>2. LockInv'
  BY DEF TypeOK, LockInv, Locked, CommitLocked
<1>3. BaseInv'
  BY DEF TypeOK, BaseInv
<1>4. KeyInv'
  BY DEF TypeOK, KeyInv
<1>5. ProtoInv'
  <2>1. ASSUME NEW q \in Procs, q # p  PROVE  pc'[q] = pc[q] /\ txn'[q] = txn[q]
    BY <2>1 DEF TypeOK
  <2>2. pc'[p] = "date"
    BY DEF TypeOK
  <2>3. \A r \in Revs : revFile'[r] = revFile[r] \/ revFile'[r] = txn[p]
    BY DEF TypeOK
  <2>4. protoLock[txn[p]] = p
    BY DEF ProtoInv, ProtoLocked
  <2>5. ASSUME NEW q \in Procs, q # p, pc[q] \in ProtoLocked
        PROVE  protoLock[txn[q]] = q /\ txn[q] # txn[p]
    BY <2>4, <2>5 DEF ProtoInv
  <2>6. \A t \in protoRev', r \in Revs : revFile'[r] # t
    BY <2>3 DEF ProtoInv
  <2>7. ASSUME NEW q \in Procs, pc'[q] \in {"write", "final", "move"}, NEW r \in Revs
        PROVE  revFile'[r] # txn[q]
    BY <2>1, <2>2, <2>3, <2>5, <2>7 DEF ProtoInv, ProtoLocked
  <2>8. ASSUME NEW q \in Procs, pc'[q] \in ProtoLocked
        PROVE  protoLock[txn[q]] = q
    BY <2>1, <2>2, <2>4, <2>5, <2>8 DEF ProtoLocked
  <2>. QED  BY <2>6, <2>7, <2>8 DEF ProtoInv
<1>6. FileInv'
  <2>1. /\ rev[p] = current /\ current < MaxRev /\ current + 1 \in Revs /\ current \in Nat
        /\ txn[p] \in Txns
    BY DEF TypeOK, LockInv, KeyInv
  <2>2. ASSUME NEW r \in Revs
        PROVE  revFile'[r] = IF r = current + 1 THEN txn[p] ELSE revFile[r]
    BY <2>1 DEF TypeOK
  <2>3. inode[txn[p]] \in Trees /\ pred[txn[p]] = current
    BY <2>1 DEF CommitInv
  <2>4. \A r \in Revs : revFile[r] # txn[p]
    BY DEF ProtoInv
  <2>5. ASSUME NEW r \in Revs, NEW s \in Revs, revFile'[r] = revFile'[s], revFile'[r] # NoFile
        PROVE  r = s
    BY <2>1, <2>2, <2>4, <2>5 DEF FileInv
  <2>6. ASSUME NEW r \in Revs, r # 0, revFile'[r] # NoFile
        PROVE  revFile'[r] \in Txns /\ pred[revFile'[r]] = r - 1
    BY <2>1, <2>2, <2>3, <2>6 DEF FileInv
  <2>7. \A r \in 0..current : revFile'[r] # NoFile /\ revProps[r] # NoFile
    BY <2>1, <2>2 DEF FileInv
  <2>8. revFile'[0] = 0
    BY <2>1, <2>2 DEF FileInv
  <2>9. \A r \in Revs : r > current + 1 => revFile'[r] = NoFile
    BY <2>1, <2>2 DEF FileInv
  <2>10. \A r \in Revs : revFile'[r] # NoFile => inode[revFile'[r]] \in Trees
    BY <2>2, <2>3 DEF FileInv
  <2>. QED  BY <2>5, <2>6, <2>7, <2>8, <2>9, <2>10 DEF FileInv
<1>7. CommitInv'
  <2>1. rev[p] = current /\ current + 1 \in Revs /\ writeLock = p
    BY DEF TypeOK, LockInv, Locked, CommitLocked
  <2>2. ASSUME NEW q \in Procs, q # p
        PROVE  pc'[q] = pc[q] /\ pc[q] \notin {"move", "date", "props", "current"}
    BY <2>1, <2>2 DEF TypeOK, LockInv, Locked, CommitLocked
  <2>3. pc'[p] = "date" /\ revFile'[rev[p] + 1] = txn[p]
    BY <2>1 DEF TypeOK
  <2>. QED  BY <2>2, <2>3 DEF CommitInv
<1>. QED  BY <1>1, <1>2, <1>3, <1>4, <1>5, <1>6, <1>7

\* The prototype revision file is unlocked.
LEMMA CommitDateInv ==
  ASSUME IInv, NEW p \in Procs, CommitDate(p)
  PROVE  IInv'
<1>. USE DEF IInv, CommitDate
<1>1. TypeOK'
  BY DEF TypeOK, KeyInv, Stages, Locked, CommitLocked
<1>2. LockInv'
  BY DEF TypeOK, LockInv, Locked, CommitLocked
<1>3. BaseInv'
  BY DEF TypeOK, BaseInv
<1>4. KeyInv'
  BY DEF TypeOK, KeyInv
<1>5. ProtoInv'
  <2>1. ASSUME NEW q \in Procs, q # p  PROVE  pc'[q] = pc[q] /\ txn'[q] = txn[q]
    BY <2>1 DEF TypeOK
  <2>2. pc'[p] = "props"
    BY DEF TypeOK
  <2>3. ASSUME NEW q \in Procs, q # p, pc[q] \in ProtoLocked
        PROVE  protoLock[txn[q]] = q /\ txn[q] \in Txns
    BY <2>3 DEF KeyInv, ProtoInv, ProtoLocked
  <2>4. txn[p] \in Txns /\ protoLock[txn[p]] = p
    BY DEF KeyInv, ProtoInv, ProtoLocked
  <2>5. ASSUME NEW q \in Procs, q # p, pc[q] \in ProtoLocked
        PROVE  protoLock'[txn[q]] = q
    BY <2>3, <2>4, <2>5 DEF TypeOK
  <2>. QED  BY <2>1, <2>2, <2>5 DEF ProtoInv, ProtoLocked
<1>6. FileInv'
  BY DEF TypeOK, FileInv
<1>7. CommitInv'
  BY DEF TypeOK, CommitInv
<1>. QED  BY <1>1, <1>2, <1>3, <1>4, <1>5, <1>6, <1>7

\* The property file goes to revision current + 1.
LEMMA CommitMovePropsInv ==
  ASSUME IInv, NEW p \in Procs, CommitMoveProps(p)
  PROVE  IInv'
<1>. USE DEF IInv, CommitMoveProps
<1>1. TypeOK'
  BY DEF TypeOK, LockInv, KeyInv, Stages, Locked, CommitLocked
<1>2. LockInv'
  BY DEF TypeOK, LockInv, Locked, CommitLocked
<1>3. BaseInv'
  BY DEF TypeOK, BaseInv
<1>4. KeyInv'
  BY DEF TypeOK, KeyInv
<1>5. ProtoInv'
  <2>1. ASSUME NEW q \in Procs, pc'[q] # "current"  PROVE pc'[q] = pc[q]
    BY <2>1 DEF TypeOK
  <2>2. UNCHANGED <<txn, protoRev, protoLock, revFile>>
    OBVIOUS
  <2>. QED  BY <2>1, <2>2 DEF ProtoInv, ProtoLocked
<1>6. FileInv'
  <2>1. rev[p] = current /\ current \in Nat /\ txn[p] \in Txns
    BY DEF TypeOK, LockInv, KeyInv
  <2>2. ASSUME NEW r \in 0..current  PROVE  revProps'[r] = revProps[r]
    <3>1. r \in Revs /\ r # current + 1
      BY <2>1 DEF TypeOK
    <3>. QED  BY <2>1, <3>1 DEF TypeOK
  <2>. QED  BY <2>2 DEF FileInv
<1>7. CommitInv'
  <2>1. rev[p] = current /\ current + 1 \in Revs /\ writeLock = p
    BY DEF TypeOK, LockInv, Locked, CommitLocked
  <2>2. ASSUME NEW q \in Procs, q # p
        PROVE  pc'[q] = pc[q] /\ pc[q] \notin {"move", "date", "props", "current"}
    BY <2>1, <2>2 DEF TypeOK, LockInv, Locked, CommitLocked
  <2>3. pc'[p] = "current" /\ revProps'[rev[p] + 1] = txn[p]
    BY <2>1 DEF TypeOK
  <2>. QED  BY <2>2, <2>3 DEF CommitInv
<1>. QED  BY <1>1, <1>2, <1>3, <1>4, <1>5, <1>6, <1>7

\* The new revision goes live: both its files are there.
LEMMA CommitCurrentInv ==
  ASSUME IInv, NEW p \in Procs, CommitCurrent(p)
  PROVE  IInv'
<1>. USE DEF IInv, CommitCurrent
<1>1. TypeOK'
  <2>1. rev[p] = current /\ current < MaxRev
    BY DEF LockInv
  <2>2. rev[p] + 1 \in Revs
    BY <2>1 DEF TypeOK
  <2>. QED  BY <2>2 DEF TypeOK, Stages, Locked, CommitLocked
<1>2. LockInv'
  BY DEF TypeOK, LockInv, Locked, CommitLocked
<1>3. BaseInv'
  <2>1. rev[p] = current /\ current \in Nat
    BY DEF TypeOK, LockInv
  <2>2. \A q \in Procs : rev[q] \in Nat /\ anc[q] \in Nat
    BY DEF TypeOK
  <2>3. ASSUME NEW t \in Txns  PROVE txnBase[t] \in Nat
    <3>1. txnBase \in [Txns -> Revs]
      BY DEF TypeOK
    <3>. QED  BY <3>1
  <2>. QED  BY <2>1, <2>2, <2>3 DEF BaseInv
<1>4. KeyInv'
  BY DEF TypeOK, KeyInv
<1>5. ProtoInv'
  <2>1. ASSUME NEW q \in Procs, pc'[q] # "purge"  PROVE pc'[q] = pc[q]
    BY <2>1 DEF TypeOK
  <2>2. UNCHANGED <<txn, protoRev, protoLock, revFile>>
    OBVIOUS
  <2>. QED  BY <2>1, <2>2 DEF ProtoInv, ProtoLocked
<1>6. FileInv'
  <2>1. rev[p] = current /\ current \in Nat /\ current + 1 \in Revs
    BY DEF TypeOK, LockInv
  <2>2. revFile[current + 1] = txn[p] /\ revProps[current + 1] = txn[p] /\ txn[p] # NoFile
    BY <2>1 DEF CommitInv, KeyInv
  <2>3. ASSUME NEW r \in 0..current'  PROVE  revFile[r] # NoFile /\ revProps[r] # NoFile
    BY <2>1, <2>2 DEF FileInv
  <2>4. ASSUME NEW r \in Revs, r > current' + 1  PROVE  revFile[r] = NoFile
    BY <2>1, <2>4 DEF FileInv
  <2>. QED  BY <2>3, <2>4 DEF FileInv
<1>7. CommitInv'
  BY DEF TypeOK, CommitInv
<1>. QED  BY <1>1, <1>2, <1>3, <1>4, <1>5, <1>6, <1>7

\* svn_fs_fs__recover takes the write lock.
LEMMA RecoverLockInv ==
  ASSUME IInv, NEW p \in Procs, RecoverLock(p)
  PROVE  IInv'
<1>. USE DEF IInv, RecoverLock
<1>1. TypeOK'
  BY DEF TypeOK, Stages, Locked
<1>2. LockInv'
  BY DEF TypeOK, LockInv, Locked, CommitLocked
<1>3. BaseInv'
  BY DEF TypeOK, BaseInv
<1>4. KeyInv'
  BY DEF TypeOK, KeyInv
<1>5. ProtoInv'
  <2>1. ASSUME NEW q \in Procs, pc'[q] # "recover"  PROVE pc'[q] = pc[q]
    BY <2>1 DEF TypeOK
  <2>2. UNCHANGED <<txn, protoRev, protoLock, revFile>>
    OBVIOUS
  <2>. QED  BY <2>1, <2>2 DEF ProtoInv, ProtoLocked
<1>6. FileInv'
  BY DEF TypeOK, FileInv
<1>7. CommitInv'
  BY DEF TypeOK, CommitInv
<1>. QED  BY <1>1, <1>2, <1>3, <1>4, <1>5, <1>6, <1>7

\* svn_fs_fs__abort_txn removes a transaction's directory.
LEMMA AbortTxnInv ==
  ASSUME IInv, NEW p \in Procs, NEW t \in Txns, AbortTxn(p, t)
  PROVE  IInv'
<1>. USE DEF IInv, AbortTxn, RemoveTxnDir
<1>1. TypeOK'
  <2>1. txnTree' \in [Txns -> Trees]
    BY EmptyTreeType DEF TypeOK
  <2>2. txnBase' \in [Txns -> Revs]
    <3>1. txnBase \in [Txns -> Revs]
      BY DEF TypeOK
    <3>2. 0 \in Revs
      OBVIOUS
    <3>. QED  BY <3>1, <3>2
  <2>3. txn' \in [Procs -> Inodes]
    BY DEF TypeOK
  <2>4. pc' \in [Procs -> Stages]
    BY DEF TypeOK, Stages
  <2>. QED  BY <2>1, <2>2, <2>3, <2>4 DEF TypeOK
<1>2. LockInv'
  BY DEF TypeOK, LockInv, Locked, CommitLocked
<1>3. BaseInv'
  <2>1. \A u \in Txns : txnBase'[u] = IF u = t THEN 0 ELSE txnBase[u]
    BY DEF TypeOK
  <2>2. 0 <= current
    BY DEF TypeOK
  <2>. QED  BY <2>1, <2>2 DEF BaseInv
<1>4. KeyInv'
  BY DEF TypeOK, KeyInv
<1>5. ProtoInv'
  <2>1. ASSUME NEW q \in Procs, pc'[q] # "unproto"  PROVE pc'[q] = pc[q] /\ txn'[q] = txn[q]
    BY <2>1 DEF TypeOK
  <2>2. UNCHANGED <<protoRev, protoLock, revFile>>
    OBVIOUS
  <2>. QED  BY <2>1, <2>2 DEF ProtoInv, ProtoLocked
<1>6. FileInv'
  BY DEF TypeOK, FileInv
<1>7. CommitInv'
  BY DEF TypeOK, CommitInv
<1>. QED  BY <1>1, <1>2, <1>3, <1>4, <1>5, <1>6, <1>7

\* The merge replaces an entry of the transaction.
LEMMA MergeEntryInv ==
  ASSUME IInv, NEW p \in Procs, NEW x \in Paths, MergeEntry(p, x)
  PROVE  IInv'
<1>. USE DEF IInv, MergeEntry
<1>1. TypeOK'
  <2>1. txn[p] \in Txns
    BY DEF KeyInv
  <2>2. Tree(rev[p]) \in Trees
    BY TreeType DEF TypeOK, BaseInv
  <2>3. txnTree' \in [Txns -> Trees]
    BY <2>1, <2>2 DEF TypeOK, Trees
  <2>4. origin' \in [Txns -> [Paths -> Entries \cup {NoFile}]]
    BY <2>1 DEF TypeOK
  <2>5. todo' \in [Procs -> SUBSET Paths]
    BY DEF TypeOK
  <2>. QED  BY <2>3, <2>4, <2>5 DEF TypeOK
<1>2. LockInv'
  BY DEF TypeOK, LockInv, Locked, CommitLocked
<1>3. BaseInv'
  BY DEF TypeOK, BaseInv
<1>4. KeyInv'
  BY DEF TypeOK, KeyInv
<1>5. ProtoInv'
  <2>1. UNCHANGED <<pc, txn, protoRev, protoLock, revFile>>
    OBVIOUS
  <2>. QED  BY <2>1 DEF ProtoInv
<1>6. FileInv'
  BY DEF TypeOK, FileInv
<1>7. CommitInv'
  BY DEF TypeOK, CommitInv
<1>. QED  BY <1>1, <1>2, <1>3, <1>4, <1>5, <1>6, <1>7

\* svn_fs_delete replaces an entry of the transaction.
LEMMA DeletePathInv ==
  ASSUME IInv, NEW p \in Procs, NEW t \in Txns, NEW x \in Paths, DeletePath(p, t, x)
  PROVE  IInv'
<1>. USE DEF IInv, DeletePath, SetEntry
<1>1. TypeOK'
  <2>1. txnTree[t][x] \in Entries
    BY DEF TypeOK, Trees
  <2>2. txnTree' \in [Txns -> Trees]
    <3>1. txnTree \in [Txns -> Trees]
      BY DEF TypeOK
    <3>2. t \in Entries /\ Absent \in Entries
      BY DEF Entries
    <3>. QED  BY <3>1, <3>2 DEF Trees
  <2>3. origin' \in [Txns -> [Paths -> Entries \cup {NoFile}]]
    <3>1. origin \in [Txns -> [Paths -> Entries \cup {NoFile}]]
      BY DEF TypeOK
    <3>. QED  BY <2>1, <3>1
  <2>. QED  BY <2>2, <2>3 DEF TypeOK
<1>2. LockInv'
  BY DEF TypeOK, LockInv, Locked, CommitLocked
<1>3. BaseInv'
  BY DEF TypeOK, BaseInv
<1>4. KeyInv'
  BY DEF TypeOK, KeyInv
<1>5. ProtoInv'
  <2>1. UNCHANGED <<pc, txn, protoRev, protoLock, revFile>>
    OBVIOUS
  <2>. QED  BY <2>1 DEF ProtoInv
<1>6. FileInv'
  BY DEF TypeOK, FileInv
<1>7. CommitInv'
  BY DEF TypeOK, CommitInv
<1>. QED  BY <1>1, <1>2, <1>3, <1>4, <1>5, <1>6, <1>7

\* svn_fs_apply_text replaces an entry and may open the prototype file.
LEMMA OpenWriterInv ==
  ASSUME IInv, NEW p \in Procs, NEW t \in Txns, NEW x \in Paths, OpenWriter(p, t, x)
  PROVE  IInv'
<1>. USE DEF IInv, OpenWriter, SetEntry, ProtoRevWritable
<1>1. TypeOK'
  <2>1. txnTree[t][x] \in Entries
    BY DEF TypeOK, Trees
  <2>2. txnTree' \in [Txns -> Trees]
    <3>1. txnTree \in [Txns -> Trees]
      BY DEF TypeOK
    <3>2. t \in Entries /\ Absent \in Entries
      BY DEF Entries
    <3>. QED  BY <3>1, <3>2 DEF Trees
  <2>3. origin' \in [Txns -> [Paths -> Entries \cup {NoFile}]]
    <3>1. origin \in [Txns -> [Paths -> Entries \cup {NoFile}]]
      BY DEF TypeOK
    <3>. QED  BY <2>1, <3>1
  <2>4. txn' \in [Procs -> Inodes]
    <3>1. txn \in [Procs -> Inodes]
      BY DEF TypeOK
    <3>2. txn' = txn \/ txn' = [txn EXCEPT ![p] = t]
      OBVIOUS
    <3>. QED  BY <3>1, <3>2
  <2>6. protoLock' \in [Txns -> Procs \cup {NoProc}]
    BY DEF TypeOK
  <2>5. pc' \in [Procs -> Stages]
    BY DEF TypeOK, Stages
  <2>. QED  BY <2>2, <2>3, <2>4, <2>5, <2>6 DEF TypeOK
<1>2. LockInv'
  BY DEF TypeOK, LockInv, Locked, CommitLocked
<1>3. BaseInv'
  BY DEF TypeOK, BaseInv
<1>4. KeyInv'
  <2>1. CASE UNCHANGED <<txn, pc>>
    BY <2>1 DEF KeyInv
  <2>2. CASE txn' = [txn EXCEPT ![p] = t] /\ pc' = [pc EXCEPT ![p] = "write"]
    <3>1. ASSUME NEW q \in Procs
          PROVE  /\ pc'[q] = IF q = p THEN "write" ELSE pc[q]
                 /\ txn'[q] = IF q = p THEN t ELSE txn[q]
      BY <2>2 DEF TypeOK
    <3>2. t < txnCurrent /\ \A q \in Procs : pc[q] = "mkdir" => txn[q] # t
      BY DEF KeyInv
    <3>. QED  BY <3>1, <3>2 DEF KeyInv
  <2>. QED  BY <2>1, <2>2
<1>5. ProtoInv'
  <2>1. CASE UNCHANGED <<protoLock, txn, pc>>
    BY <2>1 DEF ProtoInv
  <2>2. CASE /\ ProtoRevWritable(t) /\ protoLock' = [protoLock EXCEPT ![t] = p]
             /\ txn' = [txn EXCEPT ![p] = t] /\ pc' = [pc EXCEPT ![p] = "write"]
    <3>1. ASSUME NEW q \in Procs
          PROVE  /\ pc'[q] = IF q = p THEN "write" ELSE pc[q]
                 /\ txn'[q] = IF q = p THEN t ELSE txn[q]
      BY <2>2 DEF TypeOK
    <3>2. ASSUME NEW u \in Txns  PROVE protoLock'[u] = IF u = t THEN p ELSE protoLock[u]
      BY <2>2 DEF TypeOK
    <3>3. protoLock[t] = NoProc /\ \A r \in Revs : revFile[r] # t
      BY <2>2 DEF ProtoInv
    <3>4. ASSUME NEW q \in Procs, pc'[q] \in ProtoLocked  PROVE protoLock'[txn'[q]] = q
      <4>1. CASE q = p
        BY <4>1, <3>1, <3>2
      <4>2. CASE q # p
        <5>1. pc[q] \in ProtoLocked /\ txn'[q] = txn[q]
          BY <4>2, <3>1, <3>4
        <5>2. protoLock[txn[q]] = q /\ txn[q] \in Txns
          BY <5>1 DEF ProtoInv, KeyInv, ProtoLocked
        <5>. QED  BY <5>1, <5>2, <3>2, <3>3
      <4>. QED  BY <4>1, <4>2
    <3>. QED  BY <3>1, <3>3, <3>4 DEF ProtoInv
  <2>. QED  BY <2>1, <2>2
<1>6. FileInv'
  BY DEF TypeOK, FileInv
<1>7. CommitInv'
  <2>1. ASSUME NEW q \in Procs, pc'[q] \notin {"idle", "write"}
        PROVE  pc'[q] = pc[q] /\ txn'[q] = txn[q]
    BY <2>1 DEF TypeOK
  <2>. QED  BY <2>1 DEF CommitInv
<1>. QED  BY <1>1, <1>2, <1>3, <1>4, <1>5, <1>6, <1>7

--------------------------------------------------------------------------------
(* The theorems                                                            *)

\* The invariant holds in a repository nobody is using.
LEMMA InitInv == Init => IInv
<1>. SUFFICES ASSUME Init PROVE IInv
  OBVIOUS
<1>. USE DEF Init
<1>1. PICK root \in [Paths -> {0, Absent}] :
        inode = [t \in Inodes |-> IF t = 0 THEN root ELSE NoTrailer]
  OBVIOUS
<1>2. root \in Trees
  BY <1>1 DEF Trees, Entries
<1>3. TypeOK
  <2>1. inode \in [Inodes -> Trees \cup {NoTrailer}] /\ pred \in [Inodes -> Revs]
    BY <1>1, <1>2
  <2>2. txnTree \in [Txns -> Trees] /\ target \in [Procs -> Trees]
    BY EmptyTreeType
  <2>3. origin \in [Txns -> [Paths -> Entries \cup {NoFile}]]
    BY DEF Unedited
  <2>4. current \in Revs /\ txnCurrent \in 1..MaxTxn + 1 /\ crashes \in 0..MaxCrash
    OBVIOUS
  <2>5. revFile \in [Revs -> Inodes \cup {NoFile}] /\ revProps \in [Revs -> Inodes \cup {NoFile}]
    OBVIOUS
  <2>6. pc \in [Procs -> Stages] /\ txn \in [Procs -> Inodes]
    BY DEF Stages
  <2>7. rev \in [Procs -> Revs] /\ anc \in [Procs -> Revs] /\ todo \in [Procs -> SUBSET Paths]
    OBVIOUS
  <2>8. txnBase \in [Txns -> Revs] /\ protoLock \in [Txns -> Procs \cup {NoProc}]
    OBVIOUS
  <2>. QED  BY <2>1, <2>2, <2>3, <2>4, <2>5, <2>6, <2>7, <2>8 DEF TypeOK
<1>4. LockInv /\ BaseInv
  BY DEF LockInv, BaseInv, Locked, CommitLocked
<1>5. KeyInv /\ ProtoInv /\ CommitInv
  BY DEF KeyInv, ProtoInv, CommitInv, ProtoLocked
<1>6. FileInv
  <2>1. inode[0] \in Trees
    BY <1>1, <1>2
  <2>. QED  BY <2>1 DEF FileInv
<1>. QED  BY <1>3, <1>4, <1>5, <1>6 DEF IInv

\* Every step preserves the invariant.
LEMMA NextInv == IInv /\ [Next]_vars => IInv'
<1>. SUFFICES ASSUME IInv, [Next]_vars PROVE IInv'
  OBVIOUS
<1>1. CASE UNCHANGED vars
  BY <1>1 DEF vars, IInv, TypeOK, LockInv, BaseInv, KeyInv, ProtoInv, FileInv, CommitInv
<1>2. ASSUME NEW p \in Procs, Step(p)  PROVE IInv'
  BY <1>2, WriteTxnKeyInv, MakeTxnInv, CloseWriterInv, MergeEntryInv, MergeDoneInv,
     CommitCheckInv, CommitOutOfDateInv, CommitProtoInv, CommitFinalInv, CommitMoveRevInv,
     CommitDateInv, CommitMovePropsInv, CommitCurrentInv, GiveUpSteps, StartMergeSteps
  DEF Step
<1>3. ASSUME NEW p \in Procs, Request(p)  PROVE IInv'
  BY <1>3, ReadTxnKeyInv, DeletePathInv, OpenWriterInv, AbortTxnInv, RecoverLockInv,
     StartMergeSteps
  DEF Request
<1>4. ASSUME NEW p \in Procs, CommitLock(p) \/ Crash(p)  PROVE IInv'
  BY <1>4, CommitLockInv, GiveUpSteps
<1>. QED  BY <1>1, <1>2, <1>3, <1>4 DEF Next, Quiescent

\* The inductive invariant holds in every reachable state.
THEOREM Invariance == Spec => []IInv
  BY InitInv, NextInv, PTL DEF Spec

\* Every variable of the commit protocol keeps its type: trees stay trees,
\* and no step names a revision, transaction or process that cannot exist.
THEOREM TypeCorrect == Spec => []TypeOK
<1>1. IInv => TypeOK
  BY DEF IInv
<1>. QED  BY <1>1, Invariance, PTL

\* Readers need no lock: every revision up to db/current has a complete
\* revision file and a property file, at any moment of any commit, abort,
\* crash or recovery, and whatever several processes do to one transaction.
THEOREM Readability == Spec => []RevisionsReadable
<1>1. IInv => RevisionsReadable
  BY DEF IInv, TypeOK, FileInv, RevisionsReadable
<1>. QED  BY <1>1, Invariance, PTL

\* The root of each revision follows the root of the one before it (what
\* validate_root_noderev guards, issue #4129), even when transactions are
\* committed again after a failure or by two processes at a time.
THEOREM Ancestry == Spec => []RootsFollow
<1>1. ASSUME IInv, NEW r \in 1..current  PROVE pred[revFile[r]] = r - 1
  <2>1. r \in Revs /\ r # 0 /\ r \in 0..current
    BY <1>1 DEF IInv, TypeOK
  <2>. QED  BY <1>1, <2>1 DEF IInv, FileInv
<1>2. IInv => RootsFollow
  BY <1>1 DEF RootsFollow
<1>. QED  BY <1>2, Invariance, PTL

\* A transaction key handed out by db/txn-current is nobody else's.
THEOREM FreshKeys == Spec => []TxnKeysUnique
<1>1. IInv => TxnKeysUnique
  BY DEF IInv, KeyInv, TxnKeysUnique
<1>. QED  BY <1>1, Invariance, PTL

--------------------------------------------------------------------------------
(* Implementing the revision log                                           *)

\* The revisions up to db/current are as they were.
HistoryKept ==
  /\ current' = current
  /\ \A r \in 0..current : revFile'[r] = revFile[r] /\ Tree(r)' = Tree(r)

\* One revision is appended, whose file is in place already.
HistoryExtended ==
  /\ current' = current + 1
  /\ current' \in Revs
  /\ UNCHANGED <<revFile, inode>>
  /\ revFile[current'] # NoFile

\* Every step leaves the history alone or appends one revision: the only
\* files written are prototypes, the only one moved goes beyond db/current,
\* and db/current moves to a revision that is in place (write_final_current,
\* or recover_body).
LEMMA HistoryStep ==
  ASSUME IInv, [Next]_vars
  PROVE  HistoryKept \/ HistoryExtended
<1>1. CASE UNCHANGED <<current, revFile, inode>>
  BY <1>1 DEF HistoryKept, Tree
<1>2. ASSUME NEW p \in Procs, MakeTxn(p) \/ CloseWriter(p) \/ CommitFinal(p)
      PROVE  HistoryKept
  <2>1. UNCHANGED <<current, revFile>> /\ \A i \in Inodes \ {txn[p]} : inode'[i] = inode[i]
    BY <1>2 DEF IInv, TypeOK, MakeTxn, CloseWriter, CommitFinal
  <2>2. \A r \in Revs : revFile[r] # txn[p]
    BY <1>2 DEF IInv, KeyInv, ProtoInv, MakeTxn, CloseWriter, CommitFinal
  <2>3. ASSUME NEW r \in 0..current  PROVE revFile[r] \in Inodes
    <3>1. r \in Revs
      BY DEF IInv, TypeOK
    <3>2. revFile[r] \in Inodes \cup {NoFile}
      BY <3>1 DEF IInv, TypeOK
    <3>. QED  BY <3>2 DEF IInv, FileInv
  <2>4. 0..current \subseteq Revs
    BY DEF IInv, TypeOK
  <2>. QED  BY <2>1, <2>2, <2>3, <2>4 DEF HistoryKept, Tree
<1>3. ASSUME NEW p \in Procs, CommitMoveRev(p)  PROVE HistoryKept
  <2>1. UNCHANGED <<current, inode>> /\ rev[p] = current /\ current \in Nat
    BY <1>3 DEF IInv, TypeOK, LockInv, CommitMoveRev
  <2>2. ASSUME NEW r \in 0..current  PROVE revFile'[r] = revFile[r]
    <3>1. r \in Revs /\ r # current + 1
      BY <2>1 DEF IInv, TypeOK
    <3>. QED  BY <1>3, <2>1, <3>1 DEF IInv, TypeOK, CommitMoveRev
  <2>. QED  BY <2>1, <2>2 DEF HistoryKept, Tree
<1>4. ASSUME NEW p \in Procs, CommitCurrent(p)  PROVE HistoryExtended
  <2>0. rev[p] = current /\ current < MaxRev /\ revFile[current + 1] = txn[p]
    BY <1>4 DEF IInv, LockInv, CommitInv, CommitCurrent
  <2>1. rev[p] = current /\ current + 1 \in Revs /\ revFile[current + 1] = txn[p]
    BY <2>0 DEF IInv, TypeOK
  <2>2. txn[p] # NoFile
    BY <1>4 DEF IInv, KeyInv, CommitCurrent
  <2>. QED  BY <1>4, <2>1, <2>2 DEF CommitCurrent, HistoryExtended
<1>5. ASSUME NEW p \in Procs, Recover(p)  PROVE HistoryKept \/ HistoryExtended
  <2>1. UNCHANGED <<revFile, inode>>
    BY <1>5 DEF Recover
  <2>2. PICK m \in Revs :
          /\ LargestRevision(m)
          /\ current' = IF current <= m /\ revProps[m] # NoFile THEN m ELSE current
    BY <1>5 DEF Recover
  <2>3. m <= current + 1
    BY <2>2 DEF IInv, TypeOK, FileInv, LargestRevision
  <2>4. current' = current \/ (current' = current + 1 /\ current' = m)
    BY <2>2, <2>3 DEF IInv, TypeOK
  <2>. QED  BY <2>1, <2>2, <2>4 DEF HistoryKept, HistoryExtended, LargestRevision, Tree
<1>6. ASSUME NEW p \in Procs, Request(p) \/ CommitLock(p) \/ Crash(p)
      PROVE  UNCHANGED <<current, revFile, inode>>
  BY <1>6 DEF Request, ReadTxnKey, DeletePath, OpenWriter, AbortTxn, RecoverLock, CommitTxn,
              CommitLock, Crash
<1>7. ASSUME NEW p \in Procs, Step(p)
      PROVE  \/ MakeTxn(p) \/ CloseWriter(p) \/ CommitFinal(p) \/ CommitMoveRev(p)
             \/ CommitCurrent(p) \/ Recover(p) \/ UNCHANGED <<current, revFile, inode>>
  BY <1>7 DEF Step, WriteTxnKey, RemoveProtoRev, MergeEntry, MergeConflict, MergeDone,
              MergeTxnGone, CommitCheck, CommitOutOfDate, CommitLocksFail, CommitRetry,
              CommitProto, CommitProtoFail, CommitBadRoot, CommitDate, CommitMoveProps,
              CommitTxnGone, CommitPurge, CommitError
<1>8. CASE UNCHANGED vars
  BY <1>1, <1>8 DEF vars
<1>. QED  BY <1>1, <1>2, <1>3, <1>4, <1>5, <1>6, <1>7, <1>8 DEF Next, Quiescent

\* The initial history is a log of one revision.
LEMMA LogInit == Init => Log!Init
<1>. SUFFICES ASSUME Init PROVE Log!Init
  OBVIOUS
<1>0. current = 0 /\ revFile[0] = 0
  BY DEF Init
<1>1. Tree(0) \in Trees
  BY <1>0, InitInv, TreeType
<1>2. 0..current = {0}
  BY <1>0
<1>. QED  BY <1>0, <1>1, <1>2 DEF Log!Init

\* Seen through db/current, every step is a step of the log or none.
LEMMA LogStep == IInv /\ [Next]_vars => [Log!Next]_(Log!vars)
<1>. SUFFICES ASSUME IInv, [Next]_vars PROVE [Log!Next]_(Log!vars)
  OBVIOUS
<1>1. CASE HistoryKept
  <2>1. [r \in 0..current' |-> revFile'[r]] = [r \in 0..current |-> revFile[r]]
    BY <1>1 DEF HistoryKept
  <2>2. [r \in 0..current' |-> Tree(r)'] = [r \in 0..current |-> Tree(r)]
    BY <1>1 DEF HistoryKept
  <2>. QED  BY <1>1, <2>1, <2>2 DEF HistoryKept, Log!vars
<1>2. CASE HistoryExtended
  <2>1. current \in Nat /\ current + 1 \in Revs /\ current' = current + 1
    BY <1>2 DEF IInv, TypeOK, HistoryExtended
  <2>2. revFile[current + 1] \in Txns /\ Tree(current + 1) \in Trees
    BY <1>2, <2>1 DEF HistoryExtended, IInv, FileInv, Tree
  <2>3. PICK t \in Txns, new \in Trees : t = revFile[current + 1] /\ new = Tree(current + 1)
    BY <2>2
  <2>4. ASSUME NEW r \in 0..current  PROVE revFile[r] # t
    <3>1. r \in Revs /\ r # current + 1
      BY <2>1
    <3>. QED  BY <2>1, <2>3, <3>1 DEF IInv, FileInv
  <2>5. UNCHANGED <<revFile, inode>>
    BY <1>2 DEF HistoryExtended
  <2>6. Log!Commit(t, new)
    BY <2>1, <2>3, <2>4, <2>5 DEF Log!Commit, Tree
  <2>. QED  BY <2>6 DEF Log!Next
<1>. QED  BY <1>1, <1>2, HistoryStep

\* The FSFS commit protocol implements the append-only revision log: no
\* interleaving or crash changes, skips or repeats a committed revision.
THEOREM Refinement == Spec => ImplementsLog
<1>1. Init => Log!Init
  BY LogInit
<1>2. IInv /\ [Next]_vars => [Log!Next]_(Log!vars)
  BY LogStep
<1>. QED  BY <1>1, <1>2, Invariance, PTL DEF Spec, ImplementsLog, Log!Spec

--------------------------------------------------------------------------------
(* The properties of a revision                                            *)

\* Without recovery a revision has the properties of its own transaction:
\* only the commit that has just moved both files moves db/current.
PropsInv == RevpropsMatch /\ \A p \in Procs : pc[p] # "recover"

\* Where the property files of committed revisions could change.
LEMMA PropsStep ==
  ASSUME "recover" \notin Requests, IInv, PropsInv, [Next]_vars
  PROVE  PropsInv'
<1>t. current \in Nat /\ current \in Revs
  BY DEF IInv, TypeOK
<1>1. ASSUME NEW p \in Procs, CommitCurrent(p)  PROVE PropsInv'
  <2>1. /\ rev[p] = current /\ current < MaxRev
        /\ revFile[rev[p] + 1] = txn[p] /\ revProps[rev[p] + 1] = txn[p]
    BY <1>1 DEF CommitCurrent, IInv, LockInv, CommitInv
  <2>2. current' = current + 1 /\ UNCHANGED <<revFile, revProps>>
    BY <1>1, <2>1 DEF CommitCurrent
  <2>3. ASSUME NEW r \in 0..current'  PROVE revProps'[r] = revFile'[r]
    <3>1. r \in 0..current \/ r = current + 1
      BY <1>t, <2>2
    <3>. QED  BY <2>1, <2>2, <3>1 DEF PropsInv, RevpropsMatch
  <2>4. \A q \in Procs : pc'[q] # "recover"
    BY <1>1 DEF CommitCurrent, PropsInv, IInv, TypeOK
  <2>. QED  BY <2>3, <2>4 DEF PropsInv, RevpropsMatch
<1>2. ASSUME NEW p \in Procs, CommitMoveRev(p) \/ CommitMoveProps(p)  PROVE PropsInv'
  <2>1. rev[p] = current /\ current < MaxRev /\ current' = current
    BY <1>2 DEF CommitMoveRev, CommitMoveProps, IInv, LockInv
  <2>2. ASSUME NEW r \in 0..current  PROVE revProps'[r] = revProps[r] /\ revFile'[r] = revFile[r]
    <3>1. r \in Revs /\ r # current + 1
      BY <1>t
    <3>. QED  BY <1>2, <2>1, <3>1 DEF CommitMoveRev, CommitMoveProps, IInv, TypeOK
  <2>3. \A q \in Procs : pc'[q] # "recover"
    BY <1>2 DEF CommitMoveRev, CommitMoveProps, PropsInv, IInv, TypeOK
  <2>. QED  BY <2>1, <2>2, <2>3 DEF PropsInv, RevpropsMatch
<1>3. ASSUME UNCHANGED dbVars, \A q \in Procs : pc'[q] # "recover"  PROVE PropsInv'
  BY <1>3 DEF PropsInv, RevpropsMatch
<1>4. ASSUME NEW p \in Procs, Step(p)
      PROVE  \/ CommitCurrent(p) \/ CommitMoveRev(p) \/ CommitMoveProps(p)
             \/ UNCHANGED dbVars
  BY <1>4 DEF PropsInv, Step, WriteTxnKey, MakeTxn, CloseWriter, RemoveProtoRev, MergeEntry, MergeConflict,
              MergeDone, MergeTxnGone, CommitCheck, CommitOutOfDate, CommitLocksFail, CommitRetry,
              CommitProto, CommitProtoFail, CommitFinal, CommitBadRoot, CommitDate,
              CommitTxnGone, CommitPurge, CommitError, Recover
<1>5. ASSUME NEW p \in Procs, Step(p) \/ CommitLock(p) \/ Request(p) \/ Crash(p)
      PROVE  \A q \in Procs : pc'[q] # "recover"
  <2>1. \/ pc' = pc
        \/ \E s \in Stages \ {"recover"} : pc' = [pc EXCEPT ![p] = s]
    <3>1. CASE Step(p)
      BY <3>1 DEF Step, WriteTxnKey, MakeTxn, CloseWriter, RemoveProtoRev, MergeEntry, MergeConflict,
              MergeDone, MergeTxnGone, CommitCheck, CommitOutOfDate, CommitLocksFail, CommitRetry, StartMerge,
              CommitProto, CommitProtoFail, CommitFinal, CommitBadRoot, CommitDate, CommitMoveRev, CommitMoveProps,
              CommitCurrent, CommitTxnGone, CommitPurge, CommitError, Recover, Return, Stages, Locked, CommitLocked
    <3>2. CASE CommitLock(p) \/ Request(p) \/ Crash(p)
      BY <3>2 DEF CommitLock, Request, Crash, ReadTxnKey, DeletePath, OpenWriter, AbortTxn, CommitTxn,
              StartMerge, Return, Stages, Locked, CommitLocked
    <3>. QED  BY <1>5, <3>1, <3>2
  <2>. QED  BY <2>1 DEF PropsInv, IInv, TypeOK
<1>6. ASSUME NEW p \in Procs, CommitLock(p) \/ Request(p) \/ Crash(p)  PROVE UNCHANGED dbVars
  BY <1>6 DEF CommitLock, Request, Crash, ReadTxnKey, DeletePath, OpenWriter, AbortTxn, CommitTxn, RecoverLock
<1>7. CASE UNCHANGED vars
  BY <1>7 DEF vars, PropsInv, RevpropsMatch
<1>. QED  BY <1>1, <1>2, <1>3, <1>4, <1>5, <1>6, <1>7 DEF Next, Quiescent

\* Unless svnadmin recover is run, the property file of a revision is that of
\* the transaction whose tree the revision has, whoever died where: the commit
\* renames its own property file over one that was left behind.
THEOREM PropertiesMatch ==
  ASSUME "recover" \notin Requests
  PROVE  Spec => []RevpropsMatch
<1>1. Init => PropsInv
  BY DEF Init, PropsInv, RevpropsMatch
<1>2. IInv /\ PropsInv /\ [Next]_vars => PropsInv'
  BY PropsStep
<1>3. PropsInv => RevpropsMatch
  BY DEF PropsInv
<1>. QED  BY <1>1, <1>2, <1>3, Invariance, PTL DEF Spec

--------------------------------------------------------------------------------
(* No lost update                                                          *)

\* Everything the invariant says of a transaction, a revision or a process.
USE DEF Committing, Unplaced, CommitLocked

\* The types that the steps below need.
LEMMA CommitTypes ==
  ASSUME IInv
  PROVE  /\ pc \in [Procs -> Stages] /\ txn \in [Procs -> Inodes] /\ rev \in [Procs -> Revs]
         /\ todo \in [Procs -> SUBSET Paths] /\ inode \in [Inodes -> Trees \cup {NoTrailer}]
         /\ txnTree \in [Txns -> Trees] /\ txnBase \in [Txns -> Revs] /\ txnDir \in SUBSET Txns
         /\ origin \in [Txns -> [Paths -> Entries \cup {NoFile}]]
         /\ revFile \in [Revs -> Inodes \cup {NoFile}] /\ protoLock \in [Txns -> Procs \cup {NoProc}]
  BY Zenon DEF IInv, TypeOK

\* The trees of committed revisions do not change.
LEMMA OldTrees ==
  ASSUME IInv, [Next]_vars, NEW r \in 0..current
  PROVE  Tree(r)' = Tree(r)
<1>1. CASE HistoryKept
  BY <1>1 DEF HistoryKept
<1>2. CASE HistoryExtended
  BY <1>2 DEF HistoryExtended, Tree
<1>. QED  BY <1>1, <1>2, HistoryStep

\* The step leaves transaction t as clean as it was, and its file as good.
CleanStays(t) ==
  t \in txnDir' => /\ t \in txnDir /\ txnBase'[t] = txnBase[t]
                   /\ \A r \in 0..current, xs \in SUBSET Paths : Clean(t, xs, r) => Clean(t, xs, r)'
KeptStays(t) == \A r \in 0..current : Kept(t, r) => Kept(t, r)'

\* The step leaves the edits of t alone; its file.
SameEdits(t) ==
  /\ origin'[t] = origin[t]
  /\ t \in txnDir' => t \in txnDir /\ txnTree'[t] = txnTree[t] /\ txnBase'[t] = txnBase[t]
SameFile(t) == origin'[t] = origin[t] /\ inode'[t] = inode[t]

\* What a step does not touch stays as it was.
LEMMA SameStays ==
  ASSUME IInv, [Next]_vars, NEW t
  PROVE  (SameEdits(t) => CleanStays(t)) /\ (SameFile(t) => KeptStays(t))
<1>1. ASSUME SameEdits(t)  PROVE CleanStays(t)
  BY <1>1, OldTrees DEF SameEdits, CleanStays, Clean
<1>2. ASSUME SameFile(t)  PROVE KeptStays(t)
  BY <1>2, OldTrees DEF SameFile, KeptStays, Kept
<1>. QED  BY <1>1, <1>2

\* An edit records what it replaces, once.
LEMMA EditStays ==
  ASSUME IInv, [Next]_vars, NEW t \in txnDir, NEW x \in Paths, NEW e, SetEntry(t, x, e),
         UNCHANGED <<txnDir, txnBase, inode>>, NEW u \in Txns
  PROVE  CleanStays(u) /\ KeptStays(u)
<1>t. /\ origin \in [Txns -> [Paths -> Entries \cup {NoFile}]] /\ txnTree \in [Txns -> Trees] /\ t \in Txns
      /\ \A y \in Paths : txnTree[t][y] # NoFile
  <2>1. txnTree[t] \in Trees
    BY CommitTypes
  <2>2. \A y \in Paths : txnTree[t][y] # NoFile
    BY <2>1 DEF Trees, Entries
  <2>. QED  BY <2>2, CommitTypes
<1>1. CASE u # t
  <2>1. SameEdits(u) /\ SameFile(u)
    BY <1>t, <1>1 DEF SetEntry, SameEdits, SameFile
  <2>. QED  BY <2>1, SameStays
<1>2. CASE u = t
  <2>1. \A y \in Paths : y # x => origin'[t][y] = origin[t][y] /\ txnTree'[t][y] = txnTree[t][y]
    BY <1>t DEF SetEntry, Trees
  <2>2. origin'[t][x] = IF origin[t][x] = NoFile THEN txnTree[t][x] ELSE origin[t][x]
    BY <1>t DEF SetEntry
  <2>3. ASSUME NEW r \in 0..current, NEW xs \in SUBSET Paths, Clean(t, xs, r)  PROVE Clean(t, xs, r)'
    BY <1>t, <2>1, <2>2, <2>3, OldTrees DEF Clean
  <2>4. ASSUME NEW r \in 0..current, Kept(t, r)  PROVE Kept(t, r)'
    <3>1. r \in Revs /\ r <= current
      BY DEF IInv, TypeOK
    <3>2. \A y \in Paths : Tree(r)[y] # NoFile
      BY <3>1, TreeType DEF Trees, Entries
    <3>. QED  BY <2>1, <2>2, <2>4, <3>2, OldTrees DEF Kept
  <2>. QED  BY <1>2, <2>3, <2>4 DEF CleanStays, KeptStays
<1>. QED  BY <1>1, <1>2

\* What a step of p does to the commits of others, and to the revisions.
Spares(p) ==
  /\ \A q \in Procs \ {p} : UNCHANGED <<pc[q], txn[q], rev[q], todo[q]>>
  /\ \A q \in Procs \ {p} : pc[q] = "mkdir" => origin'[txn[q]] = origin[txn[q]]
  /\ \A q \in Procs \ {p} : pc[q] \in Unplaced => CleanStays(txn[q]) /\ \A r \in Revs : revFile'[r] # txn[q]
  /\ \A q \in Procs \ {p} : pc[q] = "move" => KeptStays(txn[q])
  /\ tried \subseteq tried'

\* The others go on where they were.
LEMMA OthersMerge ==
  ASSUME IInv, UpdateInv, NEW p \in Procs, Spares(p), NEW q \in Procs, q # p
  PROVE  MergedOK(q)'
<1>0. MergedOK(q) /\ UNCHANGED <<pc[q], txn[q], rev[q], todo[q]>> /\ tried \subseteq tried'
  BY DEF UpdateInv, Spares
<1>1. rev[q] \in 0..current
  BY DEF IInv, TypeOK, BaseInv
<1>2. pc[q] = "mkdir" => origin'[txn[q]] = Unedited
  BY <1>0 DEF MergedOK, Spares
<1>3. pc[q] \in Unplaced => \A r \in Revs : revFile'[r] # txn[q]
  BY DEF Spares
<1>4. pc[q] = "merge" /\ txn[q] \in txnDir' => Clean(txn[q], Paths \ todo[q], rev[q])'
  <2>. SUFFICES ASSUME pc[q] = "merge", txn[q] \in txnDir'  PROVE Clean(txn[q], Paths \ todo[q], rev[q])'
    OBVIOUS
  <2>. PICK t, xs, r : t = txn[q] /\ xs = Paths \ todo[q] /\ r = rev[q]
    OBVIOUS
  <2>1. xs \in SUBSET Paths /\ CleanStays(t) /\ t \in txnDir'
    BY DEF Spares
  <2>2. Clean(t, xs, r)
    BY <1>0, <2>1 DEF MergedOK, CleanStays
  <2>3. Clean(t, xs, r)'
    BY <1>1, <2>1, <2>2 DEF CleanStays
  <2>. QED  BY <1>0, <2>3 DEF Clean
<1>5. pc[q] \in Unplaced \ {"merge"} /\ txn[q] \in txnDir' => txnBase'[txn[q]] = rev[q] /\ Clean(txn[q], Paths, rev[q])'
  <2>1. pc[q] \in Unplaced => CleanStays(txn[q])
    BY DEF Spares
  <2>. QED  BY <1>0, <1>1, <2>1 DEF MergedOK, CleanStays, Clean
<1>6. pc[q] = "move" => Kept(txn[q], rev[q])'
  BY <1>0, <1>1 DEF MergedOK, Spares, KeptStays, Kept, Tree
<1>. QED  BY <1>0, <1>2, <1>3, <1>4, <1>5, <1>6 DEF MergedOK, Clean, Kept, Tree

\* What is left to show of a step that spares the others.
LEMMA MergeKeeps ==
  ASSUME IInv, UpdateInv, NEW p \in Procs, Spares(p),
         \A r \in Revs \ {0} : revFile'[r] # NoFile => revFile'[r] \in tried' /\ Kept(revFile[r], r - 1)',
         \A t \in Txns : t >= txnCurrent' => origin'[t] = Unedited,
         \A t \in txnDir' \ tried' : Clean(t, Paths, txnBase[t])',
         pc'[p] \in Committing => \A q \in Procs \ {p} : pc[q] \in Committing => txn'[p] # txn[q],
         MergedOK(p)'
  PROVE  UpdateInv'
<1>1. \A q \in Procs : MergedOK(q)'
  BY OthersMerge
<1>2. TriedInv'
  <2>1. \A q \in Procs \ {p} : UNCHANGED <<pc[q], txn[q]>>
    BY DEF Spares
  <2>. QED  BY <2>1 DEF UpdateInv, TriedInv
<1>3. OriginInv' /\ KeptInv'
  BY DEF OriginInv, KeptInv
<1>. QED  BY <1>1, <1>2, <1>3 DEF UpdateInv

\* Revision files that stay in place and whose transactions lose no record of an edit.
LEMMA FilesKept ==
  ASSUME IInv, UpdateInv, [Next]_vars, revFile' = revFile, tried \subseteq tried',
         \A r \in Revs \ {0} : revFile[r] # NoFile => KeptStays(revFile[r])
  PROVE  \A r \in Revs \ {0} : revFile'[r] # NoFile => revFile'[r] \in tried' /\ Kept(revFile[r], r - 1)'
<1>. SUFFICES ASSUME NEW r \in Revs \ {0}, revFile[r] # NoFile  PROVE revFile[r] \in tried' /\ Kept(revFile[r], r - 1)'
  OBVIOUS
<1>1. r - 1 \in 0..current
  BY DEF IInv, TypeOK, FileInv
<1>2. revFile[r] \in tried /\ Kept(revFile[r], r - 1)
  BY DEF UpdateInv, TriedInv, KeptInv
<1>. PICK t, s : t = revFile[r] /\ s = r - 1
  OBVIOUS
<1>3. Kept(t, s)'
  BY <1>1, <1>2 DEF KeptStays
<1>. QED  BY <1>2, <1>3 DEF Kept

\* The step changes no edit and no file; it may remove a transaction.
Quiet(p) ==
  /\ \A q \in Procs \ {p} : UNCHANGED <<pc[q], txn[q], rev[q], todo[q]>>
  /\ UNCHANGED <<revFile, inode, tried, origin>>
  /\ \A t \in txnDir' : t \in txnDir /\ txnTree'[t] = txnTree[t] /\ txnBase'[t] = txnBase[t]
  /\ txnCurrent' >= txnCurrent

\* Such a step need only put its own process in order.
LEMMA QuietKeeps ==
  ASSUME IInv, UpdateInv, [Next]_vars, NEW p \in Procs, Quiet(p),
         pc'[p] \in Committing => pc[p] \in Committing /\ txn'[p] = txn[p],
         MergedOK(p)'
  PROVE  UpdateInv'
<1>1. \A t : CleanStays(t) /\ KeptStays(t)
  BY SameStays DEF Quiet, SameEdits, SameFile
<1>2. Spares(p)
  BY <1>1 DEF Quiet, Spares, UpdateInv, MergedOK
<1>3. \A r \in Revs \ {0} : revFile'[r] # NoFile => revFile'[r] \in tried' /\ Kept(revFile[r], r - 1)'
  BY <1>1, FilesKept DEF Quiet
<1>4. \A t \in Txns : t >= txnCurrent' => origin'[t] = Unedited
  <2>1. txnCurrent \in Nat /\ txnCurrent' >= txnCurrent /\ origin' = origin
    BY DEF IInv, TypeOK, Quiet
  <2>2. txnCurrent' \in Nat
    <3>1. IInv'
      BY NextInv
    <3>. QED  BY <3>1 DEF IInv, TypeOK
  <2>. QED  BY <2>1, <2>2 DEF UpdateInv, OriginInv
<1>5. ASSUME NEW t \in txnDir' \ tried'  PROVE Clean(t, Paths, txnBase[t])'
  <2>. PICK r : r = txnBase[t]
    OBVIOUS
  <2>1. t \in txnDir /\ t \notin tried /\ txnBase'[t] = r /\ t \in Txns
    BY <1>5 DEF Quiet, IInv, TypeOK
  <2>2. r \in 0..current
    BY <2>1 DEF IInv, TypeOK, BaseInv
  <2>3. Clean(t, Paths, r)
    BY <2>1 DEF UpdateInv, OriginInv
  <2>4. Clean(t, Paths, r)'
    BY <1>1, <1>5, <2>2, <2>3 DEF CleanStays
  <2>. QED  BY <2>1, <2>4 DEF Clean
<1>6. pc'[p] \in Committing => \A q \in Procs \ {p} : pc[q] \in Committing => txn'[p] # txn[q]
  BY DEF UpdateInv, TriedInv
<1>. QED  BY <1>2, <1>3, <1>4, <1>5, <1>6, MergeKeeps

\* A process that is not committing says nothing of its transaction.
LEMMA NotCommitting ==
  ASSUME NEW p \in Procs, pc'[p] \notin Committing, pc'[p] # "mkdir"
  PROVE  MergedOK(p)'
  BY DEF MergedOK

\* Steps at whose end the process is not committing.
LEMMA EndsQuietly ==
  ASSUME IInv, UpdateInv, [Next]_vars, NEW p \in Procs,
         \/ ReadTxnKey(p) \/ RemoveProtoRev(p) \/ MergeTxnGone(p) \/ CommitLocksFail(p)
         \/ CommitProtoFail(p) \/ CommitBadRoot(p) \/ CommitTxnGone(p) \/ CommitPurge(p)
         \/ RecoverLock(p) \/ Recover(p) \/ Crash(p)
         \/ (CommitRetry(p) /\ current = rev[p])
         \/ (\E x \in Paths : MergeConflict(p, x))
         \/ (\E t \in Txns : AbortTxn(p, t))
  PROVE  UpdateInv'
<1>t. /\ pc \in [Procs -> Stages] /\ txn \in [Procs -> Inodes] /\ rev \in [Procs -> Revs] /\ todo \in [Procs -> SUBSET Paths]
      /\ txnTree \in [Txns -> Trees] /\ txnBase \in [Txns -> Revs] /\ txnDir \subseteq Txns /\ txnCurrent \in Nat
  <2>1. TypeOK
    BY DEF IInv
  <2>2. /\ pc \in [Procs -> Stages] /\ txn \in [Procs -> Inodes] /\ rev \in [Procs -> Revs] /\ todo \in [Procs -> SUBSET Paths]
        /\ txnTree \in [Txns -> Trees] /\ txnBase \in [Txns -> Revs] /\ txnDir \in SUBSET Txns
    BY <2>1, Zenon DEF TypeOK
  <2>3. txnCurrent \in Nat
    BY <2>1 DEF TypeOK
  <2>. QED  BY <2>2, <2>3
<1>r. ASSUME Return(p)
      PROVE  pc'[p] = "idle" /\ \A q \in Procs \ {p} : UNCHANGED <<pc[q], txn[q], rev[q], todo[q]>>
  BY <1>r, <1>t DEF Return
<1>d. ASSUME NEW t \in Txns, RemoveTxnDir(t)
      PROVE  \A u \in txnDir' : u \in txnDir /\ txnTree'[u] = txnTree[u] /\ txnBase'[u] = txnBase[u]
  BY <1>d, <1>t DEF RemoveTxnDir
<1>1. CASE ReadTxnKey(p) \/ RecoverLock(p)
  <2>1. pc'[p] \in {"key", "recover"}
    BY <1>1, <1>t DEF ReadTxnKey, RecoverLock
  <2>2. Quiet(p)
    BY <1>1, <1>t DEF ReadTxnKey, RecoverLock, Quiet
  <2>. QED  BY <2>1, <2>2, QuietKeeps, NotCommitting
<1>2. CASE RemoveProtoRev(p) \/ MergeTxnGone(p) \/ Recover(p) \/ (CommitRetry(p) /\ current = rev[p])
           \/ \E x \in Paths : MergeConflict(p, x)
  <2>1. Return(p) /\ UNCHANGED <<revFile, inode, tried, origin, txnDir, txnTree, txnBase, txnCurrent>>
    BY <1>2 DEF RemoveProtoRev, MergeTxnGone, Recover, CommitRetry, MergeConflict
  <2>2. Quiet(p) /\ pc'[p] = "idle"
    BY <1>t, <1>r, <2>1 DEF Quiet
  <2>. QED  BY <2>2, QuietKeeps, NotCommitting
<1>3. CASE CommitLocksFail(p) \/ CommitProtoFail(p) \/ CommitBadRoot(p) \/ CommitTxnGone(p) \/ Crash(p)
  <2>1. Return(p) /\ UNCHANGED <<revFile, inode, tried, origin, txnDir, txnTree, txnBase, txnCurrent>>
    BY <1>3 DEF CommitLocksFail, CommitProtoFail, CommitBadRoot, CommitTxnGone, Crash, CommitError
  <2>2. Quiet(p) /\ pc'[p] = "idle"
    BY <1>t, <1>r, <2>1 DEF Quiet
  <2>. QED  BY <2>2, QuietKeeps, NotCommitting
<1>4. CASE CommitPurge(p)
  <2>1. Return(p) /\ UNCHANGED <<revFile, inode, tried, origin, txnCurrent>> /\ RemoveTxnDir(txn[p]) /\ txn[p] \in Txns
    BY <1>4 DEF CommitPurge, IInv, KeyInv
  <2>2. Quiet(p) /\ pc'[p] = "idle"
    BY <1>t, <1>r, <1>d, <2>1 DEF Quiet
  <2>. QED  BY <2>2, QuietKeeps, NotCommitting
<1>5. ASSUME NEW t \in Txns, AbortTxn(p, t)  PROVE UpdateInv'
  <2>1. pc'[p] = "unproto" /\ \A q \in Procs \ {p} : UNCHANGED <<pc[q], txn[q], rev[q], todo[q]>>
    BY <1>5, <1>t DEF AbortTxn
  <2>2. RemoveTxnDir(t) /\ UNCHANGED <<revFile, inode, tried, origin, txnCurrent>>
    BY <1>5 DEF AbortTxn
  <2>3. Quiet(p)
    BY <1>t, <1>d, <2>1, <2>2 DEF Quiet
  <2>. QED  BY <2>1, <2>3, QuietKeeps, NotCommitting
<1>. QED  BY <1>1, <1>2, <1>3, <1>4, <1>5

\* Steps of a commit, and the key that is taken, that change no edit.
LEMMA GoesOnQuietly ==
  ASSUME IInv, UpdateInv, [Next]_vars, NEW p \in Procs,
         \/ WriteTxnKey(p) \/ CommitLock(p) \/ CommitCheck(p) \/ CommitOutOfDate(p) \/ CommitProto(p)
         \/ CommitDate(p) \/ CommitMoveProps(p) \/ CommitCurrent(p)
  PROVE  UpdateInv'
<1>t. pc \in [Procs -> Stages] /\ txn \in [Procs -> Inodes] /\ txnCurrent \in Nat /\ MergedOK(p)
  <2>1. txnCurrent \in Nat
    BY DEF IInv, TypeOK
  <2>. QED  BY <2>1, CommitTypes DEF UpdateInv
<1>1. Quiet(p) /\ UNCHANGED <<txn, rev>>
  <2>1. CASE WriteTxnKey(p)
    <3>1. txnCurrent' >= txnCurrent
      BY <1>t, <2>1 DEF WriteTxnKey, IInv, KeyInv
    <3>. QED  BY <1>t, <2>1, <3>1 DEF WriteTxnKey, Quiet
  <2>2. CASE ~WriteTxnKey(p)
    BY <1>t, <2>2 DEF CommitLock, CommitCheck, CommitOutOfDate, CommitProto, CommitDate, CommitMoveProps, CommitCurrent, Quiet
  <2>. QED  BY <2>1, <2>2
<1>2. CASE WriteTxnKey(p)
  <2>1. pc'[p] = "mkdir" /\ txn[p] = txnCurrent
    BY <1>t, <1>2 DEF WriteTxnKey, IInv, KeyInv
  <2>2. txn[p] \in Txns
    BY <1>2 DEF WriteTxnKey, IInv, KeyInv
  <2>3. origin[txn[p]] = Unedited
    BY <1>t, <2>1, <2>2 DEF UpdateInv, OriginInv
  <2>4. MergedOK(p)'
    BY <1>1, <2>1, <2>3 DEF MergedOK, Quiet
  <2>. QED  BY <1>1, <2>1, <2>4, QuietKeeps
<1>3. CASE CommitLock(p) \/ CommitCheck(p) \/ CommitOutOfDate(p) \/ CommitProto(p)
  <2>1. pc[p] \in Unplaced \ {"merge"} /\ pc'[p] \in Unplaced \ {"merge"}
    BY <1>t, <1>3 DEF CommitLock, CommitCheck, CommitOutOfDate, CommitProto
  <2>. PICK t, r : t = txn[p] /\ r = rev[p]
    OBVIOUS
  <2>2. t \in tried' /\ \A s \in Revs : revFile'[s] # t
    BY <1>t, <1>1, <2>1 DEF MergedOK, Quiet
  <2>3. t \in txnDir' => txnBase'[t] = r /\ Clean(t, Paths, r)'
    <3>1. CleanStays(t)
      BY <1>1, SameStays DEF Quiet, SameEdits
    <3>2. r \in 0..current
      BY DEF IInv, TypeOK, BaseInv
    <3>. QED  BY <1>t, <2>1, <3>1, <3>2 DEF CleanStays, MergedOK
  <2>4. MergedOK(p)'
    BY <1>1, <2>1, <2>2, <2>3 DEF MergedOK, Clean
  <2>. QED  BY <1>1, <2>1, <2>4, QuietKeeps
<1>4. CASE CommitDate(p) \/ CommitMoveProps(p) \/ CommitCurrent(p)
  <2>1. pc[p] \in Committing /\ pc'[p] \in {"props", "current", "purge"}
    BY <1>t, <1>4 DEF CommitDate, CommitMoveProps, CommitCurrent
  <2>2. MergedOK(p)'
    BY <1>t, <1>1, <2>1 DEF MergedOK, Quiet
  <2>. QED  BY <1>1, <2>1, <2>2, QuietKeeps
<1>. QED  BY <1>2, <1>3, <1>4

\* The record of a transaction nobody is committing, after a step that leaves it alone.
LEMMA UntriedClean ==
  ASSUME IInv, UpdateInv, NEW t \in txnDir', t \notin tried, CleanStays(t)
  PROVE  Clean(t, Paths, txnBase[t])'
<1>. PICK r : r = txnBase[t]
  OBVIOUS
<1>1. t \in txnDir /\ txnBase'[t] = r /\ t \in Txns
  BY DEF CleanStays, IInv, TypeOK
<1>2. r \in 0..current
  BY <1>1 DEF IInv, TypeOK, BaseInv
<1>3. Clean(t, Paths, r)
  BY <1>1 DEF UpdateInv, OriginInv
<1>4. Clean(t, Paths, r)'
  BY <1>2, <1>3 DEF CleanStays
<1>. QED  BY <1>1, <1>4 DEF Clean

\* A turn of the commit loop begins: where the youngest revision is as the base,
\* nothing needs to be merged.
LEMMA StartKeeps ==
  ASSUME ~Recommit, IInv, UpdateInv, [Next]_vars, NEW p \in Procs, NEW t \in txnDir, StartMerge(p, t),
         UNCHANGED <<revFile, inode, origin, txnDir, txnTree, txnBase, txnCurrent>>,
         txn' = [txn EXCEPT ![p] = t], tried' = tried \cup {t},
         \/ pc[p] = "idle" /\ t \notin tried
         \/ pc[p] = "retry" /\ txn[p] = t
  PROVE  UpdateInv'
<1>t. /\ pc \in [Procs -> Stages] /\ txn \in [Procs -> Inodes] /\ rev \in [Procs -> Revs] /\ todo \in [Procs -> SUBSET Paths]
      /\ t \in Txns /\ txnBase[t] \in 0..current /\ current \in 0..current
  <2>1. TypeOK
    BY DEF IInv
  <2>2. /\ pc \in [Procs -> Stages] /\ txn \in [Procs -> Inodes] /\ rev \in [Procs -> Revs] /\ todo \in [Procs -> SUBSET Paths]
        /\ txnDir \in SUBSET Txns
    BY <2>1, Zenon DEF TypeOK
  <2>3. t \in Txns
    BY <2>2
  <2>4. txnBase[t] \in 0..current /\ current \in 0..current
    BY <2>1, <2>3 DEF TypeOK, IInv, BaseInv
  <2>. QED  BY <2>2, <2>3, <2>4
<1>1. /\ pc'[p] = "merge" /\ txn'[p] = t /\ rev'[p] = current
      /\ todo'[p] = {x \in Paths : Tree(current)[x] # Tree(txnBase[t])[x]}
      /\ \A q \in Procs \ {p} : UNCHANGED <<pc[q], txn[q], rev[q], todo[q]>>
  BY <1>t DEF StartMerge
<1>2. \A u : CleanStays(u) /\ KeptStays(u)
  BY SameStays DEF SameEdits, SameFile
<1>3. Spares(p)
  BY <1>1, <1>2 DEF Spares, UpdateInv, MergedOK
<1>4. \A r \in Revs \ {0} : revFile'[r] # NoFile => revFile'[r] \in tried' /\ Kept(revFile[r], r - 1)'
  BY <1>2, FilesKept
<1>5. \A u \in Txns : u >= txnCurrent' => origin'[u] = Unedited
  BY DEF UpdateInv, OriginInv
<1>6. \A u \in txnDir' \ tried' : Clean(u, Paths, txnBase[u])'
  BY <1>2, UntriedClean
<1>7. \A q \in Procs \ {p} : pc[q] \in Committing => t # txn[q]
  BY DEF UpdateInv, TriedInv, MergedOK
<1>8. Clean(t, Paths, txnBase[t]) /\ \A r \in Revs : revFile[r] # t
  <2>1. CASE pc[p] = "idle" /\ t \notin tried
    <3>1. \A r \in Revs : revFile[r] # t
      BY <1>t, <2>1 DEF UpdateInv, TriedInv, IInv, FileInv
    <3>. QED  BY <2>1, <3>1 DEF UpdateInv, OriginInv
  <2>2. CASE pc[p] = "retry" /\ txn[p] = t
    BY <2>2 DEF UpdateInv, MergedOK
  <2>. QED  BY <2>1, <2>2
<1>9. Clean(t, Paths \ todo'[p], current)
  BY <1>1, <1>8 DEF Clean
<1>10. MergedOK(p)'
  <2>. PICK xs, r : xs = Paths \ todo'[p] /\ r = current
    OBVIOUS
  <2>1. Clean(t, xs, r)'
    <3>1. xs \in SUBSET Paths
      OBVIOUS
    <3>. QED  BY <1>t, <1>2, <1>9, <3>1 DEF CleanStays
  <2>. QED  BY <1>1, <1>8, <2>1 DEF MergedOK, Clean
<1>. QED  BY <1>1, <1>3, <1>4, <1>5, <1>6, <1>7, <1>10, MergeKeeps

\* The two actions that begin a turn.
LEMMA StartStepsKeep ==
  ASSUME ~Recommit, IInv, UpdateInv, [Next]_vars, NEW p \in Procs,
         (CommitRetry(p) /\ current # rev[p]) \/ \E t \in Txns : CommitTxn(p, t)
  PROVE  UpdateInv'
<1>1. ASSUME NEW t \in Txns, CommitTxn(p, t)  PROVE UpdateInv'
  BY <1>1, StartKeeps DEF CommitTxn
<1>2. CASE CommitRetry(p) /\ current # rev[p]
  <2>1. txn' = [txn EXCEPT ![p] = txn[p]]
    BY <1>2 DEF CommitRetry, IInv, TypeOK
  <2>2. txn[p] \in tried /\ txn[p] \in txnDir
    BY <1>2 DEF CommitRetry, UpdateInv, MergedOK
  <2>3. tried' = tried \cup {txn[p]}
    BY <1>2, <2>2 DEF CommitRetry
  <2>. QED  BY <1>2, <2>1, <2>2, <2>3, StartKeeps DEF CommitRetry
<1>. QED  BY <1>1, <1>2

\* svn_fs_delete and svn_fs_apply_text change an entry and record what was there.
LEMMA EditKeeps ==
  ASSUME IInv, UpdateInv, [Next]_vars, NEW p \in Procs, NEW t \in Txns, NEW x \in Paths,
         DeletePath(p, t, x) \/ OpenWriter(p, t, x)
  PROVE  UpdateInv'
<1>t. pc \in [Procs -> Stages] /\ txn \in [Procs -> Inodes] /\ origin \in [Txns -> [Paths -> Entries \cup {NoFile}]]
  BY CommitTypes
<1>1. \E e : SetEntry(t, x, e)
  BY DEF DeletePath, OpenWriter
<1>2. t \in txnDir /\ UNCHANGED <<txnDir, txnBase, inode, revFile, tried, txnCurrent>> /\ rev' = rev /\ todo' = todo
  BY DEF DeletePath, OpenWriter
<1>3. pc'[p] \in {"idle", "write"} /\ \A q \in Procs \ {p} : UNCHANGED <<pc[q], txn[q], rev[q], todo[q]>>
  BY <1>t, <1>2 DEF DeletePath, OpenWriter
<1>4. \A u \in Txns : CleanStays(u) /\ KeptStays(u)
  BY <1>1, <1>2, EditStays
<1>5. \A u \in Txns : u # t => origin'[u] = origin[u]
  BY <1>t, <1>1 DEF SetEntry
<1>6. \A q \in Procs : pc[q] \in Committing \cup {"mkdir"} => txn[q] \in Txns
  BY DEF IInv, KeyInv
<1>7. \A q \in Procs : pc[q] = "mkdir" => txn[q] # t
  BY <1>2 DEF IInv, KeyInv
<1>8. Spares(p)
  BY <1>2, <1>3, <1>4, <1>5, <1>6, <1>7 DEF Spares, UpdateInv, MergedOK
<1>9. \A r \in Revs \ {0} : revFile'[r] # NoFile => revFile'[r] \in tried' /\ Kept(revFile[r], r - 1)'
  <2>1. \A r \in Revs \ {0} : revFile[r] # NoFile => KeptStays(revFile[r])
    BY <1>4 DEF IInv, FileInv
  <2>. QED  BY <1>2, <2>1, FilesKept
<1>10. \A u \in Txns : u >= txnCurrent' => origin'[u] = Unedited
  <2>1. t < txnCurrent /\ txnCurrent \in Nat
    BY <1>2 DEF IInv, TypeOK, KeyInv
  <2>. QED  BY <1>2, <1>5, <2>1 DEF UpdateInv, OriginInv
<1>11. \A u \in txnDir' \ tried' : Clean(u, Paths, txnBase[u])'
  BY <1>2, <1>4, UntriedClean, CommitTypes
<1>12. MergedOK(p)'
  BY <1>3, NotCommitting
<1>. QED  BY <1>3, <1>8, <1>9, <1>10, <1>11, <1>12, MergeKeeps

\* What is new is clean: create_txn clones the root of the base.
LEMMA MakeKeeps ==
  ASSUME IInv, UpdateInv, [Next]_vars, NEW p \in Procs, MakeTxn(p)
  PROVE  UpdateInv'
<1>t. /\ pc \in [Procs -> Stages] /\ txn \in [Procs -> Inodes] /\ rev \in [Procs -> Revs] /\ todo \in [Procs -> SUBSET Paths]
      /\ inode \in [Inodes -> Trees \cup {NoTrailer}] /\ txnTree \in [Txns -> Trees] /\ txnBase \in [Txns -> Revs]
  BY CommitTypes
<1>1. txn[p] \in Txns /\ txn[p] \notin txnDir /\ (\A r \in Revs : revFile[r] # txn[p]) /\ \A q \in Procs \ {p} : txn[q] # txn[p]
  BY DEF MakeTxn, IInv, KeyInv
<1>2. pc'[p] = "idle" /\ \A q \in Procs \ {p} : UNCHANGED <<pc[q], txn[q], rev[q], todo[q]>>
  BY <1>t DEF MakeTxn, Return
<1>3. UNCHANGED <<revFile, tried, origin, txnCurrent>> /\ txnDir' = txnDir \cup {txn[p]}
  BY DEF MakeTxn
<1>4. ASSUME NEW u \in Inodes, u # txn[p]  PROVE CleanStays(u) /\ KeptStays(u)
  <2>1. SameFile(u)
    BY <1>t, <1>3, <1>4 DEF MakeTxn, SameFile
  <2>2. SameEdits(u)
    <3>1. u \in txnDir' => u \in Txns /\ u \in txnDir
      BY <1>3, <1>4, CommitTypes
    <3>. QED  BY <1>t, <1>3, <1>4, <3>1 DEF MakeTxn, SameEdits
  <2>. QED  BY <2>1, <2>2, SameStays
<1>5. Spares(p)
  BY <1>t, <1>1, <1>2, <1>3, <1>4 DEF Spares, UpdateInv, MergedOK
<1>6. \A r \in Revs \ {0} : revFile'[r] # NoFile => revFile'[r] \in tried' /\ Kept(revFile[r], r - 1)'
  <2>1. \A r \in Revs \ {0} : revFile[r] # NoFile => KeptStays(revFile[r])
    BY <1>1, <1>4 DEF IInv, FileInv
  <2>. QED  BY <1>3, <2>1, FilesKept
<1>7. \A u \in Txns : u >= txnCurrent' => origin'[u] = Unedited
  BY <1>3 DEF UpdateInv, OriginInv
<1>8. ASSUME NEW u \in txnDir' \ tried'  PROVE Clean(u, Paths, txnBase[u])'
  <2>1. CASE u # txn[p]
    BY <1>3, <1>4, <1>8, <2>1, UntriedClean, CommitTypes
  <2>2. CASE u = txn[p]
    <3>1. origin'[u] = Unedited
      BY <1>3, <2>2 DEF MakeTxn, UpdateInv, MergedOK
    <3>2. txnBase'[u] = rev[p] /\ txnTree'[u] = Tree(rev[p]) /\ rev[p] \in 0..current
      BY <1>t, <1>1, <2>2 DEF MakeTxn, IInv, TypeOK, BaseInv
    <3>. PICK r : r = rev[p]
      OBVIOUS
    <3>3. Clean(u, Paths, r)'
      BY <3>1, <3>2, OldTrees DEF Clean, Unedited
    <3>. QED  BY <3>2, <3>3 DEF Clean
  <2>. QED  BY <2>1, <2>2
<1>9. MergedOK(p)'
  BY <1>2, NotCommitting
<1>. QED  BY <1>2, <1>5, <1>6, <1>7, <1>8, <1>9, MergeKeeps

\* A text is flushed to the end of a file that is not in place as a revision, and that no
\* commit has finished.
LEMMA CloseKeeps ==
  ASSUME IInv, UpdateInv, [Next]_vars, NEW p \in Procs, CloseWriter(p)
  PROVE  UpdateInv'
<1>t. /\ pc \in [Procs -> Stages] /\ txn \in [Procs -> Inodes] /\ rev \in [Procs -> Revs] /\ todo \in [Procs -> SUBSET Paths]
      /\ inode \in [Inodes -> Trees \cup {NoTrailer}]
  BY CommitTypes
<1>1. (\A r \in Revs : revFile[r] # txn[p]) /\ \A q \in Procs \ {p} : pc[q] = "move" => txn[q] # txn[p]
  BY DEF CloseWriter, IInv, ProtoInv, ProtoLocked
<1>2. pc'[p] = "idle" /\ \A q \in Procs \ {p} : UNCHANGED <<pc[q], txn[q], rev[q], todo[q]>>
  BY <1>t DEF CloseWriter, Return
<1>3. UNCHANGED <<revFile, tried, origin, txnCurrent, txnDir, txnTree, txnBase>>
  BY DEF CloseWriter
<1>4. \A u : CleanStays(u)
  BY <1>3, SameStays DEF SameEdits
<1>5. ASSUME NEW u \in Inodes, u # txn[p]  PROVE KeptStays(u)
  <2>1. SameFile(u)
    BY <1>t, <1>3, <1>5 DEF CloseWriter, SameFile
  <2>. QED  BY <2>1, SameStays
<1>6. Spares(p)
  BY <1>t, <1>1, <1>2, <1>3, <1>4, <1>5 DEF Spares, UpdateInv, MergedOK
<1>7. \A r \in Revs \ {0} : revFile'[r] # NoFile => revFile'[r] \in tried' /\ Kept(revFile[r], r - 1)'
  <2>1. \A r \in Revs \ {0} : revFile[r] # NoFile => KeptStays(revFile[r])
    BY <1>1, <1>5 DEF IInv, FileInv
  <2>. QED  BY <1>3, <2>1, FilesKept
<1>8. \A u \in Txns : u >= txnCurrent' => origin'[u] = Unedited
  BY <1>3 DEF UpdateInv, OriginInv
<1>9. \A u \in txnDir' \ tried' : Clean(u, Paths, txnBase[u])'
  BY <1>3, <1>4, UntriedClean
<1>10. MergedOK(p)'
  BY <1>2, NotCommitting
<1>. QED  BY <1>2, <1>6, <1>7, <1>8, <1>9, <1>10, MergeKeeps

\* A step of a commit before the rename that touches its own transaction only.
LEMMA OwnKeeps ==
  ASSUME IInv, UpdateInv, [Next]_vars, NEW p \in Procs, pc[p] \in Unplaced,
         \A q \in Procs \ {p} : UNCHANGED <<pc[q], txn[q], rev[q], todo[q]>>,
         UNCHANGED <<txn, revFile, tried, txnCurrent, txnDir>>,
         \A u \in Txns : u # txn[p] => SameEdits(u) /\ SameFile(u),
         MergedOK(p)'
  PROVE  UpdateInv'
<1>1. txn[p] \in Txns /\ txn[p] < txnCurrent /\ txn[p] \in tried /\ (\A r \in Revs : revFile[r] # txn[p])
  BY DEF UpdateInv, MergedOK, IInv, KeyInv
<1>2. \A q \in Procs \ {p} : pc[q] \in Committing \cup {"mkdir"} => txn[q] \in Txns /\ txn[q] # txn[p]
  BY DEF UpdateInv, TriedInv, IInv, KeyInv
<1>3. \A u \in Txns : u # txn[p] => CleanStays(u) /\ KeptStays(u) /\ origin'[u] = origin[u]
  BY SameStays DEF SameFile
<1>4. Spares(p)
  BY <1>2, <1>3 DEF Spares, UpdateInv, MergedOK
<1>5. \A r \in Revs \ {0} : revFile'[r] # NoFile => revFile'[r] \in tried' /\ Kept(revFile[r], r - 1)'
  <2>1. \A r \in Revs \ {0} : revFile[r] # NoFile => KeptStays(revFile[r])
    BY <1>1, <1>3 DEF IInv, FileInv
  <2>. QED  BY <2>1, FilesKept
<1>6. \A u \in Txns : u >= txnCurrent' => origin'[u] = Unedited
  <2>1. txnCurrent \in Nat
    BY DEF IInv, TypeOK
  <2>. QED  BY <1>1, <1>3, <2>1 DEF UpdateInv, OriginInv
<1>7. \A u \in txnDir' \ tried' : Clean(u, Paths, txnBase[u])'
  BY <1>1, <1>3, UntriedClean, CommitTypes
<1>8. \A q \in Procs \ {p} : pc[q] \in Committing => txn'[p] # txn[q]
  BY <1>2
<1>. QED  BY <1>4, <1>5, <1>6, <1>7, <1>8, MergeKeeps

\* An entry is taken over from the youngest revision.
LEMMA MergeEntryKeeps ==
  ASSUME IInv, UpdateInv, [Next]_vars, NEW p \in Procs, NEW x \in Paths, MergeEntry(p, x)
  PROVE  UpdateInv'
<1>t. /\ pc \in [Procs -> Stages] /\ todo \in [Procs -> SUBSET Paths] /\ txnTree \in [Txns -> Trees]
      /\ origin \in [Txns -> [Paths -> Entries \cup {NoFile}]] /\ txn[p] \in Txns /\ rev[p] \in 0..current
  <2>1. txn[p] \in Txns
    BY DEF MergeEntry, IInv, KeyInv
  <2>2. rev[p] \in 0..current
    BY DEF IInv, TypeOK, BaseInv
  <2>. QED  BY <2>1, <2>2, CommitTypes
<1>1. /\ pc[p] = "merge" /\ txn[p] \in txnDir
      /\ UNCHANGED <<pc, txn, rev, revFile, inode, tried, txnCurrent, txnDir, txnBase>>
  BY DEF MergeEntry
<1>2. todo'[p] = todo[p] \ {x} /\ \A q \in Procs \ {p} : todo'[q] = todo[q]
  BY <1>t DEF MergeEntry
<1>3. \A u \in Txns : u # txn[p] => SameEdits(u) /\ SameFile(u)
  BY <1>t, <1>1 DEF MergeEntry, SameEdits, SameFile
<1>. PICK t, r : t = txn[p] /\ r = rev[p]
  OBVIOUS
<1>4. Clean(t, Paths \ todo[p], r)
  BY <1>1 DEF UpdateInv, MergedOK
<1>5. origin'[t][x] = NoFile /\ txnTree'[t][x] = Tree(r)[x]
  BY <1>t DEF MergeEntry, Trees
<1>6. \A y \in Paths : y # x => origin'[t][y] = origin[t][y] /\ txnTree'[t][y] = txnTree[t][y]
  BY <1>t DEF MergeEntry, Trees
<1>7. Tree(r)' = Tree(r)
  BY <1>t, OldTrees
<1>8. Clean(t, Paths \ todo[p], r)'
  <2>. SUFFICES ASSUME NEW y \in Paths \ todo'[p]
                PROVE  IF origin'[t][y] = NoFile THEN txnTree'[t][y] = Tree(r)'[y] ELSE origin'[t][y] = Tree(r)'[y]
    BY DEF Clean
  <2>1. CASE y = x
    BY <1>5, <1>7, <2>1
  <2>2. CASE y # x
    <3>1. y \in Paths \ todo[p]
      BY <1>2, <2>2
    <3>2. IF origin[t][y] = NoFile THEN txnTree[t][y] = Tree(r)[y] ELSE origin[t][y] = Tree(r)[y]
      BY <1>4, <3>1 DEF Clean
    <3>. QED  BY <1>6, <1>7, <2>2, <3>2
  <2>. QED  BY <2>1, <2>2
<1>9. MergedOK(p)'
  BY <1>1, <1>8 DEF UpdateInv, MergedOK, Clean
<1>. QED  BY <1>1, <1>2, <1>3, <1>9, OwnKeeps

\* The merge ends: the whole transaction is clean with respect to the revision that is now
\* its base.
LEMMA MergeDoneKeeps ==
  ASSUME IInv, UpdateInv, [Next]_vars, NEW p \in Procs, MergeDone(p)
  PROVE  UpdateInv'
<1>t. pc \in [Procs -> Stages] /\ txnBase \in [Txns -> Revs] /\ txn[p] \in Txns /\ rev[p] \in 0..current
  <2>1. txn[p] \in Txns
    BY DEF MergeDone, IInv, KeyInv
  <2>2. rev[p] \in 0..current
    BY DEF IInv, TypeOK, BaseInv
  <2>. QED  BY <2>1, <2>2, CommitTypes
<1>1. /\ pc[p] = "merge" /\ txn[p] \in txnDir /\ todo[p] = {}
      /\ UNCHANGED <<txn, rev, todo, revFile, inode, tried, txnCurrent, txnDir, txnTree, origin>>
  BY DEF MergeDone
<1>2. pc'[p] = "lock" /\ \A q \in Procs \ {p} : pc'[q] = pc[q]
  BY <1>t DEF MergeDone
<1>3. txnBase'[txn[p]] = rev[p] /\ \A u \in Txns : u # txn[p] => txnBase'[u] = txnBase[u]
  BY <1>t DEF MergeDone
<1>4. \A u \in Txns : u # txn[p] => SameEdits(u) /\ SameFile(u)
  BY <1>1, <1>3 DEF SameEdits, SameFile
<1>. PICK t, r : t = txn[p] /\ r = rev[p]
  OBVIOUS
<1>5. Clean(t, Paths, r) /\ t \in tried /\ \A s \in Revs : revFile[s] # t
  BY <1>1 DEF UpdateInv, MergedOK, Clean
<1>6. Clean(t, Paths, r)'
  BY <1>t, <1>1, <1>5, OldTrees DEF Clean
<1>7. MergedOK(p)'
  BY <1>1, <1>2, <1>3, <1>5, <1>6 DEF MergedOK, Clean
<1>. QED  BY <1>1, <1>2, <1>4, <1>7, OwnKeeps

\* The tree is written: what is clean is kept.
LEMMA FinalKeeps ==
  ASSUME IInv, UpdateInv, [Next]_vars, NEW p \in Procs, CommitFinal(p)
  PROVE  UpdateInv'
<1>t. pc \in [Procs -> Stages] /\ inode \in [Inodes -> Trees \cup {NoTrailer}] /\ txn[p] \in Txns /\ rev[p] \in 0..current
  <2>1. txn[p] \in Txns
    BY DEF CommitFinal, IInv, KeyInv
  <2>2. rev[p] \in 0..current
    BY DEF IInv, TypeOK, BaseInv
  <2>. QED  BY <2>1, <2>2, CommitTypes
<1>1. /\ pc[p] = "final" /\ txn[p] \in txnDir
      /\ UNCHANGED <<txn, rev, todo, revFile, tried, txnCurrent, txnDir, txnBase, txnTree, origin>>
  BY DEF CommitFinal
<1>2. pc'[p] = "move" /\ \A q \in Procs \ {p} : pc'[q] = pc[q]
  BY <1>t DEF CommitFinal
<1>3. inode'[txn[p]] = txnTree[txn[p]] /\ \A u \in Txns : u # txn[p] => inode'[u] = inode[u]
  BY <1>t DEF CommitFinal
<1>4. \A u \in Txns : u # txn[p] => SameEdits(u) /\ SameFile(u)
  BY <1>1, <1>3 DEF SameEdits, SameFile
<1>. PICK t, r : t = txn[p] /\ r = rev[p]
  OBVIOUS
<1>5. Clean(t, Paths, r) /\ t \in tried
  BY <1>1 DEF UpdateInv, MergedOK
<1>6. Kept(t, r)'
  BY <1>t, <1>1, <1>3, <1>5, OldTrees DEF Clean, Kept
<1>7. MergedOK(p)'
  BY <1>1, <1>2, <1>5, <1>6 DEF MergedOK, Kept
<1>. QED  BY <1>1, <1>2, <1>4, <1>7, OwnKeeps

\* The file becomes the next revision's.
LEMMA MoveKeeps ==
  ASSUME IInv, UpdateInv, [Next]_vars, NEW p \in Procs, CommitMoveRev(p)
  PROVE  UpdateInv'
<1>t. pc \in [Procs -> Stages] /\ revFile \in [Revs -> Inodes \cup {NoFile}] /\ rev[p] = current /\ current \in Nat
      /\ current + 1 \in Revs
  <2>1. rev[p] = current /\ current < MaxRev
    BY DEF CommitMoveRev, IInv, LockInv
  <2>2. current \in Nat /\ current + 1 \in Revs
    BY <2>1 DEF IInv, TypeOK
  <2>. QED  BY <2>1, <2>2, CommitTypes
<1>1. /\ pc[p] = "move"
      /\ UNCHANGED <<txn, rev, todo, inode, tried, txnCurrent, txnDir, txnBase, txnTree, origin>>
  BY DEF CommitMoveRev
<1>2. pc'[p] = "date" /\ \A q \in Procs \ {p} : pc'[q] = pc[q]
  BY <1>t DEF CommitMoveRev
<1>3. revFile'[current + 1] = txn[p] /\ \A r \in Revs : r # current + 1 => revFile'[r] = revFile[r]
  BY <1>t DEF CommitMoveRev
<1>4. \A u : CleanStays(u) /\ KeptStays(u)
  BY <1>1, SameStays DEF SameEdits, SameFile
<1>5. \A q \in Procs \ {p} : pc[q] \in Committing => txn[q] # txn[p]
  BY <1>1 DEF UpdateInv, TriedInv
<1>6. Spares(p)
  <2>1. ASSUME NEW q \in Procs \ {p}, pc[q] \in Unplaced  PROVE \A r \in Revs : revFile'[r] # txn[q]
    BY <1>3, <1>5, <2>1 DEF UpdateInv, MergedOK
  <2>. QED  BY <1>1, <1>2, <1>4, <2>1 DEF Spares
<1>7. ASSUME NEW r \in Revs \ {0}, revFile'[r] # NoFile
      PROVE  revFile'[r] \in tried' /\ Kept(revFile[r], r - 1)'
  <2>. PICK t, s : t = revFile'[r] /\ s = r - 1
    OBVIOUS
  <2>1. s \in 0..current
    BY <1>t, <1>3, <1>7 DEF IInv, TypeOK, FileInv
  <2>2. t \in tried /\ Kept(t, s)
    <3>1. CASE r = current + 1
      <4>1. s = rev[p] /\ t = txn[p]
        BY <1>t, <1>3, <3>1
      <4>2. txn[p] \in tried /\ Kept(txn[p], rev[p])
        BY <1>1 DEF UpdateInv, MergedOK
      <4>. QED  BY <4>1, <4>2
    <3>2. CASE r # current + 1
      BY <1>3, <1>7, <3>2 DEF UpdateInv, TriedInv, KeptInv
    <3>. QED  BY <3>1, <3>2
  <2>3. Kept(t, s)'
    BY <1>4, <2>1, <2>2 DEF KeptStays
  <2>. QED  BY <1>1, <2>2, <2>3 DEF Kept
<1>8. \A u \in Txns : u >= txnCurrent' => origin'[u] = Unedited
  BY <1>1 DEF UpdateInv, OriginInv
<1>9. \A u \in txnDir' \ tried' : Clean(u, Paths, txnBase[u])'
  BY <1>1, <1>4, UntriedClean
<1>10. MergedOK(p)'
  BY <1>1, <1>2 DEF UpdateInv, MergedOK
<1>. QED  BY <1>1, <1>5, <1>6, <1>7, <1>8, <1>9, <1>10, MergeKeeps

\* A repository nobody is using has nothing to lose.
LEMMA UpdateInit == Init => UpdateInv
<1>. SUFFICES ASSUME Init PROVE UpdateInv
  OBVIOUS
<1>1. TriedInv /\ OriginInv /\ KeptInv
  BY DEF Init, TriedInv, OriginInv, KeptInv
<1>2. \A p \in Procs : MergedOK(p)
  BY DEF Init, MergedOK
<1>. QED  BY <1>1, <1>2 DEF UpdateInv

\* Every step keeps the record of the edits.
LEMMA UpdateNext == ASSUME ~Recommit PROVE IInv /\ UpdateInv /\ [Next]_vars => UpdateInv'
<1>. SUFFICES ASSUME IInv, UpdateInv, [Next]_vars PROVE UpdateInv'
  OBVIOUS
<1>1. CASE UNCHANGED vars
  <2>1. UNCHANGED <<pc, txn, rev, todo, revFile, inode, tried, origin, txnDir, txnTree, txnBase, txnCurrent>>
    BY <1>1 DEF vars, dbVars, keyVars, txnVars, mergeVars, auxVars
  <2>. QED  BY <2>1 DEF UpdateInv, TriedInv, OriginInv, KeptInv, MergedOK, Clean, Kept, Tree
<1>2. ASSUME NEW p \in Procs, Step(p)  PROVE UpdateInv'
  BY <1>2, MakeKeeps, CloseKeeps, MergeEntryKeeps, MergeDoneKeeps, FinalKeeps, MoveKeeps,
     EndsQuietly, GoesOnQuietly, StartStepsKeep
  DEF Step
<1>3. ASSUME NEW p \in Procs, Request(p)  PROVE UpdateInv'
  BY <1>3, EditKeeps, EndsQuietly, StartStepsKeep DEF Request
<1>4. ASSUME NEW p \in Procs, CommitLock(p) \/ Crash(p)  PROVE UpdateInv'
  BY <1>4, EndsQuietly, GoesOnQuietly
<1>. QED  BY <1>1, <1>2, <1>3, <1>4 DEF Next, Quiescent

\* No committed change is undone by a later commit: where a revision differs from the one
\* before it, its transaction edited that path, and what the edit replaced is what the
\* revision before has there.  For transactions that are not committed again after a failed
\* attempt; any number of processes, aborts, crashes and recoveries.
THEOREM NoUpdateLost == ASSUME ~Recommit PROVE Spec => []NoLostUpdate
<1>1. ASSUME IInv, UpdateInv, NEW r \in 1..current, NEW x \in Paths, Tree(r)[x] # Tree(r - 1)[x]
      PROVE  origin[revFile[r]][x] = Tree(r - 1)[x]
  <2>1. r \in Revs \ {0} /\ r \in 0..current
    BY <1>1 DEF IInv, TypeOK
  <2>2. revFile[r] # NoFile
    BY <1>1, <2>1 DEF IInv, FileInv
  <2>3. Kept(revFile[r], r - 1)
    BY <1>1, <2>1, <2>2 DEF UpdateInv, KeptInv
  <2>. QED  BY <1>1, <2>3 DEF Kept, Tree
<1>2. IInv /\ UpdateInv => NoLostUpdate
  BY <1>1 DEF NoLostUpdate
<1>. QED  BY <1>2, UpdateInit, UpdateNext, Invariance, PTL DEF Spec
================================================================================
