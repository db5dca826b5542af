------------------------------- MODULE FsfsCommit ------------------------------
(***************************************************************************)
(* Transactions and commits of the FSFS back end (libsvn_fs_fs).           *)
(*                                                                         *)
(* Server processes share one repository directory and nothing else.  A    *)
(* process begins transactions, edits their trees, writes file texts into  *)
(* their prototype revision files, commits or aborts them, and may run     *)
(* 'svnadmin recover'.  Every step that another process can observe (a     *)
(* rename, a lock, a file written in place) is an action of its own, so a  *)
(* process can crash, or another one run, between any two of them.         *)
(*                                                                         *)
(* A tree is a function from paths to directory entries.  An entry is the  *)
(* node the path leads to: 0 for a node older than the model's first       *)
(* revision, t for the node transaction t made of it, Absent for none.     *)
(*                                                                         *)
(* A revision file is the prototype revision file of a transaction under   *)
(* another name, so files are identified by the transaction that made them *)
(* (its inode): inode[t] is the tree to which the last line of the file    *)
(* leads.  Whoever still has the file open writes to the same inode.       *)
(***************************************************************************)
EXTENDS Naturals, FiniteSets

CONSTANTS
  Procs,     \* server processes
  Paths,     \* paths of the tree
  MaxTxn,    \* bound: transactions ever begun
  MaxRev,    \* bound: revisions ever committed
  MaxCrash,  \* bound: process crashes
  Recommit,  \* TRUE: a transaction whose commit failed may be committed again
  Requests,  \* what clients and administrators ask for, besides commits
  Absent,    \* no entry at a path
  NoFile,    \* no such file
  NoTrailer, \* a revision file whose last line is not the root's location
  NoProc     \* nobody

ASSUME BoundsAssumption ==
  /\ MaxTxn \in Nat
  /\ MaxRev \in Nat
  /\ MaxCrash \in Nat

ASSUME RequestAssumption ==
  /\ Recommit \in BOOLEAN
  /\ Requests \subseteq {"delete", "write", "abort", "recover"}

ASSUME SentinelAssumption ==
  /\ Absent \notin Nat
  /\ NoFile \notin Nat \cup {Absent}
  /\ NoProc \notin Procs

Txns    == 1..MaxTxn
Inodes  == 0..MaxTxn
Revs    == 0..MaxRev
Entries == Inodes \cup {Absent}
Trees   == [Paths -> Entries]

\* A tree is not the mark of a file without a trailer.
ASSUME TrailerAssumption == NoTrailer \notin Trees

VARIABLES
  (* db/ *)
  current,        \* db/current: the youngest revision
  revFile,        \* db/revs/r: the inode under that name, or NoFile
  revProps,       \* db/revprops/r: the transaction whose properties it holds, or NoFile
  inode,          \* contents of every revision or prototype revision file: its tree
  pred,           \* ... and the revision of the root's predecessor, once written
  writeLock,      \* db/write-lock: the process that holds it, or NoProc
  txnCurrent,     \* db/txn-current: the next transaction key
  txnCurrentLock, \* db/txn-current-lock: the process that holds it, or NoProc
  (* db/transactions/t.txn and db/txn-protorevs/t.rev *)
  txnDir,         \* transactions whose directory exists
  txnBase,        \* revision of the predecessor of the transaction's root node
  txnTree,        \* the transaction's mutable tree
  protoRev,       \* transactions whose prototype revision file exists under that name
  protoLock,      \* t.rev-lock: the process that holds it, or NoProc
  (* the processes *)
  pc,             \* what the process does next
  txn,            \* the transaction it works on (or the key it has read)
  rev,            \* the revision it works from: youngish_rev, txn->base_rev
  anc,            \* revision of the merge's ancestor
  target,         \* the merge's copy of the transaction's entries, t_entries
  todo,           \* paths the merge has still to look at
  (* bookkeeping *)
  origin,         \* origin[t][x]: the entry that t's edit of x replaced, or NoFile
  tried,          \* transactions that some process has tried to commit
  crashes         \* number of crashes so far

dbVars    == <<current, revFile, revProps>>
txnVars   == <<txnDir, txnBase, txnTree, protoRev>>
keyVars   == <<txnCurrent, txnCurrentLock>>
mergeVars == <<rev, anc, target, todo>>
auxVars   == <<origin, tried, crashes>>
vars      == <<dbVars, inode, pred, writeLock, keyVars, txnVars, protoLock,
               pc, txn, mergeVars, auxVars>>

procVars  == <<pc, txn, mergeVars>>

\* The tree of a revision, as a reader finds it.
Tree(r) == inode[revFile[r]]

Unedited  == [x \in Paths |-> NoFile]
EmptyTree == [x \in Paths |-> Absent]

\* The process returns to its caller, and its local variables are gone.
Return(p) ==
  /\ pc' = [pc EXCEPT ![p] = "idle"]
  /\ txn' = [txn EXCEPT ![p] = 0]
  /\ rev' = [rev EXCEPT ![p] = 0]
  /\ anc' = [anc EXCEPT ![p] = 0]
  /\ target' = [target EXCEPT ![p] = EmptyTree]
  /\ todo' = [todo EXCEPT ![p] = {}]

--------------------------------------------------------------------------------
(* Stages of a commit that are run with the write lock held.              *)
CommitLocked == {"check", "proto", "final", "move", "date", "props", "current", "purge"}
Locked       == CommitLocked \cup {"recover"}
(* Stages during which the process holds the lock of txn's prototype       *)
(* revision file.                                                          *)
ProtoLocked  == {"write", "final", "move", "date"}
Stages       == {"idle", "key", "mkdir", "write", "unproto", "merge", "lock", "retry"}
                  \cup Locked

\* The types of the files of the repository and of what each process remembers: in particular the
\* key counter db/txn-current never passes the keys that were asked for.
TypeOK ==
  /\ current \in Revs
  /\ revFile \in [Revs -> Inodes \cup {NoFile}]
  /\ revProps \in [Revs -> Inodes \cup {NoFile}]
  /\ inode \in [Inodes -> Trees \cup {NoTrailer}]
  /\ pred \in [Inodes -> Revs]
  /\ writeLock \in Procs \cup {NoProc}
  /\ txnCurrent \in 1..MaxTxn + 1
  /\ txnCurrentLock \in Procs \cup {NoProc}
  /\ txnDir \in SUBSET Txns
  /\ txnBase \in [Txns -> Revs]
  /\ txnTree \in [Txns -> Trees]
  /\ protoRev \in SUBSET Txns
  /\ protoLock \in [Txns -> Procs \cup {NoProc}]
  /\ pc \in [Procs -> Stages]
  /\ txn \in [Procs -> Inodes]
  /\ rev \in [Procs -> Revs]
  /\ anc \in [Procs -> Revs]
  /\ target \in [Procs -> Trees]
  /\ todo \in [Procs -> SUBSET Paths]
  /\ origin \in [Txns -> [Paths -> Entries \cup {NoFile}]]
  /\ tried \in SUBSET Txns
  /\ crashes \in 0..MaxCrash

\* An existing repository nobody is using: revision 0 is its youngest
\* revision, and each path exists in it or not.
Init ==
  /\ current = 0
  /\ revFile = [r \in Revs |-> IF r = 0 THEN 0 ELSE NoFile]
  /\ revProps = [r \in Revs |-> IF r = 0 THEN 0 ELSE NoFile]
  /\ \E root \in [Paths -> {0, Absent}] :
       inode = [t \in Inodes |-> IF t = 0 THEN root ELSE NoTrailer]
  /\ pred = [t \in Inodes |-> 0]
  /\ writeLock = NoProc
  /\ txnCurrent = 1
  /\ txnCurrentLock = NoProc
  /\ txnDir = {}
  /\ txnBase = [t \in Txns |-> 0]
  /\ txnTree = [t \in Txns |-> EmptyTree]
  /\ protoRev = {}
  /\ protoLock = [t \in Txns |-> NoProc]
  /\ pc = [p \in Procs |-> "idle"]
  /\ txn = [p \in Procs |-> 0]
  /\ rev = [p \in Procs |-> 0]
  /\ anc = [p \in Procs |-> 0]
  /\ target = [p \in Procs |-> EmptyTree]
  /\ todo = [p \in Procs |-> {}]
  /\ origin = [t \in Txns |-> Unedited]
  /\ tried = {}
  /\ crashes = 0

--------------------------------------------------------------------------------
(* svn_fs_fs__create_txn                                                   *)

\* Mutant: the key is read without taking the txn-current lock.
ReadTxnKey_NoLock(p) ==
  /\ pc[p] = "idle"
  /\ txnCurrent <= MaxTxn
  /\ \E r \in 0..current : rev' = [rev EXCEPT ![p] = r]
  /\ txn' = [txn EXCEPT ![p] = txnCurrent]
  /\ pc' = [pc EXCEPT ![p] = "key"]
  /\ UNCHANGED <<dbVars, inode, writeLock, keyVars, txnVars, protoLock,
                 anc, target, todo, auxVars, pred>>

\* create_txn_dir takes the txn-current lock and reads the key.  The caller
\* wants a transaction based on some revision r it knows of.
ReadTxnKey(p) ==
  /\ pc[p] = "idle"
  /\ txnCurrentLock = NoProc
  /\ txnCurrent <= MaxTxn
  /\ \E r \in 0..current : rev' = [rev EXCEPT ![p] = r]
  /\ txnCurrentLock' = p
  /\ txn' = [txn EXCEPT ![p] = txnCurrent]
  /\ pc' = [pc EXCEPT ![p] = "key"]
  /\ UNCHANGED <<dbVars, inode, writeLock, txnCurrent, txnVars, protoLock,
                 anc, target, todo, auxVars, pred>>

\* The incremented key is moved into place and the lock released.
WriteTxnKey(p) ==
  /\ pc[p] = "key"
  /\ txnCurrent' = txn[p] + 1
  /\ txnCurrentLock' = NoProc
  /\ pc' = [pc EXCEPT ![p] = "mkdir"]
  /\ UNCHANGED <<dbVars, inode, writeLock, txnVars, protoLock, txn, mergeVars, auxVars, pred>>

\* The directory, its root node (a clone of revision rev's), and an empty
\* prototype revision file with its lock file are made.
MakeTxn(p) ==
  /\ pc[p] = "mkdir"
  /\ txnDir' = txnDir \cup {txn[p]}
  /\ txnBase' = [txnBase EXCEPT ![txn[p]] = rev[p]]
  /\ txnTree' = [txnTree EXCEPT ![txn[p]] = Tree(rev[p])]
  /\ protoRev' = protoRev \cup {txn[p]}
  /\ inode' = [inode EXCEPT ![txn[p]] = NoTrailer]
  /\ Return(p)
  /\ UNCHANGED <<dbVars, writeLock, keyVars, protoLock, auxVars, pred>>

--------------------------------------------------------------------------------
(* Editing and aborting a transaction                                      *)

\* Transaction t's entry for path x becomes e: the node is made mutable,
\* added, or deleted.
SetEntry(t, x, e) ==
  /\ txnTree' = [txnTree EXCEPT ![t][x] = e]
  /\ origin' = [origin EXCEPT ![t][x] = IF @ = NoFile THEN txnTree[t][x] ELSE @]

\* svn_fs_delete
DeletePath(p, t, x) ==
  /\ pc[p] = "idle"
  /\ t \in txnDir
  /\ txnTree[t][x] # Absent
  /\ SetEntry(t, x, Absent)
  /\ UNCHANGED <<dbVars, inode, writeLock, keyVars, txnDir, txnBase, protoRev, protoLock,
                 procVars, tried, crashes, pred>>

\* Mutant: only the file's presence is looked at, not its lock.
ProtoRevWritable_Unlocked(t) == t \in protoRev

\* get_writable_proto_rev succeeds: nobody holds the lock and the file is there.
ProtoRevWritable(t) == protoLock[t] = NoProc /\ t \in protoRev

\* svn_fs_apply_text: the path is made mutable (or added), then the prototype
\* revision file is locked and opened at its end.
OpenWriter(p, t, x) ==
  /\ pc[p] = "idle"
  /\ t \in txnDir
  /\ SetEntry(t, x, t)
  /\ \/ /\ ProtoRevWritable(t)
        /\ protoLock' = [protoLock EXCEPT ![t] = p]
        /\ txn' = [txn EXCEPT ![p] = t]
        /\ pc' = [pc EXCEPT ![p] = "write"]
     \/ /\ ~ProtoRevWritable(t)   \* SVN_ERR_FS_REP_BEING_WRITTEN, or ENOENT
        /\ UNCHANGED <<protoLock, txn, pc>>
  /\ UNCHANGED <<dbVars, inode, writeLock, keyVars, txnDir, txnBase, protoRev,
                 mergeVars, tried, crashes, pred>>

\* rep_write_contents_close: what was written is flushed to the end of the
\* open file, whatever name it has by now, and the lock released.
CloseWriter(p) ==
  /\ pc[p] = "write"
  /\ inode' = [inode EXCEPT ![txn[p]] = NoTrailer]
  /\ protoLock' = [protoLock EXCEPT ![txn[p]] = NoProc]
  /\ Return(p)
  /\ UNCHANGED <<dbVars, writeLock, keyVars, txnVars, auxVars, pred>>

\* The directory of transaction t goes, with everything in it.
RemoveTxnDir(t) ==
  /\ txnDir' = txnDir \ {t}
  /\ txnBase' = [txnBase EXCEPT ![t] = 0]
  /\ txnTree' = [txnTree EXCEPT ![t] = EmptyTree]

\* svn_fs_fs__abort_txn (and 'svnadmin rmtxns', on anybody's transaction):
\* svn_fs_fs__purge_txn removes the directory ...
AbortTxn(p, t) ==
  /\ pc[p] = "idle"
  /\ t \in txnDir
  /\ RemoveTxnDir(t)
  /\ txn' = [txn EXCEPT ![p] = t]
  /\ pc' = [pc EXCEPT ![p] = "unproto"]
  /\ UNCHANGED <<dbVars, inode, writeLock, keyVars, protoRev, protoLock, mergeVars, auxVars, pred>>

\* ... and then the prototype revision file, if it is still there.
RemoveProtoRev(p) ==
  /\ pc[p] = "unproto"
  /\ protoRev' = protoRev \ {txn[p]}
  /\ Return(p)
  /\ UNCHANGED <<dbVars, inode, writeLock, keyVars, txnDir, txnBase, txnTree, protoLock, auxVars, pred>>

--------------------------------------------------------------------------------
(* svn_fs_fs__commit_txn: merge, then commit, until nobody got in between  *)

\* Mutant: an entry the transaction did not touch is thought to need no work.
StartMerge_OnlyOurs(p, t) ==
  /\ rev' = [rev EXCEPT ![p] = current]
  /\ anc' = [anc EXCEPT ![p] = txnBase[t]]
  /\ target' = [target EXCEPT ![p] = txnTree[t]]
  /\ todo' = [todo EXCEPT ![p] = {x \in Paths : /\ Tree(current)[x] # Tree(txnBase[t])[x]
                                              /\ txnTree[t][x] # Tree(txnBase[t])[x]}]
  /\ pc' = [pc EXCEPT ![p] = "merge"]

\* One turn of the loop begins: the youngest revision is read, and the merge
\* (merge_changes, merge) reads the entries of the transaction's root, of its
\* base and of that revision.  Entries on which the last two agree need no work.
StartMerge(p, t) ==
  /\ rev' = [rev EXCEPT ![p] = current]
  /\ anc' = [anc EXCEPT ![p] = txnBase[t]]
  /\ target' = [target EXCEPT ![p] = txnTree[t]]
  /\ todo' = [todo EXCEPT ![p] = {x \in Paths : Tree(current)[x] # Tree(txnBase[t])[x]}]
  /\ pc' = [pc EXCEPT ![p] = "merge"]

CommitTxn(p, t) ==
  /\ pc[p] = "idle"
  /\ t \in txnDir
  /\ Recommit \/ t \notin tried
  /\ tried' = tried \cup {t}
  /\ txn' = [txn EXCEPT ![p] = t]
  /\ StartMerge(p, t)
  /\ UNCHANGED <<dbVars, inode, writeLock, keyVars, txnVars, protoLock, origin, crashes, pred>>

\* Source changed the entry and the transaction did not: take source's.
MergeEntry(p, x) ==
  /\ pc[p] = "merge"
  /\ txn[p] \in txnDir
  /\ x \in todo[p]
  /\ target[p][x] = Tree(anc[p])[x]
  /\ txnTree' = [txnTree EXCEPT ![txn[p]][x] = Tree(rev[p])[x]]
  /\ origin' = [origin EXCEPT ![txn[p]][x] = NoFile]
  /\ todo' = [todo EXCEPT ![p] = @ \ {x}]
  /\ UNCHANGED <<dbVars, inode, writeLock, keyVars, txnDir, txnBase, protoRev, protoLock,
                 pc, txn, rev, anc, target, tried, crashes, pred>>

\* Both changed it: SVN_ERR_FS_CONFLICT is returned there and then.  What
\* the merge did to other entries stays done.
MergeConflict(p, x) ==
  /\ pc[p] = "merge"
  /\ txn[p] \in txnDir
  /\ x \in todo[p]
  /\ target[p][x] # Tree(anc[p])[x]
  /\ Return(p)
  /\ UNCHANGED <<dbVars, inode, writeLock, keyVars, txnVars, protoLock, auxVars, pred>>

\* All entries are merged: svn_fs_fs__dag_update_ancestry makes the youngish
\* revision's root the predecessor of the transaction's root.
MergeDone(p) ==
  /\ pc[p] = "merge"
  /\ txn[p] \in txnDir
  /\ todo[p] = {}
  /\ txnBase' = [txnBase EXCEPT ![txn[p]] = rev[p]]
  /\ anc' = [anc EXCEPT ![p] = 0]
  /\ target' = [target EXCEPT ![p] = EmptyTree]
  /\ pc' = [pc EXCEPT ![p] = "lock"]
  /\ UNCHANGED <<dbVars, inode, writeLock, keyVars, txnDir, txnTree, protoRev, protoLock,
                 txn, rev, todo, auxVars, pred>>

\* The transaction is removed by somebody else while the process is in the
\* loop without the write lock.
MergeTxnGone(p) ==
  /\ pc[p] \in {"merge", "retry"}
  /\ txn[p] \notin txnDir
  /\ Return(p)
  /\ UNCHANGED <<dbVars, inode, writeLock, keyVars, txnVars, protoLock, auxVars, pred>>

--------------------------------------------------------------------------------
(* svn_fs_fs__commit: commit_body with the write lock                      *)

CommitLock(p) ==
  /\ pc[p] = "lock"
  /\ writeLock = NoProc
  /\ writeLock' = p
  /\ pc' = [pc EXCEPT ![p] = "check"]
  /\ UNCHANGED <<dbVars, inode, keyVars, txnVars, protoLock, txn, mergeVars, auxVars, pred>>

\* An error is returned to the caller: the write lock is released, and with
\* the pool go the handles that hold the prototype revision file's lock.
CommitError(p) ==
  /\ writeLock' = NoProc
  /\ protoLock' = [t \in Txns |-> IF protoLock[t] = p THEN NoProc ELSE protoLock[t]]
  /\ Return(p)
  /\ UNCHANGED <<dbVars, inode, keyVars, txnVars, auxVars, pred>>

\* The transaction is based on the youngest revision.
UpToDate(p) == rev[p] = current

CommitCheck(p) ==
  /\ pc[p] = "check"
  /\ UpToDate(p)
  /\ txn[p] \in txnDir
  /\ current < MaxRev
  /\ pc' = [pc EXCEPT ![p] = "proto"]
  /\ UNCHANGED <<dbVars, inode, writeLock, keyVars, txnVars, protoLock, txn, mergeVars, auxVars, pred>>

\* Mutant: the early return forgets to release the write lock.
CommitOutOfDate_KeepLock(p) ==
  /\ pc[p] = "check"
  /\ ~UpToDate(p)
  /\ pc' = [pc EXCEPT ![p] = "retry"]
  /\ UNCHANGED <<dbVars, inode, writeLock, keyVars, txnVars, protoLock, txn, mergeVars, auxVars, pred>>

\* SVN_ERR_FS_TXN_OUT_OF_DATE
CommitOutOfDate(p) ==
  /\ pc[p] = "check"
  /\ ~UpToDate(p)
  /\ writeLock' = NoProc
  /\ pc' = [pc EXCEPT ![p] = "retry"]
  /\ UNCHANGED <<dbVars, inode, keyVars, txnVars, protoLock, txn, mergeVars, auxVars, pred>>

\* verify_locks finds a lock for which the caller has no token, or no
\* transaction directory to read the changed paths from.
CommitLocksFail(p) ==
  /\ pc[p] = "check"
  /\ UpToDate(p)
  /\ CommitError(p)

\* Back in svn_fs_fs__commit_txn: if there is a newer revision, go round.
CommitRetry(p) ==
  /\ pc[p] = "retry"
  /\ txn[p] \in txnDir
  /\ IF current = rev[p] THEN Return(p) ELSE StartMerge(p, txn[p]) /\ UNCHANGED txn
  /\ UNCHANGED <<dbVars, inode, writeLock, keyVars, txnVars, protoLock, auxVars, pred>>

\* get_writable_proto_rev for the commit itself.
CommitProto(p) ==
  /\ pc[p] = "proto"
  /\ ProtoRevWritable(txn[p])
  /\ protoLock' = [protoLock EXCEPT ![txn[p]] = p]
  /\ pc' = [pc EXCEPT ![p] = "final"]
  /\ UNCHANGED <<dbVars, inode, writeLock, keyVars, txnVars, txn, mergeVars, auxVars, pred>>

CommitProtoFail(p) ==
  /\ pc[p] = "proto"
  /\ ~ProtoRevWritable(txn[p])
  /\ CommitError(p)

\* Mutant: the predecessor of the root is not validated.
ValidRoot_Unchecked(p) == txnBase[txn[p]] <= current

\* validate_root_noderev: the root about to be written succeeds HEAD's root.
ValidRoot(p) == txnBase[txn[p]] = rev[p]

\* write_final_rev and write_final_changed_path_info append the tree, then
\* comes the line that locates its root; all of it is flushed to disk.
CommitFinal(p) ==
  /\ pc[p] = "final"
  /\ txn[p] \in txnDir
  /\ ValidRoot(p)
  /\ inode' = [inode EXCEPT ![txn[p]] = txnTree[txn[p]]]
  /\ pred' = [pred EXCEPT ![txn[p]] = txnBase[txn[p]]]
  /\ pc' = [pc EXCEPT ![p] = "move"]
  /\ UNCHANGED <<dbVars, writeLock, keyVars, txnVars, protoLock, txn, mergeVars, auxVars>>

\* Somebody else's merge gave the transaction another base: SVN_ERR_FS_CORRUPT.
CommitBadRoot(p) ==
  /\ pc[p] = "final"
  /\ txn[p] \in txnDir
  /\ ~ValidRoot(p)
  /\ CommitError(p)

\* Mutant: the file is moved to the number of the youngest revision.
CommitMoveRev_OffByOne(p) ==
  /\ pc[p] = "move"
  /\ txn[p] \in protoRev
  /\ revFile' = [revFile EXCEPT ![rev[p]] = txn[p]]
  /\ protoRev' = protoRev \ {txn[p]}
  /\ pc' = [pc EXCEPT ![p] = "date"]
  /\ UNCHANGED <<current, revProps, inode, writeLock, keyVars, txnDir, txnBase, txnTree,
                 protoLock, txn, mergeVars, auxVars, pred>>

\* The prototype revision file is renamed, over whatever a crashed commit
\* may have left there.
CommitMoveRev(p) ==
  /\ pc[p] = "move"
  /\ txn[p] \in protoRev
  /\ revFile' = [revFile EXCEPT ![rev[p] + 1] = txn[p]]
  /\ protoRev' = protoRev \ {txn[p]}
  /\ pc' = [pc EXCEPT ![p] = "date"]
  /\ UNCHANGED <<current, revProps, inode, writeLock, keyVars, txnDir, txnBase, txnTree,
                 protoLock, txn, mergeVars, auxVars, pred>>

\* The prototype revision file is unlocked and svn:date set on the transaction.
CommitDate(p) ==
  /\ pc[p] = "date"
  /\ txn[p] \in txnDir
  /\ protoLock' = [protoLock EXCEPT ![txn[p]] = NoProc]
  /\ pc' = [pc EXCEPT ![p] = "props"]
  /\ UNCHANGED <<dbVars, inode, writeLock, keyVars, txnVars, txn, mergeVars, auxVars, pred>>

\* Mutant: an existing revision property file is left alone.
CommitMoveProps_KeepOld(p) ==
  /\ pc[p] = "props"
  /\ txn[p] \in txnDir
  /\ revProps' = [revProps EXCEPT ![rev[p] + 1] = IF @ = NoFile THEN txn[p] ELSE @]
  /\ pc' = [pc EXCEPT ![p] = "current"]
  /\ UNCHANGED <<current, revFile, inode, writeLock, keyVars, txnVars, protoLock,
                 txn, mergeVars, auxVars, pred>>

\* The transaction's properties are renamed to the revision's.
CommitMoveProps(p) ==
  /\ pc[p] = "props"
  /\ txn[p] \in txnDir
  /\ revProps' = [revProps EXCEPT ![rev[p] + 1] = txn[p]]
  /\ pc' = [pc EXCEPT ![p] = "current"]
  /\ UNCHANGED <<current, revFile, inode, writeLock, keyVars, txnVars, protoLock,
                 txn, mergeVars, auxVars, pred>>

\* A step of the commit finds the transaction's directory, or its prototype
\* revision file, removed by somebody else.
CommitTxnGone(p) ==
  /\ \/ pc[p] \in {"final", "date", "props"} /\ txn[p] \notin txnDir
     \/ pc[p] = "move" /\ txn[p] \notin protoRev
  /\ CommitError(p)

\* write_final_current: the new revision goes live.
CommitCurrent(p) ==
  /\ pc[p] = "current"
  /\ current' = rev[p] + 1
  /\ pc' = [pc EXCEPT ![p] = "purge"]
  /\ UNCHANGED <<revFile, revProps, inode, writeLock, keyVars, txnVars, protoLock,
                 txn, mergeVars, auxVars, pred>>

\* svn_fs_fs__purge_txn, then the write lock is released.
CommitPurge(p) ==
  /\ pc[p] = "purge"
  /\ RemoveTxnDir(txn[p])
  /\ protoRev' = protoRev \ {txn[p]}
  /\ writeLock' = NoProc
  /\ Return(p)
  /\ UNCHANGED <<dbVars, inode, keyVars, protoLock, auxVars, pred>>

--------------------------------------------------------------------------------
(* svn_fs_fs__recover                                                      *)

RecoverLock(p) ==
  /\ pc[p] = "idle"
  /\ writeLock = NoProc
  /\ writeLock' = p
  /\ pc' = [pc EXCEPT ![p] = "recover"]
  /\ UNCHANGED <<dbVars, inode, keyVars, txnVars, protoLock, txn, mergeVars, auxVars, pred>>

\* What the search of recover_get_largest_revision ends with: a revision
\* whose file exists, the next one's does not.
LargestRevision(m) ==
  /\ revFile[m] # NoFile
  /\ m + 1 \in Revs => revFile[m + 1] = NoFile

\* Mutant: the revision property file is not looked for (issue #2992).
Recover_NoRevprops(p) ==
  /\ pc[p] = "recover"
  /\ \E m \in Revs :
       /\ LargestRevision(m)
       /\ current' = IF current <= m THEN m ELSE current
  /\ writeLock' = NoProc
  /\ Return(p)
  /\ UNCHANGED <<revFile, revProps, inode, keyVars, txnVars, protoLock, auxVars, pred>>

\* recover_body: the largest revision becomes the youngest if it has a
\* revision property file; otherwise the repository is declared corrupt.
Recover(p) ==
  /\ pc[p] = "recover"
  /\ \E m \in Revs :
       /\ LargestRevision(m)
       /\ current' = IF current <= m /\ revProps[m] # NoFile THEN m ELSE current
  /\ writeLock' = NoProc
  /\ Return(p)
  /\ UNCHANGED <<revFile, revProps, inode, keyVars, txnVars, protoLock, auxVars, pred>>

--------------------------------------------------------------------------------
\* A process dies: the operating system releases its locks, its memory is
\* lost, the files stay as they are.
Crash(p) ==
  /\ pc[p] # "idle"
  /\ crashes < MaxCrash
  /\ crashes' = crashes + 1
  /\ writeLock' = IF writeLock = p THEN NoProc ELSE writeLock
  /\ txnCurrentLock' = IF txnCurrentLock = p THEN NoProc ELSE txnCurrentLock
  /\ protoLock' = [t \in Txns |-> IF protoLock[t] = p THEN NoProc ELSE protoLock[t]]
  /\ Return(p)
  /\ UNCHANGED <<dbVars, inode, txnCurrent, txnVars, origin, tried, pred>>

\* No process is doing anything, and no client need ever ask again.
Quiescent ==
  /\ \A p \in Procs : pc[p] = "idle"
  /\ UNCHANGED vars

\* The steps a process takes by itself once it has been asked to do something.
Step(p) ==
  \/ WriteTxnKey(p) \/ MakeTxn(p)
  \/ CloseWriter(p) \/ RemoveProtoRev(p)
  \/ \E x \in Paths : MergeEntry(p, x) \/ MergeConflict(p, x)
  \/ MergeDone(p) \/ MergeTxnGone(p)
  \/ CommitCheck(p) \/ CommitOutOfDate(p) \/ CommitLocksFail(p) \/ CommitRetry(p)
  \/ CommitProto(p) \/ CommitProtoFail(p) \/ CommitFinal(p) \/ CommitBadRoot(p) \/ CommitMoveRev(p)
  \/ CommitDate(p) \/ CommitMoveProps(p) \/ CommitTxnGone(p)
  \/ CommitCurrent(p) \/ CommitPurge(p)
  \/ Recover(p)

\* What clients and administrators ask for.
Request(p) ==
  \/ ReadTxnKey(p)
  \/ "delete" \in Requests /\ \E t \in Txns, x \in Paths : DeletePath(p, t, x)
  \/ "write" \in Requests /\ \E t \in Txns, x \in Paths : OpenWriter(p, t, x)
  \/ "abort" \in Requests /\ \E t \in Txns : AbortTxn(p, t)
  \/ "recover" \in Requests /\ RecoverLock(p)
  \/ \E t \in Txns : CommitTxn(p, t)

Next ==
  \/ \E p \in Procs : Step(p) \/ CommitLock(p) \/ Request(p) \/ Crash(p)
  \/ Quiescent

Spec == Init /\ [][Next]_vars

\* A process that has been asked to do something keeps running (WF), and one
\* that waits for the write lock gets it if it is released again and again
\* (SF): svn_io_file_lock2 blocks in the operating system's lock queue.
FairSpec ==
  /\ Spec
  /\ \A p \in Procs : WF_vars(Step(p)) /\ SF_vars(CommitLock(p))

--------------------------------------------------------------------------------
(* Properties                                                              *)

\* Every revision up to db/current can be read at any moment, by a process
\* that takes no lock: its file is there and ends in the line that locates
\* its root, and it has a revision property file.
RevisionsReadable ==
  \A r \in 0..current :
    /\ revFile[r] \in Inodes
    /\ inode[revFile[r]] \in Trees
    /\ revProps[r] \in Inodes

\* The root of every revision is the successor of the root of the revision
\* before it (issue #4129), also when two processes commit one transaction.
RootsFollow == \A r \in 1..current : pred[revFile[r]] = r - 1

\* No lost update: where a revision differs from the one before it, its
\* transaction edited that path, and what the edit replaced is what the
\* revision before has there.  (The merge loop and the base check made under
\* the write lock.)
NoLostUpdate ==
  \A r \in 1..current : \A x \in Paths :
    Tree(r)[x] # Tree(r - 1)[x] => origin[revFile[r]][x] = Tree(r - 1)[x]

\* A key read from db/txn-current is not the name of any other transaction,
\* live, committed, or just being made by another process.
TxnKeysUnique ==
  \A p \in Procs : pc[p] = "mkdir" =>
    /\ txn[p] \notin txnDir
    /\ \A r \in Revs : revFile[r] # txn[p]
    /\ \A q \in Procs \ {p} : pc[q] \in {"key", "mkdir"} => txn[q] # txn[p]

\* The revision properties of a revision are those of the transaction whose
\* tree it has.
RevpropsMatch == \A r \in 0..current : revProps[r] = revFile[r]

\* The history of the repository is an append-only log in which each
\* transaction occurs at most once.
Log == INSTANCE RevisionLog WITH
         youngest <- current,
         author   <- [r \in 0..current |-> revFile[r]],
         tree     <- [r \in 0..current |-> Tree(r)]
ImplementsLog == Log!Spec

\* svn_fs_commit_txn returns, whatever the other processes do.
CommitTerminates == \A p \in Procs : pc[p] = "merge" ~> pc[p] = "idle"

--------------------------------------------------------------------------------
(* The inductive invariant                                                 *)

\* Whoever is in a stage that needs the write lock has it; the base of a
\* commit that has been found up to date stays the youngest revision.
LockInv ==
  \A p \in Procs :
    /\ pc[p] \in Locked => writeLock = p
    /\ pc[p] \in {"proto", "final", "move", "date", "props", "current"} =>
         rev[p] = current /\ current < MaxRev

\* Revisions that processes and transactions refer to exist.
BaseInv ==
  /\ \A p \in Procs : rev[p] <= current /\ anc[p] <= current
  /\ \A t \in Txns : txnBase[t] <= current

\* Every key below txn-current has been given out once, and a process that
\* is about to make a transaction is the only one that knows its key.
KeyInv ==
  /\ \A t \in txnDir \cup protoRev : t < txnCurrent
  /\ \A r \in Revs : revFile[r] \in Inodes => revFile[r] < txnCurrent
  /\ \A p \in Procs :
       /\ pc[p] = "key" => txn[p] = txnCurrent /\ txnCurrentLock = p
       /\ pc[p] # "key" => txn[p] < txnCurrent
       /\ pc[p] \notin {"idle", "recover"} => txn[p] \in Txns
       /\ pc[p] = "mkdir" =>
            /\ txn[p] \notin txnDir \cup protoRev
            /\ \A r \in Revs : revFile[r] # txn[p]
            /\ \A q \in Procs \ {p} : txn[q] # txn[p]

\* Whoever has a prototype revision file open holds its lock, and a file in
\* place as a revision is nobody's prototype any more.
ProtoInv ==
  /\ \A p \in Procs : pc[p] \in ProtoLocked => protoLock[txn[p]] = p
  /\ \A t \in protoRev, r \in Revs : revFile[r] # t
  /\ \A p \in Procs : pc[p] \in {"write", "final", "move"} =>
       \A r \in Revs : revFile[r] # txn[p]

\* Revision files are complete, one per transaction, and there is at most
\* one beyond db/current, left by a commit that is under way or has failed.
FileInv ==
  /\ \A r \in 0..current : revFile[r] # NoFile /\ revProps[r] # NoFile
  /\ \A r \in Revs : r > current + 1 => revFile[r] = NoFile
  /\ \A r \in Revs : revFile[r] # NoFile => inode[revFile[r]] \in Trees
  /\ \A r \in Revs : r # 0 /\ revFile[r] # NoFile =>
       revFile[r] \in Txns /\ pred[revFile[r]] = r - 1
  /\ revFile[0] = 0
  /\ \A r, s \in Revs : revFile[r] = revFile[s] /\ revFile[r] # NoFile => r = s

\* What a commit has put in place so far.
CommitInv ==
  \A p \in Procs :
    /\ pc[p] = "move" => inode[txn[p]] \in Trees /\ pred[txn[p]] = rev[p]
    /\ pc[p] \in {"date", "props", "current"} => revFile[rev[p] + 1] = txn[p]
    /\ pc[p] = "current" => revProps[rev[p] + 1] = txn[p]

\* All of it: with TypeOK, an invariant that every step preserves, and which
\* implies RevisionsReadable, RootsFollow and TxnKeysUnique.
IInv == TypeOK /\ LockInv /\ BaseInv /\ KeyInv /\ ProtoInv /\ FileInv /\ CommitInv

--------------------------------------------------------------------------------
(* The inductive invariant behind NoLostUpdate, for ~Recommit              *)

\* Stages of a commit, and those before its revision file is in place.
Committing == {"merge", "lock", "retry"} \cup CommitLocked
Unplaced   == {"merge", "lock", "retry", "check", "proto", "final"}

\* A transaction is committed once, by one process.
TriedInv ==
  /\ \A p, q \in Procs : p # q /\ pc[p] \in Committing /\ pc[q] \in Committing => txn[p] # txn[q]
  /\ \A r \in Revs \ {0} : revFile[r] # NoFile => revFile[r] \in tried

\* The entries of transaction t at the paths xs are those of revision r, or the first edit
\* replaced the one of r.
Clean(t, xs, r) ==
  \A x \in xs : IF origin[t][x] = NoFile THEN txnTree[t][x] = Tree(r)[x] ELSE origin[t][x] = Tree(r)[x]

\* A transaction nobody has tried to commit is clean with respect to its base.
OriginInv ==
  /\ \A t \in Txns : t >= txnCurrent => origin[t] = Unedited
  /\ \A t \in txnDir \ tried : Clean(t, Paths, txnBase[t])

\* Where the tree in the file of t differs from revision r, an edit of t replaced r's entry.
Kept(t, r) == \A x \in Paths : inode[t][x] # Tree(r)[x] => origin[t][x] = Tree(r)[x]
KeptInv    == \A r \in Revs \ {0} : revFile[r] # NoFile => Kept(revFile[r], r - 1)

\* Where a commit is: as far as the merge has come, its transaction is clean with respect to
\* the youngest revision it has read.
MergedOK(p) ==
  /\ pc[p] = "mkdir" => origin[txn[p]] = Unedited
  /\ pc[p] \in Committing => txn[p] \in tried
  /\ pc[p] \in Unplaced => \A r \in Revs : revFile[r] # txn[p]
  /\ pc[p] = "merge" /\ txn[p] \in txnDir => Clean(txn[p], Paths \ todo[p], rev[p])
  /\ pc[p] \in Unplaced \ {"merge"} /\ txn[p] \in txnDir =>
       txnBase[txn[p]] = rev[p] /\ Clean(txn[p], Paths, rev[p])
  /\ pc[p] = "move" => Kept(txn[p], rev[p])

UpdateInv == TriedInv /\ OriginInv /\ KeptInv /\ \A p \in Procs : MergedOK(p)
================================================================================
