# TLA+ models of Subversion

Subversion is used by many processes at once that share nothing but files: the
servers that work on one FSFS repository, the commands that work on one working
copy, the runs of `svnsync` that feed one mirror. What a user relies on (a
revision, once there, never changes; nobody's work is lost; what dies half-way
does no harm) is achieved by the order of a few renames and writes, by advisory
locks and by counters. That is what is modelled here, one protocol at a time,
together with the algebra of mergeinfo, which is sequential but whose cases are
too many to test.

| module | what it is |
|---|---|
| `RevisionLog` | abstract specification: the history is an append-only log |
| `FsfsCommit` | FSFS transactions, merge, commit, abort, recovery, crashes |
| `FsfsCommitProofs` | theorems about `FsfsCommit`, among them that it implements `RevisionLog` |
| `FsfsPack` | packing of shards beside readers that take no lock |
| `FsfsPackProofs` | theorems about `FsfsPack` |
| `FsfsRevprops` | packed revision properties, their cache and its generation counter |
| `FsfsRevpropsProofs` | theorems about `FsfsRevprops` |
| `FsfsLocks` | path locks and the commits they are to stop |
| `FsfsLocksProofs` | theorems about `FsfsLocks` |
| `WcWorkQueue` | update and commit of working files through the work queue |
| `WcWorkQueueProofs` | theorems about `WcWorkQueue` |
| `WcLocks` | the write locks in `wc.db` |
| `WcLocksProofs` | theorems about `WcLocks` |
| `Svnsync` | `svnsync` initialize, synchronize, copy-revprops |
| `SvnsyncProofs` | theorems about `Svnsync` |
| `Rangelists` | parsing, union, intersection, difference and three-way merge of mergeinfo |
| `RangelistsProofs` | theorems about `Rangelists` |
| `MC_...` | the same for TLC: values of constants, symmetry sets |

`PROJECT.json` lists the runs, the source lines behind each definition, the
mutations each property detects, the findings, the hazards and the theorems.


## 1. The system

Paths are relative to `subversion/`; line numbers without a file refer to
`libsvn_fs_fs/fs_fs.c`.

### Components, state and operations

**FSFS transactions and commits** (`fs_fs.c`, `tree.c`, `dag.c`).
State: `db/current` (the youngest revision), `db/revs/r`, `db/revprops/r`,
`db/txn-current` (next transaction key), `db/transactions/t.txn/` (root node,
directory entries, changed paths, properties), `db/txn-protorevs/t.rev` (the
file that will become the revision file) and the lock files `write-lock`,
`txn-current-lock`, `t.rev-lock`.
Operations: begin, edit, write text, merge, commit, abort, recover.
Hard: processes run with no coordination but these files; readers take no lock
at all; a process may die between any two system calls; anybody may abort or
commit a transaction that somebody else is working on.
Correct when: everything up to `db/current` is complete and final at every
moment; history is linear; a commit never undoes a change it has not seen; keys
are unique; a commit always returns.

**FSFS packing and reads** (`fs_fs.c`).
State: `db/min-unpacked-rev`, per shard either one file per revision or
`<shard>.pack/{pack,manifest}`, the same for properties, and in every process a
copy of `min-unpacked-rev` and an open file that it tries to reuse.
Operations: pack (cancellable), read a representation through its delta chain,
read and set revision properties.
Hard: files vanish under a reader that decided by an old copy where to look;
packing may be cut short anywhere and started again.
Correct when: a reader finds the text it asked for; a property reader sees a
list that was current during its read; nothing is lost; packing and reads end.

**FSFS packed revision properties** (`fs_fs.c` 3040-4160).
State: the pack files of a shard and their manifest, a generation counter in
shared memory, odd while somebody writes, and a cache keyed by it in those
processes that were told to have one.
Operations: read a list, through the cache or not; change a list, which rewrites
a pack file and splits it when it has become too large.
Hard: processes with and without the cache share the repository; a reader that finds the counter odd for too long takes the writer for
dead and moves it on, rightly or wrongly; a change reads through the cache what
it writes back; a split changes many entries of the manifest.
Correct when: no read is older than the last change that returned; no change
undoes another; every list can be found.

**FSFS locks** (`lock.c`, `verify_locks`).
State: a digest file for each locked path with the lock in it, and one for each
directory above that lists the path.
Operations: lock, unlock, get_lock, get_locks, the check of a commit.
Hard: the digest files are written one by one under the write lock but read
without it; a server may die between two; locks expire by themselves.
Correct when: a commit changes nothing that is locked against it; a reader
misses no lock; nobody but those entitled to removes one.

**Working copy: work queue** (`libsvn_wc/workqueue.c`, `update_editor.c`,
`adm_crawler.c`, `questions.c`, `cleanup.c`).
State: for each file its base text, the size and time recorded for it, its
conflict, the `WORK_QUEUE` table, and on disk the working file, temporary files
and copies beside a conflict.
Operations: update, commit, run the queue, cleanup; the user edits.
Hard: the database changes before the disk does; an item that was being run
when the command died is run again; the user saves files at any moment.
Correct when: an item can always be run again; no edit is lost; what is recorded
as unmodified is; no command starts on a file that is not up to its base.

**Working copy locks** (`wc_db.c` 12620-13050, `lock.c`, `adm_ops.c`).
State: the `WC_LOCK` table (directory, levels), and each process' list of locks.
Operations: obtain, steal (cleanup), release, check; a directory that is added is
locked, one that is reverted or deleted loses its row.
Hard: rows do not say whose they are; locks reach down a number of levels; table
and memory are two records of one lock, and only one of them is looked at.
Correct when: no directory has two owners; what a process remembers is so.

**svnsync** (`svnsync/main.c`, `libsvn_ra/util.c`).
State: four properties of the mirror's revision 0 (lock, source, last merged
revision, revision being copied), the mirror's revisions and their properties.
Operations: initialize, synchronize, copy-revprops.
Hard: a revision is a commit and several property requests, and a run may end
between any two; several runs may be started; anybody may commit to the mirror.
Correct when: the mirror is the source, revision by revision; a later run can
always go on; foreign commits are noticed.

**Mergeinfo algebra** (`libsvn_subr/mergeinfo.c`, `libsvn_wc/props.c`).
State: none; rangelists are sorted lists of ranges that children inherit or not.
Operations: parse, merge, intersect, remove, three-way merge.
Hard: ranges are cut, absorbed and joined in place, in some fifty cases.
Correct when: the results mean what the operations say of sets of revisions.

**Other parts of FSFS**: node-ids and keys (`id.c`, `key-gen.c`), the
representation cache (`rep-cache.c`, SQLite), in-memory caches (`caching.c`,
`temp_serializer.c`), hotcopy and upgrade (`fs_fs.c` 10100-10880).

**Around these**: the Berkeley DB back end (`libsvn_fs_base`), the loader that
dispatches to a back end (`libsvn_fs`), the repository layer with hooks,
authorization, reporter, dump and load (`libsvn_repos`), the Apache modules and
`svnserve`, the repository access libraries (`libsvn_ra*`), the client library,
the rest of the working copy, the delta, diff and subroutine libraries,
`svnrdump`, the command line tools and the language bindings.

### How they interact

A client edit reaches `libsvn_repos/commit.c` through a repository access
library and a server, is applied to a transaction by calls on `svn_fs_t`
(`svn_fs_delete`, `svn_fs_apply_text`, ...) and committed by
`svn_fs_commit_txn`. Each server process calls FSFS directly; FSFS processes
meet only in the repository directory. `svn_fs_fs__commit_txn` (`tree.c` 1599)
alternates a merge, which takes no lock, with `svn_fs_fs__commit` (8119), which
takes the write lock, checks the path locks and sends the caller back to
merging if the youngest revision is no longer the merged one. `svnadmin pack`,
`recover`, changes of properties and of locks and the commits exclude each other
by the write lock. Readers see files appear, change name and disappear.

On the client's side, an update or a commit takes a write lock in `wc.db`, writes
the new base of a file and the work that follows from it in one transaction, and
runs the queue; the locks are given back only when the queue is empty. Mergeinfo
is merged three ways when an update meets a local change of it. `svnsync` is a
client of two repositories: it replays the revisions of one and commits them to
the other, with revision properties for its memory.


## 2. The models

### FsfsCommit

A *tree* maps paths to entries: the node found there, named by the transaction
that made it, or `Absent`. A revision file is the prototype revision file of
its transaction under another name, so files are identified by inode, that is
by transaction: `revFile[r]` is the inode named `db/revs/r`, and `inode[t]` what
its last line leads to, or `NoTrailer`. A process which still has the file open
keeps writing to that inode after the rename, as in POSIX.

| actions | code |
|---|---|
| `ReadTxnKey`, `WriteTxnKey`, `MakeTxn` | `svn_fs_fs__create_txn`, `create_txn_dir`, `get_and_increment_txn_key_body` |
| `DeletePath`, `OpenWriter`, `CloseWriter` | `svn_fs_delete`, `svn_fs_apply_text` down to `get_writable_proto_rev`, `rep_write_contents_close` |
| `AbortTxn`, `RemoveProtoRev` | `svn_fs_fs__abort_txn`, `svn_fs_fs__purge_txn` |
| `CommitTxn`, `MergeEntry`, `MergeConflict`, `MergeDone`, `MergeTxnGone`, `CommitRetry` | the loop of `svn_fs_fs__commit_txn`, `merge_changes`, `merge` |
| `CommitLock`, `CommitCheck`, `CommitOutOfDate`, `CommitLocksFail` | `svn_fs_fs__commit` and the head of `commit_body` |
| `CommitProto`, `CommitFinal`, `CommitBadRoot`, `CommitMoveRev`, `CommitDate`, `CommitMoveProps`, `CommitCurrent`, `CommitPurge`, `CommitTxnGone` | the rest of `commit_body`, one action for each thing another process can see |
| `RecoverLock`, `Recover` | `svn_fs_fs__recover`, `recover_body` |
| `Crash` | the process dies; the operating system releases its locks |

`Return` and `CommitError` model that a function's pool is destroyed when it
returns, which closes the handles that hold locks. `origin`, `tried` and
`crashes` are bookkeeping: what each edit replaced, which transactions some
process has tried to commit, and a bound.

Abstractions, and why they lose nothing the properties speak of:

- The recursion of `merge` into directories is flattened to paths. The merge
  decides entry by entry, and whether directories are the same line of history
  only decides whether to descend. Directory properties are left out; that they
  differ ends a merge at once, with the transaction untouched.
- `MakeTxn` is one step: the key has not been returned to the caller yet, so
  no other process can name the transaction.
- The contents of nodes, representations, changed paths and properties are not
  modelled; entries are compared by identity, as `svn_fs_fs__id_eq` does.
- `verify_locks` may fail or succeed (`CommitLocksFail`), since which locks
  exist is independent of the commit;
  FsfsLocks has the details.
- `Recover` searches instantly. The write lock keeps revision files from
  appearing meanwhile.
- Reading the transaction's base and the youngest revision's entries in one step
  is faithful because revisions do not change (`ImplementsLog`). The
  transaction's own entries do: the merge keeps a copy in `target`, as
  `t_entries` in `merge`, while others may change `txnTree`.

### FsfsPack

Shards of `N` revisions. `pack[s]` is the sequence of revisions written to the
pack file so far and `manifest[s]` their offsets; revision files have size 1.
`cachedMin[p]` is a process' copy of `min-unpacked-rev`.

| actions | code |
|---|---|
| `PackBegin`, `PackEnd`, `PackCancel` | `svn_fs_fs__pack`, `pack_body` |
| `PackShard`, `PackRev` | `pack_rev_shard` |
| `PackPropShard`, `PackProp`, `PackPropsDone` | `pack_revprops_shard`, `copy_revprops` |
| `PackBump`, `RemoveRev`, `RemoveRevsDone`, `RemoveProp`, `RemovePropsDone` | the tail of `pack_shard`, `delete_revprops_shard` |
| `ReadRep`, `UseHint`, `OpenProto`, `OpenRevision`, `OpenFile`, `OpenFails`, `RefreshMin`, `SeekRevision`, `NextBase`, `ReadDone` | `build_rep_list`, `create_rep_state_body`, `open_and_seek_transaction`, `open_and_seek_revision`, `open_pack_or_rev_file` |
| `ReadProps`, `ReadNonPacked`, `DoubleCheckPacked`, `ReadPacked` | `get_revision_proplist`, `read_non_packed_revprop`, `read_pack_revprop` |
| `SetProps` | `set_revision_proplist` |
| `OpenFs`, `Crash` | a process opens the filesystem; a process dies |
| `Commit` | `svn_fs_fs__commit`, in one step |

Abstractions: commits and property changes are one step, because FsfsCommit is
about the first and the second becomes visible by a single rename. Opening and
seeking are separate steps; an open file stays readable when it is unlinked.
Cached manifests (`packed_offset_cache`) need no variable, because
`PackedShardsFinal` shows that a packed shard never changes. Packing has no
branch for a file that is missing; `PackEnds` would fail if one ever were. A
shard's packed properties are one file here; their manifest and its splitting
are in FsfsRevprops. Unlinking is modelled as on POSIX; on Windows,
where an open file cannot be removed, the behaviours are a subset plus errors
returned to `svnadmin pack`.

### FsfsRevprops

The first packed shard, revisions 1 to `N`. A property list is its version,
counted in the order lists are written, and its size; a pack file is its first
revision, its lists and its length. `gen` is the shared counter, `late` says that
`revprop_timeout` has passed. `Cached` are the processes that have the revprop
cache (`has_revprop_cache`): `svnadmin` has it, `svnserve` only if told so. Those
without it neither read the generation nor move it (`FirstStep`, `Bumps`). That a
process gives up its cache for good when the shared memory fails is left out.

| actions | code |
|---|---|
| `ReadBegin`, `CacheHit`, `CacheMiss` | `get_revision_proplist` |
| `ReadGeneration`, `CheckTimeout`, `BumpGeneration`, `Timeout` | `read_revprop_generation` |
| `ReadManifest`, `ReadFile` | `read_pack_revprop`, `get_revprop_packname`, `parse_packed_revprops` |
| `ChangeBegin`, `ChangeRefused`, `ChangeGoesOn` | `svn_fs_fs__change_rev_prop`, `change_rev_prop_body` |
| `PlanChange`, `WritePart` | `write_packed_revprop`, `repack_revprops`, `repack_stream_open` |
| `BeginChange`, `MakeOdd`, `MoveIntoPlace`, `EndChange`, `RemoveOld` | `begin_revprop_change`, `switch_to_new_revprop`, `end_revprop_change` |
| `Return`, `Crash` | the call returns; the process dies |

The retry loop of `read_pack_revprop` is one attempt, because `last_attempt` is
true in all but the last (3619). The cache is the one the threads of a server
share and may forget entries. Compression is left out; lengths matter only where
a file is written over a longer one. Six ghost variables say what has
happened: `skewed` (a split of a pack file that is not the shard's first),
`torn` (a split wrote over a leftover), `halfDone` (a writer died between the
rename and the end of the change), `disturbed` (a pack file was removed during
this read), `unannounced` (the last change was one that did not move the
generation) and `misled` (who has read the generation while that was so).

### FsfsLocks

A path is the sequence of its names; `disk[q]` is the digest file of `q`, with
the lock in it and the paths it lists. A token is the number of its lock.

| actions | code |
|---|---|
| `BeginWrite`, `LockBody`, `SetOwn`, `SetEntry` | `svn_fs_fs__lock`, `lock_body`, `set_lock` |
| `UnlockBody`, `DeleteStep` | `svn_fs_fs__unlock`, `unlock_body`, `delete_lock` |
| `VerifyBegin`, `VerifyStep`, `Commit` | `verify_locks`, `svn_fs_fs__allow_locked_operation`, `walk_digest_files` |
| `BeginRead`, `ReadStep`, `ReadEnd` | `svn_fs_fs__get_lock`, `svn_fs_fs__get_locks` |
| `Expire` | a lock's date passes; whoever holds the write lock and meets it removes it (`get_lock`) |
| `Return`, `Crash` | the call returns; the process dies |

Each digest file is a step of its own, for readers too. This module composes
locks with commits: `CommitLocksFail` of FsfsCommit stands for `VerifyStep`
here, and `Commit` here for all of FsfsCommit after it. Comments, tokens' text
and dates are left out.

### WcWorkQueue

A text is the set of changes in it: merging is union, and an edit is lost when
its change is missing. The recorded size and time of a file are written as the
text they were taken of, since two texts that differ have different times. Every
file is in a directory of its own. `queue` is the set of rows of the
`WORK_QUEUE` table, each an id and an item; `First` is the row that
`STMT_SELECT_WORK_ITEM` returns, the one with the least id.

| actions | code |
|---|---|
| `Open` | `svn_wc__db_pdh_create_wcroot`, `verify_no_work` |
| `Obtain`, `Release` | `svn_wc__acquire_write_lock`, `svn_wc__release_write_lock` |
| `Merge`, `UpdateBase` | `merge_file`, `close_file` of `update_editor.c`, `svn_wc__internal_merge`; the items, by `merge_text_file` and `preserve_pre_merge_files` of `merge.c` |
| `Send`, `CommitBase` | `svn_wc__internal_transmit_text_deltas`, `process_committed_leaf` |
| `Nothing`, `Fetch`, `Cancel` | `svn_wc__wq_run` |
| `RunRemove`, `RunCopy`, `InstallRead`, `InstallRename`, `CommitTranslate`, `CommitReplace`, `Record` | the work items `run_file_remove`, `run_file_copy_translated`, `run_file_install`, `run_file_commit` |
| `Cleanup`, `Tidy` | `svn_wc_cleanup3`, `cleanup_internal` |
| `Crash`, `Edit` | a command dies; the user saves a file |

`raced`, `safe` and `foreign` say which files the user has edited while a command
was at work on them, which edits were made when none was, and whether a command
has run an item of another (see section 3).

### WcLocks

| actions | code |
|---|---|
| `Obtain` | `svn_wc__db_wclock_obtain`, `wclock_obtain_cb` |
| `Steal` | `svn_wc__db_wclock_obtain` with `steal_lock`, as `cleanup_internal` calls it |
| `Release` | `svn_wc__db_wclock_release` |
| `Add`, `LockAdded` | `svn_wc_add4` of a directory, in two transactions |
| `Remove` | `op_revert_txn`, `op_revert_recursive_txn`, `op_delete_txn`, which delete the rows of directories that are no longer versioned |
| `Crash` | the process dies; its rows stay |

Each is a transaction of SQLite, so one step. `nodes` are the versioned
directories: those of `Base`, which stay, and those that were added. `by` says who
wrote a row, which the table does not; `extended` that a process has locked a
directory above one of its own; `robbed`, which directories had their row taken
from one who remembers the lock. A caller checks its own memory only
(`svn_wc__write_check`), and so do `Add` and `Remove`. That a deleted directory of
`Base` takes no additions, and that an update may remove one, is left out.

### Svnsync

The contents of a mirrored revision are the number of the source revision that
was replayed. Property values are numbers; the commit carries the names of
`InCommit`, the others are sent one by one.

| actions | code |
|---|---|
| `Begin`, `LockRead`, `LockSet`, `ReleaseRead`, `ReleaseSet` | `with_locked`, `get_lock`, `svn_ra__get_operational_lock`, `svn_ra__release_operational_lock` |
| `InitStart`, `InitUrl`, `InitMerged` | `do_initialize` |
| `CopyStart`, `CopyBegin`, `PropsStep`, `PropsDone` | `do_copy_revprops`, `copy_revprops`, `write_revprops`, `remove_props_not_in_source` |
| `SyncStart`, `MarkMerged`, `DropCopying`, `SyncRange` | `do_synchronize` |
| `ReplayStarted`, `CommitRefused`, `ReplayFinished` | `replay_rev_started`, the commit, `replay_rev_finished` |
| `SourceCommit`, `SourceSet`, `Meddle` | others: commits to the source, property changes there, commits to the mirror |
| `Fail`, `Crash` | a request fails and the run releases its lock; the run dies |

`--disable-locking`, with which a run takes no lock, is left out. Whether a foreign revision makes the commit fail as out of date is left open
(`MayFail`, `MayPass`): it depends on the paths. The three reads of `SyncStart`
are one step.

### Rangelists

One rangelist goes through calls whose results are the arguments of the next, as
in a client that merges, updates and commits. `Meaning` is the reference: a
function from revisions to not merged, merged, merged and inheritable. `Merge`,
`AdjustRemaining`, `Intersect`, `Erase`, `Fork` and `ParseLine` translate
`svn_rangelist_merge2`, `adjust_remaining_ranges`,
`rangelist_intersect_or_remove`, `combine_forked_mergeinfo_props` and
`parse_revision_line` case by case. A loop is a recursive function from the number
of turns to the state of its variables, and the recursion of
`adjust_remaining_ranges` a loop that collects what is to be deleted on return
(`dels`). The text form and the table of paths are left
out, and so is the part of `combine_with_lastrange` (328-460) that splits ranges:
`TypeOK` shows that it is not reached from the modelled calls. The base value in
`apply_single_mergeinfo_prop_change` is left out, so that a working value equal to
the new one, which the code leaves alone in one branch (971), is merged with it here
as in the other (1016-1034).


## 3. The runs

Passing runs (type invariants are part of `IInv`, `NothingLost`, `Listed`,
`ListsKept`, `SourcesKept`, `NoneHigher`, `NeverStuck` and `ResultsShortest`):

| run | checks | bounds |
|---|---|---|
| `commit_crash` | `IInv`, `RevisionsReadable`, `RootsFollow`, `TxnKeysUnique`, `ImplementsLog` | 2 processes, 1 path, 2 transactions, 2 revisions, 2 crashes, recovery, aborts by anybody, commits repeated |
| `commit_live` | `NoLostUpdate`, `RevpropsMatch`, `CommitTerminates` | 2 processes, 2 paths, 2 transactions, 2 revisions, 1 crash, no recovery, fairness |
| `pack_read` | `ReadsRight`, `NothingLost`, `PackedShardsFinal` | 2 processes, shards of 2, revisions 0 to 3, 1 crash, packs cancelled any number of times |
| `pack_live` | `PropsFresh`, `PackEnds`, `ReadsEnd` | the same with a property change and texts of transactions, no crash, fairness |
| `revprops` | `FreshReads`, `CacheCurrent`, `ListsKept`, `PackSizeKept`, `NoLostChange` | 2 processes with the cache and 1 without, 2 calls at a time (`MaxCalls`), 3 revisions of which one is read, 2 changes that fit or split in two or three, 1 crash, generation up to 5 |
| `locks` | `Listed`, `ReadsComplete`, `CommitsRespectLocks`, `LocksKept` | 2 processes, 2 files three and two levels deep, 2 users, 2 locks, 1 revision, 2 crashes |
| `workqueue` | `SourcesKept`, `EditsKept`, `StatusTrue`, `BaseInstalled`, `ConflictTextKept` | 2 commands, 2 files, 3 changes, 2 crashes or cancellations |
| `wc_locks` | `Exclusive`, `NoneHigher`, `LocksHeld` | 2 processes, 3 nested directories of which two are added and removed, levels 0, 1 and infinite, 1 crash, 2 cleanups of others' locks |
| `svnsync` | `Mirrored`, `NeverStuck`, `PropsWhole`, `MeddlingNoticed` | 2 runs, 2 revisions of which one is empty, 2 properties, 2 attempts at the lock, 1 property change, 1 crash, 1 foreign commit |
| `rangelists` | `ParseExact`, `MergeExact`, `SplitExact`, `ResultsShortest`, `ForkPlain` | 5 revisions, every shortest list over 4 of them and three longer ones as argument, lines of 3 ranges, three-way merges of single ranges |

*Why the bounds are enough to be interesting.* Each hazard needs two actors,
one inside an operation and one that overtakes it. Two crashes make two different
leftovers meet, which one crash cannot; where one crash is allowed, the leftover
meets a live process. Two paths separate "merged" from "in conflict" within one
merge. For packing, four revisions make two shards, so a hint can point to the
wrong one, and shards of two have a first and a second offset; cancellation
leaves what a crash at the same place does and is not bounded. Three lists in a
pack file can be split in two and in three. A file three levels deep gives
`set_lock` a directory to write, one to skip and one above; the requests contain
each kind of refusal, theft and expiry. Three changes are a base, the user's and
the repository's. Three nested directories are needed for a walk that stops too
early, and two that come and go for a lock on one whose parent goes; two cleanups
let either process be robbed by the other. An empty revision is the one that a
mirror could commit twice without a conflict. Over four revisions a range can contain, touch and cut another at both
ends, with one left over; the translation was also compared, over five revisions
and all pairs of lists, with an independent one. Every property fails, within these
bounds, under at least one mutation of the modelled code (`mutants` in
`PROJECT.json`).

*Symmetry.* Processes (in `revprops`, those with the cache), paths of `FsfsCommit`
and files of `WcWorkQueue` are interchangeable; the liveness runs, `revprop_split`
and `rangelists` do without.
Deadlock is checked in every run; `Quiescent` in FsfsCommit says that a
repository where no process is doing anything may stay as it is.

*Fairness.* `FsfsCommit!FairSpec` has weak fairness for the steps of a process
that is at work, because nothing suspends it for ever, and strong fairness for
taking the write lock: `svn_io_file_lock2` blocks in the operating system, so a
waiter gets the lock if it becomes free again and again. Merge conflicts and the
end of the merge are steps like the others; requests and crashes have no
fairness. Termination of the merge loop rests on `MaxRev`, since every further
turn needs somebody else's commit; with unlimited commits by others, the code
may in principle go round for ever. `FsfsPack!FairSpec` has weak fairness of
each process' steps, and no fairness for `NextBase`: a chain of deltas may stop
anywhere. The other modules state safety only. For `Svnsync` the state space is
too large for a liveness check; in `FsfsRevprops` reads need not end, since
readers and a writer may keep moving the generation under each other (3225, 3257).

### Where the code departs from what is said of it

Two runs are expected to end in a violation:

- `revprop_split`: `repack_stream_open` (3949) takes indexes counted from the
  first revision of a pack file for indexes into the manifest, which counts from
  the first of the shard. When the file that is split is not the shard's first,
  entries of other revisions change, and their lists, or those that were split,
  are not found any more.
- `rangelist_fork`: `combine_forked_mergeinfo_props` (`libsvn_wc/props.c` 166)
  loses a revision of the base that both sides have made non-inheritable.

The properties of the passing runs leave aside the following, each found by TLC
with the condition removed or the bound raised:

- *Recovery mixes two commits* (8668). Commit A dies after both renames, before
  `db/current`; commit B renames its revision file over A's and dies.
  `svnadmin recover` finds both files and makes a revision of B's tree and A's
  properties. `RevpropsMatch` is checked without recovery.
- *Committing again after a conflict* (`tree.c` 1403). A merge that ends in a
  conflict has already set the entries it came to before, although
  `include/svn_fs.h` 1763 says that the target is left unaffected. Transaction 1
  edits `x1`; transaction 2 writes `x1` and adds `x2` as r1; committing 1 takes
  over `x2`, then meets the conflict, and its base is still r0. Transaction 3
  deletes both in r2. Committing 1 once more finds no difference between r0 and
  r2, merges nothing, and brings `x2` back. `include/svn_fs.h` 900 invites the
  caller to go on with the transaction; the callers in the repository abort it.
  `NoLostUpdate` is checked with each transaction committed once.
- *Texts of transactions* (4225). They have revision -1, which counts as below
  `min-unpacked-rev`, and -1 divided by the shard size is 0 in C. The prototype
  revision file is then taken for shard 0's pack file when the delta base is in
  that shard. `ReadsRight` is checked on texts of revisions.
- *Property files left by a cancelled pack* (9708). If `pack_shard` is stopped
  after it wrote `min-unpacked-rev`, nobody removes the property files later, and
  a process with an old `min-unpacked-rev` reads them for as long as it does not
  refresh. `PropsFresh` is checked with packs that are not cut short.
- *A writer of properties that is slow and then dies* (3220). After the timeout a
  reader moves the generation on and caches the old list under an even number;
  the writer renames its file and dies before the end of the change. The old list
  is served, and written back by the next change (`halfDone`). And a split that
  was cut short leaves files that the next split opens without truncating them
  (3956, `torn`).
- *Two crashes in the lock files* (`lock.c` 396). When both `set_lock` and
  `delete_lock` were cut short, a lock can be granted that no directory lists,
  and a recursive check misses it (`BothCut`). Removing a lock that was set half
  way reports an error although the lock is gone (457).
- *Commands that share a queue* (`libsvn_wc/wc_db_wcroot.c` 152). Commands in two
  directories of a working copy have locks that do not conflict but one queue,
  which is checked for left-over work only when the database is opened. One may
  run the other's items (`foreign`); then `SourcesKept`, `EditsKept`, `StatusTrue`
  and `BaseInstalled` fail. `notes/wc-ng/design` 503 says that a working copy is
  unusable until the work is done. Edits between an interrupted update and its
  cleanup are overwritten in any case. `StatusTrue` leaves aside files saved while a
  command has the lock (`raced`): one that is saved between the rename that installs
  it and the record of its size and time (`workqueue.c` 664) counts as unmodified. The
  comment there says that the order should be the other.
- *Recording after a commit* (`workqueue.c` 310). `svn_wc__sync_flags_with_props`
  reports a change for every file, so that size and time are recorded without the
  comparison that the comment at 331 describes.
- *Changes that do not move the generation* (4137). A process without the revprop
  cache does not move the generation when it changes a list, so that those with the
  cache do not hear of it, although "all other threads and processes will know about
  this" (3768). They go on giving the old list, and a change they make writes it back.
  `FreshReads` and `NoLostChange`
  leave aside a process with the cache whose call has read the generation after such
  a change and before the next that moves it (`misled`), and `CacheCurrent` that
  time (`unannounced`); nothing is left aside for processes without the cache.
- *Reads that are not tried again* (3619). A reader that finds its pack file gone,
  since a split has removed it, should read the manifest again (3603-3611). The
  argument `last_attempt` is true on all attempts but the last, and the read fails;
  `FreshReads` allows a read to fail if a pack file was removed meanwhile
  (`disturbed`).
- *A lock above one's own* (`wc_db.c` 12771). `Exclusive` and `NoneHigher` hold until
  a process takes one (`extended`). One locks `A` alone and then the root to any depth;
  the walk of another from `A/B` ends at the row of `A` ("There can't be interesting
  locks on higher nodes"), and it gets a lock within the first one's.
- *Locks that were taken away* (`wc_db.c` 12986, 6182). `LocksHeld` leaves aside a
  directory whose row was taken from one who remembered the lock, for as long as
  anybody remembers one there (`robbed`). A process that cleanup has robbed gives its
  lock back without an error, though `lock.c` 259 says there is one, and the row that
  goes is cleanup's. A directory that is added, reverted and added again passes
  `svn_wc__write_check`, which says it is "still locked in DB" (`wc.h` 698), by the
  memory of a lock whose row the revert has removed (`wc_db.c` 6076-6182).
- *Stealing svnsync's lock* from a run that is alive can mirror an empty revision
  twice (`Careful`). A foreign commit between the mark and the commit of a
  revision cannot be told from one's own. Servers without atomic property changes
  let two runs have the lock (`Atomic`).
- *Ranges that are split as they grow* (`libsvn_subr/mergeinfo.c` 855). `MergeExact`
  has the condition `Calm`: no non-inheritable change reaches from a range like it
  beyond the next, inheritable one. When a range
  that has grown absorbs others and is then split around an inheritable one,
  `adjust_remaining_ranges` inserts the second half without regard to the elements it
  has still to delete; the activations within absorb and delete some of these, and the
  outer one deletes as many as it had counted. `{1*,3*,5*,7*,9*,10}` merged with
  `{1-11*}` gives `{1-9*}`, although `include/svn_mergeinfo.h` 304-316 says that the
  result represents both. It takes four absorbed ranges and eleven revisions, more than
  the run has; it came to light when a proof of `MergeExact` was tried. `Calm` leaves
  aside more than this loss: also the splits before which nothing was absorbed, as of
  `{2*,4}` with `{1-5*}`, where nothing is lost.
- *Rangelists with mixed inheritability.* With `consider_inheritance` the
  intersection depends on the order of the operands, although `mergeinfo.c` 1261
  says it does not, and so does what is erased ({1,2*,3} and {1-3}: r3 is left, though
  both lists have it; `SplitExact` says only that nothing is erased without an equal).
  `svn_rangelist_merge2` may give lists
  that are not valid or not shortest ({1*,2,3} and {2-3*}), on which later calls
  fail an assertion; `Idle` lets a caller go on with valid lists only.
  `svn_rangelist_inheritable2` does the opposite of what
  `include/svn_mergeinfo.h` 441-446 says; it is not modelled.


## 4. The proofs

Eight modules have theorems. All are proved for every value of the constants that
satisfies the named assumptions: any set of processes, any number of
revisions, paths or files, any bound. Each module proves `Invariance`, that its
`IInv` is an invariant, from one lemma per action, and the properties of the
runs from it; in `RangelistsProofs`, which is about loops and not about
interleavings, the invariants are those of the loops.

| module | theorem | property |
|---|---|---|
| `FsfsCommitProofs` | `Invariance`, `TypeCorrect` | `IInv`, `TypeOK` |
| | `Readability` | `RevisionsReadable`: everything up to `db/current` is complete |
| | `Ancestry` | `RootsFollow`: each root succeeds the root before it |
| | `FreshKeys` | `TxnKeysUnique`: no key is given out twice |
| | `Refinement` | `ImplementsLog`: `FsfsCommit` implements `RevisionLog` |
| | `PropertiesMatch` | `RevpropsMatch`, where `svnadmin recover` is not run |
| | `NoUpdateLost` | `NoLostUpdate`, where a transaction is committed once |
| `FsfsPackProofs` | `NoRevisionLost` | `NothingLost`: every revision and property list is where `min-unpacked-rev` says |
| | `PackedForGood` | `PackedShardsFinal`: a packed shard never changes |
| | `ReadersFind` | `ReadsRight`, for texts of revisions |
| | `PropReaders` | `PropsFresh`, where no pack is cut short |
| `FsfsRevpropsProofs` | `ListsSurvive` | `ListsKept`: the list last set on a revision is found through the manifest |
| | `ReadsFresh` | `FreshReads`: no read is older than the last change that had returned |
| | `CacheTrue` | `CacheCurrent`: under the present generation the cache has what is on disk |
| | `ChangesKept` | `NoLostChange`: a change replaces the list it was made from |
| | `SizesKept` | `PackSizeKept`: a pack file with several lists keeps to the pack size |
| `FsfsLocksProofs` | `DirectoriesList` | `Listed`: the directories above a granted lock list it |
| | `ReadersComplete` | `ReadsComplete`: `get_locks` misses no lock in force |
| | `LocksRespected` | `CommitsRespectLocks`: a commit changes nothing locked against it |
| | `LocksStay` | `LocksKept`: only those entitled to remove a lock |
| `WcLocksProofs` | `WalkMayStop` | `NoneHigher`: the walk may end at the first row |
| | `MutualExclusion` | `Exclusive`: no directory is within the locks of two processes |
| | `MemoryTrue` | `LocksHeld`: what a process remembers is in the table, unless the row was taken away |
| `WcWorkQueueProofs` | `ItemsCanRun` | `SourcesKept`: an item in the queue can be run, and run again |
| | `EditsSurvive` | `EditsKept`: no edit is lost |
| | `StatusHonest` | `StatusTrue`: what is recorded as unmodified is |
| | `BaseReachesDisk` | `BaseInstalled`: an unlocked file has its base |
| | `ConflictTextStays` | `ConflictTextKept`: an unlocked conflict has the user's text beside it |
| `SvnsyncProofs` | `MirrorsInOrder` | `Mirrored`: revision i of the mirror is revision i of the source |
| | `SyncCanResume` | `NeverStuck`: no failure leaves marks that a later run refuses |
| | `ListsWhole` | `PropsWhole`: a merged revision has one property list of the source, whole |
| | `ForeignCommitsNoticed` | `MeddlingNoticed`: a foreign commit is not taken for a mirrored one |
| `RangelistsProofs` | `ParsesExactly` | `ParseExact`: a line of `svn:mergeinfo` keeps every revision, or is refused for a clash |
| | `DividesExactly` | `SplitExact`: erasing and intersecting divide a list |
| | `MergesExactly` | `MergeExact`: merging loses and invents no revision and no inheritance |
| | `ResultsAreShortest` | `ResultsShortest`: the results are the shortest lists, within the revisions there are |
| | `ForksPlainly` | `ForkPlain`: a three-way merge keeps the changes of both sides |

*Assumptions on the constants.* Bounds are naturals, and the values that stand
for "nothing" (`NoProc`, `NoFile`, `Nobody`, `Absent`, `Error`, ...) are not
members of the sets they are added to. Paths are sequences of names, closed under
prefixes, with the root, and nothing lies below a file. A shard has at least one
revision; the sizes of property lists are positive, and the shard's first pack
file fits (`ShardFits`), as `pack_revprops_shard` sees to. The property lists of
`Svnsync` are functions on `Names`, its runs are
finitely many and try for the lock at least twice. The arguments in `Rangelists` are
shortest lists over at least one revision, and the ranges of a line are in the order
in which `parse_revision_line` has sorted them. TLC evaluates the assumptions
in every run.

*Hypotheses.* Six theorems have one, and each has a reason in section 3:
`PropertiesMatch` supposes that nobody runs `svnadmin recover`, which can mix two
commits; `NoUpdateLost`, that a transaction whose commit failed is not committed
again, since the failed merge has left its traces in it (`~Recommit`);
`ReadersFind`, that no text of a transaction is read, whose file is taken
for shard 0's; `PropReaders`, that no pack is cancelled, and says nothing after a
crash, since either leaves property files that are never removed; `Invariance` and
`SyncCanResume` of `Svnsync`, that the server changes properties atomically and
that the lock is stolen only from the dead. Each is needed: TLC has a
counterexample without it. The other conditions (`BothCut`, `skewed`, `torn`,
`halfDone`, `unannounced`, `misled`, `extended`, `robbed`, `foreign`, `raced`, `Alone`, `Calm`, `Uniform`) are part of the properties, and
the same that the runs check.

`IInv` of each module but `Rangelists` is defined at its end. That of `FsfsCommit` is a property of
run `commit_crash`; the others were checked by TLC on the instances of the runs
before they were proved, and are not repeated there; so was `UpdateInv` of
`FsfsCommit`.

### The invariants

**FsfsCommit.** `RevisionsReadable` is not inductive: that `CommitCurrent`
leaves a complete revision depends on what the commit did five steps earlier
and on nobody having disturbed it. `IInv` is the conjunction of

- `LockInv`: stages that need the write lock have it, and a base found up to date
  stays the youngest revision. Every argument about `current` starts here;
- `BaseInv`: revisions that processes and transactions refer to exist;
- `KeyInv`: keys below `txn-current` are used once, and the key a process has
  just been given is unknown to everybody else. It makes inodes fresh, so that
  `MakeTxn` does not truncate a file in use;
- `ProtoInv`: whoever has a prototype revision file open holds its lock, and a
  file in place as a revision is nobody's prototype. This keeps a late
  `CloseWriter` from writing to a revision;
- `FileInv`: revision files are complete and distinct, with the right
  predecessor, and at most one lies beyond `db/current`;
- `CommitInv`: what the commit has put in place so far.

`RevpropsMatch` needs little more (`PropsInv`: it holds, and nobody recovers). The
property file beyond `db/current` may be of an earlier commit that died, but by
`CommitInv` a commit that comes to `CommitCurrent` has put both files in place
itself, and without recovery nothing else moves `current`.

`UpdateInv`, for `NoLostUpdate`, says at every stage what the bookkeeping `origin`
knows. An entry is *clean* with respect to a revision if it is that revision's
entry, or was edited, and the first edit replaced that revision's entry (`Clean`).
A transaction nobody has tried to commit is clean with respect to its base
(`OriginInv`); one in the merge, at the paths the merge is done with, with respect
to the revision it merges from; after the merge, at every path (`MergedOK`). That
others may edit the transaction all the while does no harm: an edit keeps a clean
entry clean. The base check under the write lock makes that revision the youngest,
so the tree written by `CommitFinal` differs from it only where an edit replaced its
entry (`Kept`), and the rename turns this into a fact about two revisions
(`KeptInv`), which no later step can change because their files are final. `TriedInv`
is where `~Recommit` comes in: one process commits a transaction, and once.

*Refinement.* The mapping takes `youngest` to `current`, and author and tree of
a revision to its file and contents. Only `CommitCurrent` and `Recover` change
`current`, and by `FileInv` by one at most; that revision's transaction is new
in the log because revision files are distinct. All other steps are stutters:
they leave `revFile` alone up to `current` (`CommitMoveRev` writes at
`current + 1`, by `LockInv`), and `inode` at all inodes in place (by `KeyInv` and
`ProtoInv`).

**FsfsPack.** `BoundInv` keeps `min-unpacked-rev` and every process' copy of it at
the beginning of a shard, the copy never ahead of it and it never beyond
`current + 1`. `FileInv` says where a revision is: below `min-unpacked-rev` in a
whole pack file with the right manifest, from there on in a file of its own;
`PropInv` says the same of property lists. `LockInv` and `PackOK` describe the shard
being packed: how much of it has been copied, and that it is the one at
`min-unpacked-rev` until `PackBump` has moved that on. `RepOK` is the argument for
readers: a file that could not be opened was removed because its shard is packed
now, so that after the refresh the reader looks in the pack file, which stays; and
an open file that is reused is the one its revision is looked for in (`HintOK`).
`LeftInv` and `PropOK` say that while no pack was cut short, the only property
files left of packed shards are those the packer is about to remove, and these
are up to date.

**FsfsRevprops.** `LockInv`, `GenInv` and `FilesInv` hold in any case: who changes
something has the write lock, nobody has a generation that is still to come, and
file names are used up no faster than lists are written. The rest holds as long
as only the shard's first pack file has been split (`~skewed`). `DiskOK`: a revision
is in the file the manifest names and in no other that it names, and the list there
is not older than promised (`AtLeast`): than the last change that returned, or the
one that need only return. Readers have three sources of old data. A pack file they
were told of may have been replaced or removed: `ReadOK` says that its name is one
that no split will write to (`Settled`), so what is found under it is as new as
when the manifest was read. The cache may have an old list: `CacheInv` says that
nothing under the present generation is older than promised, and `PromiseOK`, that
neither is anything a reader may still find under the generation it has read, what
another is about to put there included. And a reader that moves on the generation of a
writer it takes for dead makes what was cached meanwhile look current: while the
writer is between its rename and the end of the change, such entries may be of
either list, and both are good enough for a reader. They are not for a change, which
writes back what it read. `SameInv` and `ChangeOK` therefore say more: except in that
interval, what is cached under the present generation, or is about to be, is what is
on disk; and the list a change is working on stays the one on disk until it is
replaced. A writer that dies in the interval leaves such entries behind, and this
part of the invariant ends there (`halfDone`). A process without the cache moves its
file under the present generation, and what is cached under it is out of date until
somebody moves it on: `CacheInv` and `SameInv` hold only while that is not so
(`~unannounced`), and what they promise to a process with the cache at the moment it
reads the generation is kept by `PromiseOK` and `ChangeOK` for those that were not
`misled` then. For a process without the cache `ReadOK` and `DiskOK` are enough. `PlanOK` describes what a writer has
prepared: a file with the same lists but one (`PlaceOK`), or a new manifest whose
files, written or to be written, have between them exactly the lists of the old
file (`SplitOK`). That the ranges of a split are consecutive and complete is a fact
about the loop that finds the split point (`Grow`, `SplitPoint`), proved by induction
on its turns (lemmas `SplitBounds` and `RangesPartition`). Most steps are of one of a
few kinds (nothing but the process' own place changes; a file appears that nobody
looks for; the clock moves), each with one lemma.

`SizeInv`, for `PackSizeKept`, holds without a condition: it says of the files in
place and of every plan that what has several lists fits. A plan is made by the
writer, so the argument is about the loop again: the left part grows while it is
the smaller one, so each part with several lists was, or became, no larger than the
other plus one list (lemma `SplitSizes`), and the list that is alone in the middle
of a split in three is the one too large for either (`RangesFit`). What the lists
weigh is a recursive function, `TotalSize`, whose additivity is a lemma of its own.

**FsfsLocks.** `HoldInv`: who changes a digest file or HEAD has the write lock.
`DiskInv`: a lock is in the digest file of its own path. `StepInv`: how far
`set_lock` or `delete_lock` has come, and by what right. `ListInv` is the core.
`set_lock` writes from the path upwards and stops at a directory that already lists
the path, so it relies on all the directories above that one. As long as no
`set_lock` was cut short (`Up`), a path is listed from the root down to some
directory, and by all if it is locked: the early stop is right. As long as no
`delete_lock` was (`Down`), it is listed from some directory down to its own, by
none if it is not locked, and by all if its lock was granted: there is nothing to
stop at but what is complete. Either is enough, and after both kinds of crash
neither is left. `WalkInv` says of a reader or a commit in mid-walk that every lock
it must see has been seen or will be come to, although the directories change as
it goes. `GhostInv` ties the bookkeeping to the crashes.

**WcLocks.** `Apart`: no row is within the reach of another, until somebody locks
a directory above one of its own (`extended`); `ByInv`: every row has a writer.
`LocksHeld` is part of the invariant: that a step of one process leaves the rows of
the others alone rests on their being known for theirs. A release takes the row of
its own lock because of `LocksHeld`, or else of a directory in `robbed`, which stays
there as long as anybody remembers a lock on it. The lemmas about `Prefix` and `Reaches` do the rest: what reaches a directory
reaches everything between, so a row further up that reached the directory would
reach the row the walk met first.

**WcWorkQueue.** `TypeInv` says more than the types: no text has a change that has
not been made. `LockInv`: a lock has one owner, and who cleans up is alone and has
all of them. `RowsInv`: there is work for locked files only, and the items that
need a temporary file come before the one that removes it. `ConflictInv`: the
user's text of a conflict is in the copy or about to be copied. `CommandInv`: which
row a command is running. Until one command runs an item of another (`foreign`),
`HeadOK` says that the row a command runs is the first and its own; `RowOK`, what
each item can rely on, so that it can be run, and run again wherever it was
interrupted; `CommandOK`, what a command has in its hands between two steps of an
item; and `FileOK`, how base, recorded text, working file and the user's edits are
related while items are pending.

**Svnsync.** `LockInv`: who works has the lock, and who steals it is the only one
there. `MarkInv` is what the code relies on when it resumes: the marks on revision 0
and the length of the mirror fit as `do_synchronize` demands (`Consistent`).
`CountInv` bounds the mirror by the source and the foreign commits. `QuietInv`: the
marks say nothing of a foreign commit made between runs, and no synchronization
goes on after it. `PropsInv` says which revisions have a whole property list,
and `RunOK`, what each stage of a run finds of what the stages before it left.

**Rangelists.** `CallInv` says that a list is what the last call made of its
arguments, and that the list it was given is valid (`Idle`); the rest is about what a call makes. Its loops are
recursive functions from turns to states, and what such a function gives is proved by
induction on the turns, with the induction principle stated for sets (`SetInduction`),
since a backend can instantiate a set but not a predicate. A list is looked at through
`Has`, `On` and `Inh` (some range covers the revision, with this inheritability),
which lemma by lemma say what appending, replacing, inserting and deleting ranges do.

- *Parsing* (`ParsedTo`): after k ranges the list is the shortest for them, or two of
  them clash.
- *Erasing and intersecting* (`SplitInv`): the revisions of the list are divided
  between what was left out, what was kept and what is still to come, with their
  inheritability, and both results so far are the shortest.
- *Merging, the revisions* (`Merging`): the list and the changes still to come cover
  together what the two lists covered at first, and the list is in order from the
  index on. For most of the eighteen cases of a turn this is a calculation. In those that
  call `adjust_remaining_ranges` the range at the index has grown over its
  neighbours (`Grows`), and each activation cuts, deletes or passes one of them. An
  activation that is not the last deletes nothing (`Running`). Here `Calm` is needed:
  without it an activation within another may delete ranges that the outer one has
  already counted, and the outer one then deletes others in their place (section 3).
- *Merging, the length* (`Tidy`, `Uniting`), where neither list mixes: what lies
  before the index is the shortest, and the two ranges at the index and the change
  that comes next cannot touch unnoticed. Each turn comes nearer to the end
  (`Advances`), and the bound on the turns, 4N + 2 Len + 1, that makes the loop
  a function is never what ends it: with it, what is left of the changes is appended
  to a list that is done.
- *Three-way merge*: on lists of one inheritability erasing is difference of sets
  (`Keeps`) and merging is union (`Unites`), both give such lists again (`Pure`), and
  the rest is a calculation for one revision.

### Only model-checked

- Liveness (`CommitTerminates`, `PackEnds`, `ReadsEnd`): beyond the prover.
- The two violations listed in section 3: counterexamples of TLC.


## 5. What is not modelled

The repository has some 470 000 lines of implementation. The modules cover the
protocols that several processes take part in or that must survive a crash, and
one algebra; most of the rest has no state of its own that a model checker could
explore, or depends on data a model would have to leave out:

- Berkeley DB back end: its transactions are the database's.
- `libsvn_fs`, language bindings, command line tools, authentication stores:
  dispatch, conversion and presentation.
- In-memory caches and serializers: they hold immutable data, keyed by
  revision; the exceptions, `min-unpacked-rev` and the properties, are part of
  FsfsPack and FsfsRevprops.
- The representation cache (rows written after the write lock is released, 8163)
  and hotcopy (10156-10820): protocols of several processes that are left for
  later modules.
- Of the working copy: directories (but for the locks on them), tree conflicts, moves, and the metadata
  operations, which are transactions of SQLite; of merging, the table of paths,
  elision and the second line for one path in a property.
- Delta, diff, svndiff: algorithms over byte strings.
- Servers, repository access and clients: sequential drivers of the parts
  modelled here, over network protocols. The editor drives of `libsvn_ra_svn`
  and the reporter are candidates for a later module.
- `svnsync --disable-locking`, with which nothing keeps two runs apart.
- Durability below the file API (fsync, directory entries), and network file
  systems without working locks.


## 6. Plan

1. Done: the modules above; the proofs of section 4.
2. `RepCache` and `FsfsHotcopy`; the pipelined editor of `libsvn_ra_svn`.
