-------------------------------- MODULE FsfsPack -------------------------------
(***************************************************************************)
(* Packing of FSFS shards, with the readers that go on all the while.      *)
(*                                                                         *)
(* 'svnadmin pack' concatenates the revision files of a full shard into    *)
(* one pack file, and their property files into another, moves            *)
(* db/min-unpacked-rev on, and removes the originals.  It holds the write  *)
(* lock; readers hold none, and each process decides where to look by its  *)
(* own copy of min-unpacked-rev, which is refreshed now and then.          *)
(*                                                                         *)
(* Revision files have size 1, so that an offset in a pack file counts the *)
(* revisions before it.  Commits, which FsfsCommit is about, are one step  *)
(* here; so are property changes, whose only visible effect is a rename.   *)
(***************************************************************************)
EXTENDS Integers, Sequences, FiniteSets

CONSTANTS
  Procs,     \* server processes and 'svnadmin pack'
  N,         \* max_files_per_dir: revisions per shard
  MaxRev,    \* bound: revisions ever committed
  MaxSet,    \* bound: property changes
  MaxCrash,  \* bound: crashes
  Requests,  \* what is asked of the processes
  NoFile,    \* no such file
  NoProc,    \* nobody
  Error,     \* what a failed read returns
  Garbage    \* what is found at a wrong place of a file

ASSUME PackAssumption ==
  /\ N \in Nat \ {0}
  /\ MaxRev \in Nat /\ MaxSet \in Nat /\ MaxCrash \in Nat
  /\ Requests \subseteq {"commit", "rep", "txnrep", "props", "set", "cancel"}
  /\ NoProc \notin Procs

Revs   == 0..MaxRev
Shards == 0..(MaxRev \div N)
Values == 0..MaxSet           \* property lists, numbered in the order they were set

Txn == -1                     \* SVN_INVALID_REVNUM: the revision of a text in a transaction

ASSUME ResultsAssumption ==
  /\ NoFile \notin Revs \cup Values /\ NoFile \notin Seq(Revs)
  /\ Garbage \notin Revs \cup {Txn} /\ Error \notin Revs \cup {Txn}

RevFile(r)  == <<"rev", r>>   \* open files
PackFile(s) == <<"pack", s>>
ProtoFile   == <<"proto", 0>>
NoHandle    == <<"none", 0>>
Handles     == {ProtoFile, NoHandle} \cup {RevFile(r) : r \in Revs} \cup {PackFile(s) : s \in Shards}

VARIABLES
  current,     \* db/current
  minUnpacked, \* db/min-unpacked-rev
  revFiles,    \* revisions with a file of their own, db/revs/<shard>/<r>
  pack,        \* db/revs/<shard>.pack/pack: the revisions in it, in order
  manifest,    \* db/revs/<shard>.pack/manifest: their offsets
  props,       \* db/revprops/<shard>/<r>: the property list, or NoFile
  propPack,    \* db/revprops/<shard>.pack: the property list of r in it, or NoFile
  writeLock,   \* the process that holds db/write-lock, or NoProc
  pc,          \* what a process does next
  cachedMin,   \* ffd->min_unpacked_rev of each process
  shard,       \* the shard a packing process is at
  want,        \* the revision a reader wants to read from
  file,        \* the file it has open, file_hint
  hintRev,     \* the revision it last read from that file, rev_hint
  got,         \* what it read: the revision it found there, or a property list
  valid,       \* property lists that were the latest at some time since its read began
  latest,      \* latest[r]: the property list last set on r
  sets,        \* number of property changes so far
  crashes      \* number of crashes so far

repoVars == <<current, minUnpacked, revFiles, pack, manifest, props, propPack, latest, sets>>
readVars == <<want, file, hintRev, got, valid>>
vars     == <<repoVars, writeLock, pc, cachedMin, shard, readVars, crashes>>

RevsOf(s)  == s * N .. s * N + N - 1
ShardOf(r) == r \div N

\* rev / max_files_per_dir as C computes it: rounded towards zero.
CShard(r) == IF r < 0 THEN -((-r) \div N) ELSE r \div N

Packing == {"pack", "copy", "pcopy", "bump", "rmrev", "rmprop"}
Reading == {"rep", "open", "refresh", "reopen", "seek", "got", "props", "ppack", "pread", "gotprops"}

\* The types of the files of the repository and of what each process remembers, the shard a packing
\* process works on (pack_body) included.
TypeOK ==
  /\ current \in Revs
  /\ minUnpacked \in 0..MaxRev + 1
  /\ revFiles \subseteq Revs
  /\ pack \in [Shards -> Seq(Revs) \cup {NoFile}]
  /\ manifest \in [Shards -> Seq(0..N) \cup {NoFile}]
  /\ props \in [Revs -> Values \cup {NoFile}]
  /\ propPack \in [Revs -> Values \cup {NoFile}]
  /\ writeLock \in Procs \cup {NoProc}
  /\ pc \in [Procs -> {"idle"} \cup Packing \cup Reading]
  /\ cachedMin \in [Procs -> 0..MaxRev + 1]
  /\ shard \in [Procs -> 0..(MaxRev \div N) + 1]
  /\ want \in [Procs -> Revs \cup {Txn}]
  /\ file \in [Procs -> Handles]
  /\ hintRev \in [Procs -> Revs \cup {Txn}]
  /\ got \in [Procs -> Revs \cup Values \cup {Txn, NoFile, Error, Garbage}]
  /\ valid \in [Procs -> SUBSET Values]
  /\ latest \in [Revs -> Values]
  /\ sets \in Values
  /\ crashes \in 0..MaxCrash

\* A repository of one revision, which every process has just opened.
Init ==
  /\ current = 0
  /\ minUnpacked = 0
  /\ revFiles = {0}
  /\ pack = [s \in Shards |-> NoFile]
  /\ manifest = [s \in Shards |-> NoFile]
  /\ props = [r \in Revs |-> IF r = 0 THEN 0 ELSE NoFile]
  /\ propPack = [r \in Revs |-> NoFile]
  /\ writeLock = NoProc
  /\ pc = [p \in Procs |-> "idle"]
  /\ cachedMin = [p \in Procs |-> 0]
  /\ shard = [p \in Procs |-> 0]
  /\ want = [p \in Procs |-> 0]
  /\ file = [p \in Procs |-> NoHandle]
  /\ hintRev = [p \in Procs |-> 0]
  /\ got = [p \in Procs |-> NoFile]
  /\ valid = [p \in Procs |-> {}]
  /\ latest = [r \in Revs |-> 0]
  /\ sets = 0
  /\ crashes = 0

--------------------------------------------------------------------------------
(* is_packed_rev and is_packed_revprop, by what the process believes       *)

Packed(p, r)     == r < cachedMin[p]
PackedProp(p, r) == r < cachedMin[p] /\ r # 0

\* update_min_unpacked_rev
UpdateMinUnpacked(p) == cachedMin' = [cachedMin EXCEPT ![p] = minUnpacked]

Goto(p, stage) == pc' = [pc EXCEPT ![p] = stage]

\* The process returns to its caller, and its local variables are gone.
Return(p) ==
  /\ Goto(p, "idle")
  /\ shard' = [shard EXCEPT ![p] = 0]
  /\ want' = [want EXCEPT ![p] = 0]
  /\ file' = [file EXCEPT ![p] = NoHandle]
  /\ hintRev' = [hintRev EXCEPT ![p] = 0]
  /\ got' = [got EXCEPT ![p] = NoFile]
  /\ valid' = [valid EXCEPT ![p] = {}]

--------------------------------------------------------------------------------
(* Writers, with the write lock (with_some_lock_file refreshes cachedMin)  *)

\* A process opens the filesystem anew.
OpenFs(p) ==
  /\ pc[p] = "idle"
  /\ UpdateMinUnpacked(p)
  /\ UNCHANGED <<repoVars, writeLock, pc, shard, readVars, crashes>>

\* svn_fs_fs__commit puts a revision file and a property file in place.
Commit(p) ==
  /\ pc[p] = "idle"
  /\ writeLock = NoProc
  /\ current < MaxRev
  /\ current' = current + 1
  /\ revFiles' = revFiles \cup {current + 1}
  /\ props' = [props EXCEPT ![current + 1] = 0]
  /\ UpdateMinUnpacked(p)
  /\ UNCHANGED <<minUnpacked, pack, manifest, propPack, latest, sets, writeLock, pc, shard,
                 readVars, crashes>>

\* set_revision_proplist: the property list goes where r's is, by what the
\* process believes after the refresh.
SetProps(p, r) ==
  /\ pc[p] = "idle"
  /\ writeLock = NoProc
  /\ r <= current
  /\ sets < MaxSet
  /\ UpdateMinUnpacked(p)
  /\ IF r < minUnpacked /\ r # 0
     THEN propPack' = [propPack EXCEPT ![r] = sets + 1] /\ UNCHANGED props
     ELSE props' = [props EXCEPT ![r] = sets + 1] /\ UNCHANGED propPack
  /\ sets' = sets + 1
  /\ latest' = [latest EXCEPT ![r] = sets + 1]
  /\ valid' = [q \in Procs |-> IF pc[q] \in {"props", "ppack", "pread"} /\ want[q] = r
                               THEN valid[q] \cup {sets + 1} ELSE valid[q]]
  /\ UNCHANGED <<current, minUnpacked, revFiles, pack, manifest, writeLock, pc, shard,
                 want, file, hintRev, got, crashes>>

--------------------------------------------------------------------------------
(* svn_fs_fs__pack                                                         *)

\* Mutant: packing starts at shard 0 whatever min-unpacked-rev says.
PackBegin_FromStart(p) ==
  /\ pc[p] = "idle"
  /\ writeLock = NoProc
  /\ writeLock' = p
  /\ UpdateMinUnpacked(p)
  /\ shard' = [shard EXCEPT ![p] = 0]
  /\ Goto(p, "pack")
  /\ UNCHANGED <<repoVars, readVars, crashes>>

\* pack_body: start at the first shard that is not packed.
PackBegin(p) ==
  /\ pc[p] = "idle"
  /\ writeLock = NoProc
  /\ writeLock' = p
  /\ UpdateMinUnpacked(p)
  /\ shard' = [shard EXCEPT ![p] = minUnpacked \div N]
  /\ Goto(p, "pack")
  /\ UNCHANGED <<repoVars, readVars, crashes>>

\* Shards whose revisions all exist.
CompletedShards == (current + 1) \div N

PackEnd(p) ==
  /\ pc[p] = "pack"
  /\ shard[p] >= CompletedShards
  /\ writeLock' = NoProc
  /\ Return(p)
  /\ UNCHANGED <<repoVars, cachedMin, crashes>>

\* pack_rev_shard: what an earlier attempt left is removed; new files are made.
PackShard(p) ==
  /\ pc[p] = "pack"
  /\ shard[p] < CompletedShards
  /\ pack' = [pack EXCEPT ![shard[p]] = <<>>]
  /\ manifest' = [manifest EXCEPT ![shard[p]] = <<>>]
  /\ Goto(p, "copy")
  /\ UNCHANGED <<current, minUnpacked, revFiles, props, propPack, latest, sets, writeLock,
                 cachedMin, shard, readVars, crashes>>

\* The next revision's offset goes to the manifest, its contents to the pack.
PackRev(p) ==
  LET s == shard[p]
      r == s * N + Len(pack[s])
  IN /\ pc[p] = "copy"
     /\ Len(pack[s]) < N
     /\ r \in revFiles
     /\ manifest' = [manifest EXCEPT ![s] = Append(@, Len(pack[s]))]
     /\ pack' = [pack EXCEPT ![s] = Append(@, r)]
     /\ UNCHANGED <<current, minUnpacked, revFiles, props, propPack, latest, sets, writeLock,
                    pc, cachedMin, shard, readVars, crashes>>

\* pack_revprops_shard likewise starts from nothing ...
PackPropShard(p) ==
  /\ pc[p] = "copy"
  /\ Len(pack[shard[p]]) = N
  /\ propPack' = [r \in Revs |-> IF r \in RevsOf(shard[p]) THEN NoFile ELSE propPack[r]]
  /\ Goto(p, "pcopy")
  /\ UNCHANGED <<current, minUnpacked, revFiles, pack, manifest, props, latest, sets, writeLock,
                 cachedMin, shard, readVars, crashes>>

\* Revisions whose properties are still to be copied; revision 0 is left out.
Uncopied(s) == {r \in RevsOf(s) \ {0} : propPack[r] = NoFile}

\* ... and copies one property list after the other.
PackProp(p) ==
  /\ pc[p] = "pcopy"
  /\ \E r \in Uncopied(shard[p]) :
       /\ \A q \in Uncopied(shard[p]) : r <= q
       /\ props[r] # NoFile
       /\ propPack' = [propPack EXCEPT ![r] = props[r]]
  /\ UNCHANGED <<current, minUnpacked, revFiles, pack, manifest, props, latest, sets, writeLock,
                 pc, cachedMin, shard, readVars, crashes>>

PackPropsDone(p) ==
  /\ pc[p] = "pcopy"
  /\ Uncopied(shard[p]) = {}
  /\ Goto(p, "bump")
  /\ UNCHANGED <<repoVars, writeLock, cachedMin, shard, readVars, crashes>>

\* Mutant: the originals are removed before min-unpacked-rev is written.
PackBump_Late(p) ==
  /\ pc[p] = "bump"
  /\ Goto(p, "rmrev")
  /\ UNCHANGED <<repoVars, writeLock, cachedMin, shard, readVars, crashes>>

\* write_revnum_file: from now on processes that look will use the pack.
PackBump(p) ==
  /\ pc[p] = "bump"
  /\ minUnpacked' = (shard[p] + 1) * N
  /\ Goto(p, "rmrev")
  /\ UNCHANGED <<current, revFiles, pack, manifest, props, propPack, latest, sets, writeLock,
                 cachedMin, shard, readVars, crashes>>

\* The shard's directory is removed, file by file, in directory order.
RemoveRev(p) ==
  /\ pc[p] = "rmrev"
  /\ \E r \in revFiles \cap RevsOf(shard[p]) : revFiles' = revFiles \ {r}
  /\ UNCHANGED <<current, minUnpacked, pack, manifest, props, propPack, latest, sets, writeLock,
                 pc, cachedMin, shard, readVars, crashes>>

RemoveRevsDone(p) ==
  /\ pc[p] = "rmrev"
  /\ revFiles \cap RevsOf(shard[p]) = {}
  /\ Goto(p, "rmprop")
  /\ UNCHANGED <<repoVars, writeLock, cachedMin, shard, readVars, crashes>>

\* Property files that delete_revprops_shard has still to remove.
Undeleted(s) == {r \in RevsOf(s) \ {0} : props[r] # NoFile}

RemoveProp(p) ==
  /\ pc[p] = "rmprop"
  /\ \E r \in Undeleted(shard[p]) : props' = [props EXCEPT ![r] = NoFile]
  /\ UNCHANGED <<current, minUnpacked, revFiles, pack, manifest, propPack, latest, sets, writeLock,
                 pc, cachedMin, shard, readVars, crashes>>

\* Mutant: the same shard again.
RemovePropsDone_NoAdvance(p) ==
  /\ pc[p] = "rmprop"
  /\ Undeleted(shard[p]) = {}
  /\ Goto(p, "pack")
  /\ UNCHANGED <<repoVars, writeLock, cachedMin, shard, readVars, crashes>>

\* pack_body goes on to the next shard.
RemovePropsDone(p) ==
  /\ pc[p] = "rmprop"
  /\ Undeleted(shard[p]) = {}
  /\ shard' = [shard EXCEPT ![p] = @ + 1]
  /\ Goto(p, "pack")
  /\ UNCHANGED <<repoVars, writeLock, cachedMin, readVars, crashes>>

\* The cancel function says stop: between shards, while copying or removing.
PackCancel(p) ==
  /\ pc[p] \in Packing \ {"bump"}
  /\ writeLock' = NoProc
  /\ Return(p)
  /\ UNCHANGED <<repoVars, cachedMin, crashes>>

--------------------------------------------------------------------------------
(* Reading a representation and the ones it is a delta against             *)

\* What is found in file f where p looks for revision r: at the offset the
\* manifest gives if p takes r for packed, else at the beginning.
ContentAt(p, f, r) ==
  LET offsets == manifest[ShardOf(r)]
      i       == (r % N) + 1
  IN CASE /\ f[1] = "pack" /\ Packed(p, r)
          /\ i \in DOMAIN offsets
          /\ offsets[i] < Len(pack[f[2]]) -> pack[f[2]][offsets[i] + 1]
       [] f[1] = "rev" /\ ~Packed(p, r) -> f[2]
       [] OTHER -> Garbage

\* svn_fs_file_contents and the like begin with the text of revision r, or
\* with one that is still in a transaction.
ReadRep(p, r) ==
  /\ pc[p] = "idle"
  /\ r <= current
  /\ want' = [want EXCEPT ![p] = r]
  /\ Goto(p, "rep")
  /\ UNCHANGED <<repoVars, writeLock, cachedMin, shard, file, hintRev, got, valid, crashes>>

\* create_rep_state_body: the open file is that of the shard r is packed in.
HintUsable(p) ==
  /\ file[p] # NoHandle
  /\ hintRev[p] < cachedMin[p]
  /\ want[p] < cachedMin[p]
  /\ CShard(hintRev[p]) = CShard(want[p])

Found(p, f, content) ==
  /\ file' = [file EXCEPT ![p] = f]
  /\ hintRev' = [hintRev EXCEPT ![p] = want[p]]
  /\ got' = [got EXCEPT ![p] = content]
  /\ Goto(p, "got")

UseHint(p) ==
  /\ pc[p] = "rep"
  /\ HintUsable(p)
  /\ Found(p, file[p], ContentAt(p, file[p], want[p]))
  /\ UNCHANGED <<repoVars, writeLock, cachedMin, shard, want, valid, crashes>>

\* open_and_seek_transaction
OpenProto(p) ==
  /\ pc[p] = "rep"
  /\ want[p] = Txn
  /\ ~HintUsable(p)
  /\ Found(p, ProtoFile, Txn)
  /\ UNCHANGED <<repoVars, writeLock, cachedMin, shard, want, valid, crashes>>

\* open_and_seek_revision
OpenRevision(p) ==
  /\ pc[p] = "rep"
  /\ want[p] # Txn
  /\ ~HintUsable(p)
  /\ Goto(p, "open")
  /\ UNCHANGED <<repoVars, writeLock, cachedMin, shard, readVars, crashes>>

\* svn_fs_fs__path_rev_absolute names the file, and it is there ...
FileThere(p) == IF Packed(p, want[p]) THEN pack[ShardOf(want[p])] # NoFile ELSE want[p] \in revFiles

OpenFile(p) ==
  /\ pc[p] \in {"open", "reopen"}
  /\ FileThere(p)
  /\ file' = [file EXCEPT ![p] = IF Packed(p, want[p]) THEN PackFile(ShardOf(want[p]))
                                 ELSE RevFile(want[p])]
  /\ Goto(p, "seek")
  /\ UNCHANGED <<repoVars, writeLock, cachedMin, shard, want, hintRev, got, valid, crashes>>

\* Mutant: no second attempt is made.
OpenFails_NoRetry(p) ==
  /\ pc[p] \in {"open", "reopen"}
  /\ ~FileThere(p)
  /\ Found(p, NoHandle, Error)
  /\ UNCHANGED <<repoVars, writeLock, cachedMin, shard, want, valid, crashes>>

\* Mutant: the same path is tried again and again.
OpenFails_Spin(p) ==
  /\ pc[p] \in {"open", "reopen"}
  /\ ~FileThere(p)
  /\ Goto(p, "open")
  /\ UNCHANGED <<repoVars, writeLock, cachedMin, shard, readVars, crashes>>

\* ... or it is not, which is looked into once.
OpenFails(p) ==
  /\ pc[p] \in {"open", "reopen"}
  /\ ~FileThere(p)
  /\ IF pc[p] = "open"
     THEN Goto(p, "refresh") /\ UNCHANGED <<file, hintRev, got>>
     ELSE Found(p, NoHandle, Error)    \* SVN_ERR_FS_NO_SUCH_REVISION
  /\ UNCHANGED <<repoVars, writeLock, cachedMin, shard, want, valid, crashes>>

RefreshMin(p) ==
  /\ pc[p] = "refresh"
  /\ UpdateMinUnpacked(p)
  /\ Goto(p, "reopen")
  /\ UNCHANGED <<repoVars, writeLock, shard, readVars, crashes>>

\* get_packed_offset, if the revision is packed, and seek.
SeekRevision(p) ==
  /\ pc[p] = "seek"
  /\ Found(p, file[p], ContentAt(p, file[p], want[p]))
  /\ UNCHANGED <<repoVars, writeLock, cachedMin, shard, want, valid, crashes>>

\* build_rep_list: what was read is a delta against the text of revision b.
NextBase(p, b) ==
  /\ pc[p] = "got"
  /\ got[p] = want[p]
  /\ b <= current
  /\ want[p] = Txn \/ b < want[p]
  /\ want' = [want EXCEPT ![p] = b]
  /\ got' = [got EXCEPT ![p] = NoFile]
  /\ Goto(p, "rep")
  /\ UNCHANGED <<repoVars, writeLock, cachedMin, shard, file, hintRev, valid, crashes>>

\* The end of the chain, or of a property read.
ReadDone(p) ==
  /\ pc[p] \in {"got", "gotprops"}
  /\ Return(p)
  /\ UNCHANGED <<repoVars, writeLock, cachedMin, crashes>>

--------------------------------------------------------------------------------
(* get_revision_proplist, without the property cache                       *)

ReadProps(p, r) ==
  /\ pc[p] = "idle"
  /\ r <= current
  /\ want' = [want EXCEPT ![p] = r]
  /\ valid' = [valid EXCEPT ![p] = {latest[r]}]
  /\ Goto(p, "props")
  /\ UNCHANGED <<repoVars, writeLock, cachedMin, shard, file, hintRev, got, crashes>>

GotProps(p, v) ==
  /\ got' = [got EXCEPT ![p] = v]
  /\ Goto(p, "gotprops")

\* read_non_packed_revprop, unless the revision is taken for packed; if the
\* file is missing the pack is tried.
ReadNonPacked(p) ==
  /\ pc[p] = "props"
  /\ IF ~PackedProp(p, want[p]) /\ props[want[p]] # NoFile
     THEN GotProps(p, props[want[p]])
     ELSE Goto(p, "ppack") /\ UNCHANGED got
  /\ UNCHANGED <<repoVars, writeLock, cachedMin, shard, want, file, hintRev, valid, crashes>>

\* Mutant: read_pack_revprop trusts its copy of min-unpacked-rev.
DoubleCheckPacked_Trusting(p) ==
  /\ pc[p] = "ppack"
  /\ Goto(p, "pread")
  /\ UNCHANGED <<repoVars, writeLock, cachedMin, shard, readVars, crashes>>

\* read_pack_revprop: "someone insisted that REV is packed".
DoubleCheckPacked(p) ==
  /\ pc[p] = "ppack"
  /\ IF PackedProp(p, want[p]) THEN UNCHANGED cachedMin ELSE UpdateMinUnpacked(p)
  /\ Goto(p, "pread")
  /\ UNCHANGED <<repoVars, writeLock, shard, readVars, crashes>>

ReadPacked(p) ==
  /\ pc[p] = "pread"
  /\ GotProps(p, IF PackedProp(p, want[p]) /\ propPack[want[p]] # NoFile
                 THEN propPack[want[p]] ELSE Error)
  /\ UNCHANGED <<repoVars, writeLock, cachedMin, shard, want, file, hintRev, valid, crashes>>

--------------------------------------------------------------------------------
\* A process dies, and another one opens the filesystem in its place.
Crash(p) ==
  /\ pc[p] # "idle"
  /\ crashes < MaxCrash
  /\ crashes' = crashes + 1
  /\ writeLock' = IF writeLock = p THEN NoProc ELSE writeLock
  /\ UpdateMinUnpacked(p)
  /\ Return(p)
  /\ UNCHANGED repoVars

Step(p) ==
  \/ PackEnd(p) \/ PackShard(p) \/ PackRev(p) \/ PackPropShard(p) \/ PackProp(p)
  \/ PackPropsDone(p) \/ PackBump(p) \/ RemoveRev(p) \/ RemoveRevsDone(p) \/ RemoveProp(p)
  \/ RemovePropsDone(p)
  \/ UseHint(p) \/ OpenProto(p) \/ OpenRevision(p) \/ OpenFile(p) \/ OpenFails(p)
  \/ RefreshMin(p) \/ SeekRevision(p) \/ ReadDone(p)
  \/ ReadNonPacked(p) \/ DoubleCheckPacked(p) \/ ReadPacked(p)

Request(p) ==
  \/ OpenFs(p)
  \/ "commit" \in Requests /\ Commit(p)
  \/ PackBegin(p)
  \/ "cancel" \in Requests /\ PackCancel(p)
  \/ "set" \in Requests /\ \E r \in Revs : SetProps(p, r)
  \/ "rep" \in Requests /\ \E r \in Revs : ReadRep(p, r) \/ NextBase(p, r)
  \/ "txnrep" \in Requests /\ ReadRep(p, Txn)
  \/ "props" \in Requests /\ \E r \in Revs : ReadProps(p, r)

Next == \E p \in Procs : Step(p) \/ Request(p) \/ Crash(p)

Spec == Init /\ [][Next]_vars

\* A process that has been asked to do something keeps running.
FairSpec == Spec /\ \A p \in Procs : WF_vars(Step(p))

--------------------------------------------------------------------------------
(* Properties                                                              *)

\* A reader finds the text it wants, though it takes no lock, its copy of
\* min-unpacked-rev may be old, and the shard may be packed and removed
\* between any two of its steps (open_pack_or_rev_file's single retry, and
\* the reuse of an open pack file).
ReadsRight == \A p \in Procs : pc[p] = "got" => got[p] = want[p]

\* A reader of revision properties gets a property list that was the latest
\* at some moment of its read.
PropsFresh == \A p \in Procs : pc[p] = "gotprops" => got[p] \in valid[p]

\* Where min-unpacked-rev sends a process, revision r and its latest
\* property list are found.
Findable(r) ==
  /\ IF r < minUnpacked
     THEN LET s == ShardOf(r)
          IN /\ pack[s] # NoFile /\ Len(pack[s]) = N /\ Len(manifest[s]) = N
             /\ pack[s][manifest[s][(r % N) + 1] + 1] = r
     ELSE r \in revFiles
  /\ IF r < minUnpacked /\ r # 0 THEN propPack[r] = latest[r] ELSE props[r] = latest[r]

\* At any moment, also after pack_body was cut short anywhere, a process that
\* opens the filesystem can find every revision and its latest properties.
NothingLost == TypeOK /\ \A r \in 0..current : Findable(r)

\* A packed shard is never written again, so a process may cache its
\* manifest for good (packed_offset_cache).
PackedShardsFinal ==
  [][\A s \in Shards : (s + 1) * N <= minUnpacked =>
       pack'[s] = pack[s] /\ manifest'[s] = manifest[s]]_vars

\* pack_body comes to an end: it never meets a file that it expects and that
\* is not there, nor packs a shard over and over.
PackEnds == \A p \in Procs : pc[p] \in Packing ~> pc[p] = "idle"

\* A representation or property read that has begun ends: the retry of
\* open_pack_or_rev_file cannot go round for ever.
ReadsEnd == \A p \in Procs : pc[p] \in Reading \ {"got"} ~> pc[p] \in {"idle", "got"}

--------------------------------------------------------------------------------
(* The inductive invariant of FsfsPackProofs                               *)

\* Shards are packed one by one, and a process knows of some of them.
Aligned(m) == \E k \in 0..m : m = k * N

LockInv  == \A p \in Procs : pc[p] \in Packing => writeLock = p
BoundInv ==
  /\ Aligned(minUnpacked) /\ minUnpacked <= current + 1
  /\ \A p \in Procs : Aligned(cachedMin[p]) /\ cachedMin[p] <= minUnpacked

\* The first n revisions of shard s are in its pack file and its manifest.
Copied(s, n) ==
  /\ pack[s] \in Seq(Revs) /\ Len(pack[s]) = n
  /\ manifest[s] \in Seq(0..N) /\ Len(manifest[s]) = n
  /\ \A i \in 1..n : pack[s][i] = s * N + i - 1 /\ manifest[s][i] = i - 1

FileInv ==
  /\ revFiles \subseteq 0..current /\ minUnpacked..current \subseteq revFiles
  /\ \A s \in Shards : s * N + N <= minUnpacked => Copied(s, N)
PropInv ==
  /\ \A r \in 0..current : IF r < minUnpacked /\ r # 0 THEN propPack[r] = latest[r] ELSE props[r] = latest[r]
  /\ \A r \in Revs : r > current => latest[r] = 0

\* Where pack_body is.
PackOK(p) ==
  LET s == shard[p]
  IN /\ pc[p] \in {"pack", "copy", "pcopy", "bump"} => s * N = minUnpacked
     /\ pc[p] \in {"copy", "pcopy", "bump"} => s \in Shards /\ s * N + N <= current + 1
     /\ pc[p] = "copy" => \E n \in 0..N : Copied(s, n)
     /\ pc[p] \in {"pcopy", "bump"} => Copied(s, N)
     /\ pc[p] = "pcopy" => \A r \in RevsOf(s) \ {0} : propPack[r] \in {NoFile, latest[r]}
     /\ pc[p] = "bump" => \A r \in RevsOf(s) \ {0} : propPack[r] = latest[r]
     /\ pc[p] \in {"rmrev", "rmprop"} => s \in Shards /\ s * N + N = minUnpacked

\* The file in which p takes revision r to be.
Place(p, r) == IF Packed(p, r) THEN PackFile(ShardOf(r)) ELSE RevFile(r)

\* The open file is that of the revision it was opened for.
HintOK(p) ==
  \/ file[p] = NoHandle
  \/ hintRev[p] = Txn /\ file[p] = ProtoFile /\ "txnrep" \in Requests
  \/ hintRev[p] \in Revs /\ file[p] = Place(p, hintRev[p])

\* Where a reader of a representation is.
Opening == {"open", "refresh", "reopen", "seek"}
RepOK(p) ==
  /\ pc[p] \notin Opening \cup {"rep", "got"} => file[p] = NoHandle
  /\ pc[p] \in Opening => want[p] \in 0..current
  /\ pc[p] \in {"rep", "got"} => want[p] \in 0..current \/ (want[p] = Txn /\ "txnrep" \in Requests)
  /\ pc[p] = "rep" => HintOK(p) /\ (want[p] = Txn => file[p] = NoHandle)
  /\ pc[p] = "refresh" => want[p] < minUnpacked
  /\ pc[p] = "reopen" => want[p] < cachedMin[p]
  /\ pc[p] = "seek" => file[p] = Place(p, want[p])
  /\ pc[p] = "got" => \/ got[p] = want[p] /\ HintOK(p)
                      \/ got[p] = Garbage /\ "txnrep" \in Requests

\* Every run of pack_body came to its end.
Uncut == crashes = 0 /\ "cancel" \notin Requests

\* Where a reader of revision properties is.
PropOK(p) ==
  /\ pc[p] \in {"props", "ppack", "pread"} => want[p] \in 0..current /\ latest[want[p]] \in valid[p]
  /\ pc[p] = "ppack" => want[p] # 0 /\ want[p] < minUnpacked
  /\ pc[p] = "pread" => PackedProp(p, want[p])
  /\ pc[p] = "gotprops" => got[p] \in valid[p] \/ ~Uncut

\* Of the property files that are packed, only those being removed are left.
LeftInv ==
  Uncut => \A r \in Revs \ {0} : r < minUnpacked /\ props[r] # NoFile =>
    props[r] = latest[r] /\ \E p \in Procs : pc[p] \in {"rmrev", "rmprop"} /\ r \in RevsOf(shard[p])

IInv ==
  /\ TypeOK /\ LockInv /\ BoundInv /\ FileInv /\ PropInv /\ LeftInv
  /\ \A p \in Procs : PackOK(p) /\ RepOK(p) /\ PropOK(p)
================================================================================
