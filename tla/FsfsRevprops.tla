------------------------------ MODULE FsfsRevprops -----------------------------
(***************************************************************************)
(* Revision properties of a packed shard: the pack files and their         *)
(* manifest, the cache in front of them, and the generation number that    *)
(* tells what in the cache is out of date.                                 *)
(*                                                                         *)
(* A change holds the write lock.  It reads the property list through the  *)
(* cache, writes a new pack file, or several when the old one has become   *)
(* too large, makes the generation odd, moves the file (or the new         *)
(* manifest) into place and makes the generation even again.  Readers hold *)
(* no lock.  One that finds the generation odd for too long takes the      *)
(* writer for dead and moves the generation on.                            *)
(*                                                                         *)
(* A process has the revprop cache or not (has_revprop_cache): svnserve    *)
(* has it if told so (--cache-revprops), svnadmin always.  One without it  *)
(* never looks at the generation, and when it changes a list it does not   *)
(* move the generation either, so that nobody else hears of the change.    *)
(*                                                                         *)
(* The shard is the first one, whose revisions are 1 to N.  A property     *)
(* list is its version, numbered in the order lists are written, and its   *)
(* size.  The cache is the one of the threads of a server; it may forget.  *)
(***************************************************************************)
EXTENDS Integers, Sequences, FiniteSets

CONSTANTS
  Procs,     \* threads and processes that use the repository
  Cached,    \* those of them that have the revprop cache
  N,         \* revisions in the shard
  Reads,     \* the revisions whose lists are read
  Changes,   \* the changes asked for: <<revision, size of the new list>>
  PackSize,  \* revprop_pack_size
  MaxSet,    \* bound: property lists ever written
  MaxGen,    \* bound: from there on no change starts, and one read at a time
  MaxCrash,  \* bound: crashes
  MaxCalls,  \* bound: calls at the same time
  NoProc,    \* nobody
  NoFile,    \* no such file
  Error      \* what a failed read returns

ASSUME RevpropsAssumption ==
  /\ N \in Nat \ {0} /\ PackSize \in Nat
  /\ MaxSet \in Nat /\ MaxGen \in Nat /\ MaxCrash \in Nat /\ MaxCalls \in Nat
  /\ Reads \subseteq 1..N /\ Changes \subseteq (1..N) \X (Nat \ {0})
  /\ NoProc \notin Procs /\ Cached \subseteq Procs

Revs     == 1..N
Versions == 0..MaxSet
Names    == Revs \X (0..MaxSet)              \* <first revision>.<tag>
Sizes    == {c[2] : c \in Changes}
Lists    == [ver : Versions, size : {1} \cup Sizes]
Files    == [first : Revs, lists : Seq(Lists), bytes : Nat]

ASSUME RevpropsSentinels == NoFile \notin Files /\ Error \notin Lists

VARIABLES
  files,     \* files[n]: the pack file of that name, or NoFile
  manifest,  \* manifest[r]: the name of the pack file that should have r
  gen,       \* the revprop generation, shared by all
  late,      \* now > revprop_timeout
  cache,     \* the revprop cache: [rev, gen, list]
  writeLock, \* the process that holds db/write-lock, or NoProc
  pc,        \* what a process does next
  phase,     \* what it reads for: "read" a caller, "table" a change, "pack" the rewriting
  rev,       \* the revision it is about
  g,         \* the generation it works with
  name,      \* the pack file it is about to read
  got,       \* the property list it read, or Error
  plan,      \* the files a change writes, and what it does with them
  floor,     \* the version a reader must see: that of the last change completed before it began
  disturbed, \* a pack file was removed since the reader began
  latest,    \* latest[r]: version set by the last completed change of r
  sets,      \* number of lists written so far
  skewed,    \* a pack file was split that is not the first of the shard
  torn,      \* a split wrote over the file an earlier split had left
  halfDone,  \* a writer died after it moved its file and before the generation was even
  unannounced, \* a process without the cache moved a file, and the generation has not moved since
  misled,    \* the processes whose call read the generation while that was so
  crashes    \* number of crashes so far

diskVars  == <<files, manifest>>
readVars  == <<phase, rev, g, name, got, floor, disturbed>>
ghostVars == <<skewed, torn, halfDone, unannounced, misled, crashes>>
vars == <<diskVars, gen, late, cache, writeLock, pc, readVars, plan, latest, sets, ghostVars>>

-------------------------------------------------------------------------------
(* Pack files.                                                               *)

Overhead == 1     \* SVN_INT64_BUFFER_SIZE: an upper bound for a number in the header

TotalSize(ls) ==
  LET sum[k \in 0..Len(ls)] == IF k = 0 THEN 0 ELSE sum[k - 1] + ls[k].size
  IN  sum[Len(ls)]

\* What the code takes the size of a pack file with these lists to be.
Estimate(ls) == TotalSize(ls) + (Len(ls) + 2) * Overhead

\* The shard as pack_revprops_shard leaves it, in one file that does not outgrow the limit.
Packed == [r \in Revs |-> [ver |-> 0, size |-> 1]]

ASSUME ShardFits == N > 1 => Estimate(Packed) <= PackSize

NewFile(first, ls) == [first |-> first, lists |-> ls, bytes |-> Estimate(ls)]

\* A file that was opened without truncation over a longer one keeps its end.
Over(old, new) == IF old # NoFile /\ old.bytes > new.bytes THEN [new EXCEPT !.bytes = old.bytes] ELSE new

\* The stored length no longer matches: svn__decompress fails.
Corrupt(c) == c.bytes # Estimate(c.lists)

Has(c, r)   == r >= c.first /\ r < c.first + Len(c.lists)
ListOf(c, r) == c.lists[r - c.first + 1]

\* What a reader finds for r in the file of that name.
Found(r, n) ==
  IF files[n] = NoFile THEN Error
  ELSE IF Corrupt(files[n]) \/ ~Has(files[n], r) THEN Error ELSE ListOf(files[n], r)

\* What is on disk for r.
OnDisk(r) == Found(r, manifest[r])

\* Mutant: the sides grow by the number of lists.
SplitPoint_Even(ls) == [left |-> Len(ls) \div 2, leftSize |-> 0, rightSize |-> 0]

\* The two sides grow towards one another, the smaller one first.
Grow(ls, b) ==
  LET l == b.leftSize + ls[b.left + 1].size
      r == b.rightSize + ls[b.right + 1].size
  IN  IF l < r THEN [left |-> b.left + 1, right |-> b.right,
                     leftSize |-> l + Overhead, rightSize |-> b.rightSize]
               ELSE [left |-> b.left, right |-> b.right - 1,
                     leftSize |-> b.leftSize, rightSize |-> r + Overhead]

SplitPoint(ls) ==
  LET start == [left |-> 0, right |-> Len(ls) - 1, leftSize |-> 2 * Overhead, rightSize |-> 2 * Overhead]
      sides[k \in 0..Len(ls)] == IF k = 0 THEN start ELSE Grow(ls, sides[k - 1])
  IN  sides[Len(ls)]

\* Mutant: the changed list gets no file of its own.
Ranges_NoMiddle(ls, c) ==
  LET s     == SplitPoint(ls)
      three == s.leftSize > PackSize \/ s.rightSize > PackSize
  IN  {x \in (IF three THEN {<<0, c>>, <<c + 1, Len(ls)>>} ELSE {<<0, s.left>>, <<s.left, Len(ls)>>}) : x[1] < x[2]}

\* The ranges [start, end) of the new files, the list at index c having changed.
Ranges(ls, c) ==
  LET s     == SplitPoint(ls)
      three == s.leftSize > PackSize \/ s.rightSize > PackSize
      cuts  == IF three THEN {<<0, c>>, <<c, c + 1>>, <<c + 1, Len(ls)>>}
                        ELSE {<<0, s.left>>, <<s.left, Len(ls)>>}
  IN  {x \in cuts : x[1] < x[2]}

NoPlan == [how |-> "none"]

\* The manifest's entry at the start of a range is counted from the start of the
\* shard, although the range is counted from the start of the pack file.
OldName(x) == manifest[x[1] + 1]

\* write_packed_revprop: the list l goes where r is in the file c of that name.
MakePlan(c, n, r, l) ==
  LET ix == r - c.first
      ls == [c.lists EXCEPT ![ix + 1] = l]
      xs == Ranges(ls, ix)
      new(x) == <<c.first + x[1], OldName(x)[2] + 1>>
      In(q, x) == q - 1 >= x[1] /\ q - 1 < x[2]
  IN  IF Estimate(ls) < PackSize \/ Len(ls) = 1
        THEN [how |-> "place", name |-> n, file |-> NewFile(c.first, ls)]
        ELSE [how |-> "split", first |-> c.first,
              parts |-> {[name |-> new(x), file |-> NewFile(c.first + x[1], SubSeq(ls, x[1] + 1, x[2]))] : x \in xs},
              manifest |-> [q \in Revs |-> IF \E x \in xs : In(q, x)
                                             THEN new(CHOOSE x \in xs : In(q, x)) ELSE manifest[q]],
              old |-> {OldName(x) : x \in xs}]

-------------------------------------------------------------------------------
Steps == {"idle", "gen", "late", "bump", "lookup", "manifest", "file", "got", "write", "begin",
          "odd", "move", "even", "clean", "done", "fail"}

Entries == [rev : Revs, gen : Nat, list : Lists]

\* Plans: nothing yet, a file that takes the place of one, or a split.
Places == [how : {"place"}, name : Names, file : Files]
Parts  == [name : Names, file : Files]
Splits == [how : {"split"}, first : Revs, parts : SUBSET Parts, manifest : [Revs -> Names], old : SUBSET Names]
Plans  == {NoPlan} \cup [how : {"none"}, size : Sizes] \cup Places \cup Splits

\* The types: every property file, manifest entry, cache entry and plan of a writer
\* (write_packed_revprop) is well formed.
TypeOK ==
  /\ files \in [Names -> Files \cup {NoFile}]
  /\ manifest \in [Revs -> Names]
  /\ gen \in Nat /\ late \in BOOLEAN
  /\ cache \subseteq Entries
  /\ writeLock \in Procs \cup {NoProc}
  /\ pc \in [Procs -> Steps]
  /\ phase \in [Procs -> {"read", "table", "pack"}]
  /\ rev \in [Procs -> Revs]
  /\ g \in [Procs -> Nat]
  /\ name \in [Procs -> Names]
  /\ got \in [Procs -> Lists \cup {Error}]
  /\ plan \in [Procs -> Plans]
  /\ floor \in [Procs -> Versions] /\ disturbed \in [Procs -> BOOLEAN]
  /\ latest \in [Revs -> Versions] /\ sets \in 0..MaxSet
  /\ skewed \in BOOLEAN /\ torn \in BOOLEAN /\ halfDone \in BOOLEAN
  /\ unannounced \in BOOLEAN /\ misled \subseteq Procs
  /\ crashes \in 0..MaxCrash

Init ==
  /\ files = [n \in Names |-> IF n = <<1, 0>> THEN NewFile(1, Packed) ELSE NoFile]
  /\ manifest = [r \in Revs |-> <<1, 0>>]
  /\ gen = 2 /\ late = TRUE
  /\ cache = {}
  /\ writeLock = NoProc
  /\ pc = [p \in Procs |-> "idle"]
  /\ phase = [p \in Procs |-> "read"]
  /\ rev = [p \in Procs |-> 1]
  /\ g = [p \in Procs |-> 0]
  /\ name = [p \in Procs |-> <<1, 0>>]
  /\ got = [p \in Procs |-> Error]
  /\ plan = [p \in Procs |-> NoPlan]
  /\ floor = [p \in Procs |-> 0] /\ disturbed = [p \in Procs |-> FALSE]
  /\ latest = [r \in Revs |-> 0] /\ sets = 0
  /\ skewed = FALSE /\ torn = FALSE /\ halfDone = FALSE /\ crashes = 0
  /\ unannounced = FALSE /\ misled = {}

Goto(p, s) == pc' = [pc EXCEPT ![p] = s]

Odd(n) == n % 2 = 1

\* Bound: not everybody is at work.
RoomForCall == Cardinality({q \in Procs : pc[q] # "idle"}) < MaxCalls

-------------------------------------------------------------------------------
(* Reading.                                                                  *)

\* Only who has the cache reads the generation, which is the key to it.
FirstStep(p) == IF p \in Cached THEN "gen" ELSE "manifest"

\* svn_fs_fs__revision_proplist
ReadBegin(p, r) ==
  /\ pc[p] = "idle" /\ RoomForCall
  /\ gen < MaxGen \/ \A q \in Procs : pc[q] = "idle"
  /\ Goto(p, FirstStep(p))
  /\ phase' = [phase EXCEPT ![p] = "read"]
  /\ rev' = [rev EXCEPT ![p] = r]
  /\ floor' = [floor EXCEPT ![p] = latest[r]]
  /\ UNCHANGED <<diskVars, gen, late, cache, writeLock, g, name, got, plan, disturbed, latest, sets, ghostVars>>

\* What comes after the generation is known: a lookup, or the pack file itself.
AfterGen(p) == IF phase[p] = "pack" THEN "manifest" ELSE "lookup"

\* read_revprop_generation
ReadGeneration(p) ==
  /\ pc[p] = "gen"
  /\ g' = [g EXCEPT ![p] = gen]
  /\ misled' = IF unannounced THEN misled \cup {p} ELSE misled
  /\ Goto(p, IF Odd(gen) THEN "late" ELSE AfterGen(p))
  /\ UNCHANGED <<diskVars, gen, late, cache, writeLock, phase, rev, name, got, floor, disturbed, plan,
                 latest, sets, skewed, torn, halfDone, unannounced, crashes>>

CheckTimeout(p) ==
  /\ pc[p] = "late"
  /\ Goto(p, IF late THEN "bump" ELSE AfterGen(p))
  /\ UNCHANGED <<diskVars, gen, late, cache, writeLock, readVars, plan, latest, sets, ghostVars>>

\* Bound: two loops that add to the generation, one until it is odd and one until it
\* is even, may take turns for ever; from MaxGen on one that is done goes first.
Add(p, exits) ==
  /\ gen < MaxGen \/ exits \/ \A q \in Procs \ {p} : pc[q] \notin {"bump", "odd", "even"}
  /\ gen' = gen + 1
  /\ unannounced' = FALSE

\* The writer is taken for dead: on to the next even generation.
BumpGeneration(p) ==
  /\ pc[p] = "bump"
  /\ Add(p, ~Odd(gen + 1))
  /\ g' = [g EXCEPT ![p] = gen + 1]
  /\ IF Odd(gen + 1) THEN pc' = pc ELSE Goto(p, AfterGen(p))
  /\ UNCHANGED <<diskVars, late, cache, writeLock, phase, rev, name, got, floor, disturbed, plan,
                 latest, sets, skewed, torn, halfDone, misled, crashes>>

CacheHit(p) ==
  \E e \in cache :
    /\ pc[p] = "lookup"
    /\ e.rev = rev[p] /\ e.gen = g[p]
    /\ got' = [got EXCEPT ![p] = e.list]
    /\ Goto(p, IF phase[p] = "read" THEN "done" ELSE "got")
    /\ UNCHANGED <<diskVars, gen, late, cache, writeLock, phase, rev, g, name, floor, disturbed, plan,
                   latest, sets, ghostVars>>

\* The list is not in the cache, or no longer.
CacheMiss(p) ==
  /\ pc[p] = "lookup"
  /\ Goto(p, "manifest")
  /\ UNCHANGED <<diskVars, gen, late, cache, writeLock, readVars, plan, latest, sets, ghostVars>>

\* get_revprop_packname
ReadManifest(p) ==
  /\ pc[p] = "manifest"
  /\ name' = [name EXCEPT ![p] = manifest[rev[p]]]
  /\ Goto(p, "file")
  /\ UNCHANGED <<diskVars, gen, late, cache, writeLock, phase, rev, g, got, floor, disturbed, plan,
                 latest, sets, ghostVars>>

\* parse_packed_revprops puts every list of the file into the cache, if there is one,
\* under the generation that was read before the file.  What is under a generation nobody can
\* ask for any more is forgotten.
CacheLists(p) ==
  LET c == files[name[p]]
      new == {[rev |-> r, gen |-> g[p], list |-> ListOf(c, r)] : r \in {q \in Revs : Has(c, q)}}
      asked(e) == e.gen >= gen \/ \E q \in Procs : pc[q] \in {"late", "lookup"} /\ g[q] = e.gen
  IN  IF p \notin Cached THEN cache ELSE
        {e \in cache \cup new : asked(e) /\ (e \in new \/ \A n \in new : e.rev # n.rev \/ e.gen # n.gen)}

\* read_pack_revprop.  The argument last_attempt is true at the first attempt, so
\* a file that is gone is an error at once.
ReadFile(p) ==
  LET l == Found(rev[p], name[p])
  IN  /\ pc[p] = "file" /\ phase[p] # "pack"
      /\ got' = [got EXCEPT ![p] = l]
      /\ cache' = IF files[name[p]] = NoFile THEN cache
                  ELSE IF Corrupt(files[name[p]]) THEN cache ELSE CacheLists(p)
      /\ Goto(p, IF phase[p] = "read" THEN "done" ELSE IF l = Error THEN "fail" ELSE "got")
      /\ UNCHANGED <<diskVars, gen, late, writeLock, phase, rev, g, name, floor, disturbed, plan,
                     latest, sets, ghostVars>>

-------------------------------------------------------------------------------
(* Changing.                                                                 *)

\* Mutant: no write lock.
ChangeBegin_NoLock(p, r, s) ==
  /\ pc[p] = "idle" /\ RoomForCall /\ gen < MaxGen /\ sets < MaxSet
  /\ Goto(p, FirstStep(p))
  /\ phase' = [phase EXCEPT ![p] = "table"]
  /\ rev' = [rev EXCEPT ![p] = r]
  /\ plan' = [plan EXCEPT ![p] = [how |-> "none", size |-> s]]
  /\ UNCHANGED <<diskVars, gen, late, cache, writeLock, g, name, got, floor, disturbed, latest, sets, ghostVars>>

\* svn_fs_fs__change_rev_prop, with the write lock: first read the list.
ChangeBegin(p, r, s) ==
  /\ pc[p] = "idle" /\ RoomForCall /\ gen < MaxGen /\ sets < MaxSet
  /\ writeLock = NoProc
  /\ writeLock' = p
  /\ Goto(p, FirstStep(p))
  /\ phase' = [phase EXCEPT ![p] = "table"]
  /\ rev' = [rev EXCEPT ![p] = r]
  /\ plan' = [plan EXCEPT ![p] = [how |-> "none", size |-> s]]
  /\ UNCHANGED <<diskVars, gen, late, cache, g, name, got, floor, disturbed, latest, sets, ghostVars>>

\* change_rev_prop_body: the caller's old value is not the present one, or it is.
ChangeRefused(p) ==
  /\ pc[p] = "got"
  /\ Goto(p, "fail")
  /\ UNCHANGED <<diskVars, gen, late, cache, writeLock, readVars, plan, latest, sets, ghostVars>>

ChangeGoesOn(p) ==
  /\ pc[p] = "got"
  /\ phase' = [phase EXCEPT ![p] = "pack"]
  /\ Goto(p, FirstStep(p))
  /\ UNCHANGED <<diskVars, gen, late, cache, writeLock, rev, g, name, got, floor, disturbed, plan,
                 latest, sets, ghostVars>>

\* Mutant: the generation is never moved.
Bumps_Never(p) == FALSE

\* set_revision_proplist: bump_generation, of a revision whose list is packed.
Bumps(p) == p \in Cached

\* What comes after the new lists are written: switch_to_new_revprop.
SwitchStep(p) == IF Bumps(p) THEN "begin" ELSE "move"

\* write_packed_revprop: read the pack file, put the old lists into the cache, and
\* settle what to write.  A list that is not in its file is looked for at a
\* negative index: the process is lost.
PlanChange(p) ==
  LET c == files[name[p]]
  IN  /\ pc[p] = "file" /\ phase[p] = "pack"
      /\ IF Found(rev[p], name[p]) = Error
           THEN Goto(p, "fail") /\ UNCHANGED <<cache, plan, sets>>
           ELSE LET a == MakePlan(c, name[p], rev[p], [ver |-> sets + 1, size |-> plan[p].size])
                IN  /\ plan' = [plan EXCEPT ![p] = a]
                    /\ sets' = sets + 1
                    /\ cache' = CacheLists(p)
                    /\ Goto(p, IF a.how = "split" THEN "write" ELSE SwitchStep(p))
      /\ UNCHANGED <<diskVars, gen, late, writeLock, readVars, latest, ghostVars>>

\* One file of a split, from left to right, under its final name: repack_stream_open,
\* repack_revprops.
WritePart(p) ==
  /\ pc[p] = "write"
  /\ \E part \in plan[p].parts :
       /\ \A o \in plan[p].parts : part.name[1] <= o.name[1]
       /\ files' = [files EXCEPT ![part.name] = Over(@, part.file)]
       /\ torn' = (torn \/ files'[part.name] # part.file)
       /\ plan' = [plan EXCEPT ![p].parts = @ \ {part}]
       /\ IF plan[p].parts = {part} THEN Goto(p, SwitchStep(p)) ELSE pc' = pc
  /\ UNCHANGED <<manifest, gen, late, cache, writeLock, readVars, latest, sets, skewed, halfDone, unannounced,
                 misled, crashes>>

\* begin_revprop_change: a new timeout, then the next odd generation.
BeginChange(p) ==
  /\ pc[p] = "begin"
  /\ late' = FALSE
  /\ Goto(p, "odd")
  /\ UNCHANGED <<diskVars, gen, cache, writeLock, readVars, plan, latest, sets, ghostVars>>

MakeOdd(p) ==
  /\ pc[p] = "odd"
  /\ Add(p, Odd(gen + 1))
  /\ IF Odd(gen + 1) THEN Goto(p, "move") ELSE pc' = pc
  /\ UNCHANGED <<diskVars, late, cache, writeLock, readVars, plan, latest, sets, skewed, torn, halfDone, misled, crashes>>

\* When all is in place: the files that were split are left to remove, or nothing is.
LastStep(p) == IF plan[p].how = "split" THEN "clean" ELSE "done"

\* switch_to_new_revprop: the new file, or the new manifest, takes its place.
MoveIntoPlace(p) ==
  /\ pc[p] = "move"
  /\ \/ /\ plan[p].how = "place"
        /\ files' = [files EXCEPT ![plan[p].name] = plan[p].file]
        /\ UNCHANGED <<manifest, skewed>>
     \/ /\ plan[p].how = "split"
        /\ manifest' = plan[p].manifest
        /\ skewed' = (skewed \/ plan[p].first # 1)
        /\ UNCHANGED files
  /\ Goto(p, IF Bumps(p) THEN "even" ELSE LastStep(p))
  /\ unannounced' = (unannounced \/ p \notin Cached)
  /\ UNCHANGED <<gen, late, cache, writeLock, readVars, plan, latest, sets, torn, halfDone, misled, crashes>>

\* Mutant: the generation stays odd.
EndChange_None(p) ==
  /\ pc[p] = "even"
  /\ Goto(p, LastStep(p))
  /\ UNCHANGED <<diskVars, gen, late, cache, writeLock, readVars, plan, latest, sets, ghostVars>>

\* end_revprop_change: the next even generation.
EndChange(p) ==
  /\ pc[p] = "even"
  /\ Add(p, ~Odd(gen + 1))
  /\ IF Odd(gen + 1) THEN pc' = pc ELSE Goto(p, LastStep(p))
  /\ UNCHANGED <<diskVars, late, cache, writeLock, readVars, plan, latest, sets, skewed, torn, halfDone, misled, crashes>>

\* Remove the files that were split.
RemoveOld(p) ==
  /\ pc[p] = "clean"
  /\ IF plan[p].old = {}
       THEN Goto(p, "done") /\ UNCHANGED <<files, plan, disturbed>>
       ELSE \E n \in plan[p].old :
              /\ files' = [files EXCEPT ![n] = NoFile]
              /\ plan' = [plan EXCEPT ![p].old = @ \ {n}]
              /\ disturbed' = [q \in Procs |-> disturbed[q] \/ pc[q] \in {"manifest", "file"}]
              /\ pc' = pc
  /\ UNCHANGED <<manifest, gen, late, cache, writeLock, phase, rev, g, name, got, floor, latest, sets, ghostVars>>

\* What a process knows is gone when its call ends or it dies.
Forget(p) ==
  /\ Goto(p, "idle")
  /\ writeLock' = IF writeLock = p THEN NoProc ELSE writeLock
  /\ phase' = [phase EXCEPT ![p] = "read"]
  /\ rev' = [rev EXCEPT ![p] = 1]
  /\ g' = [g EXCEPT ![p] = 0]
  /\ name' = [name EXCEPT ![p] = <<1, 0>>]
  /\ got' = [got EXCEPT ![p] = Error]
  /\ plan' = [plan EXCEPT ![p] = NoPlan]
  /\ floor' = [floor EXCEPT ![p] = 0]
  /\ disturbed' = [disturbed EXCEPT ![p] = FALSE]
  /\ misled' = misled \ {p}

Return(p) ==
  /\ pc[p] \in {"done", "fail"}
  /\ Forget(p)
  /\ latest' = IF pc[p] = "done" /\ phase[p] = "pack" THEN [latest EXCEPT ![rev[p]] = sets] ELSE latest
  /\ UNCHANGED <<diskVars, gen, late, cache, sets, skewed, torn, halfDone, unannounced, crashes>>

-------------------------------------------------------------------------------
(* Time, and death.                                                          *)

Timeout ==
  /\ ~late
  /\ late' = TRUE
  /\ UNCHANGED <<diskVars, gen, cache, writeLock, pc, readVars, plan, latest, sets, ghostVars>>

Crash(p) ==
  /\ pc[p] # "idle" /\ crashes < MaxCrash
  /\ crashes' = crashes + 1
  /\ halfDone' = (halfDone \/ pc[p] = "even")
  /\ Forget(p)
  /\ UNCHANGED <<diskVars, gen, late, cache, latest, sets, skewed, torn, unannounced>>

Next ==
  \/ \E p \in Procs :
       \/ \E r \in Reads : ReadBegin(p, r)
       \/ \E c \in Changes : ChangeBegin(p, c[1], c[2])
       \/ ReadGeneration(p) \/ CheckTimeout(p) \/ BumpGeneration(p) \/ CacheHit(p) \/ CacheMiss(p)
       \/ ReadManifest(p) \/ ReadFile(p)
       \/ ChangeRefused(p) \/ ChangeGoesOn(p) \/ PlanChange(p) \/ WritePart(p) \/ BeginChange(p)
       \/ MakeOdd(p) \/ MoveIntoPlace(p) \/ EndChange(p) \/ RemoveOld(p) \/ Return(p) \/ Crash(p)
  \/ Timeout

Spec == Init /\ [][Next]_vars

-------------------------------------------------------------------------------
(* Properties.                                                               *)

\* A read (get_revision_proplist) that begins after a change has returned gives
\* that list or a later one, whatever the cache holds and whoever moves the
\* generation, as long as the manifest is right (ListsKept).  A process without the
\* cache always gets it; one with the cache does, unless the last change before it
\* read the generation was made by a process without the cache
\* (set_revision_proplist), in which case it may get the old one.  A read fails only if
\* a split removed a pack file between its look at the manifest and the file: it should
\* try again then, but read_pack_revprop takes the first attempt for the last.
FreshReads ==
  \A p \in Procs : pc[p] = "done" /\ phase[p] = "read" /\ ~skewed /\ p \notin misled =>
    IF got[p] = Error THEN disturbed[p] \/ torn ELSE got[p].ver >= floor[p]

\* When nobody changes anything and the generation is even, what the cache has
\* under this generation is what is on disk; unless a writer died between
\* move_into_place and end_revprop_change (switch_to_new_revprop), or a process
\* without the cache has made a change and the generation has not moved since.
CacheCurrent ==
  writeLock = NoProc /\ ~Odd(gen) /\ ~halfDone /\ ~unannounced /\ ~skewed /\ ~torn =>
    \A e \in cache : e.gen = gen => e.list = OnDisk(e.rev)

\* A change is made to the list that is on disk: change_rev_prop_body, which
\* reads it through the cache and writes all of it back, undoes no other change.
\* A process without the cache never does; one with it does not unless a writer died
\* half-way, or it read the generation after a change that did not move it.
Informed(p) == p \in Cached => ~halfDone /\ p \notin misled

NoLostChange ==
  [][\A p \in Procs : pc[p] = "move" /\ pc'[p] \in {"even", "clean", "done"} /\ Informed(p) /\ ~skewed /\ ~torn =>
       got[p] = OnDisk(rev[p])]_vars

\* The list last set on a revision is found through the manifest, as long as
\* only the shard's first pack file was split (write_packed_revprop) and no
\* split wrote over what an earlier one left behind.
ListsKept ==
  /\ TypeOK
  /\ ~skewed /\ ~torn => \A r \in Revs : OnDisk(r) # Error /\ OnDisk(r).ver >= latest[r]

Fits(ls) == Len(ls) > 1 => Estimate(ls) <= PackSize

\* A pack file with more than one list never outgrows revprop_pack_size: the
\* split of write_packed_revprop always makes room.
PackSizeKept == \A n \in Names : files[n] = NoFile \/ Fits(files[n].lists)

\* The lists of all revisions can be read through the manifest.
ListsReadable == \A r \in Revs : OnDisk(r) # Error

-------------------------------------------------------------------------------
(* The inductive invariant.                                                  *)

Writing == {"write", "begin", "odd", "move"}     \* stages of a change with a plan not yet carried out

\* The steps of read_revprop_generation, of the lookup, and of begin_ and end_revprop_change.
WithCache == {"gen", "late", "bump", "lookup", "begin", "odd", "even"}

\* Who changes something has the write lock; who has no cache leaves the generation alone.
LockInv ==
  \A p \in Procs :
    /\ pc[p] \in WithCache => p \in Cached
    /\ phase[p] # "read" <=> writeLock = p
    /\ pc[p] = "idle" => phase[p] = "read"
    /\ pc[p] = "got" => phase[p] = "table"
    /\ pc[p] \in Writing \cup {"even", "clean"} => phase[p] = "pack"
    /\ phase[p] = "pack" => pc[p] # "lookup"
    /\ phase[p] = "table" => pc[p] # "done"
    /\ phase[p] # "read" /\ pc[p] \notin Writing \cup {"even", "clean", "done", "fail"} =>
         sets < MaxSet /\ plan[p].size \in Sizes

\* Nobody has a generation that is still to come.
GenInv == (\A p \in Procs : g[p] <= gen) /\ \A e \in cache : e.gen <= gen

\* The lists of a file are those of revisions of the shard.
InShard(c) == Len(c.lists) >= 1 /\ c.first + Len(c.lists) - 1 <= N

\* Tags are used up no faster than lists are written.
FilesInv ==
  /\ \A n \in Names : files[n] # NoFile => InShard(files[n])
  /\ \A r \in Revs : manifest[r][2] <= sets /\ latest[r] <= sets

\* A list of version v is not older than what readers of r are promised: the last
\* completed change, and the one that need only return.
AtLeast(v, r) ==
  /\ v >= latest[r]
  /\ \A p \in Procs : phase[p] = "pack" /\ pc[p] \in {"clean", "done"} /\ rev[p] = r => v >= sets

\* The list of r in the file that the manifest names.
Current(r) == ListOf(files[manifest[r]], r)

\* Every revision is in the file that the manifest names, and in no other that it
\* names; the first of them has the highest tag.
DiskOK(r) ==
  LET n == manifest[r]
      c == files[n]
  IN  /\ c # NoFile /\ n[1] = c.first /\ Has(c, r) /\ n[2] <= manifest[1][2]
      /\ Corrupt(c) => torn
      /\ \A q \in Revs : Has(c, q) => manifest[q] = n
      /\ AtLeast(ListOf(c, r).ver, r)

\* A name that no split will ever write to.
Settled(n) == n[2] <= manifest[1][2] /\ (n[1] = 1 \/ manifest[n[1]] = n)

\* A process that is about to read a file: the file has the revision, and is not older
\* than when the manifest was read; it may have been removed.
ReadOK(p) ==
  LET c == files[name[p]]
  IN  pc[p] = "file" =>
        /\ Settled(name[p])
        /\ c = NoFile => disturbed[p]
        /\ c # NoFile =>
             /\ Corrupt(c) => torn
             /\ Has(c, rev[p])
             /\ phase[p] = "read" => ListOf(c, rev[p]).ver >= floor[p]
             /\ g[p] = gen /\ ~unannounced => \A r \in Revs : Has(c, r) => AtLeast(ListOf(c, r).ver, r)

Looking == {"late", "lookup"}     \* a process there has a generation and may ask the cache

\* A reader is promised no more than has been completed, neither by what is in the cache
\* under its generation nor by what others are about to put there.
PromiseOK(p) ==
  phase[p] = "read" /\ pc[p] \in {"gen", "bump", "manifest", "file"} \cup Looking =>
    /\ floor[p] <= latest[rev[p]]
    /\ pc[p] \in Looking /\ p \notin misled =>
         /\ \A e \in cache : e.gen = g[p] /\ e.rev = rev[p] => e.list.ver >= floor[p]
         /\ \A q \in Procs : pc[q] = "file" /\ g[q] = g[p] =>
              LET c == files[name[q]]
              IN  c # NoFile /\ Has(c, rev[p]) => ListOf(c, rev[p]).ver >= floor[p]

\* What is under the present generation is not older than promised.
CacheInv == ~unannounced => \A e \in cache : e.gen = gen => AtLeast(e.list.ver, e.rev)

\* A list l is the one of r in c, or the one that p is setting.
NewList(p, l, c, r) == IF r = rev[p] THEN l.ver = sets ELSE l = ListOf(c, r)

\* The file that takes the place of the old one has the same lists but one.
PlaceOK(p) ==
  LET a == plan[p]
      c == files[a.name]
  IN  /\ a.name = manifest[rev[p]]
      /\ a.file.first = c.first /\ Len(a.file.lists) = Len(c.lists) /\ ~Corrupt(a.file)
      /\ \A r \in Revs : Has(c, r) => NewList(p, ListOf(a.file, r), c, r)

\* A file of a split that has r, as the new manifest says.
PartOK(p, f, r) ==
  LET a == plan[p]
  IN  /\ f.first = a.manifest[r][1] /\ Has(f, r) /\ (Corrupt(f) => torn)
      /\ \A q \in Revs : Has(f, q) => a.manifest[q] = a.manifest[r]
      /\ NewList(p, ListOf(f, r), files[manifest[r]], r)

\* The new manifest: revisions of the old file are in new ones, written or to be written.
SplitOK(p) ==
  LET a == plan[p]
  IN  \A r \in Revs :
        IF manifest[r] # manifest[rev[p]] THEN a.manifest[r] = manifest[r]
        ELSE /\ a.manifest[r][2] = manifest[1][2] + 1
             /\ \A x \in a.parts : x.name = a.manifest[r] => PartOK(p, x.file, r)
             /\ \/ \E x \in a.parts : x.name = a.manifest[r]
                \/ files[a.manifest[r]] # NoFile /\ PartOK(p, files[a.manifest[r]], r)

\* What holds of a plan in any case.
PlanType(p) ==
  LET a == plan[p]
  IN  pc[p] \in Writing \cup {"even", "clean"} =>
        /\ a.how \in {"place", "split"}
        /\ a.how = "place" => InShard(a.file) /\ pc[p] \notin {"write", "clean"}
        /\ a.how = "split" =>
             /\ \A r \in Revs : a.manifest[r][2] <= sets
             /\ \A x \in a.parts : InShard(x.file) /\ ~Corrupt(x.file)

\* What a change is going to do, and has done.
PlanOK(p) ==
  LET a == plan[p]
  IN  /\ pc[p] \in Writing =>
           /\ a.how = "place" => PlaceOK(p)
           /\ a.how = "split" =>
                /\ \A x \in a.parts : ~Settled(x.name)
                /\ pc[p] # "write" => a.parts = {}
                /\ a.first = 1 => SplitOK(p) /\ manifest[rev[p]] = manifest[1] /\ a.old = {manifest[1]}
      /\ pc[p] = "even" => Current(rev[p]).ver >= sets
      /\ pc[p] \in {"even", "clean"} /\ a.how = "split" => \A n \in a.old, r \in Revs : manifest[r] # n

\* Before anything is moved and after the generation is even again, the present
\* generation stands for what is on disk.
SameInv ==
  (\A p \in Procs : pc[p] # "even") /\ ~halfDone /\ ~unannounced =>
    /\ \A e \in cache : e.gen = gen => e.list = Current(e.rev)
    /\ \A q \in Procs : pc[q] = "file" /\ g[q] = gen => name[q] = manifest[rev[q]]

\* So does, for one who changes a list, the generation it has read; and the list it has
\* got is the one on disk.
ChangeOK(p) ==
  /\ phase[p] = "table" /\ pc[p] \in Looking =>
       /\ \A e \in cache : e.gen = g[p] => e.list = Current(e.rev)
       /\ \A q \in Procs : pc[q] = "file" /\ g[q] = g[p] => name[q] = manifest[rev[q]]
  /\ phase[p] = "table" /\ pc[p] = "got" => got[p] = Current(rev[p])
  /\ phase[p] = "pack" /\ pc[p] \in {"gen", "late", "bump", "manifest", "file"} \cup Writing =>
       got[p] = Current(rev[p])

IInv ==
  /\ TypeOK /\ LockInv /\ GenInv /\ FilesInv
  /\ \A p \in Procs : PlanType(p) /\ (phase[p] # "read" /\ pc[p] = "file" => name[p] = manifest[rev[p]])
  /\ ~skewed =>
       /\ CacheInv /\ FreshReads
       /\ \A r \in Revs : DiskOK(r)
       /\ \A p \in Procs : ReadOK(p) /\ PromiseOK(p) /\ PlanOK(p)
       /\ SameInv /\ \A p \in Procs : Informed(p) => ChangeOK(p)

\* For PackSizeKept: what a change is going to write fits, too.
PlanFits(a) ==
  /\ a.how = "place" => Fits(a.file.lists)
  /\ a.how = "split" => \A x \in a.parts : Fits(x.file.lists)

SizeInv == PackSizeKept /\ \A p \in Procs : PlanFits(plan[p])
================================================================================
