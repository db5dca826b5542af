------------------------------- MODULE FsfsLocks -------------------------------
(***************************************************************************)
(* Path locks of FSFS and the commits they are meant to stop.              *)
(*                                                                         *)
(* The lock on a file is kept in the digest file of its path, and every    *)
(* directory above it has a digest file that lists the path, so that a     *)
(* recursive check of a directory finds the locks below it.  The files are *)
(* written one at a time under the repository's write lock; the processes  *)
(* that only look at locks take no lock at all.  A server may die between  *)
(* any two files.                                                          *)
(*                                                                         *)
(* A path is the sequence of its names, so that the directory k levels     *)
(* below the root on the way to a path is its prefix of length k.  A       *)
(* digest file without a lock and without entries does not exist.          *)
(***************************************************************************)
EXTENDS Integers, Sequences, FiniteSets

CONSTANTS
  Procs,      \* server processes
  Users,      \* names in access contexts
  NoUser,     \* no name
  Paths,      \* the paths of the repository, the root << >> among them
  Files,      \* those that are files
  ChangeSets, \* the changes a commit may ask for: sets of <<path, kind>>
  Asked,      \* what is asked of the processes, a set of requests
  MaxLock,    \* bound: locks ever written
  MaxRev,     \* bound: revisions ever committed
  MaxCrash,   \* bound: crashes
  NoProc      \* nobody

Prefix(p, k)    == SubSeq(p, 1, k)
AtOrBelow(d, p) == Len(d) <= Len(p) /\ Prefix(p, Len(d)) = d

ASSUME LocksAssumption ==
  /\ MaxLock \in Nat /\ MaxRev \in Nat /\ MaxCrash \in Nat
  /\ NoProc \notin Procs /\ NoUser \notin Users
  /\ Paths \subseteq Seq(STRING) /\ << >> \in Paths
  /\ \A p \in Paths : \A k \in 0..Len(p) : Prefix(p, k) \in Paths
  /\ Files \subseteq Paths \ {<< >>}
  /\ \A f \in Files, p \in Paths : AtOrBelow(f, p) => p = f
  /\ ChangeSets \subseteq SUBSET (Paths \X {"modify", "add", "delete", "replace"})

NoLock == 0
NoRev  == -1              \* SVN_INVALID_REVNUM
Ids    == 1..MaxLock      \* lock tokens, in the order the locks were written
Depths == {"empty", "files", "infinity"}

\* The request of a process that has none.
Nothing == [op |-> "none"]

LockRequests   == [op : {"lock"}, path : Paths, user : Users \cup {NoUser}, steal : BOOLEAN,
                   expires : BOOLEAN, rev : NoRev..MaxRev]
UnlockRequests == [op : {"unlock"}, path : Files, user : Users \cup {NoUser}, break : BOOLEAN,
                   token : Ids]
CommitRequests == [op : {"commit"}, user : Users \cup {NoUser}, tokens : SUBSET Ids,
                   changes : ChangeSets]
ReadRequests   == [op : {"get_lock"}, path : Files]
                  \cup [op : {"get_locks"}, path : Paths, depth : Depths]
AllRequests == LockRequests \cup UnlockRequests \cup CommitRequests \cup ReadRequests

ASSUME AskedAssumption == Asked \subseteq AllRequests

VARIABLES
  disk,      \* the digest file of a path: the lock in it, and the paths it lists
  locks,     \* every lock written so far: its path, owner, whether it can expire
  past,      \* tokens of the locks that have expired
  acked,     \* tokens svn_fs_fs__lock has returned to its caller
  head,      \* the paths of HEAD
  created,   \* created[f]: the revision that last changed f
  youngest,  \* HEAD
  writeLock, \* the process that holds db/write-lock, or NoProc
  pc,        \* what a process does next
  req,       \* what it was asked to do
  at,        \* the level of the digest file it writes next
  victim,    \* the path delete_lock works on
  then,      \* what follows delete_lock
  todo,      \* digest files it still has to visit: <<path, with its entries>>
  found,     \* locks a reader has reported
  must,      \* the locks in force when the reader began
  cutSet,    \* a process died within set_lock
  cutDel,    \* a process died within delete_lock
  crashes    \* number of crashes so far

lockVars  == <<disk, locks>>
headVars  == <<head, created, youngest>>
walkVars  == <<todo, found, must>>
stepVars  == <<at, victim, then>>
ghostVars == <<cutSet, cutDel, crashes>>
vars == <<lockVars, past, acked, headVars, writeLock, pc, req, stepVars, walkVars, ghostVars>>

Steps == {"idle", "body", "delete", "set", "walk", "done", "fail"}

\* The types: the digest files hold locks that were written, with an owner (lock_body refuses a caller
\* without a name), and list files only.
TypeOK ==
  /\ disk \in [Paths -> [lock : {NoLock} \cup Ids, kids : SUBSET Files]]
  /\ locks \in Seq([path : Files, owner : Users, expires : BOOLEAN]) /\ Len(locks) <= MaxLock
  /\ past \subseteq 1..Len(locks) /\ acked \subseteq 1..Len(locks)
  /\ head \subseteq Paths /\ created \in [Files -> 0..MaxRev] /\ youngest \in 0..MaxRev
  /\ writeLock \in Procs \cup {NoProc}
  /\ pc \in [Procs -> Steps]
  /\ req \in [Procs -> Asked \cup {Nothing}]
  /\ at \in [Procs -> Nat]
  /\ victim \in [Procs -> Paths]
  /\ then \in [Procs -> {"set", "walk", "done", "fail"}]
  /\ todo \in [Procs -> SUBSET (Paths \X BOOLEAN)]
  /\ found \in [Procs -> SUBSET Ids] /\ must \in [Procs -> SUBSET Ids]
  /\ cutSet \in BOOLEAN /\ cutDel \in BOOLEAN /\ crashes \in 0..MaxCrash

Init ==
  /\ disk = [p \in Paths |-> [lock |-> NoLock, kids |-> {}]]
  /\ locks = << >> /\ past = {} /\ acked = {}
  /\ head = Paths /\ created = [f \in Files |-> 0] /\ youngest = 0
  /\ writeLock = NoProc
  /\ pc = [p \in Procs |-> "idle"]
  /\ req = [p \in Procs |-> Nothing]
  /\ at = [p \in Procs |-> 0]
  /\ victim = [p \in Procs |-> << >>]
  /\ then = [p \in Procs |-> "done"]
  /\ todo = [p \in Procs |-> {}] /\ found = [p \in Procs |-> {}] /\ must = [p \in Procs |-> {}]
  /\ cutSet = FALSE /\ cutDel = FALSE /\ crashes = 0

OnDisk(i)  == disk[locks[i].path].lock = i
InForce(i) == OnDisk(i) /\ i \notin past

Goto(p, s) == pc' = [pc EXCEPT ![p] = s]

-------------------------------------------------------------------------------
(* A call of the library, and its end.                                       *)

\* A token a caller knows is one that was returned to somebody.
Sensible(r) ==
  CASE r.op = "lock"   -> Len(locks) < MaxLock /\ r.rev <= youngest
    [] r.op = "unlock" -> r.token \in acked
    [] r.op = "commit" -> youngest < MaxRev /\ r.tokens \subseteq acked

\* svn_fs_fs__lock, svn_fs_fs__unlock, svn_fs_fs__commit, from the time they have
\* the write lock: what a caller does while it waits changes nothing.
BeginWrite(p, r) ==
  /\ pc[p] = "idle" /\ r.op \in {"lock", "unlock", "commit"}
  /\ Sensible(r)
  /\ writeLock = NoProc
  /\ writeLock' = p
  /\ req' = [req EXCEPT ![p] = r]
  /\ Goto(p, "body")
  /\ UNCHANGED <<lockVars, past, acked, headVars, stepVars, walkVars, ghostVars>>

\* svn_fs_fs__get_lock and svn_fs_fs__get_locks: no lock is taken.
BeginRead(p, r) ==
  /\ pc[p] = "idle" /\ r.op \in {"get_lock", "get_locks"}
  /\ req' = [req EXCEPT ![p] = r]
  /\ Goto(p, "walk")
  /\ todo' = [todo EXCEPT ![p] = {<<r.path, r.op = "get_locks">>}]
  /\ must' = [must EXCEPT ![p] = {i \in acked : InForce(i)}]
  /\ UNCHANGED <<lockVars, past, acked, headVars, writeLock, stepVars, found, ghostVars>>

\* The call returns, and with it the write lock is released.
Return(p) ==
  /\ pc[p] \in {"done", "fail"}
  /\ Goto(p, "idle")
  /\ req' = [req EXCEPT ![p] = Nothing]
  /\ writeLock' = IF writeLock = p THEN NoProc ELSE writeLock
  /\ acked' = IF pc[p] = "done" /\ req[p].op = "lock" THEN acked \cup {Len(locks)} ELSE acked
  /\ at' = [at EXCEPT ![p] = 0]
  /\ victim' = [victim EXCEPT ![p] = << >>]
  /\ then' = [then EXCEPT ![p] = "done"]
  /\ todo' = [todo EXCEPT ![p] = {}]
  /\ found' = [found EXCEPT ![p] = {}]
  /\ must' = [must EXCEPT ![p] = {}]
  /\ UNCHANGED <<lockVars, past, headVars, ghostVars>>

-------------------------------------------------------------------------------
(* Writing the digest files, one step a file.                                *)

\* Start delete_lock on path q; s follows it.
StartDelete(p, q, s) ==
  /\ Goto(p, "delete")
  /\ victim' = [victim EXCEPT ![p] = q]
  /\ at' = [at EXCEPT ![p] = Len(q)]
  /\ then' = [then EXCEPT ![p] = s]

StartSet(p, q) ==
  /\ Goto(p, "set")
  /\ at' = [at EXCEPT ![p] = Len(q)]
  /\ UNCHANGED <<victim, then>>

\* Mutant: all entries go.
Without_All(d, q, own) == [lock |-> IF own THEN NoLock ELSE d.lock, kids |-> {}]

Without(d, q, own) == [lock |-> IF own THEN NoLock ELSE d.lock, kids |-> d.kids \ {q}]

Empty(d) == d.lock = NoLock /\ d.kids = {}

\* delete_lock at one level: the lock's own file first, then every directory up
\* to the root.  Removing a file that is not there is an error.
DeleteStep(p) ==
  LET q == victim[p]
      a == Prefix(q, at[p])
      d == Without(disk[a], q, at[p] = Len(q))
  IN  /\ pc[p] = "delete"
      /\ IF Empty(d) /\ Empty(disk[a])
           THEN /\ Goto(p, "fail")
                /\ UNCHANGED <<disk, at>>
           ELSE /\ disk' = [disk EXCEPT ![a] = d]
                /\ IF at[p] # 0
                     THEN at' = [at EXCEPT ![p] = @ - 1] /\ pc' = pc
                     ELSE Goto(p, then[p]) /\ at' = [at EXCEPT ![p] = Len(q)]
      /\ UNCHANGED <<locks, past, acked, headVars, writeLock, req, victim, then, walkVars, ghostVars>>

\* set_lock at the lock's own file.
SetOwn(p) ==
  LET q == req[p].path
  IN  /\ pc[p] = "set"
      /\ at[p] = Len(q)
      /\ locks' = Append(locks, [path |-> q, owner |-> req[p].user, expires |-> req[p].expires])
      /\ disk' = [disk EXCEPT ![q].lock = Len(locks) + 1]
      /\ at' = [at EXCEPT ![p] = @ - 1]
      /\ UNCHANGED <<past, acked, headVars, writeLock, pc, req, victim, then, walkVars, ghostVars>>

\* Mutant: stop at the first directory that has entries.
SetEntry_AnyEntry(p) ==
  LET q == req[p].path
      a == Prefix(q, at[p])
  IN  /\ pc[p] = "set"
      /\ at[p] < Len(q)
      /\ disk' = [disk EXCEPT ![a].kids = @ \cup {q}]
      /\ IF disk[a].kids # {} \/ at[p] = 0
           THEN Goto(p, "done") /\ at' = at
           ELSE at' = [at EXCEPT ![p] = @ - 1] /\ pc' = pc
      /\ UNCHANGED <<locks, past, acked, headVars, writeLock, req, victim, then, walkVars, ghostVars>>

\* set_lock at a directory above: stop at the first that has the entry.
SetEntry(p) ==
  LET q == req[p].path
      a == Prefix(q, at[p])
  IN  /\ pc[p] = "set"
      /\ at[p] < Len(q)
      /\ disk' = [disk EXCEPT ![a].kids = @ \cup {q}]
      /\ IF q \in disk[a].kids \/ at[p] = 0
           THEN Goto(p, "done") /\ at' = at
           ELSE at' = [at EXCEPT ![p] = @ - 1] /\ pc' = pc
      /\ UNCHANGED <<locks, past, acked, headVars, writeLock, req, victim, then, walkVars, ghostVars>>

-------------------------------------------------------------------------------
(* lock_body and unlock_body, under the write lock.                          *)

\* The checks of lock_body that come before it looks for a lock.
Lockable(r) ==
  /\ r.path \in head \cap Files
  /\ r.user # NoUser
  /\ r.rev # NoRev => created[r.path] <= r.rev

LockBody(p) ==
  LET r   == req[p]
      old == disk[r.path].lock
  IN  /\ pc[p] = "body" /\ r.op = "lock"
      /\ \/ /\ ~Lockable(r) \/ (old # NoLock /\ old \notin past /\ ~r.steal)
            /\ Goto(p, "fail")
            /\ UNCHANGED stepVars
         \/ /\ Lockable(r) /\ old = NoLock
            /\ StartSet(p, r.path)
         \/ /\ Lockable(r) /\ old # NoLock /\ (old \in past \/ r.steal)
            /\ StartDelete(p, r.path, "set")
      /\ UNCHANGED <<lockVars, past, acked, headVars, writeLock, req, walkVars, ghostVars>>

\* Mutant: the token is enough.
MayUnlock_TokenOnly(r, i) == r.break \/ r.token = i

\* The checks of unlock_body, which breaking a lock skips.
MayUnlock(r, i) == r.break \/ (r.token = i /\ r.user = locks[i].owner)

UnlockBody(p) ==
  LET r   == req[p]
      old == disk[r.path].lock
  IN  /\ pc[p] = "body" /\ r.op = "unlock"
      /\ \/ /\ old # NoLock /\ old \in past
            /\ StartDelete(p, r.path, "fail")
         \/ /\ old # NoLock /\ old \notin past /\ MayUnlock(r, old)
            /\ StartDelete(p, r.path, "done")
         \/ /\ old # NoLock => old \notin past /\ ~MayUnlock(r, old)
            /\ Goto(p, "fail")
            /\ UNCHANGED stepVars
      /\ UNCHANGED <<lockVars, past, acked, headVars, writeLock, req, walkVars, ghostVars>>

-------------------------------------------------------------------------------
(* Walking over digest files.                                                *)

\* Mutant: only the path itself is checked.
ToCheck_Shallow(changes) == {<<c[1], FALSE>> : c \in changes}

\* What is below a path that was checked with its entries is not checked again.
ToCheck(changes) ==
  LET covered(c) == \E d \in changes : d[2] # "modify" /\ d[1] # c[1] /\ AtOrBelow(d[1], c[1])
  IN  {<<c[1], c[2] # "modify">> : c \in {d \in changes : ~covered(d)}}

\* The changes apply to HEAD: the merge before the commit would have failed otherwise.
Applicable(changes) ==
  \A c \in changes :
    /\ Prefix(c[1], Len(c[1]) - 1) \in head \cup {d[1] : d \in changes}
    /\ (c[2] = "add") = (c[1] \notin head \/ \E d \in changes :
                          d[2] = "replace" /\ d[1] # c[1] /\ AtOrBelow(d[1], c[1]))

\* verify_locks begins.
VerifyBegin(p) ==
  /\ pc[p] = "body" /\ req[p].op = "commit"
  /\ IF Applicable(req[p].changes)
       THEN /\ Goto(p, "walk")
            /\ todo' = [todo EXCEPT ![p] = ToCheck(req[p].changes)]
       ELSE Goto(p, "fail") /\ UNCHANGED todo
  /\ UNCHANGED <<lockVars, past, acked, headVars, writeLock, req, stepVars, found, must, ghostVars>>

\* verify_lock
MayChange(r, i) == r.user = locks[i].owner /\ i \in r.tokens

\* What is left to do once the digest file of v[1] was read.
Rest(p, v) == (todo[p] \ {v}) \cup (IF v[2] THEN disk[v[1]].kids \X {TRUE} ELSE {})

\* A commit looks at a digest file: walk_digest_files, locks_walker, get_lock.
VerifyStep(p, v) ==
  LET i == disk[v[1]].lock
  IN  /\ pc[p] = "walk" /\ req[p].op = "commit"
      /\ v \in todo[p]
      /\ todo' = [todo EXCEPT ![p] = Rest(p, v)]
      /\ \/ /\ i # NoLock /\ i \in past
            /\ StartDelete(p, v[1], "walk")
         \/ /\ i # NoLock => i \notin past /\ MayChange(req[p], i)
            /\ UNCHANGED <<pc, stepVars>>
         \/ /\ i # NoLock /\ i \notin past /\ ~MayChange(req[p], i)
            /\ Goto(p, "fail")
            /\ UNCHANGED stepVars
      /\ UNCHANGED <<lockVars, past, acked, headVars, writeLock, req, found, must, ghostVars>>

\* The files a set of changes changes, whether or not they are there.
Touched(changes) ==
  {f \in Files : \E c \in changes : f = c[1] \/ (c[2] # "modify" /\ AtOrBelow(c[1], f))}

\* All locks are verified: the new revision is made.
Commit(p) ==
  LET ch == req[p].changes
  IN  /\ pc[p] = "walk" /\ req[p].op = "commit" /\ todo[p] = {}
      /\ youngest' = youngest + 1
      /\ head' = (head \ {q \in Paths : \E c \in ch : c[2] \in {"delete", "replace"}
                                                      /\ AtOrBelow(c[1], q)})
                 \cup {c[1] : c \in {d \in ch : d[2] \in {"add", "replace"}}}
      /\ created' = [f \in Files |-> IF f \in Touched(ch) THEN youngest + 1 ELSE created[f]]
      /\ Goto(p, "done")
      /\ UNCHANGED <<lockVars, past, acked, writeLock, req, stepVars, walkVars, ghostVars>>

\* get_locks_filter_func
Within(r, q) ==
  \/ r.op = "get_lock" \/ q = r.path \/ r.depth = "infinity"
  \/ r.depth = "files" /\ AtOrBelow(r.path, q) /\ Len(q) = Len(r.path) + 1

\* A reader looks at a digest file.  It leaves expired locks alone.
ReadStep(p, v) ==
  LET i == disk[v[1]].lock
  IN  /\ pc[p] = "walk" /\ req[p].op \in {"get_lock", "get_locks"}
      /\ v \in todo[p]
      /\ todo' = [todo EXCEPT ![p] = Rest(p, v)]
      /\ found' = IF i # NoLock /\ i \notin past /\ Within(req[p], v[1])
                    THEN [found EXCEPT ![p] = @ \cup {i}] ELSE found
      /\ UNCHANGED <<lockVars, past, acked, headVars, writeLock, pc, req, stepVars, must, ghostVars>>

ReadEnd(p) ==
  /\ pc[p] = "walk" /\ req[p].op \in {"get_lock", "get_locks"} /\ todo[p] = {}
  /\ Goto(p, "done")
  /\ UNCHANGED <<lockVars, past, acked, headVars, writeLock, req, stepVars, walkVars, ghostVars>>

-------------------------------------------------------------------------------
(* Time, and death.                                                          *)

Expire(i) ==
  /\ i \in 1..Len(locks) /\ locks[i].expires /\ i \notin past
  /\ past' = past \cup {i}
  /\ UNCHANGED <<lockVars, acked, headVars, writeLock, pc, req, stepVars, walkVars, ghostVars>>

\* A process dies; the operating system releases its lock.
Crash(p) ==
  /\ pc[p] # "idle" /\ crashes < MaxCrash
  /\ crashes' = crashes + 1
  /\ cutSet' = (cutSet \/ (pc[p] = "set" /\ at[p] < Len(req[p].path)))
  /\ cutDel' = (cutDel \/ (pc[p] = "delete" /\ at[p] < Len(victim[p])))
  /\ Goto(p, "idle")
  /\ req' = [req EXCEPT ![p] = Nothing]
  /\ writeLock' = IF writeLock = p THEN NoProc ELSE writeLock
  /\ at' = [at EXCEPT ![p] = 0]
  /\ victim' = [victim EXCEPT ![p] = << >>]
  /\ then' = [then EXCEPT ![p] = "done"]
  /\ todo' = [todo EXCEPT ![p] = {}]
  /\ found' = [found EXCEPT ![p] = {}]
  /\ must' = [must EXCEPT ![p] = {}]
  /\ UNCHANGED <<lockVars, past, acked, headVars>>

Step(p) ==
  \/ DeleteStep(p) \/ SetOwn(p) \/ SetEntry(p) \/ LockBody(p) \/ UnlockBody(p)
  \/ VerifyBegin(p) \/ Commit(p) \/ ReadEnd(p) \/ Return(p)
  \/ \E v \in todo[p] : VerifyStep(p, v) \/ ReadStep(p, v)

Next ==
  \/ \E p \in Procs :
       \/ \E r \in Asked : BeginWrite(p, r) \/ BeginRead(p, r)
       \/ Step(p) \/ Crash(p)
  \/ \E i \in Ids : Expire(i)

Spec == Init /\ [][Next]_vars

-------------------------------------------------------------------------------
(* Properties.                                                               *)

\* Both kinds of unfinished writes happened: set_lock and delete_lock cut short.
BothCut == cutSet /\ cutDel

\* Every directory above a path whose lock was granted lists the path, so that
\* walk_digest_files (lock.c) finds the lock from any of them; unless set_lock
\* and delete_lock were both cut short.  While nobody has died and nobody writes,
\* the directories list the locked paths and no other: the two undo one another.
Listed ==
  /\ TypeOK
  /\ BothCut \/ \A i \in acked : OnDisk(i) =>
       \A k \in 0 .. Len(locks[i].path) - 1 : locks[i].path \in disk[Prefix(locks[i].path, k)].kids
  /\ crashes = 0 /\ writeLock = NoProc =>
       \A f \in Files : \A k \in 0 .. Len(f) - 1 :
         (f \in disk[Prefix(f, k)].kids) <=> (disk[f].lock # NoLock)

\* A commit never changes a file whose lock was granted to somebody else, or
\* whose token it does not present, while the lock is in force: verify_locks
\* (fs_fs.c) and the digest files together keep the promise of a lock.
CommitsRespectLocks ==
  [][youngest' # youngest =>
       \A p \in Procs : pc[p] = "walk" /\ pc'[p] = "done" =>
         BothCut \/ \A i \in acked :
           InForce(i) /\ locks[i].path \in Touched(req[p].changes) => MayChange(req[p], i)]_vars

\* svn_fs_fs__get_locks, which takes no lock, reports every lock that was in
\* force from its beginning to its end and that the depth lets through.
ReadsComplete ==
  \A p \in Procs : pc[p] = "done" /\ req[p].op = "get_locks" =>
    BothCut \/ \A i \in must[p] :
      LET q == locks[i].path
      IN  InForce(i) /\ AtOrBelow(req[p].path, q) /\ Within(req[p], q) => i \in found[p]

\* A granted lock that has not expired goes away only at the hands of its owner
\* with its token, of a call that breaks locks, or of one that steals this one.
\* As long as no set_lock was cut short, delete_lock never fails half-way: a call
\* that reports an error has not removed a lock that was in force.
LocksKept ==
  [][/\ \A i \in acked : InForce(i) /\ disk'[locks[i].path].lock # i =>
          \E p \in Procs :
            /\ pc[p] \in {"delete", "set"} /\ req[p].op \in {"lock", "unlock"} /\ req[p].path = locks[i].path
            /\ IF req[p].op = "lock" THEN req[p].steal
               ELSE req[p].break \/ (req[p].token = i /\ req[p].user = locks[i].owner)
     /\ \A p \in Procs : pc[p] = "delete" /\ pc'[p] = "fail" => cutSet \/ then[p] = "fail"]_vars

-------------------------------------------------------------------------------
(* The inductive invariant of FsfsLocksProofs.                               *)

\* The directory k levels below the root lists f; all above f do.
Lists(f, k) == f \in disk[Prefix(f, k)].kids
Full(f)     == \A k \in 0 .. Len(f) - 1 : Lists(f, k)

\* A process is between the first and the last digest file of set_lock or
\* delete_lock on f.
Setting(p, f)  == pc[p] = "set" /\ req[p].path = f /\ at[p] < Len(f)
Deleting(p, f) == pc[p] = "delete" /\ victim[p] = f /\ at[p] < Len(f)

\* Who changes digest files or HEAD has the write lock.
HoldOK(p) ==
  /\ pc[p] = "idle" \/ req[p] \in Asked
  /\ pc[p] # "idle" /\ req[p].op \in {"lock", "unlock", "commit"} => writeLock = p
  /\ pc[p] \in {"body", "delete"} => req[p].op \in {"lock", "unlock", "commit"}
  /\ pc[p] = "set" => req[p].op = "lock"

\* A lock is in the digest file of its own path.
DiskInv ==
  \A q \in Paths : disk[q].lock # NoLock =>
    q \in Files /\ disk[q].lock \in 1..Len(locks) /\ locks[disk[q].lock].path = q

\* The locals of lock_body, unlock_body, set_lock and delete_lock.
LockOpInv(p) ==
  /\ pc[p] \in {"body", "delete"} \/ (pc[p] = "set" /\ at[p] = Len(req[p].path)) => Len(locks) < MaxLock
  /\ pc[p] \in {"delete", "set"} => req[p].path \in Files /\ req[p].user \in Users
  /\ pc[p] = "delete" => then[p] = "set" /\ victim[p] = req[p].path
  /\ pc[p] = "set" => at[p] <= Len(req[p].path)
  /\ pc[p] = "set" /\ at[p] = Len(req[p].path) => disk[req[p].path].lock = NoLock
  /\ (pc[p] = "set" /\ at[p] < Len(req[p].path)) \/ pc[p] = "done" =>
       /\ req[p].path \in Files
       /\ disk[req[p].path].lock = Len(locks) /\ Len(locks) # 0 /\ Len(locks) \notin acked

DeleteOpInv(p) ==
  LET q == victim[p]
      i == disk[q].lock
  IN  /\ q \in Files /\ at[p] <= Len(q)
      /\ at[p] < Len(q) => i = NoLock
      /\ at[p] = Len(q) => i # NoLock /\ (\/ i \in past
                                          \/ req[p].op = "lock" /\ req[p].steal
                                          \/ req[p].op = "unlock" /\ MayUnlock(req[p], i))
      /\ req[p].op = "unlock" => then[p] \in {"done", "fail"} /\ q = req[p].path
      /\ req[p].op = "commit" => then[p] = "walk"

StepOK(p) ==
  /\ pc[p] # "idle" /\ req[p].op = "lock" => LockOpInv(p)
  /\ pc[p] = "delete" => DeleteOpInv(p)
  /\ pc[p] \in {"body", "walk", "delete"} /\ req[p].op = "commit" => youngest < MaxRev

\* While no set_lock was cut short: a path is listed from the root down to some
\* directory, and by all if it is locked.  A set_lock under way fills the gap from
\* below, a delete_lock has cleared what is below.
Up(f) ==
  /\ (\A p \in Procs : ~Setting(p, f)) =>
       /\ disk[f].lock # NoLock => Full(f)
       /\ \A k \in 0 .. Len(f) - 1 : Lists(f, k) => \A m \in 0..k : Lists(f, m)
  /\ \A p \in Procs : Setting(p, f) =>
       /\ \A m \in 0 .. Len(f) - 1 : m > at[p] => Lists(f, m)
       /\ \A k \in 0..at[p] : Lists(f, k) => \A m \in 0..k : Lists(f, m)
  /\ \A p \in Procs : Deleting(p, f) => \A k \in 0 .. Len(f) - 1 : Lists(f, k) <=> k <= at[p]

\* While no delete_lock was cut short: a path is listed from some directory down to
\* its own, by none if it is not locked, and by all if its lock was granted.
Down(f) ==
  /\ (\A p \in Procs : ~Deleting(p, f)) =>
       /\ disk[f].lock = NoLock => \A k \in 0 .. Len(f) - 1 : ~Lists(f, k)
       /\ \A k \in 0 .. Len(f) - 1 : Lists(f, k) => \A m \in k .. Len(f) - 1 : Lists(f, m)
  /\ disk[f].lock \in acked => Full(f)
  /\ \A p \in Procs : Setting(p, f) => \A k \in 0 .. Len(f) - 1 : Lists(f, k) <=> k > at[p]
  /\ \A p \in Procs : Deleting(p, f) =>
       /\ \A k \in 0 .. Len(f) - 1 : k > at[p] => ~Lists(f, k)
       /\ \A k \in 0..at[p] : Lists(f, k) => \A m \in k..at[p] : Lists(f, m)
  /\ \A p \in Procs : pc[p] = "done" /\ req[p].op = "lock" /\ req[p].path = f => Full(f)

\* The walk of process p still comes to q.
Pending(p, q) == \E v \in todo[p] : v[1] = q \/ (v[2] /\ AtOrBelow(v[1], q))

\* A commit or a reader that walks has seen the locks it must see, or will.
WalkOK(p) ==
  /\ pc[p] \in {"walk", "delete"} /\ req[p].op = "commit" =>
       \A i \in acked : InForce(i) /\ locks[i].path \in Touched(req[p].changes) =>
         MayChange(req[p], i) \/ Pending(p, locks[i].path)
  /\ pc[p] \in {"walk", "done"} /\ req[p].op = "get_locks" =>
       \A i \in must[p] :
         InForce(i) /\ AtOrBelow(req[p].path, locks[i].path) /\ Within(req[p], locks[i].path) =>
           i \in found[p] \/ (pc[p] = "walk" /\ Pending(p, locks[i].path))

HoldInv == \A p \in Procs : HoldOK(p)
StepInv == \A p \in Procs : StepOK(p)
ListInv == \A f \in Files : (~cutSet => Up(f)) /\ (~cutDel => Down(f))
WalkInv == \A p \in Procs : BothCut \/ WalkOK(p)

GhostInv ==
  /\ (cutSet \/ cutDel) => crashes # 0
  /\ \A p \in Procs : must[p] \subseteq acked

IInv == TypeOK /\ HoldInv /\ DiskInv /\ StepInv /\ ListInv /\ WalkInv /\ GhostInv
================================================================================
