---------------------------- MODULE FsfsLocksProofs ----------------------------
(***************************************************************************)
(* Proofs about FsfsLocks, for any repository, processes, users, requests  *)
(* and number of crashes.                                                  *)
(*                                                                         *)
(* The argument is about the directories that list a locked path.          *)
(* set_lock works its way up and delete_lock too, so what a dead set_lock  *)
(* leaves is listed below and not above, and what a dead delete_lock       *)
(* leaves is listed above and not below.  set_lock, which stops at the     *)
(* first directory that has the entry, completes the second and would not  *)
(* complete the first; but then the lock is still there, and delete_lock   *)
(* removes all of it first.  Only both kinds of leftovers together make a  *)
(* gap that no call closes.                                                *)
(***************************************************************************)
EXTENDS FsfsLocks, SequenceTheorems, WellFoundedInduction, TLAPS

--------------------------------------------------------------------------------
(* The types the steps need *)

\* What TypeOK says of the locals of the processes and of the digest files.
LEMMA Types ==
  ASSUME TypeOK
  PROVE  /\ pc \in [Procs -> Steps] /\ req \in [Procs -> Asked \cup {Nothing}] /\ at \in [Procs -> Nat]
         /\ victim \in [Procs -> Paths] /\ then \in [Procs -> {"set", "walk", "done", "fail"}]
         /\ disk \in [Paths -> [lock : {NoLock} \cup Ids, kids : SUBSET Files]]
         /\ Len(locks) \in Nat /\ acked \subseteq 1..Len(locks)
<1>1. /\ pc \in [Procs -> Steps] /\ req \in [Procs -> Asked \cup {Nothing}] /\ at \in [Procs -> Nat]
      /\ victim \in [Procs -> Paths] /\ then \in [Procs -> {"set", "walk", "done", "fail"}]
  BY Zenon DEF TypeOK
<1>2. disk \in [Paths -> [lock : {NoLock} \cup Ids, kids : SUBSET Files]] /\ acked \subseteq 1..Len(locks)
  BY Zenon DEF TypeOK
<1>3. locks \in Seq([path : Files, owner : Users, expires : BOOLEAN])
  BY Zenon DEF TypeOK
<1>4. Len(locks) \in Nat
  BY <1>3, LenProperties
<1>. QED  BY <1>1, <1>2, <1>4

--------------------------------------------------------------------------------
(* Paths *)

\* Paths are sequences, and their prefixes are paths.
LEMMA PathType ==
  ASSUME NEW q \in Paths
  PROVE  /\ q \in Seq(STRING) /\ Len(q) \in Nat /\ Prefix(q, Len(q)) = q
         /\ \A k \in 0..Len(q) : Prefix(q, k) \in Paths /\ Len(Prefix(q, k)) = k
<1>1. q \in Seq(STRING) /\ Len(q) \in Nat
  BY LocksAssumption
<1>2. ASSUME NEW k \in 0..Len(q)  PROVE Len(Prefix(q, k)) = k
  <2>1. \A i \in 1..k : q[i] \in STRING
    BY <1>1
  <2>. QED  BY <1>1, <2>1, SubSeqProperties DEF Prefix
<1>3. Prefix(q, Len(q)) = q
  BY <1>1, SubSeqFull DEF Prefix
<1>. QED  BY <1>1, <1>2, <1>3, LocksAssumption

\* A file is a path that is not the root, and no other path is below it: in
\* particular a prefix of a file is another file only if it is the file.
LEMMA FileType ==
  ASSUME NEW f \in Files
  PROVE  /\ f \in Paths /\ Len(f) \in Nat /\ Len(f) > 0 /\ Prefix(f, Len(f)) = f
         /\ \A k \in 0..Len(f) : Prefix(f, k) \in Paths /\ Len(Prefix(f, k)) = k
         /\ \A g \in Files, k \in 0..Len(f) : Prefix(f, k) = g => g = f
         /\ \A k \in 0 .. Len(f) - 1 : Prefix(f, k) \notin Files
<1>1. f \in Paths /\ f # << >> /\ f \in Seq(STRING) /\ Len(f) \in Nat
  BY LocksAssumption, PathType
<1>2. Len(f) > 0
  BY <1>1
<1>3. \A k \in 0..Len(f) : Prefix(f, k) \in Paths /\ Len(Prefix(f, k)) = k
  BY <1>1, PathType
<1>4. ASSUME NEW g \in Files, NEW k \in 0..Len(f), Prefix(f, k) = g  PROVE g = f
  <2>1. Len(g) = k
    BY <1>3, <1>4
  <2>2. AtOrBelow(g, f)
    BY <1>4, <2>1, <1>1 DEF AtOrBelow
  <2>. QED  BY <2>2, <1>1, LocksAssumption
<1>5. ASSUME NEW k \in 0 .. Len(f) - 1, Prefix(f, k) \in Files  PROVE FALSE
  <2>1. Prefix(f, k) = f /\ Len(Prefix(f, k)) = k
    BY <1>1, <1>3, <1>4, <1>5
  <2>. QED  BY <1>1, <2>1
<1>. QED  BY <1>1, <1>2, <1>3, <1>4, <1>5, PathType

\* A prefix of a prefix is a prefix.
LEMMA PrefixOfPrefix ==
  ASSUME NEW q \in Paths, NEW k \in 0..Len(q), NEW j \in 0..k
  PROVE  Prefix(Prefix(q, k), j) = Prefix(q, j)
<1>1. q \in Seq(STRING) /\ Len(q) \in Nat
  BY PathType
<1>. DEFINE s == Prefix(Prefix(q, k), j)
            t == Prefix(q, j)
<1>2. /\ Prefix(q, k) \in Seq(STRING) /\ Len(Prefix(q, k)) = k
      /\ \A i \in 1..k : Prefix(q, k)[i] = q[i]
  <2>1. \A i \in 1..k : q[i] \in STRING
    BY <1>1
  <2>. QED  BY <1>1, <2>1, SubSeqProperties DEF Prefix
<1>3. t \in Seq(STRING) /\ Len(t) = j /\ \A i \in 1..j : t[i] = q[i]
  <2>1. \A i \in 1..j : q[i] \in STRING
    BY <1>1
  <2>. QED  BY <1>1, <2>1, SubSeqProperties DEF Prefix
<1>4. s \in Seq(STRING) /\ Len(s) = j /\ \A i \in 1..j : s[i] = q[i]
  <2>1. \A i \in 1..j : Prefix(q, k)[i] \in STRING
    BY <1>1, <1>2
  <2>. QED  BY <1>1, <1>2, <2>1, SubSeqProperties DEF Prefix
<1>. QED  BY <1>3, <1>4, SeqEqual

\* AtOrBelow is a partial order.
LEMMA BelowTransitive ==
  ASSUME NEW a \in Paths, NEW b \in Paths, NEW c \in Paths, AtOrBelow(a, b), AtOrBelow(b, c)
  PROVE  AtOrBelow(a, c)
<1>1. Len(a) \in Nat /\ Len(b) \in Nat /\ Len(c) \in Nat
  BY PathType
<1>2. Len(b) \in 0..Len(c) /\ Len(a) \in 0..Len(b)
  BY <1>1 DEF AtOrBelow
<1>3. Prefix(b, Len(a)) = Prefix(c, Len(a))
  BY <1>2, PrefixOfPrefix DEF AtOrBelow
<1>4. Len(a) <= Len(c)
  BY <1>1, <1>2
<1>5. Prefix(c, Len(a)) = a
  BY <1>3 DEF AtOrBelow
<1>. QED  BY <1>4, <1>5 DEF AtOrBelow

\* A path below another is longer.
LEMMA BelowShorter ==
  ASSUME NEW a \in Paths, NEW b \in Paths, AtOrBelow(a, b), a # b
  PROVE  Len(a) < Len(b)
  BY PathType DEF AtOrBelow

\* A nonempty set of natural numbers has a least element.
LEMMA Least ==
  ASSUME NEW S \in SUBSET Nat, S # {}
  PROVE  \E n \in S : \A m \in S : n <= m
<1>1. PICK n \in S : \A m \in S : <<m, n>> \notin OpToRel(<, Nat)
  BY NatLessThanWellFounded, WFMin
<1>2. \A m \in S : ~(m < n)
  BY <1>1 DEF OpToRel
<1>. QED  BY <1>2

--------------------------------------------------------------------------------
(* Requests *)

\* The parts of a request, by its kind.
LEMMA RequestType ==
  ASSUME NEW r \in Asked
  PROVE  /\ r.op \in {"lock", "unlock", "commit", "get_lock", "get_locks"}
         /\ r.op = "lock" => r.path \in Paths /\ r.user \in Users \cup {NoUser} /\ r.expires \in BOOLEAN
                             /\ r.rev \in Int
         /\ r.op = "unlock" => r.path \in Files
         /\ r.op = "commit" => r.changes \in ChangeSets
         /\ r.op \in {"get_lock", "get_locks"} => r.path \in Paths
<1>1. r \in AllRequests
  BY AskedAssumption
<1>2. CASE r \in LockRequests
  BY <1>2, LocksAssumption DEF LockRequests, NoRev
<1>3. CASE r \in UnlockRequests
  BY <1>3 DEF UnlockRequests
<1>4. CASE r \in CommitRequests
  BY <1>4 DEF CommitRequests
<1>5. CASE r \in ReadRequests
  BY <1>5, LocksAssumption DEF ReadRequests
<1>. QED  BY <1>1, <1>2, <1>3, <1>4, <1>5 DEF AllRequests

\* A process that has nothing to do has no request.
LEMMA NothingType == Nothing.op = "none" /\ Nothing \notin Asked
  BY RequestType DEF Nothing

\* Who does not hold the write lock reads, or does nothing.
LEMMA Reader ==
  ASSUME TypeOK, HoldInv, NEW q \in Procs, writeLock # q
  PROVE  /\ pc[q] \in {"idle", "walk", "done", "fail"}
         /\ pc[q] # "idle" => req[q].op \in {"get_lock", "get_locks"}
<1>1. HoldOK(q) /\ pc[q] \in Steps
  BY DEF HoldInv, TypeOK
<1>2. CASE pc[q] = "idle"
  BY <1>2
<1>3. CASE pc[q] # "idle"
  BY <1>1, <1>3, RequestType DEF HoldOK, Steps
<1>. QED  BY <1>2, <1>3

\* A process that writes holds the write lock, so that the others read.
LEMMA Writer ==
  ASSUME TypeOK, HoldInv, NEW p \in Procs,
         pc[p] \in {"body", "delete", "set"} \/ (pc[p] # "idle" /\ req[p].op \in {"lock", "unlock", "commit"})
  PROVE  /\ writeLock = p /\ req[p] \in Asked /\ pc[p] # "idle"
         /\ req[p].op \in {"lock", "unlock", "commit"}
         /\ \A q \in Procs : q # p => /\ pc[q] \in {"idle", "walk", "done", "fail"}
                                      /\ pc[q] # "idle" => req[q].op \in {"get_lock", "get_locks"}
<1>1. HoldOK(p)
  BY DEF HoldInv
<1>2. writeLock = p /\ req[p] \in Asked /\ pc[p] # "idle" /\ req[p].op \in {"lock", "unlock", "commit"}
  BY <1>1 DEF HoldOK
<1>. QED  BY <1>2, Reader

--------------------------------------------------------------------------------
(* Types *)

\* What a commit checks are paths.
LEMMA ToCheckType ==
  ASSUME NEW ch \in ChangeSets
  PROVE  ToCheck(ch) \subseteq Paths \X BOOLEAN
<1>1. \A c \in ch : c[1] \in Paths
  BY LocksAssumption
<1>2. ASSUME NEW c \in ch  PROVE <<c[1], c[2] # "modify">> \in Paths \X BOOLEAN
  <2>1. (c[2] # "modify") \in BOOLEAN
    OBVIOUS
  <2>. QED  BY <1>1, <2>1
<1>. QED  BY <1>2 DEF ToCheck

\* What is left of a walk is visits to paths.
LEMMA RestType ==
  ASSUME TypeOK, NEW p \in Procs, NEW v \in todo[p]
  PROVE  Rest(p, v) \subseteq Paths \X BOOLEAN /\ v[1] \in Paths /\ v[2] \in BOOLEAN
<1>1. todo[p] \subseteq Paths \X BOOLEAN
  BY DEF TypeOK
<1>2. v[1] \in Paths /\ v[2] \in BOOLEAN
  BY <1>1
<1>3. disk[v[1]].kids \subseteq Paths
  BY <1>2, LocksAssumption DEF TypeOK
<1>4. disk[v[1]].kids \X {TRUE} \subseteq Paths \X BOOLEAN
  BY <1>3
<1>. QED  BY <1>1, <1>2, <1>4 DEF Rest

\* A lock on disk was written.
LEMMA LockType ==
  ASSUME TypeOK, DiskInv, NEW q \in Paths, disk[q].lock # NoLock
  PROVE  /\ q \in Files /\ disk[q].lock \in 1..Len(locks) /\ disk[q].lock \in Ids
         /\ locks[disk[q].lock].path = q
<1>1. q \in Files /\ disk[q].lock \in 1..Len(locks) /\ locks[disk[q].lock].path = q
  BY DEF DiskInv
<1>. QED  BY <1>1 DEF TypeOK, NoLock

\* A lock that was granted has a token, and its file.
LEMMA GrantedType ==
  ASSUME TypeOK, NEW i \in acked
  PROVE  i \in 1..Len(locks) /\ i \in Ids /\ i # NoLock /\ locks[i].path \in Files
<1>1. i \in 1..Len(locks) /\ Len(locks) \in Nat /\ Len(locks) <= MaxLock
  BY DEF TypeOK
<1>2. i \in Ids /\ i # NoLock
  BY <1>1, LocksAssumption DEF Ids, NoLock
<1>. DEFINE L == [path : Files, owner : Users, expires : BOOLEAN]
<1>3. locks[i] \in L
  <2>1. locks \in Seq(L)
    BY DEF TypeOK
  <2>. HIDE DEF L
  <2>. QED  BY <1>1, <2>1
<1>4. locks[i].path \in Files
  BY <1>3
<1>. QED  BY <1>1, <1>2, <1>4

\* The program counters and what set_lock and delete_lock work on.
StepTypes ==
  /\ pc \in [Procs -> Steps]
  /\ at \in [Procs -> Nat]
  /\ victim \in [Procs -> Paths]
  /\ then \in [Procs -> {"set", "walk", "done", "fail"}]

\* set_lock or delete_lock begins, or nothing does.
LEMMA StartTypes ==
  ASSUME TypeOK, NEW p \in Procs, NEW q \in Paths,
         \/ Goto(p, "fail") /\ UNCHANGED stepVars
         \/ UNCHANGED <<pc, stepVars>>
         \/ StartSet(p, q)
         \/ \E s \in {"set", "walk", "done", "fail"} : StartDelete(p, q, s)
  PROVE  StepTypes'
<1>1. StepTypes /\ Len(q) \in Nat
  BY PathType DEF TypeOK, StepTypes
<1>2. CASE Goto(p, "fail") /\ UNCHANGED stepVars
  BY <1>1, <1>2 DEF StepTypes, Goto, stepVars, Steps
<1>3. CASE UNCHANGED <<pc, stepVars>>
  BY <1>1, <1>3 DEF StepTypes, stepVars
<1>4. CASE StartSet(p, q)
  BY <1>1, <1>4 DEF StepTypes, Goto, StartSet, Steps
<1>5. ASSUME NEW s \in {"set", "walk", "done", "fail"}, StartDelete(p, q, s)  PROVE StepTypes'
  BY <1>1, <1>5 DEF StepTypes, Goto, StartDelete, Steps
<1>. QED  BY <1>2, <1>3, <1>4, <1>5

\* Every step keeps the types.
LEMMA TypeStep ==
  ASSUME IInv, Next
  PROVE  TypeOK'
<1>. USE DEF lockVars, headVars, walkVars, stepVars, ghostVars
<1>0. TypeOK /\ HoldInv /\ DiskInv /\ StepInv
  BY DEF IInv
<1>1. ASSUME NEW p \in Procs, NEW r \in Asked, BeginWrite(p, r)  PROVE TypeOK'
  BY <1>0, <1>1 DEF TypeOK, BeginWrite, Goto, Steps
<1>2. ASSUME NEW p \in Procs, NEW r \in Asked, BeginRead(p, r)  PROVE TypeOK'
  <2>1. {i \in acked : InForce(i)} \subseteq Ids
    BY <1>0, GrantedType
  <2>2. {<<r.path, r.op = "get_locks">>} \subseteq Paths \X BOOLEAN
    <3>1. r.path \in Paths
      BY <1>2, RequestType DEF BeginRead
    <3>2. (r.op = "get_locks") \in BOOLEAN
      OBVIOUS
    <3>. DEFINE b == r.op = "get_locks"
    <3>. HIDE DEF b
    <3>3. <<r.path, b>> \in Paths \X BOOLEAN
      BY <3>1, <3>2 DEF b
    <3>. QED  BY <3>3 DEF b
  <2>3. todo' \in [Procs -> SUBSET (Paths \X BOOLEAN)]
    BY <1>0, <1>2, <2>2 DEF TypeOK, BeginRead
  <2>4. must' \in [Procs -> SUBSET Ids]
    BY <1>0, <1>2, <2>1 DEF TypeOK, BeginRead
  <2>. QED  BY <1>0, <1>2, <2>3, <2>4 DEF TypeOK, BeginRead, Goto, Steps
<1>3. ASSUME NEW p \in Procs, Return(p)  PROVE TypeOK'
  <2>1. acked' \subseteq 1..Len(locks)
    <3>1. CASE pc[p] = "done" /\ req[p].op = "lock"
      <4>1. LockOpInv(p)
        BY <1>0, <3>1 DEF StepInv, StepOK
      <4>2. Len(locks) # 0 /\ Len(locks) \in Nat
        BY <1>0, <3>1, <4>1 DEF LockOpInv, TypeOK
      <4>3. acked' = acked \cup {Len(locks)} /\ acked \subseteq 1..Len(locks)
        BY <1>0, <1>3, <3>1 DEF Return, TypeOK
      <4>4. Len(locks) \in 1..Len(locks)
        BY <4>2
      <4>. QED  BY <4>3, <4>4
    <3>. QED  BY <1>0, <1>3, <3>1 DEF Return, TypeOK
  <2>2. << >> \in Paths
    BY LocksAssumption
  <2>. QED  BY <1>0, <1>3, <2>1, <2>2 DEF TypeOK, Return, Goto, Steps
<1>4. ASSUME NEW p \in Procs, DeleteStep(p)  PROVE TypeOK'
  <2>. DEFINE q == victim[p]
              a == Prefix(q, at[p])
              d == Without(disk[a], q, at[p] = Len(q))
  <2>1. pc[p] = "delete" /\ DeleteOpInv(p) /\ at[p] \in Nat
    BY <1>0, <1>4 DEF DeleteStep, StepInv, StepOK, TypeOK
  <2>2. q \in Files /\ at[p] \in 0..Len(q) /\ a \in Paths /\ Len(q) \in Nat
    BY <2>1, FileType DEF DeleteOpInv
  <2>3. d \in [lock : {NoLock} \cup Ids, kids : SUBSET Files]
    BY <1>0, <2>2 DEF TypeOK, Without
  <2>4. disk' \in [Paths -> [lock : {NoLock} \cup Ids, kids : SUBSET Files]]
    <3>. HIDE DEF d, a, q
    <3>. QED  BY <1>0, <1>4, <2>3 DEF TypeOK, DeleteStep, a, d, q
  <2>5. at' \in [Procs -> Nat]
    <3>1. at \in [Procs -> Nat]
      BY <1>0 DEF TypeOK
    <3>2. \/ at' = at \/ at' = [at EXCEPT ![p] = Len(q)]
          \/ at[p] # 0 /\ at' = [at EXCEPT ![p] = @ - 1]
      BY <1>4 DEF DeleteStep
    <3>. QED  BY <2>1, <2>2, <3>1, <3>2
  <2>6. pc' \in [Procs -> Steps]
    <3>1. pc \in [Procs -> Steps] /\ then[p] \in Steps /\ "fail" \in Steps
      BY <1>0 DEF TypeOK, Steps
    <3>2. pc' = pc \/ pc' = [pc EXCEPT ![p] = "fail"] \/ pc' = [pc EXCEPT ![p] = then[p]]
      BY <1>4 DEF DeleteStep, Goto
    <3>. QED  BY <3>1, <3>2
  <2>. QED  BY <1>0, <1>4, <2>4, <2>5, <2>6 DEF TypeOK, DeleteStep
<1>5. ASSUME NEW p \in Procs, SetOwn(p)  PROVE TypeOK'
  <2>. DEFINE q == req[p].path
              l == [path |-> q, owner |-> req[p].user, expires |-> req[p].expires]
              L == [path : Files, owner : Users, expires : BOOLEAN]
  <2>1. pc[p] = "set" /\ req[p].op = "lock" /\ req[p] \in Asked /\ LockOpInv(p)
    BY <1>0, <1>5, Writer DEF SetOwn, StepInv, StepOK, HoldInv, HoldOK
  <2>2. q \in Files /\ req[p].user \in Users /\ req[p].expires \in BOOLEAN /\ Len(locks) < MaxLock
    BY <1>5, <2>1, RequestType DEF LockOpInv, SetOwn
  <2>3. locks \in Seq(L) /\ Len(locks) \in Nat /\ l \in L
    BY <1>0, <2>2 DEF TypeOK
  <2>4. locks' \in Seq(L) /\ Len(locks') = Len(locks) + 1
    <3>1. locks' = Append(locks, l)
      BY <1>5 DEF SetOwn
    <3>. HIDE DEF l, L
    <3>. QED  BY <2>3, <3>1
  <2>5. Len(locks) + 1 \in Ids
    BY <2>2, <2>3, LocksAssumption DEF Ids
  <2>6. disk' \in [Paths -> [lock : {NoLock} \cup Ids, kids : SUBSET Files]]
    <3>1. disk \in [Paths -> [lock : {NoLock} \cup Ids, kids : SUBSET Files]]
      BY <1>0 DEF TypeOK
    <3>2. q \in Paths /\ disk' = [disk EXCEPT ![q].lock = Len(locks) + 1]
      BY <1>5, <2>2, FileType DEF SetOwn
    <3>. HIDE DEF q
    <3>. QED  BY <2>5, <3>1, <3>2
  <2>7. at' \in [Procs -> Nat]
    BY <1>0, <1>5, <2>2, FileType DEF TypeOK, SetOwn
  <2>8. Len(locks') <= MaxLock
    BY <2>2, <2>3, <2>4, LocksAssumption
  <2>9. past' \subseteq 1..Len(locks') /\ acked' \subseteq 1..Len(locks')
    BY <1>0, <1>5, <2>3, <2>4 DEF TypeOK, SetOwn
  <2>. QED  BY <1>0, <1>5, <2>4, <2>6, <2>7, <2>8, <2>9 DEF TypeOK, SetOwn
<1>6. ASSUME NEW p \in Procs, SetEntry(p)  PROVE TypeOK'
  <2>. DEFINE q == req[p].path
              a == Prefix(q, at[p])
  <2>1. pc[p] = "set" /\ req[p].op = "lock" /\ LockOpInv(p) /\ at[p] \in Nat
    BY <1>0, <1>6, Writer DEF SetEntry, StepInv, StepOK, HoldInv, HoldOK, TypeOK
  <2>2. q \in Files /\ at[p] \in 0..Len(q) /\ a \in Paths
    BY <1>6, <2>1, FileType DEF LockOpInv, SetEntry
  <2>3. disk' \in [Paths -> [lock : {NoLock} \cup Ids, kids : SUBSET Files]]
    <3>1. disk \in [Paths -> [lock : {NoLock} \cup Ids, kids : SUBSET Files]]
      BY <1>0 DEF TypeOK
    <3>2. disk' = [disk EXCEPT ![a].kids = @ \cup {q}]
      BY <1>6 DEF SetEntry
    <3>. HIDE DEF a, q
    <3>. QED  BY <2>2, <3>1, <3>2
  <2>4. at' \in [Procs -> Nat]
    <3>1. at \in [Procs -> Nat]
      BY <1>0 DEF TypeOK
    <3>2. at' = at \/ (at[p] # 0 /\ at' = [at EXCEPT ![p] = @ - 1])
      BY <1>6 DEF SetEntry
    <3>. QED  BY <2>1, <3>1, <3>2
  <2>5. pc' \in [Procs -> Steps]
    <3>1. pc' = pc \/ pc' = [pc EXCEPT ![p] = "done"]
      BY <1>6 DEF SetEntry, Goto
    <3>. QED  BY <1>0, <3>1 DEF TypeOK, Steps
  <2>. QED  BY <1>0, <1>6, <2>3, <2>4, <2>5 DEF TypeOK, SetEntry
<1>7. ASSUME NEW p \in Procs, LockBody(p)  PROVE TypeOK'
  <2>1. req[p].path \in Paths /\ Len(req[p].path) \in Nat
    BY <1>0, <1>7, Writer, RequestType, PathType DEF LockBody
  <2>2. StepTypes'
    BY <1>0, <1>7, <2>1, StartTypes DEF LockBody
  <2>. QED  BY <1>0, <1>7, <2>2 DEF TypeOK, LockBody, StepTypes
<1>8. ASSUME NEW p \in Procs, UnlockBody(p)  PROVE TypeOK'
  <2>1. req[p].path \in Paths /\ Len(req[p].path) \in Nat
    BY <1>0, <1>8, Writer, RequestType, FileType DEF UnlockBody
  <2>2. StepTypes'
    BY <1>0, <1>8, <2>1, StartTypes DEF UnlockBody
  <2>. QED  BY <1>0, <1>8, <2>2 DEF TypeOK, UnlockBody, StepTypes
<1>9. ASSUME NEW p \in Procs, VerifyBegin(p)  PROVE TypeOK'
  <2>1. ToCheck(req[p].changes) \subseteq Paths \X BOOLEAN
    BY <1>0, <1>9, Writer, RequestType, ToCheckType DEF VerifyBegin
  <2>2. todo' \in [Procs -> SUBSET (Paths \X BOOLEAN)]
    BY <1>0, <1>9, <2>1 DEF TypeOK, VerifyBegin
  <2>. QED  BY <1>0, <1>9, <2>2 DEF TypeOK, VerifyBegin, Goto, Steps
<1>10. ASSUME NEW p \in Procs, NEW v \in todo[p], VerifyStep(p, v)  PROVE TypeOK'
  <2>1. Rest(p, v) \subseteq Paths \X BOOLEAN /\ v[1] \in Paths /\ Len(v[1]) \in Nat
    BY <1>0, RestType, PathType
  <2>2. todo' \in [Procs -> SUBSET (Paths \X BOOLEAN)]
    BY <1>0, <1>10, <2>1 DEF TypeOK, VerifyStep
  <2>3. StepTypes'
    BY <1>0, <1>10, <2>1, StartTypes DEF VerifyStep
  <2>. QED  BY <1>0, <1>10, <2>2, <2>3 DEF TypeOK, VerifyStep, StepTypes
<1>11. ASSUME NEW p \in Procs, Commit(p)  PROVE TypeOK'
  <2>1. req[p].changes \in ChangeSets
    BY <1>0, <1>11, Writer, RequestType DEF Commit
  <2>2. \A c \in req[p].changes : c[1] \in Paths
    BY <2>1, LocksAssumption
  <2>3. youngest + 1 \in 0..MaxRev
    BY <1>0, <1>11, LocksAssumption DEF Commit, StepInv, StepOK, TypeOK
  <2>4. created' \in [Files -> 0..MaxRev] /\ youngest' \in 0..MaxRev
    BY <1>0, <1>11, <2>3 DEF Commit, TypeOK
  <2>5. head' \subseteq Paths
    BY <1>0, <1>11, <2>2 DEF Commit, TypeOK
  <2>. QED  BY <1>0, <1>11, <2>4, <2>5 DEF TypeOK, Commit, Goto, Steps
<1>12. ASSUME NEW p \in Procs, NEW v \in todo[p], ReadStep(p, v)  PROVE TypeOK'
  <2>1. Rest(p, v) \subseteq Paths \X BOOLEAN /\ v[1] \in Paths
    BY <1>0, RestType
  <2>2. todo' \in [Procs -> SUBSET (Paths \X BOOLEAN)]
    BY <1>0, <1>12, <2>1 DEF TypeOK, ReadStep
  <2>3. found' \in [Procs -> SUBSET Ids]
    BY <1>0, <1>12, <2>1 DEF TypeOK, ReadStep
  <2>. QED  BY <1>0, <1>12, <2>2, <2>3 DEF TypeOK, ReadStep
<1>13. ASSUME NEW p \in Procs, ReadEnd(p)  PROVE TypeOK'
  BY <1>0, <1>13 DEF TypeOK, ReadEnd, Goto, Steps
<1>14. ASSUME NEW i \in Ids, Expire(i)  PROVE TypeOK'
  BY <1>0, <1>14 DEF TypeOK, Expire
<1>15. ASSUME NEW p \in Procs, Crash(p)  PROVE TypeOK'
  <2>1. cutSet' \in BOOLEAN /\ cutDel' \in BOOLEAN
    BY <1>0, <1>15 DEF TypeOK, Crash
  <2>2. << >> \in Paths /\ crashes' \in 0..MaxCrash
    BY <1>0, <1>15, LocksAssumption DEF TypeOK, Crash
  <2>. QED  BY <1>0, <1>15, <2>1, <2>2 DEF TypeOK, Crash, Goto, Steps
<1>. QED
  BY <1>1, <1>2, <1>3, <1>4, <1>5, <1>6, <1>7, <1>8, <1>9, <1>10, <1>11, <1>12, <1>13, <1>14, <1>15 DEF Next, Step

--------------------------------------------------------------------------------
(* The write lock, the locks on disk, the ghosts *)

\* Only set_lock and delete_lock write digest files; only a call that begins, ends or
\* is cut short changes what the properties speak of besides.
LEMMA WhatChanges ==
  ASSUME Next
  PROVE  \/ UNCHANGED <<lockVars, acked, must, ghostVars>>
         \/ \E p \in Procs : DeleteStep(p) \/ SetOwn(p) \/ SetEntry(p) \/ Return(p) \/ Crash(p)
         \/ \E p \in Procs, r \in Asked : BeginRead(p, r)
<1>. USE DEF lockVars, headVars, walkVars, stepVars, ghostVars
<1>. DEFINE Same == UNCHANGED <<lockVars, acked, must, ghostVars>>
<1>1. ASSUME NEW p \in Procs, NEW r \in Asked, BeginWrite(p, r)  PROVE Same
  BY <1>1 DEF BeginWrite
<1>2. ASSUME NEW p \in Procs, LockBody(p) \/ UnlockBody(p)  PROVE Same
  BY <1>2 DEF LockBody, UnlockBody
<1>3. ASSUME NEW p \in Procs, VerifyBegin(p) \/ Commit(p) \/ ReadEnd(p)  PROVE Same
  BY <1>3 DEF VerifyBegin, Commit, ReadEnd
<1>4. ASSUME NEW p \in Procs, NEW v \in todo[p], VerifyStep(p, v) \/ ReadStep(p, v)  PROVE Same
  BY <1>4 DEF VerifyStep, ReadStep
<1>5. ASSUME NEW i \in Ids, Expire(i)  PROVE Same
  BY <1>5 DEF Expire
<1>. HIDE DEF Same
<1>. QED  BY <1>1, <1>2, <1>3, <1>4, <1>5 DEF Next, Step, Same

\* A step of one process leaves pc and req of the others alone.
LEMMA HoldStep ==
  ASSUME IInv, TypeOK', Next
  PROVE  HoldInv'
<1>. USE DEF lockVars, headVars, walkVars, stepVars, ghostVars
<1>0. TypeOK /\ HoldInv /\ StepInv
  BY DEF IInv
<1>. SUFFICES ASSUME NEW q \in Procs  PROVE HoldOK(q)'
  BY DEF HoldInv
<1>q. HoldOK(q) /\ (writeLock # q => pc[q] = "idle" \/ req[q].op \in {"get_lock", "get_locks"})
  BY <1>0, Reader DEF HoldInv
<1>o. ASSUME NEW p \in Procs, p # q, UNCHANGED <<pc[q], req[q]>>,
             \/ writeLock' = writeLock
             \/ writeLock = p /\ writeLock' = NoProc
             \/ writeLock = NoProc
      PROVE  HoldOK(q)'
  BY <1>q, <1>o, LocksAssumption, RequestType DEF HoldOK
<1>1. ASSUME NEW p \in Procs, NEW r \in Asked, BeginWrite(p, r)  PROVE HoldOK(q)'
  <2>1. CASE p = q
    BY <1>0, <1>1, <2>1 DEF BeginWrite, Goto, HoldOK, TypeOK
  <2>2. CASE p # q
    BY <1>0, <1>1, <1>o, <2>2 DEF BeginWrite, Goto, TypeOK
  <2>. QED  BY <2>1, <2>2
<1>2. ASSUME NEW p \in Procs, NEW r \in Asked, BeginRead(p, r)  PROVE HoldOK(q)'
  <2>1. CASE p = q
    BY <1>0, <1>2, <2>1 DEF BeginRead, Goto, HoldOK, TypeOK
  <2>2. CASE p # q
    BY <1>0, <1>2, <1>o, <2>2 DEF BeginRead, Goto, TypeOK
  <2>. QED  BY <2>1, <2>2
<1>3. ASSUME NEW p \in Procs, Return(p) \/ Crash(p)  PROVE HoldOK(q)'
  <2>1. CASE p = q
    BY <1>0, <1>3, <2>1 DEF Return, Crash, Goto, HoldOK, TypeOK
  <2>2. CASE p # q
    BY <1>0, <1>3, <1>o, <2>2 DEF Return, Crash, Goto, TypeOK
  <2>. QED  BY <2>1, <2>2
<1>4. ASSUME NEW p \in Procs, DeleteStep(p)  PROVE HoldOK(q)'
  <2>1. CASE p = q
    <3>1. pc[q] = "delete" /\ DeleteOpInv(q) /\ (req[q].op = "lock" => LockOpInv(q))
      BY <1>0, <1>4, <2>1 DEF DeleteStep, StepInv, StepOK
    <3>2. /\ req' = req /\ writeLock' = writeLock
          /\ pc'[q] \in {"delete", "fail", then[q]}
      BY <1>0, <1>4, <2>1 DEF DeleteStep, Goto, TypeOK
    <3>3. then[q] = "set" => req[q].op = "lock"
      BY <1>q, <3>1 DEF DeleteOpInv, HoldOK
    <3>4. then[q] \in {"set", "walk", "done", "fail"}
      BY <1>0 DEF TypeOK
    <3>. QED  BY <1>q, <3>1, <3>2, <3>3, <3>4 DEF HoldOK
  <2>2. CASE p # q
    BY <1>0, <1>4, <1>o, <2>2 DEF DeleteStep, Goto, TypeOK
  <2>. QED  BY <2>1, <2>2
<1>5. ASSUME NEW p \in Procs, SetOwn(p) \/ SetEntry(p)  PROVE HoldOK(q)'
  <2>1. CASE p = q
    BY <1>0, <1>5, <1>q, <2>1 DEF SetOwn, SetEntry, Goto, HoldOK, TypeOK
  <2>2. CASE p # q
    BY <1>0, <1>5, <1>o, <2>2 DEF SetOwn, SetEntry, Goto, TypeOK
  <2>. QED  BY <2>1, <2>2
<1>7. ASSUME NEW p \in Procs, LockBody(p) \/ UnlockBody(p)  PROVE HoldOK(q)'
  <2>1. CASE p = q
    BY <1>0, <1>7, <1>q, <2>1 DEF LockBody, UnlockBody, StartSet, StartDelete, Goto, HoldOK, TypeOK
  <2>2. CASE p # q
    BY <1>0, <1>7, <1>o, <2>2 DEF LockBody, UnlockBody, StartSet, StartDelete, Goto, TypeOK
  <2>. QED  BY <2>1, <2>2
<1>9. ASSUME NEW p \in Procs, VerifyBegin(p) \/ Commit(p) \/ ReadEnd(p)  PROVE HoldOK(q)'
  <2>1. CASE p = q
    BY <1>0, <1>9, <1>q, <2>1 DEF VerifyBegin, Commit, ReadEnd, Goto, HoldOK, TypeOK
  <2>2. CASE p # q
    BY <1>0, <1>9, <1>o, <2>2 DEF VerifyBegin, Commit, ReadEnd, Goto, TypeOK
  <2>. QED  BY <2>1, <2>2
<1>10. ASSUME NEW p \in Procs, NEW v \in todo[p], VerifyStep(p, v) \/ ReadStep(p, v)  PROVE HoldOK(q)'
  <2>1. CASE p = q
    BY <1>0, <1>10, <1>q, <2>1 DEF VerifyStep, ReadStep, StartDelete, Goto, HoldOK, TypeOK
  <2>2. CASE p # q
    BY <1>0, <1>10, <1>o, <2>2 DEF VerifyStep, ReadStep, StartDelete, Goto, TypeOK
  <2>. QED  BY <2>1, <2>2
<1>14. ASSUME NEW i \in Ids, Expire(i)  PROVE HoldOK(q)'
  BY <1>14, <1>q DEF Expire, HoldOK
<1>. QED
  BY <1>1, <1>2, <1>3, <1>4, <1>5, <1>7, <1>9, <1>10, <1>14 DEF Next, Step

\* Tokens are given in order, and delete_lock only removes.
LEMMA DiskStep ==
  ASSUME IInv, TypeOK', Next
  PROVE  DiskInv'
<1>. USE DEF lockVars, headVars, walkVars, stepVars, ghostVars
<1>0. TypeOK /\ DiskInv /\ StepInv /\ HoldInv
  BY DEF IInv
<1>1. CASE UNCHANGED lockVars
  BY <1>0, <1>1 DEF DiskInv
<1>2. ASSUME NEW p \in Procs, DeleteStep(p)  PROVE DiskInv'
  <2>1. pc[p] = "delete" /\ DeleteOpInv(p) /\ at[p] \in Nat
    BY <1>0, <1>2 DEF DeleteStep, StepInv, StepOK, TypeOK
  <2>2. victim[p] \in Files /\ Prefix(victim[p], at[p]) \in Paths
    BY <2>1, FileType DEF DeleteOpInv
  <2>3. \A q \in Paths : disk'[q].lock \in {disk[q].lock, NoLock}
    BY <1>0, <1>2, <2>2 DEF DeleteStep, Without, TypeOK
  <2>4. locks' = locks
    BY <1>2 DEF DeleteStep
  <2>. QED  BY <1>0, <2>3, <2>4 DEF DiskInv
<1>3. ASSUME NEW p \in Procs, SetOwn(p)  PROVE DiskInv'
  <2>. DEFINE h == req[p].path
  <2>1. pc[p] = "set" /\ req[p].op = "lock" /\ LockOpInv(p)
    BY <1>0, <1>3, Writer DEF SetOwn, StepInv, StepOK, HoldInv, HoldOK
  <2>2. h \in Files /\ h \in Paths
    BY <2>1, FileType DEF LockOpInv
  <2>3. /\ Len(locks) \in Nat /\ Len(locks') = Len(locks) + 1
        /\ \A i \in 1..Len(locks) : locks'[i] = locks[i]
        /\ locks'[Len(locks) + 1].path = h
    <3>1. locks \in Seq([path : Files, owner : Users, expires : BOOLEAN])
      BY <1>0 DEF TypeOK
    <3>. QED  BY <1>3, <3>1 DEF SetOwn
  <2>4. /\ disk'[h].lock = Len(locks) + 1
        /\ \A q \in Paths : q # h => disk'[q].lock = disk[q].lock
    BY <1>0, <1>3, <2>2 DEF SetOwn, TypeOK
  <2>. QED  BY <1>0, <2>2, <2>3, <2>4 DEF DiskInv
<1>4. ASSUME NEW p \in Procs, SetEntry(p)  PROVE DiskInv'
  <2>1. \A q \in Paths : disk'[q].lock = disk[q].lock
    BY <1>0, <1>4 DEF SetEntry, TypeOK
  <2>2. locks' = locks
    BY <1>4 DEF SetEntry
  <2>. QED  BY <1>0, <2>1, <2>2 DEF DiskInv
<1>. QED  BY <1>1, <1>2, <1>3, <1>4, WhatChanges DEF Return, Crash, BeginRead

\* Every step keeps what is known of the ghost variables.
LEMMA GhostStep ==
  ASSUME IInv, TypeOK', Next
  PROVE  GhostInv'
<1>. USE DEF lockVars, headVars, walkVars, stepVars, ghostVars
<1>0. TypeOK /\ GhostInv
  BY DEF IInv
<1>1. (cutSet' \/ cutDel') => crashes' # 0
  <2>1. UNCHANGED ghostVars \/ \E p \in Procs : Crash(p)
    BY WhatChanges DEF BeginRead, Return, DeleteStep, SetOwn, SetEntry
  <2>2. crashes \in Nat
    BY <1>0, LocksAssumption DEF TypeOK
  <2>3. crashes' = crashes + 1 \/ UNCHANGED ghostVars
    BY <2>1 DEF Crash
  <2>. QED  BY <1>0, <2>2, <2>3 DEF GhostInv
<1>2. ASSUME NEW q \in Procs  PROVE must'[q] \subseteq acked'
  <2>1. must[q] \subseteq acked /\ must \in [Procs -> SUBSET Ids]
    BY <1>0 DEF GhostInv, TypeOK
  <2>2. CASE UNCHANGED <<acked, must>>
    BY <2>1, <2>2
  <2>3. ASSUME NEW p \in Procs, Return(p) \/ Crash(p)  PROVE must'[q] \subseteq acked'
    <3>1. acked \subseteq acked' /\ must' = [must EXCEPT ![p] = {}]
      BY <2>3 DEF Return, Crash
    <3>. QED  BY <2>1, <3>1
  <2>4. ASSUME NEW p \in Procs, NEW r \in Asked, BeginRead(p, r)  PROVE must'[q] \subseteq acked'
    <3>1. acked' = acked /\ must' = [must EXCEPT ![p] = {i \in acked : InForce(i)}]
      BY <2>4 DEF BeginRead
    <3>. QED  BY <2>1, <3>1
  <2>. QED  BY <2>2, <2>3, <2>4, WhatChanges DEF DeleteStep, SetOwn, SetEntry
<1>. QED  BY <1>1, <1>2 DEF GhostInv

--------------------------------------------------------------------------------
(* The locals of the bodies *)

\* There are none of a process that does not hold the write lock.
LEMMA NoBody ==
  ASSUME TypeOK', HoldInv', NEW q \in Procs, writeLock' # q
  PROVE  StepOK(q)'
<1>1. HoldOK(q)' /\ pc'[q] \in Steps
  BY DEF HoldInv, TypeOK
<1>2. /\ pc'[q] \in {"idle", "walk", "done", "fail"}
      /\ pc'[q] # "idle" => req'[q].op \in {"get_lock", "get_locks"}
  BY <1>1, RequestType DEF HoldOK, Steps
<1>. QED  BY <1>2 DEF StepOK

\* Time, and the steps of readers, do not matter to the others.
LEMMA SameBody ==
  ASSUME NEW q \in Procs, StepOK(q),
         UNCHANGED <<pc[q], req[q], at[q], victim[q], then[q], lockVars, acked, youngest>>,
         past \subseteq past'
  PROVE  StepOK(q)'
<1>. USE DEF lockVars
<1>1. pc'[q] # "idle" /\ req'[q].op = "lock" => LockOpInv(q)'
  BY DEF StepOK, LockOpInv
<1>2. pc'[q] = "delete" => DeleteOpInv(q)'
  BY DEF StepOK, DeleteOpInv, MayUnlock
<1>. QED  BY <1>1, <1>2 DEF StepOK

\* Every step keeps what is known of a process half way through set_lock or delete_lock.
LEMMA StepStep ==
  ASSUME IInv, TypeOK', HoldInv', Next
  PROVE  StepInv'
<1>. USE DEF lockVars, headVars, walkVars, stepVars, ghostVars
<1>0. TypeOK /\ HoldInv /\ DiskInv /\ StepInv
  BY DEF IInv
<1>t. /\ pc \in [Procs -> Steps] /\ req \in [Procs -> Asked \cup {Nothing}] /\ at \in [Procs -> Nat]
      /\ victim \in [Procs -> Paths] /\ then \in [Procs -> {"set", "walk", "done", "fail"}]
      /\ disk \in [Paths -> [lock : {NoLock} \cup Ids, kids : SUBSET Files]]
      /\ Len(locks) \in Nat /\ acked \subseteq 1..Len(locks)
  BY <1>0, Types
<1>. SUFFICES ASSUME NEW q \in Procs, writeLock' = q  PROVE StepOK(q)'
  BY NoBody DEF StepInv
<1>q. StepOK(q) /\ HoldOK(q)
  BY <1>0 DEF StepInv, HoldInv
<1>n. NoProc # q
  BY LocksAssumption
<1>1. ASSUME NEW p \in Procs, NEW r \in Asked, BeginWrite(p, r)  PROVE StepOK(q)'
  <2>1. p = q /\ pc'[q] = "body" /\ req'[q] = r /\ Sensible(r) /\ UNCHANGED <<locks, youngest>>
    BY <1>1, <1>t DEF BeginWrite, Goto
  <2>. QED  BY <2>1 DEF StepOK, LockOpInv, Sensible
<1>2. ASSUME NEW p \in Procs, NEW r \in Asked, BeginRead(p, r)  PROVE StepOK(q)'
  <2>1. CASE p = q
    BY <1>2, <1>t, <2>1 DEF BeginRead, Goto, StepOK
  <2>2. CASE p # q
    BY <1>2, <1>t, <1>q, <2>2, SameBody DEF BeginRead, Goto
  <2>. QED  BY <2>1, <2>2
<1>3. ASSUME NEW p \in Procs, Return(p) \/ Crash(p)  PROVE StepOK(q)'
  <2>1. p # q /\ writeLock # p
    BY <1>3, <1>n DEF Return, Crash
  <2>2. pc[p] # "idle" => req[p].op # "lock"
    BY <1>0, <2>1, Reader
  <2>3. acked' = acked
    BY <1>3, <2>2 DEF Return, Crash
  <2>. QED  BY <1>3, <1>t, <1>q, <2>1, <2>3, SameBody DEF Return, Crash, Goto
<1>4. ASSUME NEW p \in Procs, DeleteStep(p)  PROVE StepOK(q)'
  <2>. DEFINE h == victim[q]
              a == Prefix(h, at[q])
  <2>1. p = q /\ pc[q] = "delete" /\ DeleteOpInv(q) /\ req[q].op \in {"lock", "unlock", "commit"}
    BY <1>0, <1>4, <1>q, Writer DEF DeleteStep, StepOK
  <2>2. /\ h \in Files /\ h \in Paths /\ Len(h) \in Nat /\ Len(h) > 0 /\ a \in Paths
        /\ Prefix(h, Len(h)) = h /\ at[q] \in 0..Len(h)
    BY <1>t, <2>1, FileType DEF DeleteOpInv
  <2>3. disk'[h].lock = NoLock
    <3>1. CASE at[q] = Len(h)
      <4>1. a = h /\ disk[h].lock # NoLock
        BY <2>1, <2>2, <3>1 DEF DeleteOpInv
      <4>2. ~Empty(disk[h])
        BY <4>1 DEF Empty
      <4>3. disk' = [disk EXCEPT ![h] = Without(disk[h], h, TRUE)]
        BY <1>4, <2>1, <3>1, <4>1, <4>2 DEF DeleteStep
      <4>. QED  BY <1>t, <2>2, <4>3 DEF Without
    <3>2. CASE at[q] < Len(h)
      <4>1. disk[h].lock = NoLock
        BY <2>1, <3>2 DEF DeleteOpInv
      <4>2. disk' = disk \/ disk' = [disk EXCEPT ![a] = Without(disk[a], h, at[q] = Len(h))]
        BY <1>4, <2>1 DEF DeleteStep
      <4>3. Without(disk[a], h, at[q] = Len(h)).lock = disk[a].lock
        BY <2>2, <3>2 DEF Without
      <4>4. DOMAIN disk = Paths
        BY <1>t
      <4>. QED  BY <2>2, <4>1, <4>2, <4>3, <4>4
    <3>. QED  BY <2>2, <3>1, <3>2
  <2>4. UNCHANGED <<req, victim, then, locks, past, acked, youngest>>
    BY <1>4 DEF DeleteStep
  <2>5. \/ pc'[q] = "fail"
        \/ pc'[q] = "delete" /\ at'[q] = at[q] - 1 /\ at[q] # 0
        \/ pc'[q] = then[q] /\ at'[q] = Len(h)
    BY <1>4, <1>t, <2>1 DEF DeleteStep, Goto
  <2>6. /\ req[q].op = "lock" => then[q] = "set" /\ h = req[q].path /\ LockOpInv(q)
        /\ req[q].op = "unlock" => then[q] \in {"done", "fail"}
        /\ req[q].op = "commit" => then[q] = "walk"
    BY <1>q, <2>1 DEF StepOK, LockOpInv, DeleteOpInv
  <2>7. CASE pc'[q] = "fail"
    BY <2>7 DEF StepOK, LockOpInv
  <2>8. CASE pc'[q] = "delete" /\ at'[q] = at[q] - 1 /\ at[q] # 0
    <3>1. at'[q] <= Len(h) /\ at'[q] < Len(h) /\ at'[q] # Len(h)
      BY <2>2, <2>8
    <3>2. DeleteOpInv(q)'
      BY <2>1, <2>2, <2>3, <2>4, <2>8, <3>1 DEF DeleteOpInv
    <3>3. req[q].op = "lock" => LockOpInv(q)'
      BY <2>1, <2>4, <2>6, <2>8 DEF LockOpInv
    <3>4. req[q].op = "commit" => youngest < MaxRev
      BY <1>q, <2>1 DEF StepOK
    <3>. QED  BY <2>4, <3>2, <3>3, <3>4 DEF StepOK
  <2>9. CASE pc'[q] = then[q] /\ at'[q] = Len(h)
    <3>1. CASE req[q].op = "lock"
      <4>1. pc'[q] = "set" /\ req'[q].path = h /\ Len(locks) < MaxLock /\ req[q].user \in Users
        BY <2>1, <2>4, <2>6, <2>9, <3>1 DEF LockOpInv
      <4>2. LockOpInv(q)'
        BY <2>2, <2>3, <2>4, <2>9, <4>1 DEF LockOpInv
      <4>. QED  BY <3>1, <4>1, <4>2, <2>4 DEF StepOK
    <3>2. CASE req[q].op = "unlock"
      BY <2>4, <2>6, <2>9, <3>2 DEF StepOK
    <3>3. CASE req[q].op = "commit"
      BY <1>q, <2>1, <2>4, <2>6, <2>9, <3>3 DEF StepOK
    <3>. QED  BY <2>1, <3>1, <3>2, <3>3
  <2>. QED  BY <2>5, <2>7, <2>8, <2>9
<1>5. ASSUME NEW p \in Procs, SetOwn(p)  PROVE StepOK(q)'
  <2>. DEFINE h == req[q].path
  <2>1. p = q /\ pc[q] = "set" /\ req[q].op = "lock" /\ LockOpInv(q) /\ at[q] = Len(h)
    BY <1>0, <1>5, <1>q, Writer DEF SetOwn, StepOK, HoldOK
  <2>2. h \in Files /\ h \in Paths /\ Len(h) \in Nat /\ Len(h) > 0 /\ req[q].user \in Users
    BY <2>1, FileType DEF LockOpInv
  <2>3. UNCHANGED <<pc, req, acked>> /\ at'[q] = Len(h) - 1
    BY <1>5, <1>t, <2>1 DEF SetOwn
  <2>4. Len(locks') = Len(locks) + 1
    <3>1. locks \in Seq([path : Files, owner : Users, expires : BOOLEAN])
      BY <1>0 DEF TypeOK
    <3>. QED  BY <1>5, <3>1 DEF SetOwn
  <2>5. disk'[h].lock = Len(locks) + 1
    BY <1>5, <1>t, <2>1, <2>2 DEF SetOwn
  <2>6. at'[q] <= Len(h) /\ at'[q] # Len(h) /\ Len(locks') # 0
    BY <1>t, <2>2, <2>3, <2>4
  <2>7. Len(locks') \notin acked'
    BY <1>t, <2>3, <2>4
  <2>8. LockOpInv(q)'
    BY <2>1, <2>2, <2>3, <2>4, <2>5, <2>6, <2>7 DEF LockOpInv
  <2>. QED  BY <2>1, <2>3, <2>8 DEF StepOK
<1>6. ASSUME NEW p \in Procs, SetEntry(p)  PROVE StepOK(q)'
  <2>. DEFINE h == req[q].path
  <2>1. p = q /\ pc[q] = "set" /\ req[q].op = "lock" /\ LockOpInv(q) /\ at[q] < Len(h)
    BY <1>0, <1>6, <1>q, Writer DEF SetEntry, StepOK, HoldOK
  <2>2. h \in Files /\ h \in Paths /\ Len(h) \in Nat /\ req[q].user \in Users
    BY <2>1, FileType DEF LockOpInv
  <2>3. UNCHANGED <<req, locks, acked>>
    BY <1>6 DEF SetEntry
  <2>4. disk'[h].lock = disk[h].lock
    BY <1>6, <1>t, <2>2 DEF SetEntry
  <2>5. pc'[q] = "done" \/ (pc'[q] = "set" /\ at'[q] = at[q] - 1)
    BY <1>6, <1>t, <2>1 DEF SetEntry, Goto
  <2>6. CASE pc'[q] = "done"
    <3>1. LockOpInv(q)'
      BY <2>1, <2>2, <2>3, <2>4, <2>6 DEF LockOpInv
    <3>. QED  BY <2>1, <2>3, <2>6, <3>1 DEF StepOK
  <2>7. CASE pc'[q] = "set" /\ at'[q] = at[q] - 1
    <3>1. at'[q] <= Len(h) /\ at'[q] # Len(h)
      BY <1>t, <2>1, <2>2, <2>7
    <3>2. LockOpInv(q)'
      BY <2>1, <2>2, <2>3, <2>4, <2>7, <3>1 DEF LockOpInv
    <3>. QED  BY <2>1, <2>3, <2>7, <3>2 DEF StepOK
  <2>. QED  BY <2>5, <2>6, <2>7
<1>7. ASSUME NEW p \in Procs, LockBody(p)  PROVE StepOK(q)'
  <2>. DEFINE h == req[q].path
              old == disk[h].lock
  <2>1. p = q /\ pc[q] = "body" /\ req[q].op = "lock" /\ req[q] \in Asked /\ LockOpInv(q)
    BY <1>0, <1>7, <1>q, Writer DEF LockBody, StepOK
  <2>2. UNCHANGED <<req, lockVars, past, acked>>
    BY <1>7 DEF LockBody
  <2>3. Lockable(req[q]) => /\ h \in Files /\ req[q].user \in Users /\ Len(h) \in Nat
                            /\ h \in Paths
    BY <2>1, RequestType, FileType DEF Lockable
  <2>4. Len(locks) < MaxLock
    BY <2>1 DEF LockOpInv
  <2>5. \/ pc'[q] = "fail"
        \/ Lockable(req[q]) /\ old = NoLock /\ pc'[q] = "set" /\ at'[q] = Len(h)
        \/ /\ Lockable(req[q]) /\ old # NoLock /\ (old \in past \/ req[q].steal)
           /\ pc'[q] = "delete" /\ victim'[q] = h /\ at'[q] = Len(h) /\ then'[q] = "set"
    BY <1>7, <1>t, <2>1 DEF LockBody, StartSet, StartDelete, Goto
  <2>6. CASE pc'[q] = "fail"
    BY <2>6 DEF StepOK, LockOpInv
  <2>7. CASE Lockable(req[q]) /\ old = NoLock /\ pc'[q] = "set" /\ at'[q] = Len(h)
    <3>1. LockOpInv(q)'
      BY <2>2, <2>3, <2>4, <2>7 DEF LockOpInv
    <3>. QED  BY <2>1, <2>2, <2>7, <3>1 DEF StepOK
  <2>8. CASE /\ Lockable(req[q]) /\ old # NoLock /\ (old \in past \/ req[q].steal)
             /\ pc'[q] = "delete" /\ victim'[q] = h /\ at'[q] = Len(h) /\ then'[q] = "set"
    <3>1. LockOpInv(q)'
      BY <2>2, <2>3, <2>4, <2>8 DEF LockOpInv
    <3>2. DeleteOpInv(q)'
      BY <2>1, <2>2, <2>3, <2>8 DEF DeleteOpInv
    <3>. QED  BY <2>1, <2>2, <2>8, <3>1, <3>2 DEF StepOK
  <2>. QED  BY <2>5, <2>6, <2>7, <2>8
<1>8. ASSUME NEW p \in Procs, UnlockBody(p)  PROVE StepOK(q)'
  <2>. DEFINE h == req[q].path
              old == disk[h].lock
  <2>1. p = q /\ req[q].op = "unlock" /\ req[q] \in Asked
    BY <1>0, <1>8, Writer DEF UnlockBody
  <2>2. UNCHANGED <<req, lockVars, past>>
    BY <1>8 DEF UnlockBody
  <2>3. h \in Files /\ Len(h) \in Nat
    BY <2>1, RequestType, FileType
  <2>4. \/ pc'[q] = "fail"
        \/ /\ old # NoLock /\ (old \in past \/ MayUnlock(req[q], old))
           /\ pc'[q] = "delete" /\ victim'[q] = h /\ at'[q] = Len(h) /\ then'[q] \in {"done", "fail"}
    BY <1>8, <1>t, <2>1 DEF UnlockBody, StartDelete, Goto
  <2>5. pc'[q] = "delete" => DeleteOpInv(q)'
    BY <2>1, <2>2, <2>3, <2>4 DEF DeleteOpInv, MayUnlock
  <2>. QED  BY <2>1, <2>2, <2>5 DEF StepOK
<1>9. ASSUME NEW p \in Procs, VerifyBegin(p)  PROVE StepOK(q)'
  BY <1>0, <1>9, <1>t, <1>q, Writer DEF VerifyBegin, Goto, StepOK
<1>10. ASSUME NEW p \in Procs, NEW v \in todo[p], VerifyStep(p, v)  PROVE StepOK(q)'
  <2>. DEFINE i == disk[v[1]].lock
  <2>1. p = q /\ pc[q] = "walk" /\ req[q].op = "commit"
    BY <1>0, <1>10, Writer DEF VerifyStep
  <2>2. UNCHANGED <<req, lockVars, past, youngest>> /\ youngest < MaxRev
    BY <1>10, <1>q, <2>1 DEF VerifyStep, StepOK
  <2>3. v[1] \in Paths /\ (i # NoLock => v[1] \in Files /\ Len(v[1]) \in Nat)
    BY <1>0, RestType, LockType, FileType
  <2>4. \/ pc'[q] \in {"walk", "fail"}
        \/ /\ i # NoLock /\ i \in past
           /\ pc'[q] = "delete" /\ victim'[q] = v[1] /\ at'[q] = Len(v[1]) /\ then'[q] = "walk"
    BY <1>10, <1>t, <2>1 DEF VerifyStep, StartDelete, Goto
  <2>5. pc'[q] = "delete" => DeleteOpInv(q)'
    BY <2>1, <2>2, <2>3, <2>4 DEF DeleteOpInv
  <2>. QED  BY <2>1, <2>2, <2>5 DEF StepOK
<1>11. ASSUME NEW p \in Procs, Commit(p)  PROVE StepOK(q)'
  BY <1>0, <1>11, <1>t, Writer DEF Commit, Goto, StepOK
<1>12. ASSUME NEW p \in Procs, NEW v \in todo[p], ReadStep(p, v)  PROVE StepOK(q)'
  BY <1>12, <1>q, SameBody DEF ReadStep
<1>13. ASSUME NEW p \in Procs, ReadEnd(p)  PROVE StepOK(q)'
  <2>1. CASE p = q
    BY <1>13, <1>t, <2>1 DEF ReadEnd, Goto, StepOK
  <2>2. CASE p # q
    BY <1>13, <1>t, <1>q, <2>2, SameBody DEF ReadEnd, Goto
  <2>. QED  BY <2>1, <2>2
<1>14. ASSUME NEW i \in Ids, Expire(i)  PROVE StepOK(q)'
  BY <1>14, <1>q, SameBody DEF Expire
<1>. QED
  BY <1>1, <1>2, <1>3, <1>4, <1>5, <1>6, <1>7, <1>8, <1>9, <1>10, <1>11, <1>12, <1>13, <1>14 DEF Next, Step

--------------------------------------------------------------------------------
(* Who lists a file *)

\* Only the holder of the write lock writes digest files.
LEMMA OneWriter ==
  ASSUME TypeOK, HoldInv, NEW p \in Procs, NEW f, Setting(p, f) \/ Deleting(p, f)
  PROVE  writeLock = p
  BY Writer DEF Setting, Deleting

\* A step that does not concern f.
LEMMA FileKept ==
  ASSUME NEW f \in Files,
         \A k \in 0 .. Len(f) - 1 : Lists(f, k)' <=> Lists(f, k),
         disk'[f].lock = disk[f].lock,
         disk'[f].lock \in acked' => disk[f].lock \in acked,
         \A q \in Procs : /\ Setting(q, f)' <=> Setting(q, f)
                          /\ Deleting(q, f)' <=> Deleting(q, f)
                          /\ Setting(q, f) \/ Deleting(q, f) => at'[q] = at[q] /\ at[q] \in Nat
                          /\ pc'[q] = "done" /\ req'[q].op = "lock" /\ req'[q].path = f =>
                               pc[q] = "done" /\ req[q].op = "lock" /\ req[q].path = f
  PROVE  (Up(f) => Up(f)') /\ (Down(f) => Down(f)')
<1>0. Len(f) \in Nat
  BY FileType
<1>1. Full(f)' <=> Full(f)
  BY DEF Full
<1>2. ASSUME Up(f)  PROVE Up(f)'
  <2>1. (\A q \in Procs : ~Setting(q, f)') =>
          /\ disk'[f].lock # NoLock => Full(f)'
          /\ \A k \in 0 .. Len(f) - 1 : Lists(f, k)' => \A m \in 0..k : Lists(f, m)'
    BY <1>0, <1>1, <1>2 DEF Up
  <2>2. ASSUME NEW q \in Procs, Setting(q, f)'
        PROVE  /\ \A m \in 0 .. Len(f) - 1 : m > at'[q] => Lists(f, m)'
               /\ \A k \in 0..at'[q] : Lists(f, k)' => \A m \in 0..k : Lists(f, m)'
    <3>1. Setting(q, f) /\ at'[q] = at[q] /\ at[q] < Len(f) /\ at[q] \in Nat
      BY <2>2 DEF Setting
    <3>. QED  BY <1>0, <1>2, <3>1 DEF Up
  <2>3. ASSUME NEW q \in Procs, Deleting(q, f)'
        PROVE  \A k \in 0 .. Len(f) - 1 : Lists(f, k)' <=> k <= at'[q]
    BY <1>0, <1>2, <2>3 DEF Up
  <2>. QED  BY <2>1, <2>2, <2>3 DEF Up
<1>3. ASSUME Down(f)  PROVE Down(f)'
  <2>1. (\A q \in Procs : ~Deleting(q, f)') =>
          /\ disk'[f].lock = NoLock => \A k \in 0 .. Len(f) - 1 : ~Lists(f, k)'
          /\ \A k \in 0 .. Len(f) - 1 : Lists(f, k)' => \A m \in k .. Len(f) - 1 : Lists(f, m)'
    BY <1>0, <1>3 DEF Down
  <2>2. disk'[f].lock \in acked' => Full(f)'
    BY <1>1, <1>3 DEF Down
  <2>3. ASSUME NEW q \in Procs, Setting(q, f)'
        PROVE  \A k \in 0 .. Len(f) - 1 : Lists(f, k)' <=> k > at'[q]
    BY <1>0, <1>3, <2>3 DEF Down
  <2>4. ASSUME NEW q \in Procs, Deleting(q, f)'
        PROVE  /\ \A k \in 0 .. Len(f) - 1 : k > at'[q] => ~Lists(f, k)'
               /\ \A k \in 0..at'[q] : Lists(f, k)' => \A m \in k..at'[q] : Lists(f, m)'
    <3>1. Deleting(q, f) /\ at'[q] = at[q] /\ at[q] < Len(f) /\ at[q] \in Nat
      BY <2>4 DEF Deleting
    <3>. QED  BY <1>0, <1>3, <3>1 DEF Down
  <2>5. \A q \in Procs : pc'[q] = "done" /\ req'[q].op = "lock" /\ req'[q].path = f => Full(f)'
    BY <1>1, <1>3 DEF Down
  <2>. QED  BY <2>1, <2>2, <2>3, <2>4, <2>5 DEF Down
<1>. QED  BY <1>2, <1>3

\* A step of p that writes no digest file, neither within set_lock or delete_lock
\* before it nor after it, and does not grant a lock.
LEMMA ListKept ==
  ASSUME TypeOK, ListInv, UNCHANGED <<disk, acked>>, cutSet => cutSet', cutDel => cutDel', NEW p,
         \A q \in Procs : q # p => UNCHANGED <<pc[q], req[q], at[q], victim[q]>>,
         p \in Procs => \A f \in Files :
           /\ ~Setting(p, f) /\ ~Deleting(p, f) /\ ~Setting(p, f)' /\ ~Deleting(p, f)'
           /\ ~(pc'[p] = "done" /\ req'[p].op = "lock" /\ req'[p].path = f)
  PROVE  ListInv'
<1>. SUFFICES ASSUME NEW f \in Files  PROVE (~cutSet' => Up(f)') /\ (~cutDel' => Down(f)')
  BY DEF ListInv
<1>1. ASSUME NEW q \in Procs
      PROVE  /\ Setting(q, f)' <=> Setting(q, f)
             /\ Deleting(q, f)' <=> Deleting(q, f)
             /\ Setting(q, f) \/ Deleting(q, f) => at'[q] = at[q] /\ at[q] \in Nat
             /\ pc'[q] = "done" /\ req'[q].op = "lock" /\ req'[q].path = f =>
                  pc[q] = "done" /\ req[q].op = "lock" /\ req[q].path = f
  <2>1. at[q] \in Nat
    BY DEF TypeOK
  <2>2. CASE q = p
    BY <2>2
  <2>3. CASE q # p
    BY <2>1, <2>3 DEF Setting, Deleting
  <2>. QED  BY <2>2, <2>3
<1>2. \A k \in 0 .. Len(f) - 1 : Lists(f, k)' <=> Lists(f, k)
  BY DEF Lists
<1>3. (Up(f) => Up(f)') /\ (Down(f) => Down(f)')
  BY <1>1, <1>2, FileKept
<1>. QED  BY <1>3 DEF ListInv

\* set_lock at the lock's own file: nothing lists it yet, or what a dead
\* delete_lock has left does.
LEMMA ListSetOwn ==
  ASSUME IInv, TypeOK', HoldInv', NEW p \in Procs, SetOwn(p)
  PROVE  ListInv'
<1>. SUFFICES ASSUME NEW h, h = req[p].path  PROVE ListInv'
  OBVIOUS
<1>0. TypeOK /\ HoldInv /\ StepInv /\ ListInv
  BY DEF IInv
<1>t. /\ at \in [Procs -> Nat] /\ Len(locks) \in Nat /\ acked \subseteq 1..Len(locks)
      /\ disk \in [Paths -> [lock : {NoLock} \cup Ids, kids : SUBSET Files]]
  BY <1>0, Types
<1>1. /\ pc[p] = "set" /\ req[p].op = "lock" /\ LockOpInv(p) /\ at[p] = Len(h)
      /\ \A q \in Procs : q # p => /\ pc[q] \in {"idle", "walk", "done", "fail"}
                                   /\ pc[q] # "idle" => req[q].op \in {"get_lock", "get_locks"}
  BY <1>0, Writer DEF SetOwn, StepInv, StepOK, HoldInv, HoldOK
<1>2. h \in Files /\ h \in Paths /\ Len(h) \in Nat /\ Len(h) > 0 /\ disk[h].lock = NoLock
  BY <1>1, FileType DEF LockOpInv
<1>3. UNCHANGED <<pc, req, acked, victim, cutSet, cutDel>> /\ at' = [at EXCEPT ![p] = Len(h) - 1]
  BY <1>1, <1>t DEF SetOwn, ghostVars
<1>4. /\ \A a \in Paths : disk'[a].kids = disk[a].kids
      /\ \A a \in Paths : a # h => disk'[a].lock = disk[a].lock
      /\ disk'[h].lock = Len(locks) + 1
  BY <1>t, <1>2 DEF SetOwn
<1>5. \A f \in Files : \A k \in 0 .. Len(f) - 1 : Lists(f, k)' <=> Lists(f, k)
  BY <1>4, FileType DEF Lists
<1>6. \A f \in Files : \A q \in Procs :
        /\ ~Setting(q, f) /\ ~Deleting(q, f) /\ ~Deleting(q, f)'
        /\ Setting(q, f)' <=> q = p /\ f = h
  <2>. SUFFICES ASSUME NEW f \in Files, NEW q \in Procs
                PROVE  /\ ~Setting(q, f) /\ ~Deleting(q, f) /\ ~Deleting(q, f)'
                       /\ Setting(q, f)' <=> q = p /\ f = h
    OBVIOUS
  <2>1. CASE q = p
    BY <1>1, <1>2, <1>3, <1>t, <2>1 DEF Setting, Deleting
  <2>2. CASE q # p
    BY <1>1, <1>3, <2>2 DEF Setting, Deleting
  <2>. QED  BY <2>1, <2>2
<1>7. \A q \in Procs : ~(pc'[q] = "done" /\ req'[q].op = "lock")
  BY <1>1, <1>3
<1>8. ASSUME NEW f \in Files, f # h  PROVE (~cutSet' => Up(f)') /\ (~cutDel' => Down(f)')
  <2>1. disk'[f].lock = disk[f].lock
    BY <1>4, <1>8, FileType
  <2>2. (Up(f) => Up(f)') /\ (Down(f) => Down(f)')
    BY <1>3, <1>5, <1>6, <1>7, <1>8, <2>1, FileKept
  <2>. QED  BY <1>0, <1>3, <2>2 DEF ListInv
<1>9. ASSUME ~cutSet'  PROVE Up(h)'
  <2>1. \A k \in 0 .. Len(h) - 1 : Lists(h, k) => \A m \in 0..k : Lists(h, m)
    BY <1>0, <1>2, <1>3, <1>6, <1>9 DEF ListInv, Up
  <2>2. at'[p] = Len(h) - 1
    BY <1>3, <1>t
  <2>. QED  BY <1>2, <1>5, <1>6, <2>1, <2>2 DEF Up
<1>10. ASSUME ~cutDel'  PROVE Down(h)'
  <2>1. \A k \in 0 .. Len(h) - 1 : ~Lists(h, k)'
    BY <1>0, <1>2, <1>3, <1>5, <1>6, <1>10 DEF ListInv, Down
  <2>2. at'[p] = Len(h) - 1 /\ disk'[h].lock \notin acked' /\ disk'[h].lock # NoLock
    BY <1>3, <1>4, <1>t DEF NoLock
  <2>3. \A k \in 0 .. Len(h) - 1 : ~(k > Len(h) - 1)
    BY <1>2
  <2>4. \A q \in Procs : Setting(q, h)' => \A k \in 0 .. Len(h) - 1 : Lists(h, k)' <=> k > at'[q]
    BY <1>2, <1>6, <2>1, <2>2, <2>3
  <2>. QED  BY <1>2, <1>6, <1>7, <2>1, <2>2, <2>4 DEF Down
<1>. QED  BY <1>8, <1>9, <1>10 DEF ListInv

\* set_lock at a directory above: it fills the gap from below, and stops where what
\* a dead delete_lock has left begins.
LEMMA ListSetEntry ==
  ASSUME IInv, TypeOK', HoldInv', NEW p \in Procs, SetEntry(p)
  PROVE  ListInv'
<1>. SUFFICES ASSUME NEW h, h = req[p].path, NEW n, n = at[p]  PROVE ListInv'
  OBVIOUS
<1>0. TypeOK /\ HoldInv /\ StepInv /\ ListInv
  BY DEF IInv
<1>t. /\ at \in [Procs -> Nat] /\ pc \in [Procs -> Steps]
      /\ Len(locks) \in Nat /\ acked \subseteq 1..Len(locks)
      /\ disk \in [Paths -> [lock : {NoLock} \cup Ids, kids : SUBSET Files]]
  BY <1>0, Types
<1>1. /\ pc[p] = "set" /\ req[p].op = "lock" /\ LockOpInv(p) /\ n < Len(h) /\ n \in Nat
      /\ \A q \in Procs : q # p => /\ pc[q] \in {"idle", "walk", "done", "fail"}
                                   /\ pc[q] # "idle" => req[q].op \in {"get_lock", "get_locks"}
  BY <1>0, <1>t, Writer DEF SetEntry, StepInv, StepOK, HoldInv, HoldOK
<1>2. /\ h \in Files /\ h \in Paths /\ Len(h) \in Nat /\ Len(h) > 0 /\ Prefix(h, n) \in Paths
      /\ disk[h].lock = Len(locks) /\ Len(locks) # 0 /\ disk[h].lock \notin acked
  BY <1>1, FileType DEF LockOpInv
<1>3. UNCHANGED <<req, acked, victim, cutSet, cutDel>> /\ disk' = [disk EXCEPT ![Prefix(h, n)].kids = @ \cup {h}]
  BY DEF SetEntry, ghostVars
<1>4. /\ \A a \in Paths : disk'[a].lock = disk[a].lock
      /\ \A a \in Paths : disk'[a].kids = IF a = Prefix(h, n) THEN disk[a].kids \cup {h} ELSE disk[a].kids
  BY <1>t, <1>2, <1>3
<1>5. \A k \in 0 .. Len(h) - 1 : Lists(h, k)' <=> (Lists(h, k) \/ k = n)
  <2>1. ASSUME NEW k \in 0 .. Len(h) - 1  PROVE Prefix(h, k) \in Paths /\ (Prefix(h, k) = Prefix(h, n) <=> k = n)
    <3>1. k \in 0..Len(h) /\ n \in 0..Len(h)
      BY <1>1, <1>2
    <3>2. Prefix(h, k) \in Paths /\ Len(Prefix(h, k)) = k /\ Len(Prefix(h, n)) = n
      BY <1>2, <3>1, FileType
    <3>. QED  BY <3>2
  <2>. QED  BY <1>4, <2>1 DEF Lists
<1>6. \A q \in Procs : q # p => UNCHANGED <<pc[q], at[q]>>
  BY <1>t DEF SetEntry, Goto
<1>7. \/ (Lists(h, n) \/ n = 0) /\ pc'[p] = "done"
      \/ ~Lists(h, n) /\ n # 0 /\ pc'[p] = "set" /\ at'[p] = n - 1
  BY <1>t, <1>1 DEF SetEntry, Goto, Lists
<1>8. ASSUME NEW f \in Files, f # h  PROVE (~cutSet' => Up(f)') /\ (~cutDel' => Down(f)')
  <2>1. \A q \in Procs : /\ ~Setting(q, f) /\ ~Deleting(q, f) /\ ~Setting(q, f)' /\ ~Deleting(q, f)'
                         /\ ~(pc'[q] = "done" /\ req'[q].op = "lock" /\ req'[q].path = f)
    BY <1>1, <1>3, <1>6, <1>7, <1>8 DEF Setting, Deleting
  <2>2. \A k \in 0 .. Len(f) - 1 : Lists(f, k)' <=> Lists(f, k)
    <3>1. \A a \in Paths : f \in disk'[a].kids <=> f \in disk[a].kids
      BY <1>4, <1>8
    <3>2. \A k \in 0 .. Len(f) - 1 : Prefix(f, k) \in Paths
      BY FileType
    <3>. QED  BY <3>1, <3>2 DEF Lists
  <2>3. disk'[f].lock = disk[f].lock
    BY <1>4, FileType
  <2>4. (Up(f) => Up(f)') /\ (Down(f) => Down(f)')
    BY <1>3, <2>1, <2>2, <2>3, FileKept
  <2>. QED  BY <1>0, <1>3, <2>4 DEF ListInv
<1>9. \A q \in Procs : /\ Setting(q, h) <=> q = p
                       /\ ~Deleting(q, h) /\ ~Deleting(q, h)'
                       /\ pc'[q] = "done" /\ req'[q].op = "lock" => q = p
  BY <1>1, <1>3, <1>6, <1>7 DEF Setting, Deleting
<1>10. disk'[h].lock = disk[h].lock /\ disk'[h].lock # NoLock /\ disk'[h].lock \notin acked'
  BY <1>2, <1>3, <1>4 DEF NoLock
<1>u. ASSUME ~cutSet'
      PROVE  /\ \A m \in 0 .. Len(h) - 1 : m > n => Lists(h, m)
             /\ \A k \in 0..n : Lists(h, k) => \A m \in 0..k : Lists(h, m)
  BY <1>0, <1>2, <1>3, <1>9, <1>u DEF ListInv, Up
<1>d. ASSUME ~cutDel'  PROVE \A k \in 0 .. Len(h) - 1 : Lists(h, k) <=> k > n
  BY <1>0, <1>2, <1>3, <1>9, <1>d DEF ListInv, Down
<1>11. CASE (Lists(h, n) \/ n = 0) /\ pc'[p] = "done"
  <2>1. \A q \in Procs : ~Setting(q, h)'
    BY <1>1, <1>6, <1>11 DEF Setting
  <2>2. ASSUME ~cutSet'  PROVE Up(h)'
    <3>1. \A m \in 0 .. Len(h) - 1 : Lists(h, m)'
      BY <1>1, <1>2, <1>5, <1>u, <1>11, <2>2
    <3>. QED  BY <1>2, <1>9, <2>1, <3>1 DEF Up, Full
  <2>3. ASSUME ~cutDel'  PROVE Down(h)'
    <3>1. \A m \in 0 .. Len(h) - 1 : Lists(h, m)'
      BY <1>1, <1>2, <1>5, <1>d, <1>11, <2>3
    <3>. QED  BY <1>2, <1>9, <1>10, <2>1, <3>1 DEF Down, Full
  <2>. QED  BY <1>8, <2>2, <2>3 DEF ListInv
<1>12. CASE ~Lists(h, n) /\ n # 0 /\ pc'[p] = "set" /\ at'[p] = n - 1
  <2>1. \A q \in Procs : Setting(q, h)' <=> q = p
    BY <1>1, <1>2, <1>3, <1>6, <1>12 DEF Setting
  <2>2. ASSUME ~cutSet'  PROVE Up(h)'
    <3>1. \A m \in 0 .. Len(h) - 1 : m > n - 1 => Lists(h, m)'
      BY <1>1, <1>2, <1>5, <1>u, <2>2
    <3>2. ASSUME NEW k \in 0 .. n - 1, Lists(h, k)', NEW m \in 0..k  PROVE Lists(h, m)'
      <4>1. k \in 0 .. Len(h) - 1 /\ m \in 0 .. Len(h) - 1 /\ k \in 0..n /\ k # n
        BY <1>1, <1>2
      <4>2. Lists(h, k)
        BY <1>5, <3>2, <4>1
      <4>3. Lists(h, m)
        BY <1>u, <2>2, <4>1, <4>2
      <4>. QED  BY <1>5, <4>1, <4>3
    <3>. QED  BY <1>9, <1>12, <2>1, <3>1, <3>2 DEF Up
  <2>3. ASSUME ~cutDel'  PROVE Down(h)'
    <3>1. \A k \in 0 .. Len(h) - 1 : Lists(h, k)' <=> k > n - 1
      BY <1>1, <1>2, <1>5, <1>d, <2>3
    <3>2. \A k \in 0 .. Len(h) - 1 : Lists(h, k)' => \A m \in k .. Len(h) - 1 : Lists(h, m)'
      BY <1>1, <1>2, <3>1
    <3>3. \A q \in Procs : ~(pc'[q] = "done" /\ req'[q].op = "lock")
      BY <1>9, <1>12
    <3>. QED  BY <1>9, <1>10, <1>12, <2>1, <3>1, <3>2, <3>3 DEF Down
  <2>. QED  BY <1>8, <2>2, <2>3 DEF ListInv
<1>. QED  BY <1>7, <1>11, <1>12

\* delete_lock at one level: it clears from below, and what a dead set_lock has left
\* ends where it fails.
LEMMA ListDelete ==
  ASSUME IInv, TypeOK', HoldInv', NEW p \in Procs, DeleteStep(p)
  PROVE  /\ ListInv'
         /\ pc'[p] = "fail" => cutSet \/ then[p] = "fail"
<1>. SUFFICES ASSUME NEW h, h = victim[p], NEW n, n = at[p]
              PROVE  /\ ListInv'
                     /\ pc'[p] = "fail" => cutSet \/ then[p] = "fail"
  OBVIOUS
<1>0. TypeOK /\ HoldInv /\ StepInv /\ ListInv
  BY DEF IInv
<1>t. /\ at \in [Procs -> Nat] /\ pc \in [Procs -> Steps]
      /\ Len(locks) \in Nat /\ acked \subseteq 1..Len(locks)
      /\ disk \in [Paths -> [lock : {NoLock} \cup Ids, kids : SUBSET Files]]
  BY <1>0, Types
<1>1. /\ pc[p] = "delete" /\ DeleteOpInv(p) /\ n \in Nat /\ req[p].op \in {"lock", "unlock", "commit"}
      /\ req[p].op = "lock" => then[p] = "set" /\ req[p].path = h
      /\ \A q \in Procs : q # p => /\ pc[q] \in {"idle", "walk", "done", "fail"}
                                   /\ pc[q] # "idle" => req[q].op \in {"get_lock", "get_locks"}
  BY <1>0, <1>t, Writer DEF DeleteStep, StepInv, StepOK, LockOpInv
<1>2. /\ h \in Files /\ h \in Paths /\ Len(h) \in Nat /\ Len(h) > 0 /\ n \in 0..Len(h)
      /\ Prefix(h, n) \in Paths /\ Prefix(h, Len(h)) = h
  BY <1>1, FileType DEF DeleteOpInv
<1>3. UNCHANGED <<req, acked, victim, then, cutSet, cutDel>>
  BY DEF DeleteStep, ghostVars
<1>4. \A q \in Procs : q # p => UNCHANGED <<pc[q], at[q]>>
  BY <1>t DEF DeleteStep, Goto
<1>5. \/ pc'[p] = "fail" /\ disk' = disk /\ Empty(disk[Prefix(h, n)])
      \/ /\ disk' = [disk EXCEPT ![Prefix(h, n)] = Without(disk[Prefix(h, n)], h, n = Len(h))]
         /\ \/ n # 0 /\ pc'[p] = "delete" /\ at'[p] = n - 1
            \/ n = 0 /\ pc'[p] = then[p] /\ at'[p] = Len(h)
  BY <1>t, <1>1 DEF DeleteStep, Goto
<1>6. \A f \in Files : \A q \in Procs :
        /\ ~Setting(q, f) /\ ~Setting(q, f)'
        /\ Deleting(q, f) <=> (q = p /\ f = h /\ n < Len(h))
        /\ Deleting(q, f)' <=> (q = p /\ f = h /\ pc'[p] = "delete" /\ at'[p] < Len(h))
        /\ ~(pc'[q] = "done" /\ req'[q].op = "lock")
  <2>1. ASSUME NEW f \in Files, NEW q \in Procs, q # p
        PROVE  ~Setting(q, f) /\ ~Setting(q, f)' /\ ~Deleting(q, f) /\ ~Deleting(q, f)'
               /\ ~(pc'[q] = "done" /\ req'[q].op = "lock")
    BY <1>1, <1>3, <1>4, <2>1 DEF Setting, Deleting
  <2>2. ASSUME NEW f \in Files
        PROVE  /\ ~Setting(p, f) /\ (Deleting(p, f) <=> (f = h /\ n < Len(h)))
               /\ Deleting(p, f)' <=> (f = h /\ pc'[p] = "delete" /\ at'[p] < Len(h))
    BY <1>1, <1>3 DEF Setting, Deleting
  <2>3. ASSUME pc'[p] = then[p], at'[p] = Len(h), NEW f \in Files
        PROVE  ~Setting(p, f)' /\ ~(pc'[p] = "done" /\ req'[p].op = "lock")
    <3>1. CASE req[p].op = "lock"
      BY <1>1, <1>2, <1>3, <2>3, <3>1 DEF Setting
    <3>2. CASE req[p].op # "lock"
      BY <1>1, <1>3, <2>3, <3>2 DEF Setting, DeleteOpInv
    <3>. QED  BY <3>1, <3>2
  <2>4. \A f \in Files : ~Setting(p, f)' /\ ~(pc'[p] = "done" /\ req'[p].op = "lock")
    <3>1. CASE pc'[p] \in {"fail", "delete"}
      BY <3>1 DEF Setting
    <3>. QED  BY <1>5, <2>3, <3>1
  <2>. QED  BY <2>1, <2>2, <2>4
<1>7. ASSUME NEW f \in Files, f # h  PROVE (~cutSet' => Up(f)') /\ (~cutDel' => Down(f)')
  <2>1. f \in Paths /\ \A k \in 0 .. Len(f) - 1 : Prefix(f, k) \in Paths
    BY FileType
  <2>2. \A a \in Paths : f \in disk'[a].kids <=> f \in disk[a].kids
    BY <1>t, <1>2, <1>5, <1>7 DEF Without
  <2>3. disk'[f].lock = disk[f].lock
    <3>1. n = Len(h) => Prefix(h, n) = h
      BY <1>2
    <3>2. CASE n = Len(h)
      BY <1>t, <1>5, <1>7, <2>1, <3>1, <3>2
    <3>3. CASE n # Len(h)
      BY <1>t, <1>2, <1>5, <2>1, <3>3 DEF Without
    <3>. QED  BY <3>2, <3>3
  <2>4. \A k \in 0 .. Len(f) - 1 : Lists(f, k)' <=> Lists(f, k)
    BY <2>1, <2>2 DEF Lists
  <2>5. (Up(f) => Up(f)') /\ (Down(f) => Down(f)')
    BY <1>3, <1>6, <1>7, <2>3, <2>4, FileKept
  <2>. QED  BY <1>0, <1>3, <2>5 DEF ListInv
<1>8. (~cutSet => Up(h)) /\ (~cutDel => Down(h))
  BY <1>0, <1>2 DEF ListInv
<1>p. \A k \in 0 .. Len(h) - 1 : Prefix(h, k) \in Paths /\ (Prefix(h, k) = Prefix(h, n) <=> k = n)
  BY <1>2, FileType
<1>9. CASE n = Len(h)
  <2>1. Prefix(h, n) = h /\ disk[h].lock # NoLock
    BY <1>1, <1>2, <1>9 DEF DeleteOpInv
  <2>2. disk' = [disk EXCEPT ![h] = Without(disk[h], h, TRUE)] /\ pc'[p] = "delete" /\ at'[p] = Len(h) - 1
    <3>1. ~Empty(disk[Prefix(h, n)])
      BY <2>1 DEF Empty
    <3>2. n # 0 /\ (n = Len(h)) = TRUE
      BY <1>2, <1>9
    <3>. QED  BY <1>5, <1>9, <2>1, <3>1, <3>2
  <2>3. disk'[h].lock = NoLock
    BY <1>t, <1>2, <2>2 DEF Without
  <2>4. \A k \in 0 .. Len(h) - 1 : Lists(h, k)' <=> Lists(h, k)
    <3>1. ASSUME NEW k \in 0 .. Len(h) - 1  PROVE Prefix(h, k) # h
      BY <1>2, <1>9, <1>p, <2>1
    <3>. QED  BY <1>t, <1>p, <2>2, <3>1 DEF Lists
  <2>5. \A q \in Procs : ~Deleting(q, h) /\ (Deleting(q, h)' <=> q = p)
    BY <1>2, <1>6, <1>9, <2>2
  <2>6. ASSUME ~cutSet'  PROVE Up(h)'
    <3>1. \A k \in 0 .. Len(h) - 1 : Lists(h, k)
      BY <1>2, <1>3, <1>6, <1>8, <2>1, <2>6 DEF Up, Full
    <3>2. \A k \in 0 .. Len(h) - 1 : Lists(h, k)'
      BY <2>4, <3>1
    <3>3. \A k \in 0 .. Len(h) - 1 : \A m \in 0..k : Lists(h, m)'
      BY <1>2, <3>2
    <3>4. \A k \in 0 .. Len(h) - 1 : k <= at'[p]
      BY <1>2, <2>2
    <3>. QED  BY <1>2, <1>6, <2>3, <2>5, <3>2, <3>3, <3>4 DEF Up
  <2>7. ASSUME ~cutDel'  PROVE Down(h)'
    <3>1. \A k \in 0 .. Len(h) - 1 : Lists(h, k) => \A m \in k .. Len(h) - 1 : Lists(h, m)
      BY <1>3, <1>8, <2>5, <2>7 DEF Down
    <3>2. \A k \in 0..at'[p] : Lists(h, k)' => \A m \in k..at'[p] : Lists(h, m)'
      BY <1>2, <2>2, <2>4, <3>1
    <3>3. \A k \in 0 .. Len(h) - 1 : ~(k > at'[p])
      BY <1>2, <2>2
    <3>4. disk'[h].lock \notin acked'
      BY <1>t, <1>3, <2>3 DEF NoLock
    <3>. QED  BY <1>2, <1>6, <2>5, <3>2, <3>3, <3>4 DEF Down
  <2>. QED  BY <1>7, <2>2, <2>6, <2>7 DEF ListInv
<1>10. CASE n < Len(h)
  <2>1. disk[h].lock = NoLock /\ disk[h].lock \notin acked
    BY <1>t, <1>1, <1>2, <1>10 DEF DeleteOpInv, NoLock
  <2>2. disk'[h].lock = NoLock /\ disk'[h].lock \notin acked'
    BY <1>t, <1>2, <1>3, <1>5, <2>1 DEF Without
  <2>3. Deleting(p, h)
    BY <1>2, <1>6, <1>10
  <2>u. ASSUME ~cutSet'  PROVE \A k \in 0 .. Len(h) - 1 : Lists(h, k) <=> k <= n
    BY <1>3, <1>8, <2>3, <2>u DEF Up
  <2>d. ASSUME ~cutDel'
        PROVE  /\ \A k \in 0 .. Len(h) - 1 : k > n => ~Lists(h, k)
               /\ \A k \in 0..n : Lists(h, k) => \A m \in k..n : Lists(h, m)
    BY <1>3, <1>8, <2>3, <2>d DEF Down
  <2>4. ASSUME \A k \in 0 .. Len(h) - 1 : ~Lists(h, k)', \A q \in Procs : ~Deleting(q, h)'
        PROVE  Up(h)' /\ Down(h)'
    BY <1>2, <1>6, <2>2, <2>4 DEF Up, Down
  <2>5. CASE pc'[p] = "fail" /\ disk' = disk /\ Empty(disk[Prefix(h, n)])
    <3>1. ~Lists(h, n)
      BY <2>5 DEF Lists, Empty
    <3>2. cutSet
      BY <1>2, <1>3, <1>10, <2>u, <3>1
    <3>3. ASSUME ~cutDel'  PROVE \A k \in 0 .. Len(h) - 1 : ~Lists(h, k)
      BY <1>2, <1>10, <2>d, <3>1, <3>3
    <3>4. \A k \in 0 .. Len(h) - 1 : Lists(h, k)' <=> Lists(h, k)
      BY <2>5 DEF Lists
    <3>5. \A q \in Procs : ~Deleting(q, h)'
      BY <1>2, <1>6, <2>5
    <3>6. ~cutDel' => Down(h)'
      BY <2>4, <3>3, <3>4, <3>5
    <3>. QED  BY <1>3, <1>7, <3>2, <3>6 DEF ListInv
  <2>6. CASE disk' = [disk EXCEPT ![Prefix(h, n)] = Without(disk[Prefix(h, n)], h, n = Len(h))]
    <3>1. \A k \in 0 .. Len(h) - 1 : Lists(h, k)' <=> (Lists(h, k) /\ k # n)
      BY <1>t, <1>2, <1>p, <2>6 DEF Lists, Without
    <3>2. CASE n # 0 /\ pc'[p] = "delete" /\ at'[p] = n - 1
      <4>1. \A q \in Procs : Deleting(q, h)' <=> q = p
        BY <1>2, <1>6, <1>10, <3>2
      <4>2. ASSUME ~cutSet'  PROVE Up(h)'
        <5>1. \A k \in 0 .. Len(h) - 1 : Lists(h, k)' <=> k <= n - 1
          BY <1>2, <2>u, <3>1, <4>2
        <5>2. \A k \in 0 .. Len(h) - 1 : Lists(h, k)' => \A m \in 0..k : Lists(h, m)'
          BY <1>2, <5>1
        <5>. QED  BY <1>2, <1>6, <2>2, <3>2, <4>1, <5>1, <5>2 DEF Up
      <4>3. ASSUME ~cutDel'  PROVE Down(h)'
        <5>1. \A k \in 0 .. Len(h) - 1 : k > n - 1 => ~Lists(h, k)'
          BY <1>2, <2>d, <3>1, <4>3
        <5>2. \A k \in 0 .. n - 1 : Lists(h, k)' => \A m \in k .. n - 1 : Lists(h, m)'
          BY <1>2, <1>10, <2>d, <3>1, <4>3
        <5>. QED  BY <1>2, <1>6, <2>2, <3>2, <4>1, <5>1, <5>2 DEF Down
      <4>. QED  BY <1>7, <3>2, <4>2, <4>3 DEF ListInv
    <3>3. CASE n = 0 /\ pc'[p] = then[p] /\ at'[p] = Len(h)
      <4>1. \A q \in Procs : ~Deleting(q, h)'
        BY <1>2, <1>6, <3>3
      <4>2. ASSUME ~cutSet' \/ ~cutDel'  PROVE \A k \in 0 .. Len(h) - 1 : ~Lists(h, k)'
        BY <1>2, <2>u, <2>d, <3>1, <3>3, <4>2
      <4>. QED  BY <1>7, <2>4, <3>3, <4>1, <4>2 DEF ListInv
    <3>4. CASE pc'[p] = "fail" /\ disk' = disk /\ Empty(disk[Prefix(h, n)])
      BY <2>5, <3>4
    <3>. QED  BY <1>5, <3>2, <3>3, <3>4
  <2>. QED  BY <1>5, <2>5, <2>6
<1>. QED  BY <1>2, <1>9, <1>10

\* A call that grants its lock has it listed everywhere.
LEMMA ListReturn ==
  ASSUME IInv, TypeOK', NEW p \in Procs, Return(p)
  PROVE  ListInv'
<1>0. TypeOK /\ HoldInv /\ StepInv /\ ListInv /\ DiskInv
  BY DEF IInv
<1>t. /\ at \in [Procs -> Nat] /\ pc \in [Procs -> Steps] /\ req \in [Procs -> Asked \cup {Nothing}]
      /\ victim \in [Procs -> Paths]
  BY <1>0 DEF TypeOK
<1>1. /\ UNCHANGED <<disk, cutSet, cutDel>> /\ pc'[p] = "idle" /\ pc[p] \in {"done", "fail"}
      /\ \A q \in Procs : q # p => UNCHANGED <<pc[q], req[q], at[q], victim[q]>>
  BY <1>t DEF Return, Goto, ghostVars, lockVars
<1>. SUFFICES ASSUME NEW f \in Files  PROVE (~cutSet' => Up(f)') /\ (~cutDel' => Down(f)')
  BY DEF ListInv
<1>2. \A k \in 0 .. Len(f) - 1 : Lists(f, k)' <=> Lists(f, k)
  BY <1>1 DEF Lists
<1>3. ASSUME NEW q \in Procs
      PROVE  /\ Setting(q, f)' <=> Setting(q, f)
             /\ Deleting(q, f)' <=> Deleting(q, f)
             /\ Setting(q, f) \/ Deleting(q, f) => at'[q] = at[q] /\ at[q] \in Nat
             /\ pc'[q] = "done" /\ req'[q].op = "lock" /\ req'[q].path = f =>
                  pc[q] = "done" /\ req[q].op = "lock" /\ req[q].path = f
  <2>1. at[q] \in Nat
    BY <1>t
  <2>2. CASE q = p
    BY <1>1, <2>2 DEF Setting, Deleting
  <2>3. CASE q # p
    BY <1>1, <2>1, <2>3 DEF Setting, Deleting
  <2>. QED  BY <2>2, <2>3
<1>4. CASE disk[f].lock \in acked' => disk[f].lock \in acked
  <2>1. (Up(f) => Up(f)') /\ (Down(f) => Down(f)')
    BY <1>1, <1>2, <1>3, <1>4, FileKept
  <2>. QED  BY <1>0, <1>1, <2>1 DEF ListInv
<1>5. CASE disk[f].lock \in acked' /\ disk[f].lock \notin acked
  <2>1. pc[p] = "done" /\ req[p].op = "lock" /\ disk[f].lock = Len(locks)
    BY <1>5 DEF Return
  <2>2. disk[req[p].path].lock = Len(locks) /\ Len(locks) # 0 /\ req[p].path \in Files
    BY <1>0, <2>1 DEF StepInv, StepOK, LockOpInv
  <2>3. req[p].path = f
    <3>1. f \in Paths /\ req[p].path \in Paths
      BY <2>2, FileType
    <3>. QED  BY <2>1, <2>2, <3>1, <1>0 DEF DiskInv, NoLock
  <2>4. ASSUME ~cutSet'  PROVE Up(f)'
    <3>1. Up(f)
      BY <1>0, <1>1, <2>4 DEF ListInv
    <3>2. \A q \in Procs : ~Setting(q, f) /\ ~Deleting(q, f)
      BY <1>0, <2>1, Writer DEF Setting, Deleting
    <3>3. \A k \in 0 .. Len(f) - 1 : Lists(f, k)' => \A m \in 0..k : Lists(f, m)'
      <4>1. Len(f) \in Nat
        BY FileType
      <4>. QED  BY <1>2, <3>1, <3>2, <4>1 DEF Up
    <3>4. Full(f)'
      BY <1>2, <2>1, <2>2, <3>1, <3>2 DEF Up, Full, NoLock
    <3>. QED  BY <1>3, <3>2, <3>3, <3>4 DEF Up
  <2>5. ASSUME ~cutDel'  PROVE Down(f)'
    <3>1. Down(f)
      BY <1>0, <1>1, <2>5 DEF ListInv
    <3>2. \A q \in Procs : ~Setting(q, f) /\ ~Deleting(q, f)
      BY <1>0, <2>1, Writer DEF Setting, Deleting
    <3>3. \A k \in 0 .. Len(f) - 1 : Lists(f, k)'
      BY <1>2, <2>1, <2>3, <3>1 DEF Down, Full
    <3>4. disk'[f].lock # NoLock /\ Len(f) \in Nat
      BY <1>1, <2>1, <2>2, FileType DEF NoLock
    <3>5. \A k \in 0 .. Len(f) - 1 : \A m \in k .. Len(f) - 1 : Lists(f, m)'
      BY <3>3, <3>4
    <3>. QED  BY <1>3, <3>2, <3>3, <3>4, <3>5 DEF Down, Full
  <2>. QED  BY <2>4, <2>5
<1>. QED  BY <1>4, <1>5

\* A process that dies within set_lock leaves a path listed below and not above; one
\* that dies within delete_lock, above and not below.
LEMMA ListCrash ==
  ASSUME IInv, TypeOK', NEW p \in Procs, Crash(p)
  PROVE  ListInv'
<1>0. TypeOK /\ HoldInv /\ StepInv /\ ListInv
  BY DEF IInv
<1>t. /\ at \in [Procs -> Nat] /\ pc \in [Procs -> Steps] /\ req \in [Procs -> Asked \cup {Nothing}]
      /\ victim \in [Procs -> Paths]
  BY <1>0 DEF TypeOK
<1>1. /\ UNCHANGED <<disk, acked>> /\ pc'[p] = "idle"
      /\ \A q \in Procs : q # p => UNCHANGED <<pc[q], req[q], at[q], victim[q]>>
  BY <1>t DEF Crash, Goto, lockVars
<1>2. cutSet' <=> (cutSet \/ (pc[p] = "set" /\ at[p] < Len(req[p].path)))
  BY DEF Crash
<1>3. cutDel' <=> (cutDel \/ (pc[p] = "delete" /\ at[p] < Len(victim[p])))
  BY DEF Crash
<1>4. CASE ~(pc[p] = "set" /\ at[p] < Len(req[p].path)) /\ ~(pc[p] = "delete" /\ at[p] < Len(victim[p]))
  <2>1. \A f \in Files : /\ ~Setting(p, f) /\ ~Deleting(p, f) /\ ~Setting(p, f)' /\ ~Deleting(p, f)'
                         /\ ~(pc'[p] = "done" /\ req'[p].op = "lock" /\ req'[p].path = f)
    BY <1>1, <1>4 DEF Setting, Deleting
  <2>. QED  BY <1>0, <1>1, <1>2, <1>3, <2>1, ListKept
<1>5. ASSUME pc[p] \in {"set", "delete"}, NEW f \in Files, ~Setting(p, f), ~Deleting(p, f)
      PROVE  (~cutSet' => Up(f)') /\ (~cutDel' => Down(f)')
  <2>1. \A q \in Procs : /\ ~Setting(q, f) /\ ~Setting(q, f)'
                         /\ ~Deleting(q, f) /\ ~Deleting(q, f)'
                         /\ ~(pc'[q] = "done" /\ req'[q].op = "lock")
    <3>1. \A q \in Procs : q # p => /\ pc[q] \in {"idle", "walk", "done", "fail"}
                                    /\ pc[q] # "idle" => req[q].op \in {"get_lock", "get_locks"}
      BY <1>0, <1>5, Writer
    <3>. QED  BY <1>1, <1>5, <3>1 DEF Setting, Deleting
  <2>2. \A k \in 0 .. Len(f) - 1 : Lists(f, k)' <=> Lists(f, k)
    BY <1>1 DEF Lists
  <2>3. (Up(f) => Up(f)') /\ (Down(f) => Down(f)')
    BY <1>1, <2>1, <2>2, FileKept
  <2>. QED  BY <1>0, <1>2, <1>3, <2>3 DEF ListInv
<1>6. CASE pc[p] = "set" /\ at[p] < Len(req[p].path)
  <2>. SUFFICES ASSUME NEW f \in Files, f = req[p].path  PROVE (~cutSet' => Up(f)') /\ (~cutDel' => Down(f)')
    BY <1>5, <1>6 DEF ListInv, Setting, Deleting
  <2>1. cutSet' /\ Setting(p, f) /\ Len(f) \in Nat /\ at[p] \in Nat
    BY <1>2, <1>6, <1>t, FileType DEF Setting
  <2>2. \A q \in Procs : ~Setting(q, f)' /\ ~Deleting(q, f)' /\ ~(pc'[q] = "done" /\ req'[q].op = "lock")
    <3>1. \A q \in Procs : q # p => /\ pc[q] \in {"idle", "walk", "done", "fail"}
                                    /\ pc[q] # "idle" => req[q].op \in {"get_lock", "get_locks"}
      BY <1>0, <1>6, Writer
    <3>. QED  BY <1>1, <3>1 DEF Setting, Deleting
  <2>3. disk'[f].lock # NoLock /\ disk'[f].lock \notin acked'
    <3>1. req[p].op = "lock"
      BY <1>0, <1>6 DEF HoldInv, HoldOK
    <3>. QED  BY <1>0, <1>1, <1>6, <3>1 DEF StepInv, StepOK, LockOpInv, NoLock
  <2>4. ASSUME ~cutDel'  PROVE Down(f)'
    <3>1. \A k \in 0 .. Len(f) - 1 : Lists(f, k) <=> k > at[p]
      BY <1>0, <1>3, <2>1, <2>4 DEF ListInv, Down
    <3>2. \A k \in 0 .. Len(f) - 1 : Lists(f, k)' => \A m \in k .. Len(f) - 1 : Lists(f, m)'
      <4>1. \A k \in 0 .. Len(f) - 1 : Lists(f, k)' <=> k > at[p]
        BY <1>1, <3>1 DEF Lists
      <4>. QED  BY <2>1, <4>1
    <3>. QED  BY <2>2, <2>3, <3>2 DEF Down
  <2>. QED  BY <2>1, <2>4
<1>7. CASE pc[p] = "delete" /\ at[p] < Len(victim[p])
  <2>. SUFFICES ASSUME NEW f \in Files, f = victim[p]  PROVE (~cutSet' => Up(f)') /\ (~cutDel' => Down(f)')
    BY <1>5, <1>7 DEF ListInv, Setting, Deleting
  <2>1. cutDel' /\ Deleting(p, f) /\ Len(f) \in Nat /\ at[p] \in Nat
    BY <1>3, <1>7, <1>t, FileType DEF Deleting
  <2>2. \A q \in Procs : ~Setting(q, f)' /\ ~Deleting(q, f)'
    <3>1. \A q \in Procs : q # p => pc[q] \in {"idle", "walk", "done", "fail"}
      BY <1>0, <1>7, Writer
    <3>. QED  BY <1>1, <3>1 DEF Setting, Deleting
  <2>3. disk'[f].lock = NoLock
    BY <1>0, <1>1, <1>7 DEF StepInv, StepOK, DeleteOpInv
  <2>4. ASSUME ~cutSet'  PROVE Up(f)'
    <3>1. \A k \in 0 .. Len(f) - 1 : Lists(f, k) <=> k <= at[p]
      BY <1>0, <1>2, <2>1, <2>4 DEF ListInv, Up
    <3>2. \A k \in 0 .. Len(f) - 1 : Lists(f, k)' => \A m \in 0..k : Lists(f, m)'
      <4>1. \A k \in 0 .. Len(f) - 1 : Lists(f, k)' <=> k <= at[p]
        BY <1>1, <3>1 DEF Lists
      <4>. QED  BY <2>1, <4>1
    <3>. QED  BY <2>2, <2>3, <3>2 DEF Up
  <2>. QED  BY <2>1, <2>4
<1>. QED  BY <1>4, <1>6, <1>7

\* Every step keeps that the directories above a lock list it, but for the one that is being set.
LEMMA ListStep ==
  ASSUME IInv, TypeOK', HoldInv', Next
  PROVE  ListInv'
<1>. USE DEF lockVars, headVars, walkVars, stepVars, ghostVars
<1>0. TypeOK /\ HoldInv /\ ListInv
  BY DEF IInv
<1>t. /\ at \in [Procs -> Nat] /\ pc \in [Procs -> Steps] /\ req \in [Procs -> Asked \cup {Nothing}]
      /\ victim \in [Procs -> Paths]
  BY <1>0 DEF TypeOK
<1>. DEFINE Quiet(p) ==
       /\ UNCHANGED <<disk, acked, cutSet, cutDel>>
       /\ \A q \in Procs : q # p => UNCHANGED <<pc[q], req[q], at[q], victim[q]>>
       /\ p \in Procs => \A f \in Files :
            /\ ~Setting(p, f) /\ ~Deleting(p, f) /\ ~Setting(p, f)' /\ ~Deleting(p, f)'
            /\ ~(pc'[p] = "done" /\ req'[p].op = "lock" /\ req'[p].path = f)
<1>k. ASSUME NEW p, Quiet(p)  PROVE ListInv'
  BY <1>0, <1>k, ListKept
<1>l. \A f \in Files : ~(Len(f) < Len(f))
  BY FileType
<1>1. ASSUME NEW p \in Procs, NEW r \in Asked, BeginWrite(p, r) \/ BeginRead(p, r)  PROVE Quiet(p)
  BY <1>1, <1>t DEF BeginWrite, BeginRead, Goto, Setting, Deleting
<1>2. ASSUME NEW p \in Procs, LockBody(p)  PROVE Quiet(p)
  BY <1>2, <1>t, <1>l DEF LockBody, StartSet, StartDelete, Goto, Setting, Deleting
<1>3. ASSUME NEW p \in Procs, UnlockBody(p)  PROVE Quiet(p)
  BY <1>3, <1>t, <1>l DEF UnlockBody, StartDelete, Goto, Setting, Deleting
<1>4. ASSUME NEW p \in Procs, VerifyBegin(p) \/ Commit(p) \/ ReadEnd(p)  PROVE Quiet(p)
  BY <1>4, <1>t DEF VerifyBegin, Commit, ReadEnd, Goto, Setting, Deleting
<1>5. ASSUME NEW p \in Procs, NEW v \in todo[p], VerifyStep(p, v)  PROVE Quiet(p)
  BY <1>5, <1>t, <1>l DEF VerifyStep, StartDelete, Goto, Setting, Deleting
<1>6. ASSUME NEW p \in Procs, NEW v \in todo[p], ReadStep(p, v)  PROVE Quiet(p)
  BY <1>6 DEF ReadStep, Setting, Deleting
<1>7. ASSUME NEW i \in Ids, Expire(i)  PROVE Quiet(NoProc)
  BY <1>7, LocksAssumption DEF Expire
<1>. HIDE DEF Quiet
<1>8. ASSUME NEW p \in Procs,
             DeleteStep(p) \/ SetOwn(p) \/ SetEntry(p) \/ Return(p) \/ Crash(p)
      PROVE  ListInv'
  BY <1>8, ListSetOwn, ListSetEntry, ListDelete, ListReturn, ListCrash
<1>. QED  BY <1>k, <1>1, <1>2, <1>3, <1>4, <1>5, <1>6, <1>7, <1>8 DEF Next, Step

\* A granted lock is listed by every directory above it, as long as not both kinds
\* of writes were cut short.
LEMMA GrantedListed ==
  ASSUME IInv, NEW i \in acked, OnDisk(i), ~BothCut
  PROVE  Full(locks[i].path)
<1>. SUFFICES ASSUME NEW f, f = locks[i].path  PROVE Full(f)
  OBVIOUS
<1>0. TypeOK /\ HoldInv /\ StepInv /\ ListInv
  BY DEF IInv
<1>1. f \in Files /\ disk[f].lock = i /\ i # NoLock
  BY <1>0, GrantedType DEF OnDisk
<1>2. CASE ~cutDel
  BY <1>0, <1>1, <1>2 DEF ListInv, Down
<1>3. CASE ~cutSet
  <2>1. ASSUME NEW p \in Procs, Setting(p, f)  PROVE FALSE
    <3>1. req[p].op = "lock" /\ pc[p] = "set" /\ at[p] < Len(req[p].path) /\ req[p].path = f
      BY <1>0, <2>1 DEF HoldInv, HoldOK, Setting
    <3>2. disk[f].lock \notin acked
      BY <1>0, <3>1 DEF StepInv, StepOK, LockOpInv
    <3>. QED  BY <1>1, <3>2
  <2>. QED  BY <1>0, <1>1, <1>3, <2>1 DEF ListInv, Up
<1>. QED  BY <1>2, <1>3 DEF BothCut

--------------------------------------------------------------------------------
(* Commits and readers that walk *)

\* A walk goes on over v: what was to come still comes, unless it is v itself.
LEMMA WalkOn ==
  ASSUME IInv, NEW p \in Procs, NEW v \in todo[p], todo' = [todo EXCEPT ![p] = Rest(p, v)],
         NEW f \in Files, Full(f), Pending(p, f)
  PROVE  Pending(p, f)' \/ v[1] = f
<1>0. TypeOK
  BY DEF IInv
<1>1. todo'[p] = Rest(p, v)
  BY <1>0 DEF TypeOK
<1>2. PICK w \in todo[p] : w[1] = f \/ (w[2] /\ AtOrBelow(w[1], f))
  BY DEF Pending
<1>3. CASE w # v
  BY <1>1, <1>2, <1>3 DEF Rest, Pending
<1>4. CASE w = v /\ v[1] # f
  <2>1. v[2] = TRUE /\ AtOrBelow(v[1], f) /\ v[1] \in Paths
    BY <1>0, <1>2, <1>4, RestType
  <2>2. Len(v[1]) \in 0 .. Len(f) - 1 /\ Prefix(f, Len(v[1])) = v[1]
    <3>1. Len(v[1]) < Len(f)
      BY <1>4, <2>1, FileType, BelowShorter
    <3>. QED  BY <2>1, <3>1, FileType, PathType DEF AtOrBelow
  <2>3. f \in disk[v[1]].kids
    BY <2>2 DEF Full, Lists
  <2>4. <<f, TRUE>> \in todo'[p]
    BY <1>1, <2>1, <2>3 DEF Rest
  <2>. QED  BY <2>4 DEF Pending
<1>. QED  BY <1>3, <1>4

\* Every file a commit touches is at or below a path it checks: of the changes that
\* cover the file, one is nearest to the root.
LEMMA TouchedChecked ==
  ASSUME NEW ch \in ChangeSets, NEW f \in Touched(ch)
  PROVE  \E v \in ToCheck(ch) : v[1] = f \/ (v[2] /\ AtOrBelow(v[1], f))
<1>1. f \in Files /\ f \in Paths /\ Len(f) \in Nat /\ \A c \in ch : c[1] \in Paths /\ Len(c[1]) \in Nat
  BY LocksAssumption, FileType, PathType DEF Touched
<1>2. AtOrBelow(f, f)
  BY <1>1, FileType DEF AtOrBelow
<1>. DEFINE covered(c) == \E d \in ch : d[2] # "modify" /\ d[1] # c[1] /\ AtOrBelow(d[1], c[1])
            C == {c \in ch : c[2] # "modify" /\ AtOrBelow(c[1], f)}
<1>3. CASE C = {}
  <2>1. PICK c \in ch : f = c[1]
    BY <1>3 DEF Touched
  <2>2. ~covered(c)
    BY <1>3, <2>1
  <2>3. <<c[1], c[2] # "modify">> \in ToCheck(ch)
    BY <2>2 DEF ToCheck
  <2>. QED  BY <2>1, <2>3
<1>4. CASE C # {}
  <2>1. PICK c \in C : \A d \in C : Len(c[1]) <= Len(d[1])
    <3>. DEFINE S == {Len(c[1]) : c \in C}
    <3>1. S \subseteq Nat /\ S # {}
      BY <1>1, <1>4
    <3>2. PICK n \in S : \A m \in S : n <= m
      <4>. HIDE DEF S
      <4>. QED  BY <3>1, Least
    <3>. QED  BY <3>2
  <2>2. ASSUME NEW d \in ch, d[2] # "modify", d[1] # c[1], AtOrBelow(d[1], c[1])  PROVE FALSE
    <3>1. AtOrBelow(d[1], f)
      BY <1>1, <2>2, BelowTransitive
    <3>2. Len(c[1]) <= Len(d[1])
      BY <2>1, <2>2, <3>1
    <3>3. Len(d[1]) < Len(c[1])
      BY <1>1, <2>2, BelowShorter
    <3>. QED  BY <1>1, <3>2, <3>3
  <2>3. <<c[1], c[2] # "modify">> \in ToCheck(ch)
    BY <2>2 DEF ToCheck
  <2>. QED  BY <2>3
<1>. QED  BY <1>3, <1>4

\* A lock that was granted keeps its record, and does not come back into force.
LEMMA ForceKept ==
  ASSUME IInv, Next, NEW i \in acked
  PROVE  locks'[i] = locks[i] /\ (InForce(i)' => InForce(i)) /\ (BothCut => BothCut')
<1>. USE DEF lockVars, headVars, walkVars, stepVars, ghostVars
<1>0. TypeOK /\ HoldInv /\ StepInv
  BY DEF IInv
<1>t. /\ disk \in [Paths -> [lock : {NoLock} \cup Ids, kids : SUBSET Files]]
      /\ Len(locks) \in Nat /\ i \in 1..Len(locks) /\ locks[i].path \in Files /\ i # NoLock
      /\ locks[i].path \in Paths
  <2>1. disk \in [Paths -> [lock : {NoLock} \cup Ids, kids : SUBSET Files]] /\ Len(locks) \in Nat
    BY <1>0 DEF TypeOK
  <2>. QED  BY <1>0, <2>1, GrantedType, FileType
<1>1. past \subseteq past'
  <2>1. ASSUME NEW p \in Procs, Step(p)  PROVE past' = past
    BY <2>1 DEF Step, Return, DeleteStep, SetOwn, SetEntry, LockBody, UnlockBody, VerifyBegin, VerifyStep,
                Commit, ReadStep, ReadEnd
  <2>2. ASSUME NEW p \in Procs, Crash(p)  PROVE past' = past
    BY <2>2 DEF Crash
  <2>3. ASSUME NEW p \in Procs, NEW r \in Asked, BeginWrite(p, r) \/ BeginRead(p, r)  PROVE past' = past
    BY <2>3 DEF BeginWrite, BeginRead
  <2>. QED  BY <2>1, <2>2, <2>3 DEF Next, Expire
<1>2. BothCut => BothCut'
  <2>1. UNCHANGED ghostVars \/ \E p \in Procs : Crash(p)
    BY WhatChanges DEF BeginRead, Return, DeleteStep, SetOwn, SetEntry
  <2>. QED  BY <2>1 DEF BothCut, Crash
<1>3. CASE UNCHANGED lockVars
  BY <1>1, <1>2, <1>3 DEF InForce, OnDisk
<1>4. ASSUME NEW p \in Procs, SetOwn(p)  PROVE locks'[i] = locks[i] /\ (InForce(i)' => InForce(i))
  <2>1. locks'[i] = locks[i]
    <3>. DEFINE l == [path |-> req[p].path, owner |-> req[p].user, expires |-> req[p].expires]
                L == [path : Files, owner : Users, expires : BOOLEAN]
    <3>1. locks' = Append(locks, l) /\ locks \in Seq(L)
      BY <1>0, <1>4 DEF SetOwn, TypeOK
    <3>. HIDE DEF l, L
    <3>. QED  BY <1>t, <3>1
  <2>2. disk'[locks[i].path].lock \in {disk[locks[i].path].lock, Len(locks) + 1}
    BY <1>t, <1>4 DEF SetOwn
  <2>. QED  BY <1>1, <1>t, <2>1, <2>2 DEF InForce, OnDisk
<1>5. ASSUME NEW p \in Procs, DeleteStep(p) \/ SetEntry(p)
      PROVE  locks'[i] = locks[i] /\ (InForce(i)' => InForce(i))
  <2>1. locks' = locks
    BY <1>5 DEF DeleteStep, SetEntry
  <2>2. disk'[locks[i].path].lock \in {disk[locks[i].path].lock, NoLock}
    <3>1. CASE DeleteStep(p)
      BY <1>t, <3>1 DEF DeleteStep, Without
    <3>2. CASE SetEntry(p)
      BY <1>t, <3>2 DEF SetEntry
    <3>. QED  BY <1>5, <3>1, <3>2
  <2>. QED  BY <1>1, <1>t, <2>1, <2>2 DEF InForce, OnDisk
<1>. QED  BY <1>2, <1>3, <1>4, <1>5, WhatChanges DEF Return, Crash, BeginRead

\* A step that leaves a walk where it is.
LEMMA WalkKept ==
  ASSUME IInv, Next, NEW q \in Procs, WalkOK(q),
         UNCHANGED <<req[q], todo[q], found[q], must[q]>>,
         pc'[q] = pc[q] \/ pc[q] = "delete",
         acked' = acked \/ writeLock # q
  PROVE  WalkOK(q)'
<1>0. TypeOK /\ HoldInv /\ GhostInv
  BY DEF IInv
<1>1. \A i \in acked : locks'[i] = locks[i] /\ (InForce(i)' => InForce(i))
  BY ForceKept
<1>2. must[q] \subseteq acked
  BY <1>0 DEF GhostInv
<1>3. HoldOK(q)
  BY <1>0 DEF HoldInv
<1>4. ASSUME NEW f  PROVE Pending(q, f)' <=> Pending(q, f)
  BY DEF Pending
<1>5. ASSUME pc'[q] \in {"walk", "delete"}, req'[q].op = "commit", NEW i \in acked',
             InForce(i)', locks'[i].path \in Touched(req'[q].changes)
      PROVE  MayChange(req[q], i)' \/ Pending(q, locks[i].path)'
  <2>1. pc[q] \in {"walk", "delete"} /\ req[q].op = "commit" /\ writeLock = q
    BY <1>3, <1>5 DEF HoldOK
  <2>2. i \in acked
    BY <1>5, <2>1
  <2>3. locks'[i] = locks[i] /\ InForce(i)
    BY <1>1, <1>5, <2>2
  <2>4. MayChange(req[q], i) \/ Pending(q, locks[i].path)
    BY <1>5, <2>1, <2>2, <2>3 DEF WalkOK
  <2>. QED  BY <1>4, <2>3, <2>4 DEF MayChange
<1>6. ASSUME pc'[q] \in {"walk", "done"}, req'[q].op = "get_locks", NEW i \in must'[q],
             InForce(i)', AtOrBelow(req'[q].path, locks'[i].path), Within(req'[q], locks'[i].path)
      PROVE  i \in found'[q] \/ (pc'[q] = "walk" /\ Pending(q, locks[i].path)')
  <2>1. i \in must[q] /\ i \in acked /\ pc'[q] = pc[q]
    BY <1>2, <1>3, <1>6 DEF HoldOK
  <2>2. locks'[i] = locks[i] /\ InForce(i)
    BY <1>1, <1>6, <2>1
  <2>3. i \in found[q] \/ (pc[q] = "walk" /\ Pending(q, locks[i].path))
    BY <1>6, <2>1, <2>2 DEF WalkOK
  <2>. QED  BY <1>4, <2>1, <2>2, <2>3
<1>. QED  BY <1>5, <1>6 DEF WalkOK

\* Every step keeps what is known of a reader that walks.
LEMMA WalkStep ==
  ASSUME IInv, TypeOK', HoldInv', Next
  PROVE  WalkInv'
<1>. USE DEF lockVars, headVars, walkVars, stepVars, ghostVars
<1>0. TypeOK /\ HoldInv /\ StepInv /\ GhostInv /\ WalkInv
  BY DEF IInv
<1>t. /\ pc \in [Procs -> Steps] /\ req \in [Procs -> Asked \cup {Nothing}]
      /\ todo \in [Procs -> SUBSET (Paths \X BOOLEAN)]
      /\ found \in [Procs -> SUBSET Ids] /\ must \in [Procs -> SUBSET Ids]
  BY <1>0 DEF TypeOK
<1>. SUFFICES ASSUME NEW q \in Procs, ~BothCut'  PROVE WalkOK(q)'
  BY DEF WalkInv
<1>c. BothCut => BothCut'
  <2>1. UNCHANGED ghostVars \/ \E p \in Procs : Crash(p)
    BY WhatChanges DEF BeginRead, Return, DeleteStep, SetOwn, SetEntry
  <2>. QED  BY <2>1 DEF BothCut, Crash
<1>w. WalkOK(q) /\ ~BothCut /\ HoldOK(q)
  BY <1>0, <1>c DEF WalkInv, HoldInv
<1>f. \A i \in acked : locks'[i] = locks[i] /\ (InForce(i)' => InForce(i))
  BY ForceKept
<1>o. ASSUME UNCHANGED <<pc[q], req[q], todo[q], found[q], must[q]>>, acked' = acked \/ writeLock # q
      PROVE  WalkOK(q)'
  BY <1>o, <1>w, WalkKept
<1>1. ASSUME NEW p \in Procs, NEW r \in Asked, BeginWrite(p, r)  PROVE WalkOK(q)'
  <2>1. CASE p = q
    BY <1>1, <1>t, <2>1 DEF BeginWrite, Goto, WalkOK
  <2>2. CASE p # q
    BY <1>1, <1>t, <1>o, <2>2 DEF BeginWrite, Goto
  <2>. QED  BY <2>1, <2>2
<1>2. ASSUME NEW p \in Procs, NEW r \in Asked, BeginRead(p, r)  PROVE WalkOK(q)'
  <2>1. CASE p = q
    <3>1. pc'[q] = "walk" /\ req'[q] = r /\ todo'[q] = {<<r.path, r.op = "get_locks">>}
      BY <1>2, <1>t, <2>1 DEF BeginRead, Goto
    <3>2. ASSUME NEW f, r.op = "get_locks", AtOrBelow(r.path, f)  PROVE Pending(q, f)'
      <4>1. <<r.path, TRUE>> \in todo'[q]
        BY <3>1, <3>2
      <4>. QED  BY <3>2, <4>1 DEF Pending
    <3>. QED  BY <1>2, <3>1, <3>2 DEF WalkOK, BeginRead
  <2>2. CASE p # q
    BY <1>2, <1>t, <1>o, <2>2 DEF BeginRead, Goto
  <2>. QED  BY <2>1, <2>2
<1>3. ASSUME NEW p \in Procs, Return(p) \/ Crash(p)  PROVE WalkOK(q)'
  <2>1. CASE p = q
    BY <1>3, <1>t, <2>1 DEF Return, Crash, Goto, WalkOK
  <2>2. CASE p # q
    <3>1. acked' = acked \/ writeLock # q
      <4>1. acked' # acked => pc[p] = "done" /\ req[p].op = "lock"
        BY <1>3 DEF Return, Crash
      <4>. QED  BY <1>0, <2>2, <4>1, Writer
    <3>. QED  BY <1>3, <1>t, <1>o, <2>2, <3>1 DEF Return, Crash, Goto
  <2>. QED  BY <2>1, <2>2
<1>4. ASSUME NEW p \in Procs, DeleteStep(p)  PROVE WalkOK(q)'
  <2>1. pc'[q] = pc[q] \/ pc[q] = "delete"
    BY <1>4, <1>t DEF DeleteStep, Goto
  <2>2. UNCHANGED <<req[q], todo[q], found[q], must[q]>> /\ acked' = acked
    BY <1>4 DEF DeleteStep
  <2>. QED  BY <1>w, <2>1, <2>2, WalkKept
<1>5. ASSUME NEW p \in Procs, SetOwn(p)  PROVE WalkOK(q)'
  BY <1>5, <1>o DEF SetOwn
<1>6. ASSUME NEW p \in Procs, SetEntry(p)  PROVE WalkOK(q)'
  <2>1. CASE p = q
    <3>1. req'[q].op = "lock"
      BY <1>6, <1>w, <2>1 DEF SetEntry, HoldOK
    <3>. QED  BY <3>1 DEF WalkOK
  <2>2. CASE p # q
    BY <1>6, <1>t, <1>o, <2>2 DEF SetEntry, Goto
  <2>. QED  BY <2>1, <2>2
<1>7. ASSUME NEW p \in Procs, LockBody(p) \/ UnlockBody(p)  PROVE WalkOK(q)'
  <2>1. CASE p = q
    <3>1. req'[q].op \in {"lock", "unlock"}
      BY <1>7, <2>1 DEF LockBody, UnlockBody
    <3>. QED  BY <3>1 DEF WalkOK
  <2>2. CASE p # q
    BY <1>7, <1>t, <1>o, <2>2 DEF LockBody, UnlockBody, StartSet, StartDelete, Goto
  <2>. QED  BY <2>1, <2>2
<1>9. ASSUME NEW p \in Procs, VerifyBegin(p)  PROVE WalkOK(q)'
  <2>1. CASE p = q
    <3>1. req[q].op = "commit" /\ req' = req /\ req[q].changes \in ChangeSets
      BY <1>0, <1>9, <2>1, Writer, RequestType DEF VerifyBegin
    <3>2. CASE pc'[q] = "walk" /\ todo'[q] = ToCheck(req[q].changes)
      <4>1. ASSUME NEW f \in Touched(req[q].changes)  PROVE Pending(q, f)'
        BY <3>1, <3>2, TouchedChecked DEF Pending
      <4>. QED  BY <3>1, <4>1 DEF WalkOK
    <3>3. CASE pc'[q] = "fail"
      BY <3>3 DEF WalkOK
    <3>4. \/ pc'[q] = "walk" /\ todo'[q] = ToCheck(req[q].changes)
          \/ pc'[q] = "fail"
      BY <1>9, <1>t, <2>1 DEF VerifyBegin, Goto
    <3>. QED  BY <3>2, <3>3, <3>4
  <2>2. CASE p # q
    BY <1>9, <1>t, <1>o, <2>2 DEF VerifyBegin, Goto
  <2>. QED  BY <2>1, <2>2
<1>10. ASSUME NEW p \in Procs, NEW v \in todo[p], VerifyStep(p, v)  PROVE WalkOK(q)'
  <2>1. CASE p = q
    <3>1. /\ pc[q] = "walk" /\ req[q].op = "commit" /\ req' = req /\ acked' = acked
          /\ lockVars' = lockVars /\ past' = past
          /\ todo' = [todo EXCEPT ![q] = Rest(q, v)]
      BY <1>10, <2>1 DEF VerifyStep
    <3>2. CASE pc'[q] = "fail"
      BY <3>2 DEF WalkOK
    <3>3. CASE pc'[q] # "fail"
      <4>1. disk[v[1]].lock # NoLock => disk[v[1]].lock \in past \/ MayChange(req[q], disk[v[1]].lock)
        BY <1>10, <1>t, <2>1, <3>3 DEF VerifyStep, Goto
      <4>2. ASSUME NEW i \in acked, InForce(i), locks[i].path \in Touched(req[q].changes)
            PROVE  MayChange(req[q], i) \/ Pending(q, locks[i].path)'
        <5>. SUFFICES ASSUME NEW f, f = locks[i].path, ~MayChange(req[q], i)  PROVE Pending(q, f)'
          BY <3>1
        <5>1. Pending(q, f)
          BY <1>w, <3>1, <4>2 DEF WalkOK
        <5>2. f \in Files /\ i # NoLock /\ Full(f)
          BY <1>0, <1>w, <4>2, GrantedType, GrantedListed DEF InForce
        <5>3. v[1] # f
          BY <4>1, <4>2, <5>2 DEF InForce, OnDisk
        <5>. QED  BY <2>1, <3>1, <5>1, <5>2, <5>3, WalkOn
      <4>. QED  BY <3>1, <4>2 DEF WalkOK, MayChange, InForce, OnDisk
    <3>. QED  BY <3>2, <3>3
  <2>2. CASE p # q
    BY <1>10, <1>t, <1>o, <2>2 DEF VerifyStep, StartDelete, Goto
  <2>. QED  BY <2>1, <2>2
<1>11. ASSUME NEW p \in Procs, Commit(p)  PROVE WalkOK(q)'
  <2>1. CASE p = q
    BY <1>11, <1>t, <2>1 DEF Commit, Goto, WalkOK
  <2>2. CASE p # q
    BY <1>11, <1>t, <1>o, <2>2 DEF Commit, Goto
  <2>. QED  BY <2>1, <2>2
<1>12. ASSUME NEW p \in Procs, NEW v \in todo[p], ReadStep(p, v)  PROVE WalkOK(q)'
  <2>1. CASE p = q
    <3>1. /\ pc[q] = "walk" /\ req[q].op # "commit" /\ req' = req /\ pc' = pc /\ must' = must
          /\ lockVars' = lockVars /\ past' = past
          /\ todo' = [todo EXCEPT ![q] = Rest(q, v)]
      BY <1>12, <2>1 DEF ReadStep
    <3>2. /\ found[q] \subseteq found'[q]
          /\ disk[v[1]].lock # NoLock /\ disk[v[1]].lock \notin past /\ Within(req[q], v[1]) =>
               disk[v[1]].lock \in found'[q]
      BY <1>12, <1>t, <2>1 DEF ReadStep
    <3>3. ASSUME req[q].op = "get_locks", NEW i \in must[q], InForce(i),
                 AtOrBelow(req[q].path, locks[i].path), Within(req[q], locks[i].path)
          PROVE  i \in found'[q] \/ Pending(q, locks[i].path)'
      <4>. SUFFICES ASSUME NEW f, f = locks[i].path, i \notin found'[q]  PROVE Pending(q, f)'
        BY <3>1
      <4>1. i \in acked
        BY <1>0 DEF GhostInv
      <4>2. Pending(q, f)
        BY <1>w, <3>1, <3>2, <3>3 DEF WalkOK
      <4>3. f \in Files /\ i # NoLock /\ Full(f)
        BY <1>0, <1>w, <3>3, <4>1, GrantedType, GrantedListed DEF InForce
      <4>4. v[1] # f
        BY <3>2, <3>3, <4>3 DEF InForce, OnDisk
      <4>. QED  BY <2>1, <3>1, <4>2, <4>3, <4>4, WalkOn
    <3>. QED  BY <3>1, <3>3 DEF WalkOK, InForce, OnDisk
  <2>2. CASE p # q
    BY <1>12, <1>t, <1>o, <2>2 DEF ReadStep
  <2>. QED  BY <2>1, <2>2
<1>13. ASSUME NEW p \in Procs, ReadEnd(p)  PROVE WalkOK(q)'
  <2>1. CASE p = q
    <3>1. /\ pc[q] = "walk" /\ req[q].op # "commit" /\ todo[q] = {} /\ pc'[q] = "done"
          /\ UNCHANGED <<req, found, must, lockVars, past>>
      BY <1>13, <1>t, <2>1 DEF ReadEnd, Goto
    <3>2. \A f : ~Pending(q, f)
      BY <3>1 DEF Pending
    <3>3. ASSUME req[q].op = "get_locks", NEW i \in must[q], InForce(i),
                 AtOrBelow(req[q].path, locks[i].path), Within(req[q], locks[i].path)
          PROVE  i \in found[q]
      BY <1>w, <3>1, <3>2, <3>3 DEF WalkOK
    <3>. QED  BY <3>1, <3>3 DEF WalkOK, InForce, OnDisk
  <2>2. CASE p # q
    BY <1>13, <1>t, <1>o, <2>2 DEF ReadEnd, Goto
  <2>. QED  BY <2>1, <2>2
<1>14. ASSUME NEW i \in Ids, Expire(i)  PROVE WalkOK(q)'
  BY <1>14, <1>o DEF Expire
<1>. QED
  BY <1>1, <1>2, <1>3, <1>4, <1>5, <1>6, <1>7, <1>9, <1>10, <1>11, <1>12, <1>13, <1>14 DEF Next, Step

--------------------------------------------------------------------------------
(* Theorems *)

\* The invariant holds of a repository without locks.
LEMMA InitInv == Init => IInv
<1>. SUFFICES ASSUME Init  PROVE IInv
  OBVIOUS
<1>1. TypeOK
  <2>1. << >> \in Paths /\ MaxRev \in Nat /\ MaxCrash \in Nat /\ MaxLock \in Nat
    BY LocksAssumption
  <2>2. locks \in Seq([path : Files, owner : Users, expires : BOOLEAN]) /\ Len(locks) = 0
    BY DEF Init
  <2>3. cutSet \in BOOLEAN /\ cutDel \in BOOLEAN /\ head \subseteq Paths
    BY DEF Init
  <2>4. disk \in [Paths -> [lock : {NoLock} \cup Ids, kids : SUBSET Files]]
    BY DEF Init
  <2>5. /\ todo \in [Procs -> SUBSET (Paths \X BOOLEAN)]
        /\ found \in [Procs -> SUBSET Ids] /\ must \in [Procs -> SUBSET Ids]
    BY DEF Init
  <2>6. /\ pc \in [Procs -> Steps] /\ req \in [Procs -> Asked \cup {Nothing}] /\ at \in [Procs -> Nat]
        /\ victim \in [Procs -> Paths] /\ then \in [Procs -> {"set", "walk", "done", "fail"}]
    BY <2>1 DEF Init, Steps
  <2>7. /\ created \in [Files -> 0..MaxRev] /\ youngest \in 0..MaxRev /\ crashes \in 0..MaxCrash
        /\ Len(locks) <= MaxLock
    BY <2>1, <2>2 DEF Init
  <2>. QED  BY <2>2, <2>3, <2>4, <2>5, <2>6, <2>7 DEF Init, TypeOK
<1>2. HoldInv
  BY DEF Init, HoldInv, HoldOK
<1>3. DiskInv
  BY DEF Init, DiskInv
<1>4. StepInv
  BY DEF Init, StepInv, StepOK
<1>5. ASSUME NEW f \in Files  PROVE Up(f) /\ Down(f)
  <2>1. \A p \in Procs : ~Setting(p, f) /\ ~Deleting(p, f) /\ pc[p] # "done"
    BY DEF Init, Setting, Deleting
  <2>2. disk[f].lock = NoLock /\ disk[f].lock \notin acked
    BY FileType DEF Init
  <2>3. \A k \in 0 .. Len(f) - 1 : ~Lists(f, k)
    BY FileType DEF Init, Lists
  <2>. QED  BY <2>1, <2>2, <2>3 DEF Up, Down
<1>6. WalkInv
  BY DEF Init, WalkInv, WalkOK
<1>7. GhostInv
  BY DEF Init, GhostInv
<1>. QED  BY <1>1, <1>2, <1>3, <1>4, <1>5, <1>6, <1>7 DEF IInv, ListInv

\* Every step keeps the invariant.
LEMMA NextInv ==
  ASSUME IInv, [Next]_vars
  PROVE  IInv'
<1>1. CASE Next
  <2>1. TypeOK'
    BY <1>1, TypeStep
  <2>2. HoldInv'
    BY <1>1, <2>1, HoldStep
  <2>. QED
    BY <1>1, <2>1, <2>2, DiskStep, StepStep, ListStep, WalkStep, GhostStep DEF IInv
<1>2. CASE UNCHANGED vars
  <2>. USE <1>2 DEF vars, lockVars, headVars, walkVars, stepVars, ghostVars
  <2>0. TypeOK /\ HoldInv /\ DiskInv /\ StepInv /\ ListInv /\ WalkInv /\ GhostInv
    BY DEF IInv
  <2>1. TypeOK'
    BY <2>0 DEF TypeOK
  <2>2. HoldInv' /\ DiskInv'
    BY <2>0 DEF HoldInv, HoldOK, DiskInv
  <2>3. StepInv'
    BY <2>0, SameBody DEF StepInv
  <2>4. ListInv'
    BY <2>0, ListKept, LocksAssumption
  <2>5. WalkInv'
    BY <2>0 DEF WalkInv, WalkOK, BothCut, InForce, OnDisk, MayChange, Pending
  <2>6. GhostInv'
    BY <2>0 DEF GhostInv
  <2>. QED  BY <2>1, <2>2, <2>3, <2>4, <2>5, <2>6 DEF IInv
<1>. QED  BY <1>1, <1>2

\* The inductive invariant: who holds the write lock, which locks are on disk, what
\* the bodies of lock and unlock and the walks rely on, and which directories list a
\* path while set_lock and delete_lock are under way or were cut short.
THEOREM Invariance == Spec => []IInv
  BY InitInv, NextInv, PTL DEF Spec

\* Every directory above a granted lock lists it, unless set_lock and delete_lock
\* were both cut short; while nobody has died, the directories list exactly the
\* locked paths whenever nobody writes (lock.c, set_lock and delete_lock).
THEOREM DirectoriesList == Spec => []Listed
<1>1. IInv => Listed
  <2>. SUFFICES ASSUME IInv  PROVE Listed
    OBVIOUS
  <2>0. TypeOK /\ HoldInv /\ ListInv /\ GhostInv
    BY DEF IInv
  <2>1. ASSUME ~BothCut, NEW i \in acked, OnDisk(i), NEW k \in 0 .. Len(locks[i].path) - 1
        PROVE  locks[i].path \in disk[Prefix(locks[i].path, k)].kids
    BY <2>1, GrantedListed DEF Full, Lists
  <2>2. ASSUME crashes = 0, writeLock = NoProc, NEW f \in Files, NEW k \in 0 .. Len(f) - 1
        PROVE  (f \in disk[Prefix(f, k)].kids) <=> (disk[f].lock # NoLock)
    <3>1. Up(f) /\ Down(f)
      BY <2>0, <2>2 DEF GhostInv, ListInv
    <3>2. \A p \in Procs : ~Setting(p, f) /\ ~Deleting(p, f)
      BY <2>0, <2>2, OneWriter, LocksAssumption
    <3>3. disk[f].lock # NoLock => Lists(f, k)
      BY <3>1, <3>2 DEF Up, Full
    <3>4. disk[f].lock = NoLock => ~Lists(f, k)
      BY <3>1, <3>2 DEF Down
    <3>. QED  BY <3>3, <3>4 DEF Lists
  <2>. QED  BY <2>0, <2>1, <2>2 DEF Listed
<1>. QED  BY <1>1, Invariance, PTL

\* svn_fs_fs__get_locks, which takes no lock, reports every lock in force from its
\* beginning to its end (lock.c, walk_digest_files without the write lock).
THEOREM ReadersComplete == Spec => []ReadsComplete
<1>1. IInv => ReadsComplete
  <2>. SUFFICES ASSUME IInv, ~BothCut, NEW p \in Procs, pc[p] = "done", req[p].op = "get_locks",
                       NEW i \in must[p], InForce(i), AtOrBelow(req[p].path, locks[i].path),
                       Within(req[p], locks[i].path)
                PROVE  i \in found[p]
    BY DEF ReadsComplete
  <2>1. WalkOK(p)
    BY DEF IInv, WalkInv
  <2>. QED  BY <2>1 DEF WalkOK
<1>. QED  BY <1>1, Invariance, PTL

\* A commit changes no file that is locked by somebody else or whose token it does
\* not present (fs_fs.c, verify_locks; lock.c, svn_fs_fs__allow_locked_operation).
THEOREM LocksRespected == Spec => CommitsRespectLocks
<1>. DEFINE P == youngest' # youngest =>
                   \A p \in Procs : pc[p] = "walk" /\ pc'[p] = "done" =>
                     BothCut \/ \A i \in acked :
                       InForce(i) /\ locks[i].path \in Touched(req[p].changes) => MayChange(req[p], i)
<1>1. IInv /\ [Next]_vars => [P]_vars
  <2>. SUFFICES ASSUME IInv, Next, youngest' # youngest, NEW p \in Procs, pc[p] = "walk", pc'[p] = "done",
                       ~BothCut, NEW i \in acked, InForce(i), locks[i].path \in Touched(req[p].changes)
                PROVE  MayChange(req[p], i)
    OBVIOUS
  <2>. USE DEF lockVars, headVars, walkVars, stepVars, ghostVars
  <2>0. TypeOK /\ WalkInv
    BY DEF IInv
  <2>1. ASSUME NEW q \in Procs, Step(q)  PROVE Commit(q)
    BY <2>1 DEF Step, Return, DeleteStep, SetOwn, SetEntry, LockBody, UnlockBody, VerifyBegin, VerifyStep,
                ReadStep, ReadEnd
  <2>2. ASSUME NEW q \in Procs, Crash(q)  PROVE FALSE
    BY <2>2 DEF Crash
  <2>3. ASSUME NEW q \in Procs, NEW r \in Asked, BeginWrite(q, r) \/ BeginRead(q, r)  PROVE FALSE
    BY <2>3 DEF BeginWrite, BeginRead
  <2>4. PICK q \in Procs : Commit(q)
    BY <2>1, <2>2, <2>3 DEF Next, Expire
  <2>5. q = p
    BY <2>0, <2>4 DEF Commit, Goto, TypeOK
  <2>6. req[p].op = "commit" /\ todo[p] = {}
    BY <2>4, <2>5 DEF Commit
  <2>7. ~Pending(p, locks[i].path)
    BY <2>6 DEF Pending
  <2>. QED  BY <2>0, <2>6, <2>7 DEF WalkInv, WalkOK
<1>. QED  BY <1>1, Invariance, PTL DEF Spec, CommitsRespectLocks

\* A granted lock goes away only at the hands of its owner, of a call that breaks
\* locks or of one that steals it; and delete_lock fails half-way only where a
\* set_lock was cut short (lock.c, unlock_body, lock_body and delete_lock).
THEOREM LocksStay == Spec => LocksKept
<1>. DEFINE P == /\ \A i \in acked : InForce(i) /\ disk'[locks[i].path].lock # i =>
                      \E p \in Procs :
                        /\ pc[p] \in {"delete", "set"} /\ req[p].op \in {"lock", "unlock"} /\ req[p].path = locks[i].path
                        /\ IF req[p].op = "lock" THEN req[p].steal
                           ELSE req[p].break \/ (req[p].token = i /\ req[p].user = locks[i].owner)
                 /\ \A p \in Procs : pc[p] = "delete" /\ pc'[p] = "fail" => cutSet \/ then[p] = "fail"
<1>1. ASSUME IInv, Next  PROVE P
  <2>. USE DEF lockVars, headVars, walkVars, stepVars, ghostVars
  <2>0. TypeOK /\ HoldInv /\ StepInv /\ TypeOK' /\ HoldInv'
    BY <1>1, NextInv DEF IInv
  <2>1. ASSUME NEW i \in acked, InForce(i), disk'[locks[i].path].lock # i
        PROVE  \E p \in Procs :
                 /\ pc[p] \in {"delete", "set"} /\ req[p].op \in {"lock", "unlock"} /\ req[p].path = locks[i].path
                 /\ IF req[p].op = "lock" THEN req[p].steal
                    ELSE req[p].break \/ (req[p].token = i /\ req[p].user = locks[i].owner)
    <3>. SUFFICES ASSUME NEW f, f = locks[i].path
                  PROVE  \E p \in Procs :
                           /\ pc[p] \in {"delete", "set"} /\ req[p].op \in {"lock", "unlock"} /\ req[p].path = f
                           /\ IF req[p].op = "lock" THEN req[p].steal
                              ELSE req[p].break \/ (req[p].token = i /\ req[p].user = locks[i].owner)
      OBVIOUS
    <3>1. f \in Files /\ f \in Paths /\ i # NoLock /\ disk[f].lock = i /\ i \notin past
      BY <2>0, <2>1, GrantedType, FileType DEF InForce, OnDisk
    <3>t. /\ disk \in [Paths -> [lock : {NoLock} \cup Ids, kids : SUBSET Files]] /\ at \in [Procs -> Nat]
          /\ Len(locks) \in Nat
      BY <2>0, Types
    <3>2. disk' # disk
      BY <2>1, <3>1
    <3>3. PICK p \in Procs : DeleteStep(p) \/ SetOwn(p) \/ SetEntry(p)
      BY <1>1, <3>2, WhatChanges DEF Return, Crash, BeginRead
    <3>4. ~SetEntry(p)
      <4>1. SetEntry(p) => disk'[f].lock = disk[f].lock
        BY <3>1, <3>t DEF SetEntry
      <4>. QED  BY <2>1, <3>1, <4>1
    <3>5. ~SetOwn(p)
      <4>. SUFFICES ASSUME SetOwn(p)  PROVE FALSE
        OBVIOUS
      <4>1. pc[p] = "set" /\ req[p].op = "lock" /\ at[p] = Len(req[p].path) /\ LockOpInv(p)
        BY <2>0, Writer DEF SetOwn, StepInv, StepOK, HoldInv, HoldOK
      <4>2. disk[req[p].path].lock = NoLock
        BY <4>1 DEF LockOpInv
      <4>3. req[p].path # f
        BY <3>1, <4>2
      <4>. QED  BY <2>1, <3>1, <3>t, <4>3 DEF SetOwn
    <3>6. /\ pc[p] = "delete" /\ DeleteOpInv(p) /\ at[p] \in Nat
          /\ req[p].op = "lock" => victim[p] = req[p].path
      BY <2>0, <3>3, <3>4, <3>5, <3>t DEF DeleteStep, StepInv, StepOK, LockOpInv
    <3>7. victim[p] \in Files /\ Len(victim[p]) \in Nat /\ at[p] \in 0..Len(victim[p])
      BY <3>6, FileType DEF DeleteOpInv
    <3>8. at[p] = Len(victim[p])
      <4>1. CASE at[p] # Len(victim[p])
        <5>1. disk'[f].lock = disk[f].lock
          BY <3>1, <3>3, <3>4, <3>5, <3>t, <4>1 DEF DeleteStep, Without
        <5>. QED  BY <2>1, <3>1, <5>1
      <4>. QED  BY <4>1
    <3>9. victim[p] = f
      <4>1. Prefix(victim[p], at[p]) = f
        BY <2>1, <3>1, <3>3, <3>4, <3>5, <3>t DEF DeleteStep
      <4>. QED  BY <3>7, <3>8, <4>1, FileType
    <3>10. \/ req[p].op = "lock" /\ req[p].steal
           \/ req[p].op = "unlock" /\ MayUnlock(req[p], i)
      BY <3>1, <3>6, <3>8, <3>9 DEF DeleteOpInv
    <3>. QED  BY <3>6, <3>9, <3>10 DEF DeleteOpInv, MayUnlock
  <2>2. ASSUME NEW p \in Procs, pc[p] = "delete", pc'[p] = "fail"  PROVE cutSet \/ then[p] = "fail"
    <3>t. pc \in [Procs -> Steps]
      BY <2>0 DEF TypeOK
    <3>1. ASSUME NEW q \in Procs, Step(q)  PROVE DeleteStep(p)
      BY <2>2, <3>1, <3>t DEF Step, Return, DeleteStep, SetOwn, SetEntry, LockBody, UnlockBody, VerifyBegin,
                VerifyStep, ReadStep, ReadEnd, Commit, StartSet, StartDelete, Goto
    <3>2. ASSUME NEW q \in Procs, Crash(q)  PROVE FALSE
      BY <2>2, <3>2, <3>t DEF Crash, Goto
    <3>3. ASSUME NEW q \in Procs, NEW r \in Asked, BeginWrite(q, r) \/ BeginRead(q, r)  PROVE FALSE
      BY <2>2, <3>3, <3>t DEF BeginWrite, BeginRead, Goto
    <3>4. ASSUME NEW i \in Ids, Expire(i)  PROVE FALSE
      BY <2>2, <3>4 DEF Expire
    <3>5. DeleteStep(p)
      BY <1>1, <3>1, <3>2, <3>3, <3>4 DEF Next
    <3>. QED  BY <1>1, <2>0, <2>2, <3>5, ListDelete
  <2>. QED  BY <2>1, <2>2
<1>2. IInv /\ [Next]_vars => [P]_vars
  BY <1>1
<1>. QED  BY <1>2, Invariance, PTL DEF Spec, LocksKept
================================================================================
