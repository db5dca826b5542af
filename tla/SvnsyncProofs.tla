----------------------------- MODULE SvnsyncProofs -----------------------------
(***************************************************************************)
(* Proofs about Svnsync, for any number of runs, revisions, properties,    *)
(* failures, deaths and foreign commits.                                   *)
(***************************************************************************)
EXTENDS Svnsync, FiniteSetTheorems, SequenceTheorems, TLAPS

--------------------------------------------------------------------------------
(* Who acts *)

Act(p) == Begin(p) \/ Step(p) \/ Fail(p) \/ Crash(p)

\* Steps of a run that has the lock.
Work(p) ==
  \/ InitStart(p) \/ InitUrl(p) \/ InitMerged(p)
  \/ CopyStart(p) \/ CopyBegin(p) \/ PropsStep(p) \/ PropsDone(p)
  \/ SyncStart(p) \/ MarkMerged(p) \/ DropCopying(p) \/ SyncRange(p)
  \/ ReplayStarted(p) \/ CommitRefused(p) \/ ReplayFinished(p)

\* Steps about the lock.
LockWork(p) == Begin(p) \/ LockRead(p) \/ LockSet(p) \/ ReleaseRead(p) \/ ReleaseSet(p)

\* What a run does is one of its operations.
LEMMA ActWork ==
  ASSUME NEW p \in Procs, Act(p)
  PROVE  LockWork(p) \/ Work(p) \/ Fail(p) \/ Crash(p)
  BY DEF Act, Step, LockWork, Work

\* What the constants are.
LEMMA Constants ==
  /\ MaxRev \in Nat /\ Retries \in Nat /\ Retries > 1 /\ MaxMeddle \in Nat /\ MaxSet \in Nat /\ MaxCrash \in Nat
  /\ First \in Lists /\ Nobody \notin Procs /\ Dead \notin Procs /\ Dead # Nobody
  /\ 0 \in Revs /\ Nobody \in Locks /\ Dead \in Locks /\ Procs \subseteq Locks
  /\ Lists \subseteq [Names -> Values] /\ OwnList \in [Names -> Values]
<1>1. ASSUME NEW l \in Lists  PROVE l \in [Names -> Values]
  <2>1. l = [n \in Names |-> l[n]]
    BY SvnsyncAssumption
  <2>2. \A n \in Names : l[n] \in Values
    BY DEF Values
  <2>. QED  BY <2>1, <2>2
<1>2. OwnList \in [Names -> Values]
  BY DEF OwnList, Values
<1>. QED  BY <1>1, <1>2, SvnsyncAssumption DEF Revs, Locks

\* A run at rest, one that gives the lock back, one that asks for it, and one that begins.
LEMMA Resting ==
  Idle \in Runs /\ [Idle EXCEPT !.pc = "release"] \in Runs /\ [Idle EXCEPT !.pc = "releaseSet"] \in Runs
<1>1. Idle \in Runs
  BY Constants DEF Idle, Runs, Pcs
<1>. QED  BY <1>1, Constants DEF Runs, Pcs

\* A run that asks for the lock.
LEMMA Asking ==
  ASSUME NEW steal \in BOOLEAN
  PROVE  [Idle EXCEPT !.pc = "lockRead", !.steal = steal] \in Runs
  BY Resting DEF Runs, Pcs

\* A run that starts.
LEMMA Starting ==
  ASSUME NEW op \in Ops, NEW allow \in BOOLEAN
  PROVE  [Idle EXCEPT !.pc = "start", !.op = op, !.allow = allow] \in Runs
  BY Resting DEF Runs, Pcs

\* One run changes.
LEMMA RunTypes ==
  ASSUME run \in [Procs -> Runs], NEW p \in Procs, NEW x \in Runs, run' = [run EXCEPT ![p] = x]
  PROVE  run' \in [Procs -> Runs]
  OBVIOUS

--------------------------------------------------------------------------------
(* Types *)

\* Taking and releasing the lock keeps the types.
LEMMA LockTypes ==
  ASSUME TypeInv, LockInv, NEW p \in Procs, LockWork(p)
  PROVE  TypeInv'
<1>. USE DEF source, state
<1>0. run \in [Procs -> Runs] /\ run[p] \in Runs /\ lock \in Locks
  BY DEF TypeInv
<1>1. CASE Begin(p)
  <2>1. PICK steal \in BOOLEAN : run' = [run EXCEPT ![p] = [Idle EXCEPT !.pc = "lockRead", !.steal = steal]]
    BY <1>1 DEF Begin
  <2>2. run' \in [Procs -> Runs]
    <3>1. PICK x \in Runs : run' = [run EXCEPT ![p] = x]
      BY <2>1, Asking
    <3>. QED  BY <1>0, <3>1, RunTypes
  <2>. QED  BY <1>1, <2>2 DEF Begin, TypeInv
<1>2. CASE LockRead(p)
  <2>1. run' \in [Procs -> Runs]
    <3>1. CASE run' = [run EXCEPT ![p] = Idle]
      <4>1. PICK x \in Runs : run' = [run EXCEPT ![p] = x]
        BY <3>1, Resting
      <4>. QED  BY <1>0, <4>1, RunTypes
    <3>2. CASE Locked(p)
      <4>1. PICK op \in Ops, allow \in BOOLEAN :
                run' = [run EXCEPT ![p] = [Idle EXCEPT !.pc = "start", !.op = op, !.allow = allow]]
        BY <3>2 DEF Locked
      <4>2. PICK x \in Runs : run' = [run EXCEPT ![p] = x]
        BY <4>1, Starting
      <4>. QED  BY <1>0, <4>2, RunTypes
    <3>3. CASE run[p].tries < Retries /\ run' = [run EXCEPT ![p].tries = @ + 1]
      <4>1. [run[p] EXCEPT !.tries = @ + 1] \in Runs
        <5>1. run[p].tries + 1 \in 0..Retries
          BY <1>0, <3>3, Constants DEF Runs
        <5>. QED  BY <1>0, <5>1 DEF Runs
      <4>. QED  BY <1>0, <3>3, <4>1, RunTypes
    <3>4. CASE run' = [run EXCEPT ![p].pc = "lockSet", ![p].seen = lock]
      <4>1. [run[p] EXCEPT !.pc = "lockSet", !.seen = lock] \in Runs
        BY <1>0 DEF Runs, Pcs
      <4>2. run' = [run EXCEPT ![p] = [run[p] EXCEPT !.pc = "lockSet", !.seen = lock]]
        BY <1>0, <3>4
      <4>. QED  BY <1>0, <4>1, <4>2, RunTypes
    <3>. QED  BY <1>2, <3>1, <3>2, <3>3, <3>4 DEF LockRead
  <2>. QED  BY <1>2, <2>1 DEF LockRead, TypeInv
<1>3. CASE LockSet(p)
  <2>1. lock' \in Locks
    BY <1>0, <1>3, Constants DEF LockSet
  <2>2. run' \in [Procs -> Runs]
    <3>1. run' = [run EXCEPT ![p] = [run[p] EXCEPT !.pc = "lockRead", !.tries = @ + 1, !.seen = Nobody]]
      BY <1>0, <1>3 DEF LockSet
    <3>2. run[p].tries + 1 \in 0..Retries
      <4>1. run[p].tries \in 0..Retries /\ run[p].tries < Retries
        BY <1>0, <1>3 DEF LockInv, LockSet, Runs
      <4>. QED  BY <4>1, Constants
    <3>3. [run[p] EXCEPT !.pc = "lockRead", !.tries = @ + 1, !.seen = Nobody] \in Runs
      BY <1>0, <3>2, Constants DEF Runs, Pcs
    <3>. QED  BY <1>0, <3>1, <3>3, RunTypes
  <2>. QED  BY <1>3, <2>1, <2>2 DEF LockSet, TypeInv
<1>4. CASE ReleaseRead(p)
  <2>1. run' \in [Procs -> Runs]
    <3>1. PICK x \in Runs : run' = [run EXCEPT ![p] = x]
      BY <1>4, Resting DEF ReleaseRead
    <3>. QED  BY <1>0, <3>1, RunTypes
  <2>. QED  BY <1>4, <2>1 DEF ReleaseRead, TypeInv
<1>5. CASE ReleaseSet(p)
  <2>1. run' \in [Procs -> Runs]
    <3>1. PICK x \in Runs : run' = [run EXCEPT ![p] = x]
      BY <1>5, Resting DEF ReleaseSet
    <3>. QED  BY <1>0, <3>1, RunTypes
  <2>2. lock' \in Locks
    BY <1>0, <1>5, Constants DEF ReleaseSet
  <2>. QED  BY <1>5, <2>1, <2>2 DEF ReleaseSet, TypeInv
<1>. QED  BY <1>1, <1>2, <1>3, <1>4, <1>5 DEF LockWork

\* A run ends.
LEMMA QuitTypes ==
  ASSUME run \in [Procs -> Runs], NEW p \in Procs, Quit(p)
  PROVE  run' \in [Procs -> Runs]
<1>1. PICK x \in Runs : run' = [run EXCEPT ![p] = x]
  BY Resting DEF Quit
<1>. QED  BY <1>1, RunTypes

\* A run goes on to its next stage.
LEMMA GotoTypes ==
  ASSUME run \in [Procs -> Runs], NEW p \in Procs, NEW pc \in Pcs, Goto(p, pc)
  PROVE  run' \in [Procs -> Runs]
<1>1. [run[p] EXCEPT !.pc = pc] \in Runs
  BY DEF Runs
<1>2. run' = [run EXCEPT ![p] = [run[p] EXCEPT !.pc = pc]]
  BY DEF Goto
<1>. QED  BY <1>1, <1>2, RunTypes

\* initialize keeps the types.
LEMMA InitTypes ==
  ASSUME TypeInv, NEW p \in Procs, RunOK(p), InitStart(p) \/ InitUrl(p) \/ InitMerged(p)
  PROVE  TypeInv'
<1>. USE DEF source, state
<1>0. run \in [Procs -> Runs] /\ run[p] \in Runs /\ Len(mirror) \in Nat /\ from \in Revs
  BY DEF TypeInv
<1>1. CASE InitStart(p)
  <2>1. run' \in [Procs -> Runs]
    <3>1. CASE InitRefused(p)
      BY <1>0, <1>1, <3>1, QuitTypes DEF InitStart
    <3>2. CASE ~InitRefused(p)
      <4>1. Len(mirror) \in Revs
        BY <1>0, <3>2, Constants DEF InitRefused, Revs
      <4>2. [run[p] EXCEPT !.pc = "initUrl", !.rev = Len(mirror), !.allow = FALSE] \in Runs
        BY <1>0, <4>1 DEF Runs, Pcs
      <4>3. run' = [run EXCEPT ![p] = [run[p] EXCEPT !.pc = "initUrl", !.rev = Len(mirror), !.allow = FALSE]]
        BY <1>0, <1>1, <3>2 DEF InitStart
      <4>. QED  BY <1>0, <4>2, <4>3, RunTypes
    <3>. QED  BY <3>1, <3>2
  <2>. QED  BY <1>1, <2>1 DEF InitStart, TypeInv
<1>2. CASE InitUrl(p)
  <2>1. run' \in [Procs -> Runs]
    BY <1>0, <1>2, GotoTypes DEF InitUrl, Pcs
  <2>. QED  BY <1>2, <2>1 DEF InitUrl, TypeInv
<1>3. CASE InitMerged(p)
  <2>1. run' \in [Procs -> Runs]
    BY <1>0, <1>3, GotoTypes DEF InitMerged, Pcs
  <2>2. run[p].rev \in Revs /\ run[p].rev \in 0..Len(mirror) /\ url
    <3>1. run[p].rev \in 0..Len(mirror) /\ url
      BY <1>3 DEF InitMerged, At, RunOK
    <3>2. run[p].rev \in Revs \cup {None}
      BY <1>0 DEF Runs
    <3>. QED  BY <3>1, <3>2 DEF None
  <2>3. merged' = run[p].rev /\ cut' = cut \cup {run[p].rev} /\ alien' \in {"no", "quiet", "busy"}
    BY <1>3 DEF InitMerged, TypeInv
  <2>4. merged' \in {None} \cup Revs /\ merged' <= Len(mirror) /\ cut' \subseteq Revs \cup 0..Len(mirror)
    BY <1>0, <2>2, <2>3 DEF TypeInv
  <2>. QED  BY <1>3, <2>1, <2>2, <2>3, <2>4 DEF InitMerged, TypeInv
<1>. QED  BY <1>1, <1>2, <1>3

\* copy-revprops keeps the types.
LEMMA CopyTypes ==
  ASSUME TypeInv, NEW p \in Procs, RunOK(p), CopyStart(p) \/ CopyBegin(p) \/ PropsStep(p) \/ PropsDone(p)
  PROVE  TypeInv'
<1>. USE DEF source, state
<1>0. run \in [Procs -> Runs] /\ run[p] \in Runs /\ Len(mirror) \in Nat
  BY DEF TypeInv
<1>1. CASE CopyStart(p)
  <2>1. run' \in [Procs -> Runs]
    <3>1. CASE Quit(p)
      BY <1>0, <3>1, QuitTypes
    <3>2. CASE ~Quit(p)
      <4>0. PICK range \in Ranges :
              IF merged # None /\ range[1] <= merged /\ range[2] <= merged
              THEN run' = [run EXCEPT ![p].pc = "copyBegin", ![p].rev = range[1], ![p].end = range[2]]
              ELSE Quit(p)
        BY <1>1 DEF CopyStart
      <4>1. run' = [run EXCEPT ![p].pc = "copyBegin", ![p].rev = range[1], ![p].end = range[2]]
        BY <3>2, <4>0
      <4>2. range[1] \in Revs /\ range[2] \in Revs
        BY SvnsyncAssumption DEF Revs
      <4>3. [run[p] EXCEPT !.pc = "copyBegin", !.rev = range[1], !.end = range[2]] \in Runs
        BY <1>0, <4>2 DEF Runs, Pcs
      <4>4. run' = [run EXCEPT ![p] = [run[p] EXCEPT !.pc = "copyBegin", !.rev = range[1], !.end = range[2]]]
        BY <1>0, <4>1
      <4>. QED  BY <1>0, <4>3, <4>4, RunTypes
    <3>. QED  BY <3>1, <3>2
  <2>2. UNCHANGED <<source, mirror, props, lock, state, cut, alien, crashes>>
    BY <1>1 DEF CopyStart
  <2>. QED  BY <2>1, <2>2 DEF TypeInv
<1>2. CASE CopyBegin(p)
  <2>. DEFINE r == run[p].rev
              extra == IF run[p].op = "init" THEN {} ELSE Present(props[r]) \ Present(fromProps[r])
              todo == Present(fromProps[r]) \cup extra
  <2>1. run' = [run EXCEPT ![p] = [run[p] EXCEPT !.pc = "props", !.list = fromProps[r], !.todo = todo]]
    BY <1>0, <1>2 DEF CopyBegin
  <2>2. todo \in SUBSET Names
    BY DEF Present
  <2>3. fromProps[r] \in Lists
    <3>1. r \in Revs
      BY <1>0, <1>2 DEF CopyBegin, At, RunOK, Runs, None
    <3>. QED  BY <3>1 DEF TypeInv
  <2>. HIDE DEF r, todo
  <2>4. [run[p] EXCEPT !.pc = "props", !.list = fromProps[r], !.todo = todo] \in Runs
    BY <1>0, <2>2, <2>3 DEF Runs, Pcs
  <2>5. run' \in [Procs -> Runs]
    BY <1>0, <2>1, <2>4, RunTypes
  <2>. QED  BY <1>2, <2>5 DEF CopyBegin, TypeInv
<1>3. CASE PropsStep(p)
  <2>1. PICK n \in run[p].todo : /\ props' = [props EXCEPT ![run[p].rev][n] = run[p].list[n]]
                                 /\ run' = [run EXCEPT ![p].todo = @ \ {n}]
    BY <1>3 DEF PropsStep
  <2>2. run' \in [Procs -> Runs]
    <3>1. [run[p] EXCEPT !.todo = @ \ {n}] \in Runs
      BY <1>0 DEF Runs
    <3>. QED  BY <1>0, <2>1, <3>1, RunTypes
  <2>3. props' \in [0..Len(mirror) -> [Names -> Values]]
    <3>1. run[p].rev \in 0..Len(mirror)
      BY <1>3 DEF PropsStep, At, RunOK
    <3>2. n \in Names /\ run[p].list \in [Names -> Values]
      BY <1>0, Constants DEF Runs
    <3>. PICK r, v : r = run[p].rev /\ v = run[p].list[n]
      OBVIOUS
    <3>3. props' = [props EXCEPT ![r] = [props[r] EXCEPT ![n] = v]]
      BY <2>1
    <3>4. v \in Values
      BY <3>2
    <3>5. props \in [0..Len(mirror) -> [Names -> Values]]
      BY DEF TypeInv
    <3>6. [props[r] EXCEPT ![n] = v] \in [Names -> Values]
      BY <3>1, <3>2, <3>4, <3>5
    <3>. QED  BY <3>3, <3>5, <3>6
  <2>. QED  BY <1>3, <2>2, <2>3 DEF PropsStep, TypeInv
<1>4. CASE PropsDone(p)
  <2>0. run[p].op \in {"init", "sync", "copy"}
    BY <1>0, SvnsyncAssumption DEF Runs
  <2>1. run' \in [Procs -> Runs]
    <3>1. CASE run' = [run EXCEPT ![p].pc = "mark", ![p].list = First]
      <4>1. [run[p] EXCEPT !.pc = "mark", !.list = First] \in Runs
        BY <1>0, Constants DEF Runs, Pcs
      <4>2. run' = [run EXCEPT ![p] = [run[p] EXCEPT !.pc = "mark", !.list = First]]
        BY <1>0, <3>1
      <4>. QED  BY <1>0, <4>1, <4>2, RunTypes
    <3>2. CASE Quit(p)
      BY <1>0, <3>2, QuitTypes
    <3>3. CASE /\ run[p].op = "copy" /\ run[p].rev # run[p].end
               /\ run' = [run EXCEPT ![p].pc = "copyBegin", ![p].rev = Toward(@, run[p].end)]
      <4>. PICK r, e : r = run[p].rev /\ e = run[p].end
        OBVIOUS
      <4>1. r \in 0..Len(mirror) /\ e \in 0..merged /\ merged # None /\ r <= merged /\ r # e
        BY <1>4, <3>3 DEF PropsDone, At, RunOK
      <4>2. Toward(r, e) \in Revs
        <5>1. merged \in Revs /\ MaxRev \in Nat
          BY <4>1, Constants DEF TypeInv
        <5>2. merged \in Nat /\ merged <= MaxRev /\ r \in Nat /\ e \in Nat /\ e <= merged
          BY <1>0, <4>1, <5>1 DEF Revs
        <5>3. CASE r > e
          BY <4>1, <5>1, <5>2, <5>3 DEF Toward, Revs
        <5>4. CASE ~(r > e)
          <6>1. r + 1 <= e
            BY <4>1, <5>2, <5>4
          <6>. QED  BY <5>1, <5>2, <5>4, <6>1 DEF Toward, Revs
        <5>. QED  BY <5>3, <5>4
      <4>3. [run[p] EXCEPT !.pc = "copyBegin", !.rev = Toward(r, e)] \in Runs
        BY <1>0, <4>2 DEF Runs, Pcs
      <4>4. run' = [run EXCEPT ![p] = [run[p] EXCEPT !.pc = "copyBegin", !.rev = Toward(r, e)]]
        BY <1>0, <3>3
      <4>. QED  BY <1>0, <4>3, <4>4, RunTypes
    <3>. QED  BY <1>4, <2>0, <3>1, <3>2, <3>3 DEF PropsDone
  <2>2. cut' \subseteq cut
    BY <1>4 DEF PropsDone
  <2>. QED  BY <1>4, <2>1, <2>2 DEF PropsDone, TypeInv
<1>. QED  BY <1>1, <1>2, <1>3, <1>4

\* synchronize keeps the types.
LEMMA SyncTypes ==
  ASSUME TypeInv, NEW p \in Procs, RunOK(p),
         SyncStart(p) \/ MarkMerged(p) \/ DropCopying(p) \/ SyncRange(p) \/ ReplayStarted(p) \/ CommitRefused(p)
  PROVE  TypeInv'
<1>. USE DEF source, state
<1>0. run \in [Procs -> Runs] /\ run[p] \in Runs /\ Len(mirror) \in Nat /\ from \in Revs
  BY DEF TypeInv
<1>1. CASE SyncStart(p)
  <2>1. run' \in [Procs -> Runs]
    <3>1. CASE Quit(p)
      BY <1>0, <3>1, QuitTypes
    <3>2. CASE merged # None /\ Consistent
      <4>. PICK stage, r : stage = Resume /\ r = IF Resume = "range" THEN merged ELSE copying
        OBVIOUS
      <4>1. stage \in Pcs /\ r \in Revs
        <5>1. stage \in Pcs /\ (stage # "range" => copying = Len(mirror))
          BY DEF Resume, Pcs
        <5>2. merged \in Revs /\ (copying = Len(mirror) => copying \in Revs)
          BY <1>0, <3>2, Constants DEF TypeInv, Revs, None
        <5>. QED  BY <5>1, <5>2
      <4>2. [run[p] EXCEPT !.pc = stage, !.rev = r] \in Runs
        BY <1>0, <4>1 DEF Runs
      <4>3. run' = [run EXCEPT ![p] = [run[p] EXCEPT !.pc = stage, !.rev = r]]
        BY <1>0, <1>1, <3>2 DEF SyncStart
      <4>. QED  BY <1>0, <4>2, <4>3, RunTypes
    <3>. QED  BY <1>1, <3>1, <3>2 DEF SyncStart
  <2>. QED  BY <1>1, <2>1 DEF SyncStart, TypeInv
<1>2. CASE MarkMerged(p)
  <2>1. run' \in [Procs -> Runs]
    BY <1>0, <1>2, GotoTypes DEF MarkMerged, Pcs
  <2>2. run[p].rev \in 0..Len(mirror) /\ run[p].rev \in Revs \cup {None} /\ merged # None
    BY <1>0, <1>2 DEF MarkMerged, At, RunOK, Runs
  <2>3. merged' \in {None} \cup Revs /\ merged' <= Len(mirror) /\ url
    BY <1>0, <1>2, <2>2 DEF MarkMerged, TypeInv
  <2>. QED  BY <1>2, <2>1, <2>3 DEF MarkMerged, TypeInv
<1>3. CASE DropCopying(p)
  <2>1. run' \in [Procs -> Runs]
    BY <1>0, <1>3, GotoTypes DEF DropCopying, Pcs
  <2>. QED  BY <1>3, <2>1 DEF DropCopying, TypeInv
<1>4. CASE SyncRange(p)
  <2>. PICK stage \in Pcs : stage = IF from < run[p].rev THEN "release" ELSE "next"
    BY DEF Pcs
  <2>1. [run[p] EXCEPT !.pc = stage, !.end = from] \in Runs
    BY <1>0 DEF Runs
  <2>2. run' = [run EXCEPT ![p] = [run[p] EXCEPT !.pc = stage, !.end = from]]
    BY <1>0, <1>4 DEF SyncRange
  <2>3. run' \in [Procs -> Runs]
    BY <1>0, <2>1, <2>2, RunTypes
  <2>. QED  BY <1>4, <2>3 DEF SyncRange, TypeInv
<1>5. CASE ReplayStarted(p)
  <2>. PICK r, e : r = run[p].rev /\ e = run[p].end
    OBVIOUS
  <2>0. r \in Revs /\ e \in Revs
    BY <1>5 DEF ReplayStarted, At, RunOK
  <2>1. CASE r >= e
    <3>1. run' \in [Procs -> Runs]
      BY <1>0, <1>5, <2>1, QuitTypes DEF ReplayStarted
    <3>. QED  BY <1>5, <2>1, <3>1 DEF ReplayStarted, TypeInv
  <2>2. CASE ~(r >= e)
    <3>1. r + 1 \in Revs /\ r + 1 \in 1..MaxRev
      BY <2>0, <2>2, Constants DEF Revs
    <3>2. fromProps[r + 1] \in Lists
      BY <3>1 DEF TypeInv
    <3>3. [run[p] EXCEPT !.pc = "commit", !.rev = r + 1, !.list = fromProps[r + 1]] \in Runs
      BY <1>0, <3>1, <3>2 DEF Runs, Pcs
    <3>4. run' = [run EXCEPT ![p] = [run[p] EXCEPT !.pc = "commit", !.rev = r + 1, !.list = fromProps[r + 1]]]
      BY <1>0, <1>5, <2>2 DEF ReplayStarted
    <3>5. run' \in [Procs -> Runs]
      BY <1>0, <3>3, <3>4, RunTypes
    <3>6. copying' = r + 1
      BY <1>5, <2>2 DEF ReplayStarted
    <3>. QED  BY <1>5, <3>1, <3>5, <3>6 DEF ReplayStarted, TypeInv
  <2>. QED  BY <2>1, <2>2
<1>6. CASE CommitRefused(p)
  <2>1. run' \in [Procs -> Runs]
    BY <1>0, <1>6, QuitTypes DEF CommitRefused
  <2>. QED  BY <1>6, <2>1 DEF CommitRefused, TypeInv
<1>. QED  BY <1>1, <1>2, <1>3, <1>4, <1>5, <1>6

\* The mirror gets one more revision, with a property list.
LEMMA GrowTypes ==
  ASSUME TypeInv, NEW c \in Revs, NEW l \in [Names -> Values], mirror' = Append(mirror, c),
         props' = [r \in 0..Len(mirror) + 1 |-> IF r = Len(mirror) + 1 THEN l ELSE props[r]]
  PROVE  /\ mirror' \in Seq(Revs) /\ Len(mirror') = Len(mirror) + 1 /\ Len(mirror) \in Nat
         /\ props' \in [0..Len(mirror') -> [Names -> Values]]
         /\ merged <= Len(mirror') /\ cut \subseteq Revs \cup 0..Len(mirror')
         /\ mirror'[Len(mirror) + 1] = c /\ \A i \in 1..Len(mirror) : mirror'[i] = mirror[i]
         /\ props'[Len(mirror) + 1] = l /\ \A r \in 0..Len(mirror) : props'[r] = props[r]
<1>0. mirror \in Seq(Revs) /\ props \in [0..Len(mirror) -> [Names -> Values]] /\ Len(mirror) \in Nat
  BY DEF TypeInv
<1>1. mirror' \in Seq(Revs) /\ Len(mirror') = Len(mirror) + 1
  BY <1>0
<1>2. mirror'[Len(mirror) + 1] = c /\ \A i \in 1..Len(mirror) : mirror'[i] = mirror[i]
  BY <1>0
<1>3. props' \in [0..Len(mirror') -> [Names -> Values]]
  <2>1. ASSUME NEW r \in 0..Len(mirror) + 1, r # Len(mirror) + 1  PROVE r \in 0..Len(mirror)
    BY <1>0, <2>1
  <2>. QED  BY <1>0, <1>1, <2>1
<1>4. props'[Len(mirror) + 1] = l /\ \A r \in 0..Len(mirror) : props'[r] = props[r]
  BY <1>0
<1>5. merged <= Len(mirror')
  <2>1. merged \in Int /\ merged <= Len(mirror)
    BY Constants DEF TypeInv, Revs, None
  <2>. QED  BY <1>0, <1>1, <2>1
<1>6. cut \subseteq Revs \cup 0..Len(mirror')
  <2>1. 0..Len(mirror) \subseteq 0..Len(mirror')
    BY <1>0, <1>1
  <2>. QED  BY <2>1 DEF TypeInv
<1>. QED  BY <1>0, <1>1, <1>2, <1>3, <1>4, <1>5, <1>6

\* What a commit gives the new revision.
Carried(l) == [n \in Names |-> IF n \in InCommit /\ l[n] # Absent THEN l[n] ELSE Own]

\* replay_rev_finished keeps the types.
LEMMA FinishedTypes ==
  ASSUME TypeInv, NEW p \in Procs, RunOK(p), ReplayFinished(p)
  PROVE  TypeInv'
<1>. USE DEF source, state
<1>0. run \in [Procs -> Runs] /\ run[p] \in Runs /\ Len(mirror) \in Nat
  BY DEF TypeInv
<1>1. run[p].rev \in Revs /\ run[p].list \in Lists /\ run[p].list \in [Names -> Values]
  <2>1. run[p].rev \in 1..MaxRev
    BY DEF ReplayFinished, At, RunOK
  <2>. QED  BY <1>0, <2>1, Constants DEF Runs, Revs
<1>. PICK l : l = Carried(run[p].list)
  OBVIOUS
<1>2. l \in [Names -> Values]
  BY <1>1 DEF Carried, Values
<1>3. /\ mirror' = Append(mirror, run[p].rev)
      /\ props' = [r \in 0..Len(mirror) + 1 |-> IF r = Len(mirror) + 1 THEN l ELSE props[r]]
  BY DEF ReplayFinished, Carried
<1>4. /\ mirror' \in Seq(Revs) /\ props' \in [0..Len(mirror') -> [Names -> Values]]
      /\ merged <= Len(mirror') /\ cut \subseteq Revs \cup 0..Len(mirror')
  BY <1>1, <1>2, <1>3, GrowTypes
<1>5. run' \in [Procs -> Runs]
  <2>. PICK todo : todo = (Present(run[p].list) \ InCommit) \cup (Present(l) \ Present(run[p].list))
    OBVIOUS
  <2>1. Quit(p) \/ run' = [run EXCEPT ![p].pc = "props", ![p].todo = todo]
    BY DEF ReplayFinished, Carried
  <2>2. CASE run' = [run EXCEPT ![p].pc = "props", ![p].todo = todo]
    <3>1. todo \subseteq Names
      BY DEF Present
    <3>2. [run[p] EXCEPT !.pc = "props", !.todo = todo] \in Runs
      BY <1>0, <3>1 DEF Runs, Pcs
    <3>3. run' = [run EXCEPT ![p] = [run[p] EXCEPT !.pc = "props", !.todo = todo]]
      BY <1>0, <2>2
    <3>. QED  BY <1>0, <3>2, <3>3, RunTypes
  <2>. QED  BY <1>0, <2>1, <2>2, QuitTypes
<1>6. UNCHANGED <<source, lock, state, cut, alien, crashes>>
  BY DEF ReplayFinished
<1>. QED  BY <1>4, <1>5, <1>6 DEF TypeInv

\* A failure keeps the types.
LEMMA FailTypes ==
  ASSUME TypeInv, NEW p \in Procs, RunOK(p), Fail(p) \/ Crash(p)
  PROVE  TypeInv'
<1>. USE DEF source, state
<1>0. run \in [Procs -> Runs] /\ run[p] \in Runs
  BY DEF TypeInv
<1>1. cut' \subseteq Revs \cup 0..Len(mirror)
  <2>1. cut' = cut \/ (At(p, "props") /\ cut' = cut \cup {run[p].rev})
    BY DEF Fail, Crash
  <2>2. At(p, "props") => run[p].rev \in 0..Len(mirror)
    BY DEF RunOK, At
  <2>. QED  BY <2>1, <2>2 DEF TypeInv
<1>2. CASE Fail(p)
  <2>1. run' \in [Procs -> Runs]
    BY <1>0, <1>2, QuitTypes DEF Fail
  <2>. QED  BY <1>1, <1>2, <2>1 DEF Fail, TypeInv
<1>3. CASE Crash(p)
  <2>1. run' \in [Procs -> Runs]
    <3>1. \A q \in Procs : [run[q] EXCEPT !.seen = Dead] \in Runs
      BY <1>0, Constants DEF Runs
    <3>. QED  BY <1>0, <1>3, <3>1, Resting DEF Crash
  <2>2. lock' \in Locks /\ crashes' \in 0..MaxCrash
    BY <1>3, Constants DEF Crash, TypeInv
  <2>. QED  BY <1>1, <1>3, <2>1, <2>2 DEF Crash, TypeInv
<1>. QED  BY <1>2, <1>3

\* The source and strangers.
LEMMA OutsideTypes ==
  ASSUME TypeInv, SourceCommit \/ SourceSet \/ Meddle
  PROVE  TypeInv'
<1>. USE DEF source, state
<1>1. CASE SourceCommit
  <2>1. from' \in Revs
    BY <1>1, Constants DEF SourceCommit, TypeInv, Revs
  <2>. QED  BY <1>1, <2>1 DEF SourceCommit, TypeInv
<1>2. CASE SourceSet
  <2>1. PICK r \in 1..from, l \in Lists : fromProps' = [fromProps EXCEPT ![r] = l] /\ had' = [had EXCEPT ![r] = @ \cup {l}]
    BY <1>2 DEF SourceSet
  <2>2. fromProps' \in [Revs -> Lists] /\ had' \in [Revs -> SUBSET Lists]
    BY <2>1 DEF TypeInv
  <2>3. \A x \in Revs : fromProps'[x] \in had'[x]
    BY <2>1 DEF TypeInv
  <2>4. sets' \in 0..MaxSet
    BY <1>2, Constants DEF SourceSet, TypeInv
  <2>. QED  BY <1>2, <2>2, <2>3, <2>4 DEF SourceSet, TypeInv
<1>3. CASE Meddle
  <2>1. /\ mirror' \in Seq(Revs) /\ props' \in [0..Len(mirror') -> [Names -> Values]]
        /\ merged <= Len(mirror') /\ cut \subseteq Revs \cup 0..Len(mirror')
    BY <1>3, GrowTypes, Constants DEF Meddle, Alien
  <2>2. alien' \in {"no", "quiet", "busy"}
    BY <1>3 DEF Meddle
  <2>. QED  BY <1>3, <2>1, <2>2 DEF Meddle, TypeInv
<1>. QED  BY <1>1, <1>2, <1>3

--------------------------------------------------------------------------------
(* The lock *)

\* No run touches another one's record, except that a dead one's token is no longer its token.
LEMMA OthersKept ==
  ASSUME TypeInv, NEW p \in Procs, NEW q \in Procs, q # p, Act(p)
  PROVE  run'[q] = run[q] \/ (Crash(p) /\ run[q].seen = p /\ run'[q] = [run[q] EXCEPT !.seen = Dead])
<1>0. DOMAIN run = Procs /\ q \in Procs /\ q # p
  BY DEF TypeInv
<1>k. CASE Crash(p)
  BY <1>0, <1>k DEF Crash
<1>f. CASE Fail(p)
  BY <1>0, <1>f DEF Fail, Quit
<1>1. CASE InitStart(p) \/ InitUrl(p) \/ InitMerged(p)
  BY <1>0, <1>1 DEF InitStart, InitUrl, InitMerged, Quit, Goto
<1>2. CASE CopyStart(p)
  BY <1>0, <1>2 DEF CopyStart, Quit
<1>3. CASE CopyBegin(p)
  BY <1>0, <1>3 DEF CopyBegin
<1>4. CASE PropsStep(p)
  BY <1>0, <1>4 DEF PropsStep
<1>5. CASE PropsDone(p)
  BY <1>0, <1>5 DEF PropsDone, Quit
<1>6. CASE SyncStart(p)
  BY <1>0, <1>6 DEF SyncStart, Quit
<1>7. CASE MarkMerged(p) \/ DropCopying(p)
  BY <1>0, <1>7 DEF MarkMerged, DropCopying, Goto
<1>8. CASE SyncRange(p)
  BY <1>0, <1>8 DEF SyncRange
<1>9. CASE ReplayStarted(p) \/ CommitRefused(p)
  BY <1>0, <1>9 DEF ReplayStarted, CommitRefused, Quit
<1>10. CASE ReplayFinished(p)
  BY <1>0, <1>10 DEF ReplayFinished, Quit
<1>11. CASE Begin(p)
  BY <1>0, <1>11 DEF Begin
<1>12. CASE LockRead(p)
  BY <1>0, <1>12 DEF LockRead, Locked
<1>13. CASE LockSet(p)
  BY <1>0, <1>13 DEF LockSet
<1>14. CASE ReleaseRead(p) \/ ReleaseSet(p)
  BY <1>0, <1>14 DEF ReleaseRead, ReleaseSet
<1>. QED
  BY <1>k, <1>f, <1>1, <1>2, <1>3, <1>4, <1>5, <1>6, <1>7, <1>8, <1>9, <1>10, <1>11, <1>12, <1>13, <1>14
  DEF Act, Step

\* What a run is at does not change with another one's step.
LEMMA OthersAt ==
  ASSUME TypeInv, NEW p \in Procs, NEW q \in Procs, q # p, Act(p)
  PROVE  /\ run'[q].pc = run[q].pc /\ run'[q].op = run[q].op /\ run'[q].steal = run[q].steal
         /\ run'[q].rev = run[q].rev /\ run'[q].end = run[q].end /\ run'[q].list = run[q].list
         /\ run'[q].todo = run[q].todo /\ run'[q].tries = run[q].tries
         /\ run[q].seen = Nobody => run'[q].seen = Nobody
<1>1. run[q] \in Runs
  BY DEF TypeInv
<1>2. CASE run'[q] = run[q]
  BY <1>2
<1>3. CASE run[q].seen = p /\ run'[q] = [run[q] EXCEPT !.seen = Dead]
  BY <1>1, <1>3, Constants DEF Runs
<1>. QED  BY <1>2, <1>3, OthersKept

\* Who is at work, in words.
LEMMA WorkingAt ==
  ASSUME TypeInv, NEW p \in Procs
  PROVE  /\ p \in Working <=> run[p].pc \notin {"idle", "lockRead", "lockSet", "release", "releaseSet"}
         /\ run[p].pc \in Pcs
         /\ Work(p) => p \in Working
         /\ LockWork(p) => p \notin Working
<1>1. p \in Working <=> run[p].pc \notin {"idle", "lockRead", "lockSet", "release", "releaseSet"}
  BY DEF Working
<1>2. run[p].pc \in Pcs
  BY DEF TypeInv, Runs
<1>3. Work(p) => run[p].pc \in {"start", "initUrl", "initMerged", "copyBegin", "props", "mark", "drop", "range", "next", "commit"}
  BY DEF Work, At, InitStart, InitUrl, InitMerged, CopyStart, CopyBegin, PropsStep, PropsDone,
    SyncStart, MarkMerged, DropCopying, SyncRange, ReplayStarted, CommitRefused, ReplayFinished
<1>4. LockWork(p) => run[p].pc \in {"idle", "lockRead", "lockSet", "release", "releaseSet"}
  BY DEF LockWork, At, Begin, LockRead, LockSet, ReleaseRead, ReleaseSet
<1>. QED  BY <1>1, <1>2, <1>3, <1>4

\* One run at most is at work.
LEMMA OneWorks ==
  ASSUME LockInv, NEW p \in Working, NEW q \in Working
  PROVE  p = q
  BY DEF LockInv

\* A run that has the lock leaves it alone while it works.
LEMMA WorkNext ==
  ASSUME TypeInv, NEW p \in Procs, Work(p) \/ Fail(p)
  PROVE  /\ lock' = lock /\ (run'[p].steal = FALSE \/ run'[p].steal = run[p].steal)
         /\ run'[p].pc \notin {"idle", "lockRead", "lockSet"}
<1>0. run \in [Procs -> Runs]
  BY DEF TypeInv
<1>f. CASE Fail(p)
  BY <1>0, <1>f DEF Fail, Quit, Idle
<1>1. CASE InitStart(p) \/ InitUrl(p) \/ InitMerged(p)
  BY <1>0, <1>1 DEF InitStart, InitUrl, InitMerged, Quit, Goto, Idle, Resume, At, Runs
<1>2. CASE CopyStart(p)
  BY <1>0, <1>2 DEF CopyStart, Quit, Idle, Resume, At, Runs
<1>3. CASE CopyBegin(p)
  BY <1>0, <1>3 DEF CopyBegin, Idle, Resume, At, Runs
<1>4. CASE PropsStep(p)
  BY <1>0, <1>4 DEF PropsStep, Idle, Resume, At, Runs
<1>5. CASE PropsDone(p)
  BY <1>0, <1>5 DEF PropsDone, Quit, Idle, Resume, At, Runs
<1>6. CASE SyncStart(p)
  BY <1>0, <1>6 DEF SyncStart, Quit, Idle, Resume, At, Runs
<1>7. CASE MarkMerged(p) \/ DropCopying(p)
  BY <1>0, <1>7 DEF MarkMerged, DropCopying, Goto, Idle, Resume, At, Runs
<1>8. CASE SyncRange(p)
  BY <1>0, <1>8 DEF SyncRange, Idle, Resume, At, Runs
<1>9. CASE ReplayStarted(p) \/ CommitRefused(p)
  BY <1>0, <1>9 DEF ReplayStarted, CommitRefused, Quit, Idle, Resume, At, Runs
<1>10. CASE ReplayFinished(p)
  BY <1>0, <1>10 DEF ReplayFinished, Quit, Idle, Resume, At, Runs
<1>. QED
  BY <1>f, <1>1, <1>2, <1>3, <1>4, <1>5, <1>6, <1>7, <1>8, <1>9, <1>10
  DEF Work

\* The lock has one owner after every step.
LEMMA LockStep ==
  ASSUME TypeInv, LockInv, Atomic, Careful, NEW p \in Procs, Act(p)
  PROVE  LockInv'
<1>. DEFINE Off == {"idle", "lockRead", "lockSet", "release", "releaseSet"}
<1>0. run \in [Procs -> Runs] /\ run[p] \in Runs
  BY DEF TypeInv
<1>1. ASSUME
        /\ \A q \in Procs : run'[q].pc \notin Off => lock' = q
        /\ \A q \in Procs : run'[q].steal => run'[q].pc \in {"lockRead", "lockSet"}
        /\ \A q \in Procs : run'[q].steal => \A s \in Procs \ {q} : run'[s].pc = "idle"
        /\ \A q \in Procs : run'[q].pc = "lockSet" /\ ~run'[q].steal => run'[q].seen = Nobody
        /\ \A q \in Procs : run'[q].pc = "lockSet" => run'[q].tries < Retries
      PROVE LockInv'
  BY <1>1 DEF LockInv, Working, At
<1>2. /\ \A q \in Procs : run[q].pc \notin Off => lock = q
      /\ \A q \in Procs : run[q].steal => run[q].pc \in {"lockRead", "lockSet"}
      /\ \A q \in Procs : run[q].steal => \A s \in Procs \ {q} : run[s].pc = "idle"
      /\ \A q \in Procs : run[q].pc = "lockSet" /\ ~run[q].steal => run[q].seen = Nobody
      /\ \A q \in Procs : run[q].pc = "lockSet" => run[q].tries < Retries
  BY DEF LockInv, Working, At
<1>3. \A q \in Procs \ {p} : /\ run'[q].pc = run[q].pc /\ run'[q].steal = run[q].steal
                             /\ run'[q].tries = run[q].tries /\ (run[q].seen = Nobody => run'[q].seen = Nobody)
  BY OthersAt
<1>. DEFINE Safe ==
  /\ \A q \in Procs \ {p} : run[q].pc \notin Off => lock' = q
  /\ run'[p].pc \notin Off => lock' = p
  /\ run'[p].steal => run'[p].pc \in {"lockRead", "lockSet"} /\ \A s \in Procs \ {p} : run[s].pc = "idle"
  /\ run[p].pc = "idle" => run'[p].pc = "idle" \/ \A q \in Procs : ~run[q].steal
  /\ run'[p].pc = "lockSet" => run'[p].tries < Retries /\ (~run'[p].steal => run'[p].seen = Nobody)
<1>4. ASSUME Safe  PROVE LockInv'
  <2>. HIDE DEF Off
  <2>1. \A q \in Procs : run'[q].pc \notin Off => lock' = q
    BY <1>3, <1>4
  <2>2. \A q \in Procs : run'[q].steal => run'[q].pc \in {"lockRead", "lockSet"}
    BY <1>2, <1>3, <1>4
  <2>3. \A q \in Procs : run'[q].steal => \A s \in Procs \ {q} : run'[s].pc = "idle"
    <3>. SUFFICES ASSUME NEW q \in Procs, run'[q].steal, NEW s \in Procs \ {q}  PROVE run'[s].pc = "idle"
      OBVIOUS
    <3>1. CASE q = p
      BY <1>3, <1>4, <3>1
    <3>2. CASE q # p
      <4>1. run[q].steal /\ run[s].pc = "idle"
        BY <1>2, <1>3, <3>2
      <4>. QED  BY <1>3, <1>4, <4>1
    <3>. QED  BY <3>1, <3>2
  <2>4. \A q \in Procs : run'[q].pc = "lockSet" /\ ~run'[q].steal => run'[q].seen = Nobody
    BY <1>2, <1>3, <1>4
  <2>5. \A q \in Procs : run'[q].pc = "lockSet" => run'[q].tries < Retries
    BY <1>2, <1>3, <1>4
  <2>6. /\ \A q \in Procs : run'[q].pc \notin Off => lock' = q
        /\ \A q \in Procs : run'[q].steal => run'[q].pc \in {"lockRead", "lockSet"}
        /\ \A q \in Procs : run'[q].steal => \A s \in Procs \ {q} : run'[s].pc = "idle"
        /\ \A q \in Procs : run'[q].pc = "lockSet" /\ ~run'[q].steal => run'[q].seen = Nobody
        /\ \A q \in Procs : run'[q].pc = "lockSet" => run'[q].tries < Retries
    BY <2>1, <2>2, <2>3, <2>4, <2>5
  <2>. QED  BY <1>1, <2>6
<1>5. CASE Begin(p)
  <2>1. PICK steal \in BOOLEAN :
          /\ \A q \in Procs : ~run[q].steal /\ (steal => run[q].pc = "idle")
          /\ run' = [run EXCEPT ![p] = [Idle EXCEPT !.pc = "lockRead", !.steal = steal]]
    BY <1>5 DEF Begin, At
  <2>2. run'[p].pc = "lockRead" /\ run'[p].steal = steal
    BY <1>0, <2>1 DEF Idle
  <2>3. lock' = lock
    BY <1>5 DEF Begin
  <2>s. Safe
    BY <1>2, <2>1, <2>2, <2>3
  <2>. QED  BY <1>4, <2>s
<1>6. CASE LockRead(p)
  <2>0. run[p].pc = "lockRead" /\ lock' = lock
    BY <1>6 DEF LockRead, At
  <2>1. CASE run' = [run EXCEPT ![p] = Idle]
    <3>1. run'[p].pc = "idle" /\ run'[p].steal = FALSE
      BY <1>0, <2>1 DEF Idle
    <3>s. Safe
      BY <1>2, <2>0, <3>1
    <3>. QED  BY <1>4, <3>s
  <2>2. CASE lock = p /\ Locked(p)
    <3>1. run'[p].pc = "start" /\ run'[p].steal = FALSE
      BY <1>0, <2>2 DEF Locked, Idle
    <3>s. Safe
      BY <1>2, <2>0, <2>2, <3>1
    <3>. QED  BY <1>4, <3>s
  <2>3. CASE run' = [run EXCEPT ![p].tries = @ + 1]
    <3>1. run'[p].pc = "lockRead" /\ run'[p].steal = run[p].steal
      BY <1>0, <2>0, <2>3 DEF Runs
    <3>s. Safe
      BY <1>2, <2>0, <3>1
    <3>. QED  BY <1>4, <3>s
  <2>4. CASE /\ run[p].tries < Retries /\ (lock # Nobody => run[p].steal)
             /\ run' = [run EXCEPT ![p].pc = "lockSet", ![p].seen = lock]
    <3>1. run'[p].pc = "lockSet" /\ run'[p].steal = run[p].steal /\ run'[p].seen = lock /\ run'[p].tries = run[p].tries
      BY <1>0, <2>4 DEF Runs
    <3>s. Safe
      BY <1>2, <2>0, <2>4, <3>1
    <3>. QED  BY <1>4, <3>s
  <2>. QED  BY <1>6, <2>1, <2>2, <2>3, <2>4 DEF LockRead
<1>7. CASE LockSet(p)
  <2>1. run[p].pc = "lockSet" /\ run'[p].pc = "lockRead" /\ run'[p].steal = run[p].steal
    BY <1>0, <1>7 DEF LockSet, At, Runs
  <2>2. \A q \in Procs \ {p} : run[q].pc \notin Off => lock' = q
    <3>. SUFFICES ASSUME NEW q \in Procs \ {p}, run[q].pc \notin Off  PROVE lock' = q
      OBVIOUS
    <3>1. lock = q
      BY <1>2
    <3>2. ~run[p].steal
      BY <1>2
    <3>3. run[p].seen = Nobody
      BY <1>2, <2>1, <3>2
    <3>. QED  BY <1>7, <3>1, <3>3, Constants DEF LockSet, Unchanged
  <2>s. Safe
    BY <1>2, <2>1, <2>2
  <2>. QED  BY <1>4, <2>s
<1>8. CASE ReleaseRead(p) \/ ReleaseSet(p)
  <2>1. run'[p].pc \in {"idle", "releaseSet"} /\ run'[p].steal = FALSE /\ run[p].pc # "idle"
    BY <1>0, <1>8 DEF ReleaseRead, ReleaseSet, Idle, At
  <2>2. lock' = lock \/ lock = p
    BY <1>8 DEF ReleaseRead, ReleaseSet
  <2>s. Safe
    BY <1>2, <2>1, <2>2
  <2>. QED  BY <1>4, <2>s
<1>9. CASE Work(p)
  <2>1. run[p].pc \notin Off
    BY <1>9, WorkingAt
  <2>2. ~run[p].steal
    BY <1>2, <2>1
  <2>3. lock' = lock /\ run'[p].pc \notin {"idle", "lockRead", "lockSet"} /\ ~run'[p].steal
    BY <1>9, <2>2, WorkNext
  <2>s. Safe
    BY <1>2, <2>1, <2>3
  <2>. QED  BY <1>4, <2>s
<1>10. CASE Fail(p)
  <2>1. run'[p].pc = "release" /\ run'[p].steal = FALSE /\ lock' = lock /\ run[p].pc # "idle"
    BY <1>0, <1>10 DEF Fail, Quit, Idle, Working, At
  <2>s. Safe
    BY <1>2, <2>1
  <2>. QED  BY <1>4, <2>s
<1>11. CASE Crash(p)
  <2>1. run'[p].pc = "idle" /\ run'[p].steal = FALSE
    BY <1>0, <1>11 DEF Crash, Idle
  <2>2. lock' = lock \/ lock = p
    BY <1>11 DEF Crash
  <2>s. Safe
    BY <1>2, <2>1, <2>2
  <2>. QED  BY <1>4, <2>s
<1>. QED  BY <1>5, <1>6, <1>7, <1>8, <1>9, <1>10, <1>11, ActWork DEF LockWork

--------------------------------------------------------------------------------
(* Steps that leave the mirror and its marks alone *)

\* Locking, failures and crashes leave the mirror as it is.
LEMMA LeavesMirror ==
  ASSUME TypeInv, NEW p \in Procs, LockWork(p) \/ Fail(p) \/ Crash(p)
  PROVE  /\ UNCHANGED <<source, mirror, props, state, alien>>
         /\ run'[p].pc \in {"idle", "lockRead", "lockSet", "start", "release", "releaseSet"}
         /\ \/ cut' = cut /\ ~(At(p, "props") /\ run[p].op = "copy")
            \/ At(p, "props") /\ run[p].op = "copy" /\ cut' = cut \cup {run[p].rev}
<1>0. run \in [Procs -> Runs]
  BY DEF TypeInv
<1>1. CASE Begin(p)
  BY <1>0, <1>1 DEF Begin, Idle, At
<1>2. CASE LockRead(p)
  <2>1. run[p].pc = "lockRead" /\ cut' = cut /\ UNCHANGED <<source, mirror, props, state, alien>>
    BY <1>2 DEF LockRead, At
  <2>2. CASE run' = [run EXCEPT ![p] = Idle]
    BY <1>0, <2>1, <2>2 DEF Idle, At
  <2>3. CASE Locked(p)
    BY <1>0, <2>1, <2>3 DEF Locked, Idle, At
  <2>4. CASE run' = [run EXCEPT ![p].tries = @ + 1] \/ run' = [run EXCEPT ![p].pc = "lockSet", ![p].seen = lock]
    BY <1>0, <2>1, <2>4 DEF At, Runs
  <2>. QED  BY <1>2, <2>2, <2>3, <2>4 DEF LockRead
<1>3. CASE LockSet(p)
  BY <1>0, <1>3 DEF LockSet, At, Runs
<1>4. CASE ReleaseRead(p) \/ ReleaseSet(p)
  BY <1>0, <1>4 DEF ReleaseRead, ReleaseSet, Idle, At
<1>5. CASE Fail(p)
  BY <1>0, <1>5 DEF Fail, Quit, Idle
<1>6. CASE Crash(p)
  BY <1>0, <1>6 DEF Crash, Idle
<1>. QED  BY <1>1, <1>2, <1>3, <1>4, <1>5, <1>6 DEF LockWork

\* A run that is not at work has nothing to answer for.
LEMMA RunVacuous ==
  ASSUME NEW q \in Procs, run'[q].pc \in {"idle", "lockRead", "lockSet", "start", "release", "releaseSet"}
  PROVE  RunOK(q)'
  BY DEF RunOK, Syncing

\* What is known of a run is not disturbed by others.
LEMMA RunFrame ==
  ASSUME TypeInv, NEW q \in Procs, RunOK(q),
         run'[q].pc = run[q].pc, run'[q].op = run[q].op, run'[q].rev = run[q].rev, run'[q].end = run[q].end,
         run'[q].list = run[q].list, run'[q].todo = run[q].todo,
         UNCHANGED <<mirror, props, state, alien>>, cut \subseteq cut',
         \A r \in Revs : had[r] \subseteq had'[r]
  PROVE  RunOK(q)'
<1>. USE DEF state
<1>. PICK r : r = run[q].rev
  OBVIOUS
<1>0. r \in Revs \cup {None} /\ Aliens' = Aliens
  BY DEF TypeInv, Runs, Aliens
<1>1. r \in 0..Len(mirror) \/ r \in 1..MaxRev => r \in Revs
  BY <1>0, Constants DEF None
<1>2. r \in Revs => had[r] \subseteq had'[r] /\ (Settled(r) => Settled(r)')
  BY DEF Settled
<1>3. run[q].pc = "mark" => r \in 0..Len(mirror)
  BY DEF RunOK
<1>4. run[q].pc = "mark" /\ Settled(r) => Settled(r)'
  BY <1>1, <1>2, <1>3
<1>5. run[q].pc = "props" => run[q].list \in had'[r]
  BY <1>1, <1>2 DEF RunOK
<1>6. run[q].pc = "commit" => run[q].list \in had'[r]
  BY <1>1, <1>2 DEF RunOK
<1>. QED  BY <1>0, <1>4, <1>5, <1>6 DEF RunOK, Settled

\* A step of p does not disturb another run.
LEMMA RunOther ==
  ASSUME IInv, NEW p \in Procs, Act(p), NEW q \in Procs, q # p
  PROVE  RunOK(q)'
<1>0. TypeInv /\ LockInv /\ RunOK(q)
  BY DEF IInv
<1>1. /\ run'[q].pc = run[q].pc /\ run'[q].op = run[q].op /\ run'[q].rev = run[q].rev /\ run'[q].end = run[q].end
      /\ run'[q].list = run[q].list /\ run'[q].todo = run[q].todo
  BY <1>0, OthersAt
<1>2. CASE q \notin Working
  BY <1>0, <1>1, <1>2, WorkingAt, RunVacuous
<1>3. CASE q \in Working
  <2>1. p \notin Working
    BY <1>0, <1>3, OneWorks
  <2>2. LockWork(p) \/ Fail(p) \/ Crash(p)
    BY <1>0, <2>1, WorkingAt, ActWork
  <2>3. UNCHANGED <<source, mirror, props, state, alien>> /\ cut' = cut
    <3>1. ~At(p, "props")
      BY <1>0, <2>1, WorkingAt DEF At
    <3>. QED  BY <1>0, <2>2, <3>1, LeavesMirror
  <2>. QED  BY <1>0, <1>1, <2>3, RunFrame DEF source
<1>. QED  BY <1>2, <1>3

\* Foreign revisions are counted.
LEMMA AliensGrow ==
  ASSUME TypeInv, CountInv, NEW c \in Revs, mirror' = Append(mirror, c)
  PROVE  /\ IsFiniteSet(Aliens') /\ Cardinality(Aliens) \in Nat
         /\ c # Alien => Cardinality(Aliens') = Cardinality(Aliens)
         /\ c = Alien => Cardinality(Aliens') = Cardinality(Aliens) + 1
<1>0. mirror \in Seq(Revs) /\ Len(mirror) \in Nat /\ IsFiniteSet(Aliens)
  BY DEF TypeInv, CountInv
<1>1. /\ Len(mirror') = Len(mirror) + 1 /\ mirror'[Len(mirror) + 1] = c
      /\ \A i \in 1..Len(mirror) : mirror'[i] = mirror[i]
  BY <1>0
<1>2. \A i \in 1 .. Len(mirror) + 1 : i \in 1..Len(mirror) \/ i = Len(mirror) + 1
  BY <1>0
<1>3. 1..Len(mirror) \subseteq 1 .. Len(mirror) + 1 /\ Len(mirror) + 1 \in 1 .. Len(mirror) + 1
      /\ Len(mirror) + 1 \notin 1..Len(mirror)
  BY <1>0
<1>4. CASE c # Alien
  <2>1. Aliens' = Aliens
    BY <1>1, <1>2, <1>3, <1>4 DEF Aliens
  <2>. QED  BY <1>0, <1>4, <2>1, FS_CardinalityType
<1>5. CASE c = Alien
  <2>1. Aliens' = Aliens \cup {Len(mirror) + 1}
    BY <1>1, <1>2, <1>3, <1>5 DEF Aliens
  <2>2. Len(mirror) + 1 \notin Aliens
    BY <1>3 DEF Aliens
  <2>. QED  BY <1>0, <1>5, <2>1, <2>2, FS_CardinalityType, FS_AddElement
<1>. QED  BY <1>4, <1>5

\* Only replay_rev_finished commits to the mirror.
LEMMA Mirrors ==
  ASSUME NEW p \in Procs, Act(p)
  PROVE  mirror' = mirror \/ ReplayFinished(p)
<1>1. CASE LockWork(p)
  BY <1>1 DEF LockWork, Begin, LockRead, LockSet, ReleaseRead, ReleaseSet
<1>2. CASE Work(p)
  BY <1>2 DEF Work, InitStart, InitUrl, InitMerged, CopyStart, CopyBegin, PropsStep, PropsDone,
    SyncStart, MarkMerged, DropCopying, SyncRange, ReplayStarted, CommitRefused
<1>3. CASE Fail(p) \/ Crash(p)
  BY <1>3 DEF Fail, Crash
<1>. QED  BY <1>1, <1>2, <1>3, ActWork

\* The mirror has no more revisions than the source and the foreign commits.
LEMMA CountStep ==
  ASSUME IInv, Next
  PROVE  CountInv'
<1>0. TypeInv /\ CountInv /\ Len(mirror) \in Nat
  BY DEF IInv, TypeInv
<1>n. /\ MaxRev \in Nat /\ MaxMeddle \in Nat /\ Cardinality(Aliens) \in Nat
      /\ Cardinality(Aliens) <= MaxMeddle /\ Len(mirror) <= MaxRev + Cardinality(Aliens)
  BY <1>0, Constants, FS_CardinalityType DEF CountInv
<1>1. CASE mirror' = mirror
  <2>1. Aliens' = Aliens
    BY <1>1 DEF Aliens
  <2>. QED  BY <1>0, <1>1, <2>1 DEF CountInv
<1>2. ASSUME NEW p \in Procs, ReplayFinished(p)  PROVE CountInv'
  <2>1. run[p].rev \in 1..MaxRev /\ Len(mirror) <= run[p].rev - 1 + Cardinality(Aliens)
    BY <1>2 DEF IInv, RunOK, ReplayFinished, At
  <2>2. run[p].rev \in Revs /\ run[p].rev # Alien
    BY <2>1, <1>n DEF Revs, Alien
  <2>3. mirror' = Append(mirror, run[p].rev)
    BY <1>2 DEF ReplayFinished
  <2>4. IsFiniteSet(Aliens') /\ Cardinality(Aliens') = Cardinality(Aliens)
    BY <1>0, <2>2, <2>3, AliensGrow
  <2>5. Len(mirror') = Len(mirror) + 1
    BY <1>0, <2>2, <2>3 DEF TypeInv
  <2>6. Len(mirror') <= MaxRev + Cardinality(Aliens')
    BY <1>0, <1>n, <2>1, <2>4, <2>5
  <2>. QED  BY <1>n, <2>4, <2>6 DEF CountInv
<1>3. CASE Meddle
  <2>1. mirror' = Append(mirror, Alien) /\ Alien \in Revs /\ Cardinality(Aliens) < MaxMeddle
    BY <1>3, Constants DEF Meddle, Alien, Aliens
  <2>2. IsFiniteSet(Aliens') /\ Cardinality(Aliens') = Cardinality(Aliens) + 1
    BY <1>0, <2>1, AliensGrow
  <2>3. Len(mirror') = Len(mirror) + 1
    BY <1>0, <2>1 DEF TypeInv
  <2>4. Cardinality(Aliens') <= MaxMeddle /\ Len(mirror') <= MaxRev + Cardinality(Aliens')
    BY <1>0, <1>n, <2>1, <2>2, <2>3
  <2>. QED  BY <2>2, <2>4 DEF CountInv
<1>4. CASE SourceCommit \/ SourceSet
  BY <1>1, <1>4 DEF SourceCommit, SourceSet
<1>. QED  BY <1>1, <1>2, <1>3, <1>4, Mirrors DEF Next, Act

--------------------------------------------------------------------------------
(* The subcommands at work *)

\* The ranges of the revision numbers.
LEMMA Numbers ==
  ASSUME IInv
  PROVE  /\ MaxRev \in Nat /\ Len(mirror) \in Nat /\ from \in Nat /\ from <= MaxRev
         /\ merged \in Int /\ merged >= -1 /\ merged <= MaxRev /\ merged <= Len(mirror)
         /\ merged # None => merged \in Nat /\ merged \in Revs
         /\ copying \in Int /\ (copying # None => copying \in Nat /\ copying >= 1 /\ copying <= MaxRev)
         /\ Cardinality(Aliens) \in Nat
<1>1. TypeInv /\ CountInv
  BY DEF IInv
<1>2. MaxRev \in Nat /\ Len(mirror) \in Nat /\ from \in Nat /\ from <= MaxRev
  BY <1>1, Constants DEF TypeInv, Revs
<1>3. merged \in Int /\ merged >= -1 /\ merged <= MaxRev /\ merged <= Len(mirror)
  BY <1>1, <1>2 DEF TypeInv, Revs, None
<1>4. merged # None => merged \in Nat /\ merged \in Revs
  BY <1>1 DEF TypeInv, Revs
<1>5. copying \in Int /\ (copying # None => copying \in Nat /\ copying >= 1 /\ copying <= MaxRev)
  BY <1>1, <1>2 DEF TypeInv, None
<1>6. Cardinality(Aliens) \in Nat
  BY <1>1, FS_CardinalityType DEF CountInv
<1>. QED  BY <1>2, <1>3, <1>4, <1>5, <1>6

\* Steps that leave the marks on revision 0 as they are.
LEMMA MarkFrame ==
  ASSUME MarkInv, UNCHANGED <<mirror, merged, copying, alien>>
  PROVE  MarkInv'
  BY DEF MarkInv, Consistent

\* The lists of merged revisions are left alone.
LEMMA PropsFrame ==
  ASSUME IInv, NEW p \in Procs, Act(p), ~(At(p, "props") /\ run[p].op = "copy"),
         merged' = merged, UNCHANGED <<had, alien>>, cut \subseteq cut', \A r \in 1..merged : props'[r] = props[r]
  PROVE  PropsInv'
<1>0. TypeInv /\ PropsInv
  BY DEF IInv
<1>. SUFFICES ASSUME alien = "no", merged # None, NEW r \in 1..merged,
                     ~(props'[r] \in had'[r] \/ r \in cut')
              PROVE  \E q \in Procs : run'[q].pc = "props" /\ run'[q].op = "copy" /\ run'[q].rev = r
  BY DEF PropsInv, Settled, At
<1>1. PICK q \in Procs : run[q].pc = "props" /\ run[q].op = "copy" /\ run[q].rev = r
  BY <1>0 DEF PropsInv, Settled, At
<1>2. q # p
  BY <1>1 DEF At
<1>. QED  BY <1>0, <1>1, <1>2, OthersAt

\* Nobody else is at work: no list is being copied by another run.
LEMMA SettledAll ==
  ASSUME IInv, NEW p \in Working, run[p].pc # "props", alien = "no", merged # None, NEW r \in 1..merged
  PROVE  Settled(r)
<1>0. TypeInv /\ PropsInv /\ LockInv
  BY DEF IInv
<1>. SUFFICES ASSUME NEW q \in Procs, At(q, "props")  PROVE FALSE
  BY <1>0 DEF PropsInv
<1>1. q \in Working
  BY <1>0, WorkingAt DEF At
<1>. QED  BY <1>0, <1>1, OneWorks DEF At

\* What is to be proved of a step of a run at work.
Goes(p) == RunOK(p)' /\ MarkInv' /\ PropsInv'

\* A run that gives up, or is done, leaves the marks in order.
LEMMA QuitGoes ==
  ASSUME IInv, NEW p \in Procs, Act(p), Quit(p), ~(At(p, "props") /\ run[p].op = "copy"),
         UNCHANGED <<mirror, props, merged, copying, had, alien>>, cut \subseteq cut'
  PROVE  Goes(p)
<1>0. run \in [Procs -> Runs] /\ MarkInv
  BY DEF IInv, TypeInv
<1>1. RunOK(p)'
  <2>1. run'[p].pc = "release"
    BY <1>0 DEF Quit, Idle
  <2>. QED  BY <2>1, RunVacuous
<1>2. MarkInv'
  BY <1>0, MarkFrame
<1>3. PropsInv'
  BY PropsFrame
<1>. QED  BY <1>1, <1>2, <1>3 DEF Goes

\* initialize keeps the invariant.
LEMMA InitGoes ==
  ASSUME IInv, NEW p \in Procs, InitStart(p) \/ InitUrl(p) \/ InitMerged(p)
  PROVE  Goes(p)
<1>. USE DEF source, state
<1>0. TypeInv /\ MarkInv /\ RunOK(p) /\ run \in [Procs -> Runs] /\ run[p] \in Runs
  BY DEF IInv, TypeInv
<1>a. Act(p)
  BY DEF Act, Step
<1>1. CASE InitStart(p)
  <2>1. CASE Quit(p)
    BY <1>a, <1>1, <2>1, QuitGoes DEF InitStart, At
  <2>2. CASE run' = [run EXCEPT ![p].pc = "initUrl", ![p].rev = Len(mirror), ![p].allow = FALSE]
    <3>1. run'[p].pc = "initUrl" /\ run'[p].op = "init" /\ run'[p].rev = Len(mirror) /\ mirror' = mirror
      BY <1>0, <1>1, <2>2 DEF InitStart, Runs
    <3>2. RunOK(p)'
      BY <3>1, Numbers DEF RunOK, Syncing
    <3>3. MarkInv' /\ PropsInv'
      BY <1>0, <1>a, <1>1, MarkFrame, PropsFrame DEF InitStart, At
    <3>. QED  BY <3>2, <3>3 DEF Goes
  <2>. QED  BY <1>1, <2>1, <2>2 DEF InitStart
<1>2. CASE InitUrl(p)
  <2>1. run'[p].pc = "initMerged" /\ run'[p].op = run[p].op /\ run'[p].rev = run[p].rev
    BY <1>0, <1>2 DEF InitUrl, Goto, Runs
  <2>2. mirror' = mirror /\ alien' = alien /\ url' = TRUE
    BY <1>2 DEF InitUrl
  <2>3. run[p].op = "init" /\ run[p].rev \in 0..Len(mirror) /\ (alien = "no" => run[p].rev = Len(mirror))
    BY <1>0, <1>2 DEF InitUrl, At, RunOK
  <2>4. RunOK(p)'
    BY <2>1, <2>2, <2>3 DEF RunOK, Syncing
  <2>5. MarkInv' /\ PropsInv'
    BY <1>0, <1>a, <1>2, MarkFrame, PropsFrame DEF InitUrl, At
  <2>. QED  BY <2>4, <2>5 DEF Goes
<1>3. CASE InitMerged(p)
  <2>. PICK r : r = run[p].rev
    OBVIOUS
  <2>1. run'[p].pc = "copyBegin" /\ run'[p].op = run[p].op /\ run'[p].rev = r
    BY <1>0, <1>3 DEF InitMerged, Goto, Runs
  <2>2. /\ mirror' = mirror /\ merged' = r /\ cut' = cut \cup {r} /\ props' = props /\ had' = had
        /\ copying' = copying /\ (alien' = "no" => alien = "no")
    BY <1>3 DEF InitMerged
  <2>3. run[p].op = "init" /\ r \in 0..Len(mirror) /\ (alien = "no" => r = Len(mirror)) /\ r # None
    BY <1>0, <1>3, Numbers DEF InitMerged, At, RunOK, None
  <2>4. RunOK(p)'
    BY <2>1, <2>2, <2>3 DEF RunOK, Syncing
  <2>5. MarkInv'
    <3>. SUFFICES ASSUME alien = "no"  PROVE (\A i \in 1..Len(mirror) : mirror[i] = i) /\ Consistent'
      BY <2>2, <2>3 DEF MarkInv, Consistent
    <3>1. \A i \in 1..Len(mirror) : mirror[i] = i
      BY <1>0 DEF MarkInv
    <3>2. CASE copying = None
      BY <2>2, <2>3, <3>1, <3>2 DEF Consistent
    <3>3. CASE copying # None
      <4>1. merged # None /\ copying \in {merged, merged + 1} /\ Len(mirror) \in {merged, copying}
        BY <1>0, <3>3 DEF MarkInv, Consistent
      <4>2. copying \in {r, r + 1} /\ Len(mirror) \in {r, copying}
        BY <2>3, <4>1, Numbers
      <4>. QED  BY <2>2, <3>1, <3>3, <4>2 DEF Consistent
    <3>. QED  BY <3>1, <3>2, <3>3
  <2>6. PropsInv'
    <3>. SUFFICES ASSUME alien = "no", NEW i \in 1..r  PROVE Settled(i)'
      BY <2>2 DEF PropsInv
    <3>1. CASE i = r
      BY <2>2, <3>1 DEF Settled
    <3>2. CASE i # r
      <4>1. merged # None /\ i \in 1..merged
        <5>1. merged # None
          BY <1>0, <2>3, Numbers DEF MarkInv
        <5>2. merged = r \/ merged = r - 1
          BY <1>0, <2>3, <5>1, Numbers DEF MarkInv, Consistent
        <5>. QED  BY <2>3, <3>2, <5>1, <5>2, Numbers
      <4>2. p \in Working /\ run[p].pc # "props"
        BY <1>3 DEF Working, InitMerged, At
      <4>3. Settled(i)
        BY <4>1, <4>2, SettledAll
      <4>. QED  BY <2>2, <4>3 DEF Settled
    <3>. QED  BY <3>1, <3>2
  <2>. QED  BY <2>4, <2>5, <2>6 DEF Goes
<1>. QED  BY <1>1, <1>2, <1>3

\* Two lists that agree on every name are the same.
LEMMA SameList ==
  ASSUME NEW a \in [Names -> Values], NEW l \in Lists, \A n \in Names : a[n] = l[n]
  PROVE  a = l
<1>1. l \in [Names -> Values]
  BY Constants
<1>. QED  BY <1>1

\* copy-revprops keeps the invariant.
LEMMA CopyGoes ==
  ASSUME IInv, NEW p \in Procs, CopyStart(p) \/ CopyBegin(p)
  PROVE  Goes(p)
<1>. USE DEF source, state
<1>0. TypeInv /\ MarkInv /\ RunOK(p) /\ run \in [Procs -> Runs] /\ run[p] \in Runs
  BY DEF IInv, TypeInv
<1>a. Act(p) /\ UNCHANGED <<source, mirror, props, state, cut, alien>> /\ run[p].pc \in {"start", "copyBegin"}
  BY DEF Act, Step, CopyStart, CopyBegin, At
<1>b. Aliens' = Aliens
  BY <1>a DEF Aliens
<1>m. MarkInv' /\ PropsInv'
  BY <1>0, <1>a, MarkFrame, PropsFrame DEF At
<1>1. CASE CopyStart(p)
  <2>1. CASE Quit(p)
    BY <1>a, <2>1, QuitGoes DEF At
  <2>2. CASE ~Quit(p)
    <3>0. PICK range \in Ranges :
            IF merged # None /\ range[1] <= merged /\ range[2] <= merged
            THEN run' = [run EXCEPT ![p].pc = "copyBegin", ![p].rev = range[1], ![p].end = range[2]]
            ELSE Quit(p)
      BY <1>1 DEF CopyStart
    <3>. PICK a, b : a = range[1] /\ b = range[2]
      OBVIOUS
    <3>1. merged # None /\ a <= merged /\ b <= merged
      BY <2>2, <3>0
    <3>2. run' = [run EXCEPT ![p].pc = "copyBegin", ![p].rev = a, ![p].end = b]
      BY <2>2, <3>0
    <3>3. a \in Nat /\ b \in Nat
      BY SvnsyncAssumption
    <3>4. run'[p].pc = "copyBegin" /\ run'[p].op = "copy" /\ run'[p].rev = a /\ run'[p].end = b
      BY <1>0, <1>1, <3>2 DEF CopyStart, Runs
    <3>5. a \in 0..Len(mirror) /\ a <= merged /\ b \in 0..merged
      BY <3>1, <3>3, Numbers
    <3>6. RunOK(p)'
      BY <1>a, <3>1, <3>4, <3>5 DEF RunOK, Syncing
    <3>. QED  BY <1>m, <3>6 DEF Goes
  <2>. QED  BY <2>1, <2>2
<1>2. CASE CopyBegin(p)
  <2>. PICK r, l : r = run[p].rev /\ l = fromProps[r]
    OBVIOUS
  <2>. DEFINE extra == IF run[p].op = "init" THEN {} ELSE Present(props[r]) \ Present(l)
              todo  == Present(l) \cup extra
  <2>1. run' = [run EXCEPT ![p].pc = "props", ![p].list = l, ![p].todo = todo]
    BY <1>2 DEF CopyBegin
  <2>2. /\ run'[p].pc = "props" /\ run'[p].op = run[p].op /\ run'[p].rev = r /\ run'[p].end = run[p].end
        /\ run'[p].list = l /\ run'[p].todo = todo
    <3>. HIDE DEF todo
    <3>. QED  BY <1>0, <2>1 DEF Runs
  <2>3. run[p].pc = "copyBegin" /\ r \in 0..Len(mirror) /\ merged # None /\ r \in Revs
    BY <1>0, <1>2 DEF CopyBegin, At, RunOK, Runs, None
  <2>4. l \in had[r]
    BY <1>0, <2>3 DEF TypeInv
  <2>5. run[p].op # "init" => \A n \in Names \ todo : props[r][n] = l[n]
    BY DEF Present
  <2>. HIDE DEF todo
  <2>6. /\ run[p].op = "copy" => r <= merged /\ run[p].end \in 0..merged
        /\ run[p].op = "init" => r \in cut
        /\ run[p].op = "sync" /\ alien = "no" => r = Len(mirror) /\ copying = r /\ merged = r - 1
        /\ run[p].op = "sync" => Len(mirror) <= r + Cardinality(Aliens)
    BY <1>0, <2>3 DEF RunOK
  <2>7. RunOK(p)'
    BY <1>a, <1>b, <2>2, <2>3, <2>4, <2>5, <2>6 DEF RunOK, Syncing
  <2>. QED  BY <1>m, <2>7 DEF Goes
<1>. QED  BY <1>1, <1>2

\* A property request keeps the invariant.
LEMMA PropsStepGoes ==
  ASSUME IInv, NEW p \in Procs, PropsStep(p)
  PROVE  Goes(p)
<1>. USE DEF source, state
<1>0. TypeInv /\ MarkInv /\ PropsInv /\ RunOK(p) /\ run \in [Procs -> Runs] /\ run[p] \in Runs
  BY DEF IInv, TypeInv
<1>a. Act(p) /\ UNCHANGED <<source, mirror, state, cut, alien>> /\ run[p].pc = "props"
  BY DEF Act, Step, PropsStep, At
<1>b. Aliens' = Aliens
  BY <1>a DEF Aliens
<1>m. MarkInv'
  BY <1>0, <1>a, MarkFrame
<1>. PICK r, l : r = run[p].rev /\ l = run[p].list
  OBVIOUS
<1>1. PICK n \in run[p].todo : props' = [props EXCEPT ![r][n] = l[n]] /\ run' = [run EXCEPT ![p].todo = @ \ {n}]
  BY DEF PropsStep
<1>2. /\ run'[p].pc = "props" /\ run'[p].op = run[p].op /\ run'[p].rev = r /\ run'[p].end = run[p].end
      /\ run'[p].list = l /\ run'[p].todo = run[p].todo \ {n}
  BY <1>0, <1>a, <1>1 DEF Runs
<1>3. r \in 0..Len(mirror) /\ merged # None /\ l \in had[r] /\ n \in Names
  BY <1>0, <1>a DEF RunOK, Runs
<1>4. /\ run[p].op = "copy" => r <= merged /\ run[p].end \in 0..merged
      /\ run[p].op = "init" => r \in cut
      /\ run[p].op = "sync" /\ alien = "no" => r = Len(mirror) /\ copying = r /\ merged = r - 1
      /\ run[p].op = "sync" => Len(mirror) <= r + Cardinality(Aliens)
      /\ run[p].op # "init" => \A m \in Names \ run[p].todo : props[r][m] = l[m]
  BY <1>0, <1>a DEF RunOK
<1>p. props \in [0..Len(mirror) -> [Names -> Values]]
  BY <1>0 DEF TypeInv
<1>5. /\ props'[r] = [props[r] EXCEPT ![n] = l[n]]
      /\ \A x \in 0..Len(mirror) : x # r => props'[x] = props[x]
  BY <1>1, <1>3, <1>p
<1>6. props[r] \in [Names -> Values]
  BY <1>3, <1>p
<1>7. run[p].op # "init" => \A m \in Names \ (run[p].todo \ {n}) : props'[r][m] = l[m]
  BY <1>4, <1>5, <1>6
<1>8. RunOK(p)'
  BY <1>a, <1>b, <1>2, <1>3, <1>4, <1>7 DEF RunOK, Syncing
<1>9. PropsInv'
  <2>. SUFFICES ASSUME alien = "no", NEW i \in 1..merged
                PROVE  Settled(i)' \/ \E q \in Procs : run'[q].pc = "props" /\ run'[q].op = "copy" /\ run'[q].rev = i
    BY <1>a DEF PropsInv, At
  <2>0. i \in 0..Len(mirror)
    BY <1>3, Numbers
  <2>1. Settled(i) \/ \E q \in Procs : run[q].pc = "props" /\ run[q].op = "copy" /\ run[q].rev = i
    BY <1>0, <1>3 DEF PropsInv, At
  <2>2. CASE \E q \in Procs : run[q].pc = "props" /\ run[q].op = "copy" /\ run[q].rev = i
    <3>1. PICK q \in Procs : run[q].pc = "props" /\ run[q].op = "copy" /\ run[q].rev = i
      BY <2>2
    <3>. QED  BY <1>0, <1>a, <1>2, <3>1, OthersAt
  <2>3. CASE Settled(i) /\ i # r
    BY <1>a, <1>5, <2>0, <2>3 DEF Settled
  <2>4. CASE i = r /\ run[p].op = "copy"
    BY <1>2, <2>4
  <2>5. CASE i = r /\ run[p].op = "init"
    BY <1>a, <1>4, <2>5 DEF Settled
  <2>6. ~(i = r /\ run[p].op = "sync")
    BY <1>4, Numbers
  <2>7. run[p].op \in {"init", "sync", "copy"}
    BY <1>0, SvnsyncAssumption DEF Runs
  <2>. QED  BY <2>1, <2>2, <2>3, <2>4, <2>5, <2>6, <2>7
<1>. QED  BY <1>m, <1>8, <1>9 DEF Goes

\* The last property request keeps the invariant.
LEMMA PropsDoneGoes ==
  ASSUME IInv, NEW p \in Procs, PropsDone(p)
  PROVE  Goes(p)
<1>. USE DEF source, state
<1>0. TypeInv /\ MarkInv /\ PropsInv /\ LockInv /\ RunOK(p) /\ run \in [Procs -> Runs] /\ run[p] \in Runs
  BY DEF IInv, TypeInv
<1>a. Act(p) /\ UNCHANGED <<source, mirror, props, state, alien>> /\ run[p].pc = "props" /\ run[p].todo = {}
  BY DEF Act, Step, PropsDone, At
<1>b. Aliens' = Aliens
  BY <1>a DEF Aliens
<1>m. MarkInv'
  BY <1>0, <1>a, MarkFrame
<1>. PICK r, l : r = run[p].rev /\ l = run[p].list
  OBVIOUS
<1>1. /\ r \in 0..Len(mirror) /\ merged # None /\ l \in had[r] /\ l \in Lists
      /\ run[p].op = "copy" => r <= merged /\ run[p].end \in 0..merged
      /\ run[p].op = "sync" /\ alien = "no" => r = Len(mirror) /\ copying = r /\ merged = r - 1
      /\ run[p].op = "sync" => Len(mirror) <= r + Cardinality(Aliens)
  BY <1>0, <1>a DEF RunOK, Runs
<1>2. run[p].op # "init" => props[r] \in had[r]
  <2>. SUFFICES ASSUME run[p].op # "init"  PROVE props[r] \in had[r]
    OBVIOUS
  <2>1. \A n \in Names : props[r][n] = l[n]
    BY <1>0, <1>a DEF RunOK
  <2>2. props[r] \in [Names -> Values]
    BY <1>0, <1>1 DEF TypeInv
  <2>3. props[r] = l
    BY <1>1, <2>1, <2>2, SameList
  <2>. QED  BY <1>1, <2>3
<1>3. run[p].op \in {"init", "sync", "copy"}
  BY <1>0, SvnsyncAssumption DEF Runs
<1>w. p \in Working
  BY <1>a DEF Working
<1>4. CASE run[p].op = "sync"
  <2>1. run' = [run EXCEPT ![p].pc = "mark", ![p].list = First] /\ cut' = cut
    BY <1>4 DEF PropsDone
  <2>2. run'[p].pc = "mark" /\ run'[p].op = "sync" /\ run'[p].rev = r
    BY <1>0, <1>4, <2>1 DEF Runs
  <2>3. Settled(r)'
    BY <1>a, <1>2, <1>4 DEF Settled
  <2>4. RunOK(p)'
    BY <1>a, <1>b, <1>1, <1>4, <2>2, <2>3 DEF RunOK, Syncing, Settled
  <2>5. PropsInv'
    BY <1>a, <1>4, <2>1, PropsFrame
  <2>. QED  BY <1>m, <2>4, <2>5 DEF Goes
<1>5. CASE run[p].op = "init"
  <2>1. Quit(p) /\ cut' = cut
    BY <1>5 DEF PropsDone
  <2>. QED  BY <1>a, <1>5, <2>1, QuitGoes
<1>6. CASE run[p].op = "copy"
  <2>0. cut' = cut \ {r}
    BY <1>6 DEF PropsDone
  <2>1. PropsInv'
    <3>. SUFFICES ASSUME alien = "no", NEW i \in 1..merged  PROVE Settled(i)'
      BY <1>a DEF PropsInv
    <3>1. CASE i = r
      BY <1>a, <1>2, <1>6, <3>1 DEF Settled
    <3>2. CASE i # r
      <4>1. Settled(i)
        <5>. SUFFICES ASSUME NEW q \in Procs, At(q, "props"), run[q].rev = i  PROVE FALSE
          BY <1>0, <1>1 DEF PropsInv
        <5>1. q = p
          BY <1>0, <1>w, WorkingAt, OneWorks DEF At
        <5>. QED  BY <3>2, <5>1
      <4>. QED  BY <1>a, <2>0, <3>2, <4>1 DEF Settled
    <3>. QED  BY <3>1, <3>2
  <2>2. CASE run[p].rev = run[p].end
    <3>1. Quit(p)
      BY <1>6, <2>2 DEF PropsDone
    <3>2. run'[p].pc = "release"
      BY <1>0, <3>1 DEF Quit, Idle
    <3>. QED  BY <1>m, <2>1, <3>2, RunVacuous DEF Goes
  <2>3. CASE run[p].rev # run[p].end
    <3>. PICK e, t : e = run[p].end /\ t = Toward(r, e)
      OBVIOUS
    <3>1. run' = [run EXCEPT ![p].pc = "copyBegin", ![p].rev = t]
      BY <1>6, <2>3 DEF PropsDone
    <3>2. run'[p].pc = "copyBegin" /\ run'[p].op = "copy" /\ run'[p].rev = t /\ run'[p].end = e
      BY <1>0, <1>6, <3>1 DEF Runs
    <3>3. t \in 0..Len(mirror) /\ t <= merged /\ e \in 0..merged
      <4>0. merged \in Int /\ Len(mirror) \in Nat /\ merged <= Len(mirror)
        BY Numbers
      <4>1. r \in Nat /\ e \in Nat /\ e <= merged /\ r <= merged /\ r # e /\ e \in 0..merged
        BY <1>1, <1>6, <2>3, Numbers
      <4>2. CASE r > e
        <5>1. t = r - 1 /\ t \in Nat
          BY <4>1, <4>2 DEF Toward
        <5>. QED  BY <4>0, <4>1, <5>1
      <4>3. CASE ~(r > e)
        <5>1. r + 1 <= e /\ t = r + 1
          BY <4>1, <4>3 DEF Toward
        <5>. QED  BY <4>0, <4>1, <5>1
      <4>. QED  BY <4>2, <4>3
    <3>4. RunOK(p)'
      BY <1>a, <1>1, <3>2, <3>3 DEF RunOK, Syncing
    <3>. QED  BY <1>m, <2>1, <3>4 DEF Goes
  <2>. QED  BY <2>2, <2>3
<1>. QED  BY <1>3, <1>4, <1>5, <1>6

\* The start of synchronize keeps the invariant: it finds from the marks and HEAD where to go on.
LEMMA SyncStartGoes ==
  ASSUME IInv, NEW p \in Procs, SyncStart(p)
  PROVE  Goes(p)
<1>. USE DEF source, state
<1>0. TypeInv /\ MarkInv /\ run \in [Procs -> Runs] /\ run[p] \in Runs
  BY DEF IInv, TypeInv
<1>a. Act(p) /\ UNCHANGED <<source, mirror, props, state, cut, alien>> /\ run[p].pc = "start" /\ run[p].op = "sync"
  BY DEF Act, Step, SyncStart, At
<1>b. Aliens' = Aliens
  BY <1>a DEF Aliens
<1>m. MarkInv' /\ PropsInv'
  BY <1>0, <1>a, MarkFrame, PropsFrame DEF At
<1>w. p \in Working
  BY <1>a DEF Working
<1>1. CASE Quit(p)
  BY <1>a, <1>1, QuitGoes DEF At
<1>2. CASE merged # None /\ Consistent
  <2>. PICK stage, r : stage = Resume /\ r = IF Resume = "range" THEN merged ELSE copying
    OBVIOUS
  <2>1. run' = [run EXCEPT ![p].pc = stage, ![p].rev = r]
    BY <1>2 DEF SyncStart
  <2>2. run'[p].pc = stage /\ run'[p].op = "sync" /\ run'[p].rev = r
    BY <1>0, <1>a, <2>1 DEF Runs
  <2>3. CASE stage = "copyBegin"
    <3>1. r = copying /\ copying = Len(mirror) /\ copying > merged
      BY <2>3 DEF Resume
    <3>2. copying # None /\ copying = merged + 1
      BY <1>2, <3>1, Numbers DEF Consistent, None
    <3>3. r \in 0..Len(mirror) /\ merged = r - 1 /\ Len(mirror) <= r + Cardinality(Aliens)
      BY <3>1, <3>2, Numbers
    <3>. QED  BY <1>a, <1>b, <1>m, <1>2, <2>2, <2>3, <3>1, <3>3 DEF Goes, RunOK, Syncing
  <2>4. CASE stage = "mark"
    <3>1. r = copying /\ copying = Len(mirror) /\ ~(copying > merged)
      BY <2>4 DEF Resume
    <3>2. copying # None /\ copying = merged
      BY <1>2, <3>1, Numbers DEF Consistent, None
    <3>3. r \in 0..Len(mirror) /\ r \in 1..merged /\ Len(mirror) <= r + Cardinality(Aliens)
      BY <3>1, <3>2, Numbers
    <3>4. alien = "no" => Settled(r)
      BY <1>a, <1>w, <1>2, <3>3, SettledAll
    <3>5. alien = "no" => Settled(r)'
      BY <1>a, <3>4 DEF Settled
    <3>6. /\ r \in 0..Len(mirror) /\ r = Len(mirror) /\ copying = r /\ merged \in {r - 1, r}
      BY <3>1, <3>2, <3>3
    <3>. QED  BY <1>a, <1>b, <1>m, <1>2, <2>2, <2>4, <3>3, <3>5, <3>6 DEF Goes, RunOK, Syncing, Settled
  <2>5. CASE stage = "range"
    <3>1. r = merged /\ copying # Len(mirror) /\ r \in Revs
      BY <1>2, <2>5, Numbers DEF Resume
    <3>2. r = Len(mirror) /\ copying \in {None, r + 1}
      BY <1>2, <3>1, Numbers DEF Consistent
    <3>3. Len(mirror) <= r + Cardinality(Aliens)
      BY <3>2, Numbers
    <3>. QED  BY <1>a, <1>b, <1>m, <1>2, <2>2, <2>5, <3>1, <3>2, <3>3 DEF Goes, RunOK, Syncing
  <2>. QED  BY <2>3, <2>4, <2>5 DEF Resume
<1>. QED  BY <1>1, <1>2 DEF SyncStart

\* The marks and the range.
LEMMA MarkGoes ==
  ASSUME IInv, NEW p \in Procs, MarkMerged(p) \/ DropCopying(p) \/ SyncRange(p)
  PROVE  Goes(p)
<1>. USE DEF source, state
<1>0. TypeInv /\ MarkInv /\ RunOK(p) /\ run \in [Procs -> Runs] /\ run[p] \in Runs
  BY DEF IInv, TypeInv
<1>a. Act(p) /\ UNCHANGED <<source, mirror, props, cut, alien>> /\ run[p].pc \in {"mark", "drop", "range"}
  BY DEF Act, Step, MarkMerged, DropCopying, SyncRange, At
<1>b. Aliens' = Aliens
  BY <1>a DEF Aliens
<1>w. p \in Working
  BY <1>a DEF Working
<1>. PICK r : r = run[p].rev
  OBVIOUS
<1>c. run[p].op = "sync" /\ merged # None /\ Len(mirror) <= r + Cardinality(Aliens)
  <2>1. run[p].op = "sync"
    BY <1>0, <1>a DEF RunOK, Syncing
  <2>2. run[p].pc = "range" => merged \in Revs
    BY <1>0 DEF RunOK
  <2>3. merged # None
    BY <1>0, <1>a, <2>2, Constants DEF RunOK, Revs, None
  <2>. QED  BY <1>0, <1>a, <2>1, <2>3 DEF RunOK
<1>1. CASE MarkMerged(p)
  <2>1. run'[p].pc = "drop" /\ run'[p].op = "sync" /\ run'[p].rev = r
    BY <1>0, <1>1, <1>c DEF MarkMerged, Goto, Runs
  <2>2. merged' = r /\ copying' = copying
    BY <1>1 DEF MarkMerged
  <2>3. r \in 0..Len(mirror) /\ (alien = "no" => r = Len(mirror) /\ copying = r /\ merged \in {r - 1, r} /\ Settled(r))
    BY <1>0, <1>1 DEF MarkMerged, At, RunOK
  <2>4. r # None
    BY <2>3, Numbers DEF None
  <2>5. RunOK(p)'
    BY <1>a, <1>b, <1>c, <2>1, <2>2, <2>3, <2>4 DEF RunOK, Syncing
  <2>6. MarkInv'
    <3>1. alien = "no" => \A i \in 1..Len(mirror) : mirror[i] = i
      BY <1>0 DEF MarkInv
    <3>. QED  BY <1>a, <2>2, <2>3, <2>4, <3>1 DEF MarkInv, Consistent
  <2>7. PropsInv'
    <3>. SUFFICES ASSUME alien = "no", NEW i \in 1..r  PROVE Settled(i)'
      BY <1>a, <2>2 DEF PropsInv
    <3>1. i = r \/ i \in 1..merged
      BY <2>3, Numbers
    <3>2. Settled(i)
      BY <1>w, <1>1, <1>c, <2>3, <3>1, SettledAll DEF MarkMerged, At
    <3>. QED  BY <1>a, <3>2 DEF Settled
  <2>. QED  BY <2>5, <2>6, <2>7 DEF Goes
<1>2. CASE DropCopying(p)
  <2>. PICK stage : stage = IF run[p].end = None THEN "range" ELSE "next"
    OBVIOUS
  <2>1. run'[p].pc = stage /\ run'[p].op = "sync" /\ run'[p].rev = r /\ run'[p].end = run[p].end
    BY <1>0, <1>2, <1>c DEF DropCopying, Goto, Runs
  <2>2. merged' = merged /\ copying' = None
    BY <1>2 DEF DropCopying
  <2>3. merged = r /\ (alien = "no" => r = Len(mirror) /\ copying = r) /\ r \in Revs
    BY <1>0, <1>2, <1>c, Numbers DEF DropCopying, At, RunOK
  <2>4. stage = "next" => run[p].end \in Revs
    BY <1>0 DEF Runs
  <2>5. RunOK(p)'
    BY <1>a, <1>b, <1>c, <2>1, <2>2, <2>3, <2>4 DEF RunOK, Syncing
  <2>6. MarkInv'
    <3>1. alien = "no" => \A i \in 1..Len(mirror) : mirror[i] = i
      BY <1>0 DEF MarkInv
    <3>. QED  BY <1>a, <1>c, <2>2, <2>3, <3>1 DEF MarkInv, Consistent
  <2>7. PropsInv'
    BY <1>a, <1>2, <2>2, PropsFrame DEF DropCopying, At
  <2>. QED  BY <2>5, <2>6, <2>7 DEF Goes
<1>3. CASE SyncRange(p)
  <2>0. UNCHANGED <<merged, copying>> /\ run[p].pc = "range"
    BY <1>3 DEF SyncRange, At
  <2>. PICK stage : stage = IF from < run[p].rev THEN "release" ELSE "next"
    OBVIOUS
  <2>1. run'[p].pc = stage /\ run'[p].op = "sync" /\ run'[p].rev = r /\ run'[p].end = from
    BY <1>0, <1>3, <1>c DEF SyncRange, Runs
  <2>2. r \in Revs /\ merged = r /\ (alien = "no" => r = Len(mirror) /\ copying \in {None, r + 1}) /\ from \in Revs
    BY <1>0, <2>0 DEF RunOK, TypeInv
  <2>3. RunOK(p)'
    BY <1>a, <1>b, <1>c, <2>0, <2>1, <2>2 DEF RunOK, Syncing
  <2>4. MarkInv' /\ PropsInv'
    BY <1>0, <1>a, <2>0, MarkFrame, PropsFrame DEF At
  <2>. QED  BY <2>3, <2>4 DEF Goes
<1>. QED  BY <1>1, <1>2, <1>3

\* replay_rev_started keeps the invariant.
LEMMA ReplayStartedGoes ==
  ASSUME IInv, NEW p \in Procs, ReplayStarted(p) \/ CommitRefused(p)
  PROVE  Goes(p)
<1>. USE DEF source, state
<1>0. TypeInv /\ MarkInv /\ RunOK(p) /\ run \in [Procs -> Runs] /\ run[p] \in Runs
  BY DEF IInv, TypeInv
<1>a. Act(p) /\ UNCHANGED <<source, mirror, props, merged, cut, alien>> /\ run[p].pc \in {"next", "commit"}
  BY DEF Act, Step, ReplayStarted, CommitRefused, At
<1>b. Aliens' = Aliens
  BY <1>a DEF Aliens
<1>1. CASE Quit(p) /\ copying' = copying
  BY <1>a, <1>1, QuitGoes DEF At
<1>. PICK r, l : r = run[p].rev /\ l = fromProps[r + 1]
  OBVIOUS
<1>2. CASE /\ run[p].pc = "next" /\ ~(r >= run[p].end) /\ copying' = r + 1
           /\ run' = [run EXCEPT ![p].pc = "commit", ![p].rev = @ + 1, ![p].list = fromProps[run[p].rev + 1]]
  <2>1. run'[p].pc = "commit" /\ run'[p].op = run[p].op /\ run'[p].rev = r + 1 /\ run'[p].list = l
    BY <1>0, <1>2 DEF Runs
  <2>2. /\ run[p].op = "sync" /\ r \in Revs /\ merged = r /\ run[p].end \in Revs
        /\ (alien = "no" => r = Len(mirror)) /\ Len(mirror) <= r + Cardinality(Aliens)
    BY <1>0, <1>2 DEF RunOK, Syncing
  <2>3. r + 1 \in 1..MaxRev /\ r + 1 \in Revs /\ r = (r + 1) - 1 /\ r \in Nat /\ r # None
    <3>1. MaxRev \in Nat
      BY Constants
    <3>. QED  BY <1>2, <2>2, <3>1 DEF Revs, None
  <2>4. l \in had[r + 1]
    BY <1>0, <2>3 DEF TypeInv
  <2>5. RunOK(p)'
    BY <1>a, <1>b, <1>2, <2>1, <2>2, <2>3, <2>4 DEF RunOK, Syncing
  <2>6. MarkInv'
    <3>1. alien = "no" => \A i \in 1..Len(mirror) : mirror[i] = i
      BY <1>0 DEF MarkInv
    <3>2. r + 1 # None
      BY <2>3 DEF None
    <3>. QED  BY <1>a, <1>2, <2>2, <2>3, <3>1, <3>2 DEF MarkInv, Consistent
  <2>7. PropsInv'
    BY <1>a, <1>2, PropsFrame DEF At
  <2>. QED  BY <2>5, <2>6, <2>7 DEF Goes
<1>. QED  BY <1>1, <1>2 DEF ReplayStarted, CommitRefused, At

\* The commit: what it could not carry is to be written, and what the server added is to go.
LEMMA CarriedRest ==
  ASSUME NEW l \in Lists, NEW n \in Names,
         n \notin (Present(l) \ InCommit) \cup (Present(Carried(l)) \ Present(l))
  PROVE  Carried(l)[n] = l[n]
<1>1. Carried(l)[n] = IF n \in InCommit /\ l[n] # Absent THEN l[n] ELSE Own
  BY DEF Carried
<1>2. CASE n \in Present(l)
  BY <1>1, <1>2 DEF Present
<1>3. CASE n \notin Present(l)
  BY <1>1, <1>3 DEF Present, Own, Absent
<1>. QED  BY <1>2, <1>3

\* replay_rev_finished keeps the invariant.
LEMMA ReplayFinishedGoes ==
  ASSUME IInv, NEW p \in Procs, ReplayFinished(p)
  PROVE  Goes(p)
<1>. USE DEF source, state
<1>0. TypeInv /\ CountInv /\ MarkInv /\ RunOK(p) /\ run \in [Procs -> Runs] /\ run[p] \in Runs
  BY DEF IInv, TypeInv
<1>a. Act(p) /\ UNCHANGED <<source, state, cut, alien>> /\ run[p].pc = "commit"
  BY DEF Act, Step, ReplayFinished, At
<1>. PICK c, l, new : c = run[p].rev /\ l = run[p].list /\ new = Len(mirror) + 1
  OBVIOUS
<1>. PICK cl : cl = Carried(l)
  OBVIOUS
<1>. PICK todo : todo = (Present(l) \ InCommit) \cup (Present(cl) \ Present(l))
  OBVIOUS
<1>1. /\ mirror' = Append(mirror, c)
      /\ props' = [r \in 0..Len(mirror) + 1 |-> IF r = Len(mirror) + 1 THEN cl ELSE props[r]]
      /\ IF new = c THEN run' = [run EXCEPT ![p].pc = "props", ![p].todo = todo] ELSE Quit(p)
  BY DEF ReplayFinished, Carried
<1>2. /\ run[p].op = "sync" /\ c \in 1..MaxRev /\ merged = c - 1 /\ l \in had[c] /\ l \in Lists
      /\ (alien = "no" => c - 1 = Len(mirror) /\ copying = c) /\ Len(mirror) <= c - 1 + Cardinality(Aliens)
  BY <1>0, <1>a DEF RunOK, Syncing, Runs
<1>3. c \in Revs /\ c # Alien /\ merged # None /\ c \in Nat /\ c # None
  <2>1. MaxRev \in Nat
    BY Constants
  <2>. QED  BY <1>2, <2>1 DEF Revs, Alien, None
<1>4. cl \in [Names -> Values]
  <2>1. l \in [Names -> Values]
    BY <1>2, Constants
  <2>. QED  BY <2>1 DEF Carried, Values
<1>5. /\ Len(mirror') = new /\ mirror'[new] = c /\ \A i \in 1..Len(mirror) : mirror'[i] = mirror[i]
      /\ props'[new] = cl /\ \A r \in 0..Len(mirror) : props'[r] = props[r]
  BY <1>0, <1>1, <1>3, <1>4, GrowTypes
<1>6. Cardinality(Aliens') = Cardinality(Aliens)
  BY <1>0, <1>1, <1>3, AliensGrow
<1>7. RunOK(p)'
  <2>1. CASE new # c
    <3>1. run'[p].pc = "release"
      BY <1>0, <1>1, <2>1 DEF Quit, Idle
    <3>. QED  BY <3>1, RunVacuous
  <2>2. CASE new = c
    <3>1. run'[p].pc = "props" /\ run'[p].op = "sync" /\ run'[p].rev = c /\ run'[p].list = l /\ run'[p].todo = todo
      BY <1>0, <1>1, <1>2, <2>2 DEF Runs
    <3>2. \A n \in Names \ todo : props'[c][n] = l[n]
      BY <1>2, <1>5, <2>2, CarriedRest
    <3>3. c \in 0..Len(mirror') /\ Len(mirror') <= c + Cardinality(Aliens') /\ c = Len(mirror')
      BY <1>3, <1>5, <1>6, <2>2, Numbers
    <3>. QED  BY <1>a, <1>2, <1>3, <3>1, <3>2, <3>3 DEF RunOK, Syncing
  <2>. QED  BY <2>1, <2>2
<1>8. MarkInv'
  <2>. SUFFICES ASSUME alien = "no"  PROVE (\A i \in 1..new : mirror'[i] = i) /\ Consistent'
    BY <1>a, <1>3, <1>5 DEF MarkInv
  <2>1. c = new /\ merged = c - 1 /\ copying = c /\ c # None
    BY <1>2, <1>3, Numbers
  <2>2. \A i \in 1..new : mirror'[i] = i
    <3>. SUFFICES ASSUME NEW i \in 1..new  PROVE mirror'[i] = i
      OBVIOUS
    <3>1. i = new \/ i \in 1..Len(mirror)
      BY Numbers
    <3>2. \A j \in 1..Len(mirror) : mirror[j] = j
      BY <1>0 DEF MarkInv
    <3>. QED  BY <1>5, <2>1, <3>1, <3>2
  <2>3. Consistent'
    <3>1. copying' = c /\ merged' = c - 1 /\ Len(mirror') = c
      BY <1>a, <1>5, <2>1
    <3>2. c = (c - 1) + 1
      BY <1>3
    <3>. QED  BY <2>1, <3>1, <3>2 DEF Consistent
  <2>. QED  BY <2>2, <2>3
<1>9. PropsInv'
  <2>1. \A r \in 1..merged : props'[r] = props[r]
    <3>1. 1..merged \subseteq 0..Len(mirror)
      BY Numbers
    <3>. QED  BY <1>5, <3>1
  <2>. QED  BY <1>a, <2>1, PropsFrame DEF At
<1>. QED  BY <1>7, <1>8, <1>9 DEF Goes

\* A run that takes or gives back the lock, fails or dies.
LEMMA OffGoes ==
  ASSUME IInv, NEW p \in Procs, LockWork(p) \/ Fail(p) \/ Crash(p)
  PROVE  Goes(p)
<1>. USE DEF source, state
<1>0. TypeInv /\ MarkInv /\ PropsInv
  BY DEF IInv
<1>1. Act(p)
  BY DEF Act, Step, LockWork
<1>2. /\ UNCHANGED <<source, mirror, props, state, alien>>
      /\ run'[p].pc \in {"idle", "lockRead", "lockSet", "start", "release", "releaseSet"}
      /\ \/ cut' = cut /\ ~(At(p, "props") /\ run[p].op = "copy")
         \/ At(p, "props") /\ run[p].op = "copy" /\ cut' = cut \cup {run[p].rev}
  BY <1>0, LeavesMirror
<1>3. RunOK(p)'
  BY <1>2, RunVacuous
<1>4. MarkInv'
  BY <1>0, <1>2, MarkFrame
<1>5. PropsInv'
  <2>1. CASE ~(At(p, "props") /\ run[p].op = "copy")
    BY <1>1, <1>2, <2>1, PropsFrame
  <2>2. CASE cut' = cut \cup {run[p].rev}
    <3>. SUFFICES ASSUME alien = "no", merged # None, NEW r \in 1..merged,
                         ~(props'[r] \in had'[r] \/ r \in cut')
                  PROVE  \E q \in Procs : run'[q].pc = "props" /\ run'[q].op = "copy" /\ run'[q].rev = r
      BY <1>2 DEF PropsInv, Settled, At
    <3>1. PICK q \in Procs : run[q].pc = "props" /\ run[q].op = "copy" /\ run[q].rev = r
      BY <1>0, <1>2, <2>2 DEF PropsInv, Settled, At
    <3>2. q # p
      BY <2>2, <3>1
    <3>. QED  BY <1>0, <1>1, <3>1, <3>2, OthersAt
  <2>. QED  BY <1>2, <2>1, <2>2
<1>. QED  BY <1>3, <1>4, <1>5 DEF Goes

\* Every step of a run keeps the invariant.
LEMMA ActGoes ==
  ASSUME IInv, NEW p \in Procs, Act(p)
  PROVE  Goes(p)
<1>1. CASE Work(p)
  BY <1>1, InitGoes, CopyGoes, PropsStepGoes, PropsDoneGoes, SyncStartGoes, MarkGoes, ReplayStartedGoes,
     ReplayFinishedGoes DEF Work
<1>. QED  BY <1>1, OffGoes, ActWork

\* Every step of a run keeps the types.
LEMMA ActTypes ==
  ASSUME IInv, NEW p \in Procs, Act(p)
  PROVE  TypeInv'
<1>0. TypeInv /\ LockInv /\ RunOK(p)
  BY DEF IInv
<1>1. CASE Work(p)
  BY <1>0, <1>1, InitTypes, CopyTypes, SyncTypes, FinishedTypes DEF Work
<1>. QED  BY <1>0, <1>1, LockTypes, FailTypes, ActWork

--------------------------------------------------------------------------------
(* A foreign commit that nobody noticed *)

\* While there is one no run gets past the check of the marks.
LEMMA QuietStep ==
  ASSUME IInv, NEW p \in Procs, Act(p)
  PROVE  QuietInv'
<1>. USE DEF source, state
<1>0. TypeInv /\ LockInv /\ QuietInv /\ RunOK(p) /\ run \in [Procs -> Runs] /\ run[p] \in Runs
  BY DEF IInv, TypeInv
<1>. DEFINE Calm(x) == x.pc \in {"idle", "lockRead", "lockSet", "start", "initUrl", "initMerged", "release", "releaseSet"}
                       \/ x.op # "sync"
<1>1. ASSUME alien = "quiet" => copying' = None /\ merged' < Len(mirror') /\ Calm(run'[p]), alien' = "quiet" => alien = "quiet"
      PROVE  QuietInv'
  <2>. SUFFICES ASSUME alien' = "quiet"
                PROVE  copying' = None /\ merged' < Len(mirror') /\ \A q \in Procs : Calm(run'[q])
    BY DEF QuietInv, Working
  <2>1. \A q \in Procs : Calm(run[q])
    BY <1>0, <1>1 DEF QuietInv, Working
  <2>2. \A q \in Procs \ {p} : run'[q].pc = run[q].pc /\ run'[q].op = run[q].op
    BY <1>0, OthersAt
  <2>. QED  BY <1>1, <2>1, <2>2
<1>2. alien = "quiet" => copying = None /\ merged < Len(mirror) /\ Calm(run[p])
  BY <1>0 DEF QuietInv, Working
<1>3. alien = "quiet" => run[p].pc \notin Syncing
  BY <1>0, <1>2 DEF RunOK, Syncing
<1>4. CASE LockWork(p) \/ Fail(p) \/ Crash(p)
  <2>1. UNCHANGED <<source, mirror, props, state, alien>>
        /\ run'[p].pc \in {"idle", "lockRead", "lockSet", "start", "release", "releaseSet"}
    BY <1>0, <1>4, LeavesMirror
  <2>. QED  BY <1>1, <1>2, <2>1
<1>5. CASE InitStart(p) \/ InitUrl(p)
  <2>1. UNCHANGED <<mirror, copying, merged, alien>>
    BY <1>5 DEF InitStart, InitUrl
  <2>2. run'[p].pc \in {"initUrl", "initMerged", "release"}
    BY <1>0, <1>5 DEF InitStart, InitUrl, Quit, Goto, Idle, Runs
  <2>. QED  BY <1>1, <1>2, <2>1, <2>2
<1>6. CASE InitMerged(p)
  <2>1. alien' # "quiet"
    BY <1>6 DEF InitMerged
  <2>. QED  BY <2>1 DEF QuietInv
<1>7. CASE CopyStart(p) \/ CopyBegin(p) \/ PropsStep(p)
  <2>1. UNCHANGED <<mirror, copying, merged, alien>>
    BY <1>7 DEF CopyStart, CopyBegin, PropsStep
  <2>2. alien = "quiet" => Calm(run'[p])
    <3>1. CASE CopyStart(p)
      <4>1. run[p].op = "copy"
        BY <3>1 DEF CopyStart
      <4>2. run'[p].pc = "release" \/ run'[p].op = "copy"
        BY <1>0, <3>1, <4>1 DEF CopyStart, Quit, Idle, Runs
      <4>. QED  BY <4>2
    <3>2. CASE CopyBegin(p)
      <4>1. run[p].pc = "copyBegin" /\ run'[p].op = run[p].op
        BY <1>0, <3>2 DEF CopyBegin, At, Runs
      <4>. QED  BY <1>2, <4>1
    <3>3. CASE PropsStep(p)
      <4>1. run[p].pc = "props" /\ run'[p].op = run[p].op
        BY <1>0, <3>3 DEF PropsStep, At, Runs
      <4>. QED  BY <1>2, <4>1
    <3>. QED  BY <1>7, <3>1, <3>2, <3>3
  <2>. QED  BY <1>1, <1>2, <2>1, <2>2
<1>8. CASE PropsDone(p)
  <2>1. UNCHANGED <<mirror, copying, merged, alien>> /\ run[p].pc = "props"
    BY <1>8 DEF PropsDone, At
  <2>2. run[p].op \in {"init", "sync", "copy"}
    BY <1>0, SvnsyncAssumption DEF Runs
  <2>3. run[p].op # "sync" => run'[p].pc = "release" \/ run'[p].op = run[p].op
    BY <1>0, <1>8, <2>2 DEF PropsDone, Quit, Idle, Runs
  <2>. QED  BY <1>1, <1>2, <2>1, <2>3
<1>9. CASE SyncStart(p)
  <2>1. UNCHANGED <<mirror, copying, merged, alien>>
    BY <1>9 DEF SyncStart
  <2>2. alien = "quiet" => ~Consistent
    BY <1>2, Numbers DEF Consistent
  <2>3. alien = "quiet" => run'[p].pc = "release"
    BY <1>0, <1>9, <2>2 DEF SyncStart, Quit, Idle
  <2>. QED  BY <1>1, <1>2, <2>1, <2>3
<1>10. CASE MarkMerged(p) \/ DropCopying(p) \/ SyncRange(p) \/ ReplayStarted(p) \/ CommitRefused(p) \/ ReplayFinished(p)
  <2>1. run[p].pc \in Syncing /\ alien' = alien
    BY <1>10 DEF MarkMerged, DropCopying, SyncRange, ReplayStarted, CommitRefused, ReplayFinished, At, Syncing
  <2>. QED  BY <1>3, <2>1 DEF QuietInv
<1>. QED  BY <1>4, <1>5, <1>6, <1>7, <1>8, <1>9, <1>10, ActWork DEF Work

--------------------------------------------------------------------------------
(* The source, and a foreign commit *)

\* Commits to the source, and changes of properties there, keep the invariant.
LEMMA SourceStep ==
  ASSUME IInv, SourceCommit \/ SourceSet
  PROVE  LockInv' /\ MarkInv' /\ QuietInv' /\ PropsInv' /\ \A q \in Procs : RunOK(q)'
<1>. USE DEF source, state
<1>0. TypeInv /\ LockInv /\ MarkInv /\ QuietInv /\ PropsInv /\ \A q \in Procs : RunOK(q)
  BY DEF IInv
<1>1. UNCHANGED <<mirror, props, lock, state, run, cut, alien, crashes>>
  BY DEF SourceCommit, SourceSet
<1>2. \A r \in Revs : had[r] \subseteq had'[r]
  <2>1. CASE SourceCommit
    BY <2>1 DEF SourceCommit
  <2>2. CASE SourceSet
    <3>1. PICK r \in 1..from, l \in Lists : had' = [had EXCEPT ![r] = @ \cup {l}]
      BY <2>2 DEF SourceSet
    <3>. QED  BY <1>0, <3>1 DEF TypeInv
  <2>. QED  BY <2>1, <2>2
<1>3. LockInv'
  BY <1>0, <1>1 DEF LockInv, Working, At
<1>4. MarkInv' /\ QuietInv'
  BY <1>0, <1>1 DEF MarkInv, Consistent, QuietInv, Working
<1>5. PropsInv'
  <2>. SUFFICES ASSUME alien = "no", merged # None, NEW r \in 1..merged
                PROVE  Settled(r)' \/ \E p \in Procs : At(p, "props")' /\ run'[p].op = "copy" /\ run'[p].rev = r
    BY <1>1 DEF PropsInv
  <2>1. r \in Revs
    BY Numbers DEF Revs
  <2>2. Settled(r) => Settled(r)'
    BY <1>1, <1>2, <2>1 DEF Settled
  <2>. QED  BY <1>0, <1>1, <2>2 DEF PropsInv, At
<1>6. \A q \in Procs : RunOK(q)'
  BY <1>0, <1>1, <1>2, RunFrame
<1>. QED  BY <1>3, <1>4, <1>5, <1>6

\* A foreign commit to the mirror keeps the invariant.
LEMMA MeddleStep ==
  ASSUME IInv, Meddle
  PROVE  LockInv' /\ MarkInv' /\ QuietInv' /\ PropsInv' /\ \A q \in Procs : RunOK(q)'
<1>. USE DEF source, state
<1>0. TypeInv /\ LockInv /\ CountInv /\ MarkInv /\ QuietInv
  BY DEF IInv
<1>1. UNCHANGED <<source, lock, state, run, cut, crashes>> /\ alien' # "no" /\ mirror' = Append(mirror, Alien)
  BY DEF Meddle
<1>2. LockInv' /\ MarkInv' /\ PropsInv'
  BY <1>0, <1>1 DEF LockInv, Working, At, MarkInv, PropsInv
<1>3. /\ Len(mirror') = Len(mirror) + 1
      /\ \A r \in 0..Len(mirror) : props'[r] = props[r]
  BY <1>0, GrowTypes, Constants DEF Meddle, Alien
<1>4. Cardinality(Aliens') = Cardinality(Aliens) + 1
  BY <1>0, <1>1, AliensGrow, Constants DEF Alien
<1>5. QuietInv'
  <2>. SUFFICES ASSUME alien' = "quiet"  PROVE copying = None /\ merged < Len(mirror) + 1 /\ Working = {}
    BY <1>1, <1>3 DEF QuietInv, Working
  <2>1. copying = None /\ Working = {}
    BY DEF Meddle
  <2>. QED  BY <2>1, Numbers
<1>6. ASSUME NEW q \in Procs  PROVE RunOK(q)'
  <2>0. RunOK(q)
    BY DEF IInv
  <2>. PICK r : r = run[q].rev
    OBVIOUS
  <2>1. r \in 0..Len(mirror) => r \in 0..Len(mirror') /\ props'[r] = props[r]
    BY <1>3, Numbers
  <2>2. r \in Int
    BY <1>0, Constants DEF TypeInv, Runs, Revs, None
  <2>3. /\ Len(mirror) <= r + Cardinality(Aliens) => Len(mirror') <= r + Cardinality(Aliens')
        /\ Len(mirror) <= r - 1 + Cardinality(Aliens) => Len(mirror') <= r - 1 + Cardinality(Aliens')
    <3>. PICK n, a : n = Len(mirror) /\ a = Cardinality(Aliens)
      OBVIOUS
    <3>1. n \in Nat /\ a \in Nat
      BY Numbers
    <3>2. (n <= r + a => n + 1 <= r + (a + 1)) /\ (n <= r - 1 + a => n + 1 <= r - 1 + (a + 1))
      BY <2>2, <3>1
    <3>. QED  BY <1>3, <1>4, <3>2
  <2>4. run[q].pc = "props" => r \in 0..Len(mirror)
    BY <2>0 DEF RunOK
  <2>. QED  BY <1>1, <2>0, <2>1, <2>3, <2>4 DEF RunOK
<1>. QED  BY <1>2, <1>5, <1>6

--------------------------------------------------------------------------------
(* Invariance *)

\* The invariant holds of an empty mirror.
LEMMA InitInv ==
  ASSUME Init
  PROVE  IInv
<1>. USE DEF Init
<1>1. TypeInv
  <2>1. run \in [Procs -> Runs]
    BY Resting
  <2>2. mirror \in Seq(Revs) /\ Len(mirror) = 0
    OBVIOUS
  <2>3. props \in [0..Len(mirror) -> [Names -> Values]]
    <3>1. 0..Len(mirror) = {0}
      BY <2>2
    <3>. QED  BY <3>1, Constants
  <2>4. merged \in {None} \cup Revs /\ merged <= Len(mirror) /\ copying \in {None} \cup 1..MaxRev
    BY <2>2 DEF None
  <2>5. fromProps \in [Revs -> Lists] /\ had \in [Revs -> SUBSET Lists] /\ \A r \in Revs : fromProps[r] \in had[r]
    BY Constants
  <2>6. from \in Revs /\ lock \in Locks /\ url \in BOOLEAN /\ merged = None
    BY Constants
  <2>7. cut \subseteq Revs \cup 0..Len(mirror) /\ alien \in {"no", "quiet", "busy"} /\ sets \in 0..MaxSet /\ crashes \in 0..MaxCrash
    BY Constants
  <2>. HIDE DEF Init
  <2>. QED  BY <2>1, <2>2, <2>3, <2>4, <2>5, <2>6, <2>7 DEF TypeInv
<1>2. \A p \in Procs : run[p].pc = "idle" /\ run[p].steal = FALSE
  BY DEF Idle
<1>3. LockInv
  BY <1>2 DEF LockInv, Working, At
<1>4. CountInv
  <2>1. Aliens = {}
    BY DEF Aliens
  <2>2. Len(mirror) = 0
    OBVIOUS
  <2>. QED  BY <2>1, <2>2, FS_EmptySet, Constants DEF CountInv
<1>5. MarkInv /\ QuietInv /\ PropsInv
  BY DEF MarkInv, QuietInv, PropsInv, None
<1>6. \A p \in Procs : RunOK(p)
  BY <1>2 DEF RunOK, Syncing
<1>. QED  BY <1>1, <1>3, <1>4, <1>5, <1>6 DEF IInv

\* Every step keeps the invariant.
LEMMA NextInv ==
  ASSUME Atomic, Careful, IInv, [Next]_vars
  PROVE  IInv'
<1>0. TypeInv /\ LockInv
  BY DEF IInv
<1>1. ASSUME NEW p \in Procs, Act(p)  PROVE IInv'
  <2>1. TypeInv'
    BY <1>1, ActTypes
  <2>2. LockInv'
    BY <1>0, <1>1, LockStep
  <2>3. CountInv'
    BY <1>1, CountStep DEF Act, Next
  <2>4. MarkInv' /\ PropsInv' /\ RunOK(p)'
    BY <1>1, ActGoes DEF Goes
  <2>5. QuietInv'
    BY <1>1, QuietStep
  <2>6. \A q \in Procs : RunOK(q)'
    BY <1>1, <2>4, RunOther
  <2>. QED  BY <2>1, <2>2, <2>3, <2>4, <2>5, <2>6 DEF IInv
<1>2. CASE SourceCommit \/ SourceSet
  BY <1>0, <1>2, OutsideTypes, SourceStep, CountStep DEF Next, IInv
<1>3. CASE Meddle
  BY <1>0, <1>3, OutsideTypes, MeddleStep, CountStep DEF Next, IInv
<1>4. CASE UNCHANGED vars
  BY <1>4 DEF vars, source, state, IInv, TypeInv, LockInv, Working, At, Aliens, CountInv, MarkInv, Consistent,
    QuietInv, Settled, PropsInv, RunOK
<1>. QED  BY <1>1, <1>2, <1>3, <1>4 DEF Next, Act

\* While the lock is taken atomically and --steal-lock is used as documented, the inductive
\* invariant holds: who works has the lock, the marks on revision 0 fit the mirror, and each stage of
\* a run finds what the stages before it left (with_locked, do_synchronize, replay_rev_finished).
THEOREM Invariance ==
  ASSUME Atomic, Careful
  PROVE  Spec => []IInv
<1>1. Init => IInv
  BY InitInv
<1>2. IInv /\ [Next]_vars => IInv'
  BY NextInv
<1>. QED  BY <1>1, <1>2, PTL DEF Spec

\* Whatever fails or dies, wherever, revision i of the mirror is revision i of the source, and one
\* process at most has the lock (with_locked, do_synchronize, replay_rev_finished).
THEOREM MirrorsInOrder == Spec => []Mirrored
<1>1. CASE Atomic /\ Careful
  <2>1. IInv => Mirrored
    <3>. SUFFICES ASSUME IInv  PROVE Mirrored
      OBVIOUS
    <3>1. MarkInv /\ LockInv
      BY DEF IInv
    <3>2. Cardinality(Working) <= 1
      <4>1. CASE Working = {}
        BY <4>1, FS_EmptySet
      <4>2. ASSUME NEW p \in Working  PROVE Cardinality(Working) <= 1
        <5>1. Working = {p}
          BY <3>1, <4>2, OneWorks
        <5>2. Cardinality({p}) = 1
          BY FS_Singleton
        <5>. QED  BY <5>1, <5>2
      <4>. QED  BY <4>1, <4>2
    <3>. QED  BY <3>1, <3>2 DEF Mirrored, MarkInv, Alone
  <2>. QED  BY <1>1, <2>1, Invariance, PTL
<1>2. CASE ~(Atomic /\ Careful)
  <2>1. Mirrored
    BY <1>2 DEF Mirrored, Alone
  <2>. QED  BY <2>1, PTL
<1>. QED  BY <1>1, <1>2

\* No failure or death leaves marks that a later sync refuses (do_synchronize).
THEOREM SyncCanResume ==
  ASSUME Atomic, Careful
  PROVE  Spec => []NeverStuck
<1>1. IInv => NeverStuck
  <2>. SUFFICES ASSUME IInv  PROVE NeverStuck
    OBVIOUS
  <2>1. TypeInv /\ MarkInv /\ CountInv /\ \A p \in Procs : run[p] \in Runs
    BY DEF IInv, TypeInv
  <2>2. Len(mirror) <= MaxRev + MaxMeddle + Cardinality(Procs)
    <3>1. Cardinality(Procs) \in Nat
      BY SvnsyncAssumption, FS_CardinalityType
    <3>2. Cardinality(Aliens) <= MaxMeddle /\ Len(mirror) <= MaxRev + Cardinality(Aliens)
      BY <2>1 DEF CountInv
    <3>. QED  BY <3>1, <3>2, Numbers, Constants
  <2>3. merged \in {None} \cup 0..Len(mirror)
    BY Numbers
  <2>4. \A p \in Procs :
          /\ run[p].pc \in Pcs /\ run[p].op \in Ops \cup {"sync"} /\ run[p].tries \in 0..Retries
          /\ run[p].seen \in Locks /\ run[p].todo \subseteq Names /\ run[p].list \in Lists
    BY <2>1 DEF Runs
  <2>5. TypeOK
    BY <2>1, <2>2, <2>3, <2>4 DEF TypeOK, TypeInv
  <2>. QED  BY <2>1, <2>5 DEF NeverStuck, Alone, MarkInv
<1>. QED  BY <1>1, Invariance, PTL

\* A merged revision has one property list of the source, as a whole (copy_revprops).
THEOREM ListsWhole == Spec => []PropsWhole
<1>1. CASE Atomic /\ Careful
  <2>1. IInv => PropsWhole
    BY DEF IInv, PropsInv, Settled, PropsWhole, Alone, Working, At
  <2>. QED  BY <1>1, <2>1, Invariance, PTL
<1>2. CASE ~(Atomic /\ Careful)
  <2>1. PropsWhole
    BY <1>2 DEF PropsWhole, Alone
  <2>. QED  BY <2>1, PTL
<1>. QED  BY <1>1, <1>2

\* A foreign commit between runs is never taken for a mirrored revision, except by an `init' that
\* is told so (do_synchronize, do_initialize).
THEOREM ForeignCommitsNoticed == Spec => MeddlingNoticed
<1>. DEFINE Noticed == Atomic /\ Careful /\ alien = "quiet" /\ merged' # merged => \E p \in Procs : At(p, "initMerged")
<1>1. CASE Atomic /\ Careful
  <2>1. IInv /\ [Next]_vars => [Noticed]_vars
    <3>. SUFFICES ASSUME IInv, Next, alien = "quiet", merged' # merged  PROVE \E p \in Procs : At(p, "initMerged")
      BY DEF vars, state
    <3>. USE DEF source, state
    <3>1. PICK p \in Procs : Act(p)
      BY DEF Next, Act, SourceCommit, SourceSet, Meddle
    <3>2. Work(p)
      BY <3>1, ActWork DEF LockWork, Begin, LockRead, LockSet, ReleaseRead, ReleaseSet, Fail, Crash
    <3>3. InitMerged(p) \/ MarkMerged(p)
      BY <3>2 DEF Work, InitStart, InitUrl, CopyStart, CopyBegin, PropsStep, PropsDone,
        SyncStart, DropCopying, SyncRange, ReplayStarted, CommitRefused, ReplayFinished
    <3>4. ~MarkMerged(p)
      BY DEF IInv, QuietInv, Working, RunOK, Syncing, MarkMerged, At
    <3>. QED  BY <3>3, <3>4 DEF InitMerged
  <2>. QED  BY <1>1, <2>1, Invariance, PTL DEF Spec, MeddlingNoticed
<1>2. CASE ~(Atomic /\ Careful)
  <2>1. [Next]_vars => [Noticed]_vars
    BY <1>2
  <2>. QED  BY <2>1, PTL DEF Spec, MeddlingNoticed
<1>. QED  BY <1>1, <1>2
================================================================================
