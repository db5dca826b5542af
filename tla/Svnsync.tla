-------------------------------- MODULE Svnsync --------------------------------
(***************************************************************************)
(* svnsync: a mirror repository is kept up with a source repository.       *)
(*                                                                         *)
(* Everything svnsync knows between two runs is in the properties of       *)
(* revision 0 of the mirror: the lock, where the mirror comes from, the    *)
(* last revision merged and the revision being copied.  A revision is a    *)
(* commit, and then one request for each property the commit could not     *)
(* carry; a run may fail or die between any two of them.                   *)
(*                                                                         *)
(* --disable-locking, which leaves out the lock, is not modelled.          *)
(*                                                                         *)
(* The contents of a mirrored revision are the number of the source        *)
(* revision that was replayed.                                             *)
(***************************************************************************)
EXTENDS Integers, Sequences, FiniteSets

CONSTANTS
  Procs,     \* runs of svnsync at the same time
  Ops,       \* the subcommands that are used, of "init", "sync" and "copy"
  MaxRev,    \* bound: revisions of the source
  EmptyRevs, \* the source revisions that change nothing in what is mirrored
  Names,     \* names of revision properties
  InCommit,  \* the names the commit carries: all but date and author, or only the log message
  Lists,     \* property lists of the source, functions from names to values or Absent
  First,     \* the list a revision of the source begins with
  Ranges,    \* the ranges asked of copy-revprops
  Retries,   \* num_retries, 10 in the code
  Atomic,    \* the mirror's server has atomic revision property changes
  Careful,   \* --steal-lock is used as its help says: the mirror "is not being concurrently accessed"
  Nobody,    \* no lock
  Dead,      \* the lock of a process that died
  MaxSet,    \* bound: property changes in the source
  MaxCrash,  \* bound: processes that die
  MaxMeddle  \* bound: commits to the mirror that are not svnsync's

Absent == 0   \* no such property
Own    == -1  \* a value the mirror's server, or an empty log message, gave
None   == -1  \* no such number
Alien  == 0   \* the contents of a revision that is not from the source

ASSUME SvnsyncAssumption ==
  /\ MaxRev \in Nat /\ Retries \in Nat \ {0, 1} /\ EmptyRevs \subseteq 1..MaxRev
  /\ InCommit \subseteq Names /\ First \in Lists /\ Own \notin UNION {{l[n] : n \in Names} : l \in Lists}
  /\ Ops \subseteq {"init", "sync", "copy"} /\ Atomic \in BOOLEAN /\ Careful \in BOOLEAN
  /\ Ranges \subseteq (0..MaxRev) \X (0..MaxRev) /\ Nobody \notin Procs /\ Dead \notin Procs /\ Dead # Nobody
  /\ \A l \in Lists : l = [n \in Names |-> l[n]]
  /\ IsFiniteSet(Procs) /\ MaxSet \in Nat /\ MaxCrash \in Nat /\ MaxMeddle \in Nat

VARIABLES
  from,      \* youngest revision of the source
  fromProps, \* its revision properties: revision -> list
  had,       \* the lists each revision of the source has had: for the properties only
  mirror,    \* the revisions of the mirror from 1 on
  props,     \* the revision properties of the mirror
  lock,      \* svn:sync-lock
  url,       \* svn:sync-from-url is set
  merged,    \* svn:sync-last-merged-rev
  copying,   \* svn:sync-currently-copying
  run,       \* p -> the run it is in
  cut,       \* revisions whose properties a command other than sync left unfinished: for the properties only
  alien,     \* when a foreign commit came: "no"; "quiet", between runs; "busy", otherwise, or `init'
             \* has been told to take it for mirrored: for the properties only
  sets,      \* property changes in the source so far
  crashes    \* processes that died so far

source == <<from, fromProps, had, sets>>
state  == <<url, merged, copying>>
vars   == <<source, mirror, props, lock, state, run, cut, alien, crashes>>

Revs == 0..MaxRev
Idle == [pc |-> "idle", op |-> "sync", steal |-> FALSE, allow |-> FALSE, tries |-> 0,
         seen |-> Nobody, rev |-> None, end |-> None, list |-> First, todo |-> {}]

Pcs == {"idle", "lockRead", "lockSet", "start", "initUrl", "initMerged", "copyBegin", "props",
        "mark", "drop", "range", "next", "commit", "release", "releaseSet"}

Locks == Procs \cup {Nobody, Dead}

\* The types; the revision properties svnsync keeps on revision 0 of the mirror are numbers of revisions
\* it has, and last-merged is only there with from-url (do_initialize).
TypeOK ==
  /\ from \in Revs /\ fromProps \in [Revs -> Lists] /\ had \in [Revs -> SUBSET Lists]
  /\ mirror \in Seq(Revs) /\ Len(mirror) <= MaxRev + MaxMeddle + Cardinality(Procs)
  /\ DOMAIN props = 0..Len(mirror)
  /\ lock \in Locks /\ url \in BOOLEAN
  /\ merged \in {None} \cup 0..Len(mirror) /\ copying \in {None} \cup 1..MaxRev /\ (merged # None => url)
  /\ \A p \in Procs :
       /\ run[p].pc \in Pcs /\ run[p].op \in Ops \cup {"sync"} /\ run[p].tries \in 0..Retries
       /\ run[p].seen \in Locks /\ run[p].todo \subseteq Names /\ run[p].list \in Lists
  /\ cut \subseteq Revs \cup 0..Len(mirror) /\ alien \in {"no", "quiet", "busy"}
  /\ sets \in 0..MaxSet /\ crashes \in 0..MaxCrash

OwnList == [n \in Names |-> Own]

Init ==
  /\ from = 0 /\ fromProps = [r \in Revs |-> First] /\ had = [r \in Revs |-> {First}]
  /\ mirror = << >> /\ props = [r \in {0} |-> OwnList]
  /\ lock = Nobody /\ url = FALSE /\ merged = None /\ copying = None
  /\ run = [p \in Procs |-> Idle]
  /\ cut = {} /\ alien = "no" /\ sets = 0 /\ crashes = 0

--------------------------------------------------------------------------------

Goto(p, pc)      == run' = [run EXCEPT ![p].pc = pc]
Working          == {p \in Procs : run[p].pc \notin {"idle", "lockRead", "lockSet", "release", "releaseSet"}}
At(p, pc)        == run[p].pc = pc
Quit(p)          == run' = [run EXCEPT ![p] = [Idle EXCEPT !.pc = "release"]]

\* The source: a commit, a change of a revision's properties.
SourceCommit ==
  /\ from < MaxRev
  /\ from' = from + 1
  /\ UNCHANGED <<fromProps, had, sets, mirror, props, lock, state, run, cut, alien, crashes>>

SourceSet ==
  /\ sets < MaxSet
  /\ sets' = sets + 1
  /\ \E r \in 1..from : \E l \in Lists \ {fromProps[r]} :
       fromProps' = [fromProps EXCEPT ![r] = l] /\ had' = [had EXCEPT ![r] = @ \cup {l}]
  /\ UNCHANGED <<from, mirror, props, lock, state, run, cut, alien, crashes>>

--------------------------------------------------------------------------------
(* with_locked                                                              *)

Begin(p) ==
  /\ At(p, "idle")
  /\ \E steal \in BOOLEAN :
       /\ Careful => \A q \in Procs : ~run[q].steal /\ (steal => At(q, "idle") /\ lock = Dead)
       /\ run' = [run EXCEPT ![p] = [Idle EXCEPT !.pc = "lockRead", !.steal = steal]]
  /\ UNCHANGED <<source, mirror, props, lock, state, cut, alien, crashes>>

\* The lock is had, and the subcommand's function is called, which is when it first matters which
\* subcommand it is.  Only `init' looks at --allow-non-empty.
Locked(p) ==
  \E op \in Ops, allow \in BOOLEAN :
    /\ allow => op = "init"
    /\ run' = [run EXCEPT ![p] = [Idle EXCEPT !.pc = "start", !.op = op, !.allow = allow]]

\* One turn of svn_ra__get_operational_lock: our own token is the lock; somebody else's is waited
\* for; otherwise it is set in the next step, unless this is the last turn.
LockRead(p) ==
  /\ At(p, "lockRead")
  /\ \/ run[p].tries = Retries /\ run' = [run EXCEPT ![p] = Idle]
     \/ run[p].tries < Retries /\ lock = p /\ Locked(p)
     \/ /\ run[p].tries < Retries /\ lock \notin {p, Nobody} /\ ~run[p].steal
        /\ run' = [run EXCEPT ![p].tries = @ + 1]
     \/ /\ run[p].tries < Retries /\ lock # p /\ (lock # Nobody => run[p].steal)
        /\ IF run[p].tries < Retries - 1
           THEN run' = [run EXCEPT ![p].pc = "lockSet", ![p].seen = lock]
           ELSE run' = [run EXCEPT ![p].tries = @ + 1]
  /\ UNCHANGED <<source, mirror, props, lock, state, cut, alien, crashes>>

\* A bug to compare with: the old value is not given.
Unchanged_Unchecked(p) == TRUE

\* The property is as it was read: what svn_ra_change_rev_prop2 asks for with an old value.
Unchanged(p) == Atomic => lock = run[p].seen

LockSet(p) ==
  /\ At(p, "lockSet")
  /\ lock' = IF Unchanged(p) THEN p ELSE lock
  /\ run' = [run EXCEPT ![p].pc = "lockRead", ![p].tries = @ + 1, ![p].seen = Nobody]
  /\ UNCHANGED <<source, mirror, props, state, cut, alien, crashes>>

\* svn_ra__release_operational_lock: read, and removed if it is ours and still is.
ReleaseRead(p) ==
  /\ At(p, "release")
  /\ run' = [run EXCEPT ![p] = IF lock = p THEN [Idle EXCEPT !.pc = "releaseSet"] ELSE Idle]
  /\ UNCHANGED <<source, mirror, props, lock, state, cut, alien, crashes>>

ReleaseSet(p) ==
  /\ At(p, "releaseSet")
  /\ lock' = IF Atomic => lock = p THEN Nobody ELSE lock
  /\ run' = [run EXCEPT ![p] = Idle]
  /\ UNCHANGED <<source, mirror, props, state, cut, alien, crashes>>

--------------------------------------------------------------------------------
(* do_initialize                                                            *)

InitRefused(p) ==
  \/ ~run[p].allow /\ (Len(mirror) # 0 \/ url)
  \/ Len(mirror) # 0 /\ from < Len(mirror)

InitStart(p) ==
  /\ At(p, "start") /\ run[p].op = "init"
  /\ IF InitRefused(p) THEN Quit(p)
     ELSE run' = [run EXCEPT ![p].pc = "initUrl", ![p].rev = Len(mirror), ![p].allow = FALSE]
  /\ UNCHANGED <<source, mirror, props, lock, state, cut, alien, crashes>>

InitUrl(p) ==
  /\ At(p, "initUrl")
  /\ url' = TRUE /\ Goto(p, "initMerged")
  /\ UNCHANGED <<source, mirror, props, lock, merged, copying, cut, alien, crashes>>

InitMerged(p) ==
  /\ At(p, "initMerged")
  /\ merged' = run[p].rev /\ Goto(p, "copyBegin")
  /\ cut' = cut \cup {run[p].rev}
  /\ alien' = IF alien = "quiet" THEN "busy" ELSE alien
  /\ UNCHANGED <<source, mirror, props, lock, url, copying, crashes>>

--------------------------------------------------------------------------------
(* copy_revprops and do_copy_revprops                                       *)

Present(list) == {n \in Names : list[n] # Absent}

\* The properties to write are those of the source; those only the mirror has go, except that
\* `init' leaves them.
CopyBegin(p) ==
  /\ At(p, "copyBegin")
  /\ LET r == run[p].rev
         extra == IF run[p].op = "init" THEN {} ELSE Present(props[r]) \ Present(fromProps[r])
     IN  run' = [run EXCEPT ![p].pc = "props", ![p].list = fromProps[r], ![p].todo = Present(fromProps[r]) \cup extra]
  /\ UNCHANGED <<source, mirror, props, lock, state, cut, alien, crashes>>

\* One request of write_revprops, or, when these are done, of remove_props_not_in_source.
PropsStep(p) ==
  /\ At(p, "props")
  /\ \E n \in run[p].todo :
       /\ run[p].list[n] = Absent => run[p].todo \cap Present(run[p].list) = {}
       /\ props' = [props EXCEPT ![run[p].rev][n] = run[p].list[n]]
       /\ run' = [run EXCEPT ![p].todo = @ \ {n}]
  /\ UNCHANGED <<source, mirror, lock, state, cut, alien, crashes>>

\* The list is copied: on to the next revision, or to the marks.
Toward(r, end) == IF r > end THEN r - 1 ELSE r + 1

PropsDone(p) ==
  /\ At(p, "props") /\ run[p].todo = {}
  /\ CASE run[p].op = "sync" -> run' = [run EXCEPT ![p].pc = "mark", ![p].list = First]
       [] run[p].op = "init" -> Quit(p)
       [] OTHER -> IF run[p].rev = run[p].end THEN Quit(p)
                   ELSE run' = [run EXCEPT ![p].pc = "copyBegin", ![p].rev = Toward(@, run[p].end)]
  /\ cut' = IF run[p].op = "copy" THEN cut \ {run[p].rev} ELSE cut
  /\ UNCHANGED <<source, mirror, props, lock, state, alien, crashes>>

CopyStart(p) ==
  /\ At(p, "start") /\ run[p].op = "copy"
  /\ \E range \in Ranges :
       IF merged # None /\ range[1] <= merged /\ range[2] <= merged
       THEN run' = [run EXCEPT ![p].pc = "copyBegin", ![p].rev = range[1], ![p].end = range[2]]
       ELSE Quit(p)
  /\ UNCHANGED <<source, mirror, props, lock, state, cut, alien, crashes>>

--------------------------------------------------------------------------------
(* do_synchronize                                                           *)

\* A bug to compare with: the destination's HEAD is not looked at when nothing is being copied.
Consistent_NoHead == copying # None => copying \in {merged, merged + 1} /\ Len(mirror) \in {merged, copying}

\* The marks and the destination's HEAD fit.
Consistent ==
  IF copying # None THEN copying \in {merged, merged + 1} /\ Len(mirror) \in {merged, copying}
                    ELSE Len(mirror) = merged

\* A bug to compare with: a revision that was committed counts as copied.
Resume_NoProps == IF copying = Len(mirror) THEN "mark" ELSE "range"

\* What to do about the revision that was being copied.
Resume ==
  IF copying = Len(mirror) THEN IF copying > merged THEN "copyBegin" ELSE "mark"
                           ELSE "range"

SyncStart(p) ==
  /\ At(p, "start") /\ run[p].op = "sync"
  /\ IF merged = None THEN Quit(p)
     ELSE IF ~Consistent THEN Quit(p)
     ELSE run' = [run EXCEPT ![p].pc = Resume, ![p].rev = IF Resume = "range" THEN merged ELSE copying]
  /\ UNCHANGED <<source, mirror, props, lock, state, cut, alien, crashes>>

\* A bug to compare with: the marks are written in the other order.
MarkMerged_Swapped(p) ==
  /\ At(p, "mark")
  /\ copying' = None /\ Goto(p, "drop")
  /\ UNCHANGED <<source, mirror, props, lock, url, merged, cut, alien, crashes>>

\* last-merged-rev first, then currently-copying goes: both after the commit and on resuming.
MarkMerged(p) ==
  /\ At(p, "mark")
  /\ merged' = run[p].rev /\ Goto(p, "drop")
  /\ UNCHANGED <<source, mirror, props, lock, url, copying, cut, alien, crashes>>

DropCopying(p) ==
  /\ At(p, "drop")
  /\ copying' = None /\ Goto(p, IF run[p].end = None THEN "range" ELSE "next")
  /\ UNCHANGED <<source, mirror, props, lock, url, merged, cut, alien, crashes>>

\* svn_ra_replay_range is asked for the revisions from the last merged one to the youngest.
SyncRange(p) ==
  /\ At(p, "range")
  /\ run' = [run EXCEPT ![p].pc = IF from < run[p].rev THEN "release" ELSE "next", ![p].end = from]
  /\ UNCHANGED <<source, mirror, props, lock, state, cut, alien, crashes>>

\* replay_rev_started
ReplayStarted(p) ==
  /\ At(p, "next")
  /\ IF run[p].rev >= run[p].end THEN Quit(p) /\ UNCHANGED copying
     ELSE /\ copying' = run[p].rev + 1
          /\ run' = [run EXCEPT ![p].pc = "commit", ![p].rev = @ + 1, ![p].list = fromProps[run[p].rev + 1]]
  /\ UNCHANGED <<source, mirror, props, lock, url, merged, cut, alien, crashes>>

\* The commit is refused when it changes what a revision after its base changed: for certain if
\* that is the same revision.
Above(r)    == {mirror[i] : i \in r..Len(mirror)}
MayFail(r)  == Above(r) # {}
MayPass(r)  == r \in Above(r) => r \in EmptyRevs

CommitRefused(p) ==
  /\ At(p, "commit") /\ MayFail(run[p].rev)
  /\ Quit(p)
  /\ UNCHANGED <<source, mirror, props, lock, state, cut, alien, crashes>>

\* replay_rev_finished up to the first property: the commit, the check of its number, and what is
\* left to write and to remove.
ReplayFinished(p) ==
  /\ At(p, "commit") /\ MayPass(run[p].rev)
  /\ LET list == [n \in Names |-> IF n \in InCommit /\ run[p].list[n] # Absent THEN run[p].list[n] ELSE Own]
         new  == Len(mirror) + 1
         todo == (Present(run[p].list) \ InCommit) \cup (Present(list) \ Present(run[p].list))
     IN  /\ mirror' = Append(mirror, run[p].rev)
         /\ props' = [r \in 0..new |-> IF r = new THEN list ELSE props[r]]
         /\ IF new = run[p].rev THEN run' = [run EXCEPT ![p].pc = "props", ![p].todo = todo] ELSE Quit(p)
  /\ UNCHANGED <<source, lock, state, cut, alien, crashes>>

--------------------------------------------------------------------------------

\* A request fails or the user interrupts: with_locked and the cancellation check of the lock loop
\* give the lock back.
Fail(p) ==
  /\ p \in Working \/ At(p, "lockRead")
  /\ Quit(p)
  /\ cut' = IF At(p, "props") /\ run[p].op = "copy" THEN cut \cup {run[p].rev} ELSE cut
  /\ UNCHANGED <<source, mirror, props, lock, state, alien, crashes>>

\* The process dies: its token stays.
Crash(p) ==
  /\ crashes < MaxCrash /\ ~At(p, "idle")
  /\ crashes' = crashes + 1
  /\ lock' = IF lock = p THEN Dead ELSE lock
  /\ run' = [q \in Procs |-> IF q = p THEN Idle
                             ELSE IF run[q].seen = p THEN [run[q] EXCEPT !.seen = Dead] ELSE run[q]]
  /\ cut' = IF At(p, "props") /\ run[p].op = "copy" THEN cut \cup {run[p].rev} ELSE cut
  /\ UNCHANGED <<source, mirror, props, state, alien>>

\* Somebody commits to the mirror.
Meddle ==
  /\ Cardinality({i \in 1..Len(mirror) : mirror[i] = Alien}) < MaxMeddle
  /\ mirror' = Append(mirror, Alien)
  /\ props' = [r \in 0..Len(mirror) + 1 |-> IF r = Len(mirror) + 1 THEN OwnList ELSE props[r]]
  /\ alien' = IF alien # "busy" /\ copying = None /\ Working = {} /\ url THEN "quiet" ELSE "busy"
  /\ UNCHANGED <<source, lock, state, run, cut, crashes>>

Step(p) ==
  \/ LockRead(p) \/ LockSet(p) \/ ReleaseRead(p) \/ ReleaseSet(p)
  \/ InitStart(p) \/ InitUrl(p) \/ InitMerged(p)
  \/ CopyStart(p) \/ CopyBegin(p) \/ PropsStep(p) \/ PropsDone(p)
  \/ SyncStart(p) \/ MarkMerged(p) \/ DropCopying(p) \/ SyncRange(p)
  \/ ReplayStarted(p) \/ CommitRefused(p) \/ ReplayFinished(p)

Next ==
  \/ \E p \in Procs : Begin(p) \/ Step(p) \/ Fail(p) \/ Crash(p)
  \/ SourceCommit \/ SourceSet \/ Meddle

Spec == Init /\ [][Next]_vars

--------------------------------------------------------------------------------

\* No lock is taken from a live process, and nobody else has committed.
Alone == Atomic /\ Careful /\ alien = "no"

\* Revision i of the mirror is revision i of the source, once and in order, whatever runs fail or
\* die (do_synchronize, replay_rev_started, replay_rev_finished).  That is because one process at
\* most is between taking the lock and giving it back (util.c, with_locked).
Mirrored ==
  /\ Alone => \A i \in 1..Len(mirror) : mirror[i] = i
  /\ Atomic /\ Careful => Cardinality(Working) <= 1

\* No failure or death, anywhere, leaves marks that a later sync refuses with "have you committed
\* to the destination without using svnsync?" (do_synchronize).
NeverStuck == TypeOK /\ (Alone /\ merged # None => Consistent)

\* A merged revision has a property list the source's revision really had, as a whole: nothing of
\* the mirror's own date, author or empty log message stays, and lists do not mix.  Not so while
\* copy-revprops is at it, or after it or `init' was cut short there (copy_revprops).
PropsWhole ==
  Alone /\ merged # None =>
    \A r \in 1..merged : \/ props[r] \in had[r] \/ r \in cut
                         \/ \E p \in Working : run[p].rev = r /\ run[p].op = "copy"

\* A commit to the mirror by somebody else, made while no svnsync was at work or had left a
\* revision half copied, is never taken for a mirrored revision, unless `init --allow-non-empty'
\* is told that all there is has been mirrored.
MeddlingNoticed ==
  [][Atomic /\ Careful /\ alien = "quiet" /\ merged' # merged =>
       \E p \in Procs : At(p, "initMerged")]_vars

--------------------------------------------------------------------------------
(* The inductive invariant of SvnsyncProofs, for Atomic /\ Careful          *)

Values == {Own, Absent} \cup UNION {{l[n] : n \in Names} : l \in Lists}
Runs   == [pc : Pcs, op : Ops \cup {"sync"}, steal : BOOLEAN, allow : BOOLEAN, tries : 0..Retries, seen : Locks,
           rev : Revs \cup {None}, end : Revs \cup {None}, list : Lists, todo : SUBSET Names]

TypeInv ==
  /\ from \in Revs /\ fromProps \in [Revs -> Lists] /\ had \in [Revs -> SUBSET Lists]
  /\ \A r \in Revs : fromProps[r] \in had[r]
  /\ mirror \in Seq(Revs) /\ props \in [0..Len(mirror) -> [Names -> Values]]
  /\ lock \in Locks /\ url \in BOOLEAN
  /\ merged \in {None} \cup Revs /\ merged <= Len(mirror) /\ (merged # None => url)
  /\ copying \in {None} \cup 1..MaxRev
  /\ run \in [Procs -> Runs]
  /\ cut \subseteq Revs \cup 0..Len(mirror) /\ alien \in {"no", "quiet", "busy"}
  /\ sets \in 0..MaxSet /\ crashes \in 0..MaxCrash

\* Who works has the lock; who steals it is the only one there; others take it when it is free.
LockInv ==
  /\ \A p \in Working : lock = p
  /\ \A p \in Procs : run[p].steal => At(p, "lockRead") \/ At(p, "lockSet")
  /\ \A p \in Procs : run[p].steal => \A q \in Procs \ {p} : At(q, "idle")
  /\ \A p \in Procs : At(p, "lockSet") /\ ~run[p].steal => run[p].seen = Nobody
  /\ \A p \in Procs : At(p, "lockSet") => run[p].tries < Retries

\* How long the mirror can get.
Aliens   == {i \in 1..Len(mirror) : mirror[i] = Alien}
CountInv ==
  /\ IsFiniteSet(Aliens) /\ Cardinality(Aliens) <= MaxMeddle
  /\ Len(mirror) <= MaxRev + Cardinality(Aliens)

\* The mirror and the marks on its revision 0.
MarkInv ==
  alien = "no" =>
    /\ \A i \in 1..Len(mirror) : mirror[i] = i
    /\ merged = None => Len(mirror) = 0 /\ copying = None
    /\ merged # None => Consistent

\* A foreign commit between runs: the marks do not say a word of it.
QuietInv ==
  alien = "quiet" =>
    /\ copying = None /\ merged < Len(mirror)
    /\ \A p \in Working : run[p].pc \in {"start", "initUrl", "initMerged"} \/ run[p].op # "sync"

\* The property list of r is one the source had, or a command other than sync was at it.
Settled(r) == props[r] \in had[r] \/ r \in cut
PropsInv ==
  alien = "no" /\ merged # None =>
    \A r \in 1..merged : Settled(r) \/ \E p \in Procs : At(p, "props") /\ run[p].op = "copy" /\ run[p].rev = r

\* Where a run is.
Syncing == {"mark", "drop", "range", "next", "commit"}
RunOK(p) ==
  LET r    == run[p].rev
      pc   == run[p].pc
      sync == run[p].op = "sync"
  IN /\ pc \in Syncing => sync
     /\ pc \in {"initUrl", "initMerged"} => run[p].op = "init" /\ r \in 0..Len(mirror) /\ (alien = "no" => r = Len(mirror))
     /\ pc = "initMerged" => url
     /\ pc \in {"copyBegin", "props", "mark", "drop"} => r \in 0..Len(mirror) /\ merged # None
     /\ pc \in {"copyBegin", "props"} /\ run[p].op = "copy" => r <= merged /\ run[p].end \in 0..merged
     /\ pc \in {"copyBegin", "props"} /\ run[p].op = "init" => r \in cut
     /\ pc \in {"copyBegin", "props"} /\ sync /\ alien = "no" => r = Len(mirror) /\ copying = r /\ merged = r - 1
     /\ pc = "props" => run[p].list \in had[r]
     /\ pc = "props" /\ run[p].op # "init" => \A n \in Names \ run[p].todo : props[r][n] = run[p].list[n]
     /\ pc = "mark" /\ alien = "no" => r = Len(mirror) /\ copying = r /\ merged \in {r - 1, r} /\ Settled(r)
     /\ pc = "drop" => merged = r /\ (alien = "no" => r = Len(mirror) /\ copying = r)
     /\ pc \in {"range", "next"} => r \in Revs /\ merged = r /\ (alien = "no" => r = Len(mirror) /\ copying \in {None, r + 1})
     /\ pc = "next" => run[p].end \in Revs
     /\ pc = "commit" => r \in 1..MaxRev /\ merged = r - 1 /\ run[p].list \in had[r]
     /\ pc = "commit" /\ alien = "no" => r - 1 = Len(mirror) /\ copying = r
     /\ pc \in {"copyBegin", "props", "mark", "drop", "range", "next"} /\ sync => Len(mirror) <= r + Cardinality(Aliens)
     /\ pc = "commit" => Len(mirror) <= r - 1 + Cardinality(Aliens)

IInv ==
  /\ TypeInv /\ LockInv /\ CountInv /\ MarkInv /\ QuietInv /\ PropsInv
  /\ \A p \in Procs : RunOK(p)
================================================================================
