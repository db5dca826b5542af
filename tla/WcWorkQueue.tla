------------------------------ MODULE WcWorkQueue ------------------------------
(***************************************************************************)
(* The work queue of a working copy: how commands that update or commit    *)
(* files change the database first and the disk afterwards.                *)
(*                                                                         *)
(* A command takes the lock of a directory, reads the working file, and    *)
(* writes the new base of the file and the items of work that follow from  *)
(* it in one transaction of wc.db.  Then it runs the queue.  An item is    *)
(* removed from the queue with the fetch of the next one, so that after a  *)
(* crash the item that was being run is run again, by `svn cleanup'.  All  *)
(* the time the user edits the files.                                      *)
(*                                                                         *)
(* A text is the set of changes it contains: a merge of two texts is their *)
(* union, and a text is lost when its changes are.  Two texts that differ  *)
(* have a different size or time of modification, so the size and time     *)
(* that are recorded for a file are written here as the text they were     *)
(* taken of.  Every file is in a directory of its own, with its own lock.  *)
(***************************************************************************)
EXTENDS Integers, Sequences

CONSTANTS
  Procs,     \* commands of the user
  Files,     \* versioned files, each in a directory of its own
  MaxChange, \* bound: changes ever made, by the user or in the repository
  MaxCrash,  \* bound: crashes and cancellations
  NoFile     \* the command works on no file

ASSUME QueueAssumption ==
  MaxChange \in Nat /\ MaxCrash \in Nat /\ NoFile \notin Files

Texts  == SUBSET (1..MaxChange)
NoText == {0}                 \* nothing recorded, or no such temporary file
Temps == {"result", "mine"}   \* merge_text_file's result, preserve_pre_merge_files' copy of the target

\* The work items: their opcode, their file, and where they read from.
Items == [op : {"install"}, file : Files, from : {"pristine", "result"}]
         \cup [op : {"remove", "copy"}, file : Files, from : Temps]
         \cup [op : {"commit"}, file : Files]
NoItem == [op |-> "none"]

VARIABLES
  base,       \* f -> the text of the BASE node, in the pristine store
  recorded,   \* f -> the text whose size and time are in the node, or NoText
  conflicted, \* f -> the user's text that the recorded conflict is about, or NoText
  queue,      \* the rows of the WORK_QUEUE table: [id, item]
  nextId,     \* AUTOINCREMENT
  locked,     \* the directories with a row in WC_LOCK
  disk,       \* f -> the working file
  copy,       \* f -> the copy of the user's text beside a conflicted file (.mine)
  temp,       \* f -> temporary file -> its text
  cmd,        \* p -> its command
  changes,    \* changes made so far
  crashes,    \* crashes and cancellations so far
  \* What happened, for the properties only:
  safe,       \* f -> the changes the user made while the directory was not locked
  raced,      \* the files the user has changed while the directory was locked
  foreign     \* a command has fetched an item that is not about a file it has locked

db     == <<base, recorded, conflicted, queue, nextId, locked>>
fs     == <<disk, copy, temp>>
ghosts == <<safe, raced, foreign>>
vars   == <<db, fs, cmd, changes, crashes, ghosts>>

Pcs == {"idle", "open", "locked", "merged", "sent", "fetch", "run", "rename", "replace", "record",
        "tidy", "release"}

\* A command: where it is, the files it has locked, the file it works on, the item it runs and
\* its id (none: NoItem, 0), a text it has read and the temporary files it has made.
Idle == [pc |-> "idle", owns |-> {}, file |-> NoFile, item |-> NoItem, last |-> 0, text |-> {}, made |-> {}]

\* The types; an id of the WORK_QUEUE table is given once, and every new one is greater, so that
\* wq_fetch_next takes the items in the order in which they were added.
TypeOK ==
  /\ base \in [Files -> Texts] /\ disk \in [Files -> Texts]
  /\ recorded \in [Files -> Texts \cup {NoText}]
  /\ conflicted \in [Files -> Texts \cup {NoText}] /\ copy \in [Files -> Texts \cup {NoText}]
  /\ temp \in [Files -> [Temps -> Texts \cup {NoText}]]
  /\ \A e \in queue : e.id \in 1..(nextId - 1) /\ e.item \in Items
  /\ \A d, e \in queue : d.id = e.id => d = e
  /\ locked \subseteq Files
  /\ cmd \in [Procs -> [pc : Pcs, owns : SUBSET Files, file : Files \cup {NoFile},
                        item : Items \cup {NoItem}, last : 0..(nextId - 1), text : Texts,
                        made : SUBSET Temps]]
  /\ changes \in 0..MaxChange /\ crashes \in 0..MaxCrash
  /\ safe \in [Files -> Texts] /\ raced \subseteq Files /\ foreign \in BOOLEAN

Init ==
  /\ base = [f \in Files |-> {}] /\ disk = base /\ recorded = base
  /\ conflicted = [f \in Files |-> NoText] /\ copy = conflicted
  /\ temp = [f \in Files |-> [t \in Temps |-> NoText]]
  /\ queue = {} /\ nextId = 1 /\ locked = {}
  /\ cmd = [p \in Procs |-> Idle]
  /\ changes = 0 /\ crashes = 0
  /\ safe = [f \in Files |-> {}] /\ raced = {} /\ foreign = FALSE

--------------------------------------------------------------------------------
(* What commands do before they run the queue.                             *)

At(p, pc)   == cmd[p].pc = pc
Goto(p, pc) == cmd' = [cmd EXCEPT ![p].pc = pc]
Live        == {p \in Procs : cmd[p].pc # "idle"}

\* A bug to compare with: a file without recorded size and time is taken for unmodified.
Modified_TrustMissing(f) == recorded[f] \notin {disk[f], NoText} /\ disk[f] # base[f]

\* svn_wc__internal_file_modified_p: the text is compared with the pristine text only if size or
\* time are not the recorded ones.
Modified(f) == recorded[f] # disk[f] /\ disk[f] # base[f]
\* ... and the information it repairs when the texts turn out to be the same.
Repaired(f) == IF recorded[f] # disk[f] /\ disk[f] = base[f] THEN disk[f] ELSE recorded[f]

\* The database is opened, which is refused while there is work in the queue.
Open(p) ==
  /\ At(p, "idle") /\ queue = {}
  /\ Goto(p, "open")
  /\ UNCHANGED <<db, fs, changes, crashes, ghosts>>

\* The lock is taken, or the command fails because another has it.
Obtain(p, f) ==
  /\ At(p, "open")
  /\ IF f \in locked
     THEN Goto(p, "idle") /\ UNCHANGED locked
     ELSE /\ locked' = locked \cup {f}
          /\ cmd' = [cmd EXCEPT ![p] = [@ EXCEPT !.pc = "locked", !.owns = {f}, !.file = f]]
  /\ UNCHANGED <<base, recorded, conflicted, queue, nextId, fs, changes, crashes, ghosts>>

Queued(items) ==
  /\ queue' = queue \cup {[id |-> nextId + i - 1, item |-> items[i]] : i \in DOMAIN items}
  /\ nextId' = nextId + Len(items)

Install(f, from) == [op |-> "install", file |-> f, from |-> from]
Remove(f, t)     == [op |-> "remove", file |-> f, from |-> t]
CopyMine(f)      == [op |-> "copy", file |-> f, from |-> "mine"]
FileCommit(f)    == [op |-> "commit", file |-> f]

\* merge_file: a change from the repository meets the working file.  A file that is not modified
\* is to be installed from the new base; otherwise the merge, or the copy with the marks of a
\* conflict, is written to a temporary file, and of a conflict the user's text as well.
Merge(p) ==
  LET f == cmd[p].file
      new == changes + 1
      merged(t) == IF t = "result" THEN disk[f] \cup {new} ELSE disk[f]
  IN /\ At(p, "locked") /\ changes < MaxChange /\ conflicted[f] = NoText
     /\ changes' = new
     /\ recorded' = [recorded EXCEPT ![f] = Repaired(f)]
     /\ \E made \in IF Modified(f) THEN {{"result"}, Temps} ELSE {{}} :
          /\ temp' = [temp EXCEPT ![f] = [t \in Temps |-> IF t \in made THEN merged(t) ELSE @[t]]]
          /\ cmd' = [cmd EXCEPT ![p].pc = "merged", ![p].text = base[f] \cup {new}, ![p].made = made]
     /\ UNCHANGED <<base, conflicted, queue, nextId, locked, disk, copy, crashes, ghosts>>

\* preserve_pre_merge_files: the user's text is copied beside the file.
ConflictItems(f) == <<CopyMine(f), Remove(f, "mine")>>

\* A bug to compare with: the temporary file is removed before it is installed.
MergeItems_Swapped(f, made) ==
  (IF "mine" \in made THEN ConflictItems(f) ELSE << >>) \o <<Remove(f, "result"), Install(f, "result")>>

\* merge_text_file: what was merged, or has the marks of a conflict, is installed.
MergeItems(f, made) ==
  (IF "mine" \in made THEN ConflictItems(f) ELSE << >>) \o <<Install(f, "result"), Remove(f, "result")>>

\* The items that complete an update, in the order svn_wc__wq_merge gives them.
UpdateItems(f, made) == IF "result" \in made THEN MergeItems(f, made) ELSE <<Install(f, "pristine")>>

\* svn_wc__db_base_add_file: the new base, no recorded size and time, and the items, at once.
UpdateBase(p) ==
  LET f == cmd[p].file
  IN /\ At(p, "merged")
     /\ base' = [base EXCEPT ![f] = cmd[p].text]
     /\ recorded' = [recorded EXCEPT ![f] = NoText]
     /\ conflicted' = [conflicted EXCEPT ![f] = IF "mine" \in cmd[p].made THEN temp[f]["mine"] ELSE NoText]
     /\ Queued(UpdateItems(f, cmd[p].made))
     /\ Goto(p, "fetch")
     /\ UNCHANGED <<locked, fs, changes, crashes, ghosts>>

\* The text of a modified file is sent to the repository ...
Send(p) ==
  LET f == cmd[p].file
  IN /\ At(p, "locked") /\ Modified(f) /\ conflicted[f] = NoText
     /\ cmd' = [cmd EXCEPT ![p].pc = "sent", ![p].text = disk[f]]
     /\ UNCHANGED <<db, fs, changes, crashes, ghosts>>

\* ... and is the new base when the commit is done (svn_wc__db_global_commit).
CommitBase(p) ==
  LET f == cmd[p].file
  IN /\ At(p, "sent")
     /\ base' = [base EXCEPT ![f] = cmd[p].text]
     /\ recorded' = [recorded EXCEPT ![f] = NoText]
     /\ Queued(<<FileCommit(f)>>)
     /\ Goto(p, "fetch")
     /\ UNCHANGED <<conflicted, locked, fs, changes, crashes, ghosts>>

\* A command that finds nothing to do, or a conflict that is not resolved, still runs the queue.
Nothing(p) ==
  /\ At(p, "locked")
  /\ Goto(p, "fetch")
  /\ UNCHANGED <<db, fs, changes, crashes, ghosts>>

--------------------------------------------------------------------------------
(* svn_wc__wq_run                                                          *)

Completed(id) == {e \in queue : e.id # id}
First(e, rows) == e \in rows /\ \A d \in rows : e.id <= d.id

\* A bug to compare with: the item is removed when it is fetched.
Fetch_Early(p) ==
  /\ At(p, "fetch")
  /\ \/ /\ queue = {}
        /\ cmd' = [cmd EXCEPT ![p].pc = IF cmd[p].file = NoFile THEN "tidy" ELSE "release",
                              ![p].item = NoItem, ![p].last = 0]
        /\ UNCHANGED <<queue, foreign>>
     \/ \E e \in queue :
          /\ First(e, queue)
          /\ cmd' = [cmd EXCEPT ![p].pc = "run", ![p].item = e.item, ![p].last = e.id]
          /\ queue' = queue \ {e}
          /\ foreign' = (foreign \/ e.item.file \notin cmd[p].owns)
  /\ UNCHANGED <<base, recorded, conflicted, nextId, locked, fs, changes, crashes, safe, raced>>

\* svn_wc__db_wq_fetch_next: the item that was finished is removed and the first one is taken.
Fetch(p) ==
  LET rest == Completed(cmd[p].last)
  IN /\ At(p, "fetch")
     /\ queue' = rest
     /\ \/ /\ rest = {}
           /\ cmd' = [cmd EXCEPT ![p].pc = IF cmd[p].file = NoFile THEN "tidy" ELSE "release",
                                 ![p].item = NoItem, ![p].last = 0]
           /\ UNCHANGED foreign
        \/ \E e \in rest :
             /\ First(e, rest)
             /\ cmd' = [cmd EXCEPT ![p].pc = "run", ![p].item = e.item, ![p].last = e.id]
             /\ foreign' = (foreign \/ e.item.file \notin cmd[p].owns)
     /\ UNCHANGED <<base, recorded, conflicted, nextId, locked, fs, changes, crashes, safe, raced>>

Op(p, op) == At(p, "run") /\ cmd[p].item.op = op

\* A command that ends with an error keeps its item in the queue.
Fails(p) == cmd' = [cmd EXCEPT ![p].pc = "release", ![p].item = NoItem, ![p].last = 0]

\* The cancellation handler says so after the fetch.
Cancel(p) ==
  /\ At(p, "run") /\ crashes < MaxCrash
  /\ crashes' = crashes + 1
  /\ Fails(p)
  /\ UNCHANGED <<db, fs, changes, ghosts>>

\* run_file_remove: whether the file is there or not.
RunRemove(p) ==
  /\ Op(p, "remove")
  /\ temp' = [temp EXCEPT ![cmd[p].item.file][cmd[p].item.from] = NoText]
  /\ Goto(p, "fetch")
  /\ UNCHANGED <<db, disk, copy, changes, crashes, ghosts>>

\* run_file_copy_translated
RunCopy(p) ==
  LET f == cmd[p].item.file
      text == temp[f][cmd[p].item.from]
  IN /\ Op(p, "copy")
     /\ IF text = NoText
        THEN Fails(p) /\ UNCHANGED copy
        ELSE copy' = [copy EXCEPT ![f] = text] /\ Goto(p, "fetch")
     /\ UNCHANGED <<db, disk, temp, changes, crashes, ghosts>>

\* run_file_install up to the rename: the source is translated into a temporary file.
InstallRead(p) ==
  LET f == cmd[p].item.file
      text == IF cmd[p].item.from = "pristine" THEN base[f] ELSE temp[f][cmd[p].item.from]
  IN /\ Op(p, "install")
     /\ IF text = NoText
        THEN Fails(p)
        ELSE cmd' = [cmd EXCEPT ![p].pc = "rename", ![p].text = text]
     /\ UNCHANGED <<db, fs, changes, crashes, ghosts>>

\* A bug to compare with: size and time are recorded of a merged text too.
InstallRename_RecordAll(p) ==
  /\ At(p, "rename")
  /\ disk' = [disk EXCEPT ![cmd[p].item.file] = cmd[p].text]
  /\ Goto(p, "record")
  /\ UNCHANGED <<db, copy, temp, changes, crashes, ghosts>>

\* The rename over the working file; record_fileinfo only if the source is the pristine text.
InstallRename(p) ==
  LET item == cmd[p].item
  IN /\ At(p, "rename")
     /\ disk' = [disk EXCEPT ![item.file] = cmd[p].text]
     /\ Goto(p, IF item.from = "pristine" THEN "record" ELSE "fetch")
     /\ UNCHANGED <<db, copy, temp, changes, crashes, ghosts>>

\* install_committed_file: the working file is translated ...
CommitTranslate(p) ==
  /\ Op(p, "commit")
  /\ cmd' = [cmd EXCEPT ![p].pc = "replace", ![p].text = disk[cmd[p].item.file]]
  /\ UNCHANGED <<db, fs, changes, crashes, ghosts>>

\* ... and renamed over the working file if keywords or line ends changed, which changes no text
\* in the sense used here.  svn_wc__sync_flags_with_props says of every file that it did
\* something, so size and time are then recorded whatever the file contains.
CommitReplace(p) ==
  /\ At(p, "replace")
  /\ \/ disk' = [disk EXCEPT ![cmd[p].item.file] = cmd[p].text]
     \/ UNCHANGED disk
  /\ Goto(p, "record")
  /\ UNCHANGED <<db, copy, temp, changes, crashes, ghosts>>

\* get_and_record_fileinfo
Record(p) ==
  LET f == cmd[p].item.file
  IN /\ At(p, "record")
     /\ recorded' = [recorded EXCEPT ![f] = disk[f]]
     /\ Goto(p, "fetch")
     /\ UNCHANGED <<base, conflicted, queue, nextId, locked, fs, changes, crashes, ghosts>>

\* A bug to compare with: the lock is given back whatever is left in the queue.
Release_Always(p) ==
  /\ At(p, "release")
  /\ cmd' = [cmd EXCEPT ![p] = Idle]
  /\ locked' = locked \ cmd[p].owns
  /\ UNCHANGED <<base, recorded, conflicted, queue, nextId, fs, changes, crashes, ghosts>>

\* svn_wc__release_write_lock: the lock stays while there is work to do.  `svn cleanup' that
\* fails does not get that far.
Release(p) ==
  /\ At(p, "release")
  /\ cmd' = [cmd EXCEPT ![p] = Idle]
  /\ locked' = IF queue # {} \/ cmd[p].file = NoFile THEN locked ELSE locked \ cmd[p].owns
  /\ UNCHANGED <<base, recorded, conflicted, queue, nextId, fs, changes, crashes, ghosts>>

--------------------------------------------------------------------------------
(* `svn cleanup', crashes and the user.                                    *)

\* cleanup_internal steals the lock of the whole working copy.  The user is taken to run it only
\* when no other command is running.
Cleanup(p) ==
  /\ Live = {} /\ locked # {}
  /\ locked' = Files
  /\ cmd' = [cmd EXCEPT ![p] = [Idle EXCEPT !.pc = "fetch", !.owns = Files]]
  /\ UNCHANGED <<base, recorded, conflicted, queue, nextId, fs, changes, crashes, ghosts>>

\* The rest of it, with the queue empty: the temporary files go, size and time are repaired, and
\* the lock is given back.
Tidy(p) ==
  /\ At(p, "tidy")
  /\ temp' = [f \in Files |-> [t \in Temps |-> NoText]]
  /\ recorded' = [f \in Files |-> Repaired(f)]
  /\ locked' = {}
  /\ cmd' = [cmd EXCEPT ![p] = Idle]
  /\ UNCHANGED <<base, conflicted, queue, nextId, disk, copy, changes, crashes, ghosts>>

\* A command dies; what is in the database and on disk stays.
Crash(p) ==
  /\ p \in Live /\ crashes < MaxCrash
  /\ crashes' = crashes + 1
  /\ cmd' = [cmd EXCEPT ![p] = Idle]
  /\ UNCHANGED <<db, fs, changes, ghosts>>

\* The user saves a change to the working file, at any time.
Edit(f) ==
  /\ changes < MaxChange
  /\ changes' = changes + 1
  /\ disk' = [disk EXCEPT ![f] = @ \cup {changes'}]
  /\ IF f \in locked
     THEN raced' = raced \cup {f} /\ UNCHANGED safe
     ELSE safe' = [safe EXCEPT ![f] = @ \cup {changes'}] /\ UNCHANGED raced
  /\ UNCHANGED <<db, copy, temp, cmd, crashes, foreign>>

Step(p) ==
  \/ Open(p) \/ \E f \in Files : Obtain(p, f)
  \/ Merge(p) \/ UpdateBase(p) \/ Send(p) \/ CommitBase(p) \/ Nothing(p)
  \/ Fetch(p) \/ Cancel(p) \/ RunRemove(p) \/ RunCopy(p) \/ InstallRead(p) \/ InstallRename(p)
  \/ CommitTranslate(p) \/ CommitReplace(p) \/ Record(p) \/ Release(p)
  \/ Cleanup(p) \/ Tidy(p) \/ Crash(p)

Next == (\E p \in Procs : Step(p)) \/ (\E f \in Files : Edit(f))

Spec == Init /\ [][Next]_vars

--------------------------------------------------------------------------------
(* Properties.  `foreign' is left aside: the queue belongs to the working  *)
(* copy and the locks to directories, so a command that opened the         *)
(* database in time runs the items of another one, which that one is       *)
(* running too.                                                            *)

\* The temporary file an item reads is there for as long as the item is in the queue, so that the
\* item can be run again after a crash at any place (dispatch_work_item); and no two items have the
\* same id (TypeOK).
SourcesKept ==
  /\ TypeOK
  /\ ~foreign => \A e \in queue :
       e.item.op = "copy" \/ (e.item.op = "install" /\ e.item.from # "pristine")
         => temp[e.item.file][e.item.from] # NoText

\* What the user saved while the directory was not locked is never overwritten: not by an install,
\* and not by the second run of one (run_file_install, install_committed_file).
EditsKept == ~foreign => \A f \in Files : safe[f] \subseteq disk[f]

\* A file that is taken for unmodified because of its recorded size and time has the pristine text
\* (svn_wc__internal_file_modified_p), if it was not edited under the lock.
StatusTrue == ~foreign => \A f \in Files \ raced : recorded[f] = disk[f] => disk[f] = base[f]

\* Once the lock is given back the working file has every change of its base, so that the next
\* commit takes nothing back that is in the repository, however often the work was interrupted.
BaseInstalled == ~foreign => \A f \in Files : f \notin locked => base[f] \subseteq disk[f]

\* Once the lock is given back the user's text of a conflict is in the file beside the conflicted
\* one (preserve_pre_merge_files).
ConflictTextKept ==
  \A f \in Files : f \notin locked /\ conflicted[f] # NoText => copy[f] = conflicted[f]

--------------------------------------------------------------------------------
(* The inductive invariant of WcWorkQueueProofs                             *)

Made     == SUBSET (1..changes)
Commands == [pc : Pcs, owns : SUBSET Files, file : Files \cup {NoFile}, item : Items \cup {NoItem},
             last : Nat, text : Texts, made : SUBSET Temps]

\* A text has no change that has not been made yet.
TypeInv ==
  /\ changes \in 0..MaxChange /\ crashes \in 0..MaxCrash
  /\ base \in [Files -> Made] /\ disk \in [Files -> Made] /\ safe \in [Files -> Made]
  /\ recorded \in [Files -> Made \cup {NoText}]
  /\ conflicted \in [Files -> Made \cup {NoText}] /\ copy \in [Files -> Made \cup {NoText}]
  /\ temp \in [Files -> [Temps -> Made \cup {NoText}]]
  /\ queue \subseteq [id : Nat, item : Items] /\ nextId \in Nat /\ nextId > 0
  /\ locked \subseteq Files /\ raced \subseteq Files /\ foreign \in BOOLEAN
  /\ cmd \in [Procs -> Commands] /\ \A p \in Procs : cmd[p].text \in Made

\* A lock has one owner; who cleans up is alone and has all of them.
Out == {"idle", "open"}
LockInv ==
  /\ \A p \in Procs : cmd[p].owns \subseteq locked /\ (cmd[p].pc \in Out => cmd[p].owns = {})
  /\ \A p, q \in Procs : p # q => cmd[p].owns \cap cmd[q].owns = {}
  /\ \A p \in Procs : cmd[p].pc \notin Out =>
       IF cmd[p].file = NoFile
       THEN /\ cmd[p].owns = Files /\ locked = Files /\ cmd[p].pc \notin {"locked", "merged", "sent"}
            /\ \A q \in Procs \ {p} : cmd[q].pc \in Out
       ELSE cmd[p].owns = {cmd[p].file}
  /\ \A p \in Procs : At(p, "tidy") => cmd[p].file = NoFile /\ queue = {}

\* The rows: there is work for locked files only; those of a file are from one command, the ones
\* that need a temporary file before the one that removes it.
OfMine(item) == item.op \in {"copy", "remove"} /\ item.from = "mine"
RowsInv ==
  /\ \A e \in queue : e.id \in 1..(nextId - 1) /\ e.item.file \in locked
  /\ \A e \in queue : OfMine(e.item) => conflicted[e.item.file] # NoText
  /\ \A e \in queue : e.item.op = "copy" => e.item.from = "mine"
  /\ \A d, e \in queue : d.id = e.id => d = e
  /\ \A d, e \in queue : /\ d.item.op = "remove" /\ e.item.op \in {"copy", "install"}
                         /\ d.item.file = e.item.file /\ d.item.from = e.item.from
                         => e.id < d.id
  /\ \A d, e \in queue : d.item.op = "commit" /\ d.item.file = e.item.file => d = e
  /\ \A d, e \in queue : d.item.op = "install" /\ e.item.op = "install" /\ d.item.file = e.item.file => d = e

\* The user's text of a conflict is in the copy, or is about to be copied.
ConflictInv ==
  \A f \in Files : conflicted[f] # NoText =>
    /\ temp[f]["mine"] \in {NoText, conflicted[f]}
    /\ copy[f] = conflicted[f] \/ \E e \in queue : e.item = CopyMine(f)

\* The row a command runs; a command adds rows once, and when it has run the copy of the user's text
\* the copy is there.
Running == {"run", "rename", "replace", "record"}
CommandInv(p) ==
  LET f    == cmd[p].file
      item == cmd[p].item
      last == cmd[p].last
  IN /\ last < nextId /\ (last = 0 <=> item = NoItem) /\ \A e \in queue : e.id = last => e.item = item
     /\ cmd[p].pc \in Running => last # 0
     /\ cmd[p].pc \notin Running \cup {"fetch"} => last = 0
     /\ At(p, "rename") => item.op = "install"
     /\ At(p, "replace") => item.op = "commit"
     /\ At(p, "record") => item.op = "commit" \/ (item.op = "install" /\ item.from = "pristine")
     /\ last # 0 /\ OfMine(item) => conflicted[item.file] # NoText
     /\ last # 0 /\ item.op = "copy" => item.from = "mine" /\ (At(p, "fetch") => copy[item.file] = conflicted[item.file])
     /\ cmd[p].pc \in {"locked", "merged", "sent"} => \A e \in queue : e.item.file # f
     /\ At(p, "merged") => /\ conflicted[f] = NoText /\ cmd[p].made \in {{}, {"result"}, Temps}
                           /\ "mine" \in cmd[p].made => temp[f]["mine"] # NoText

\* The row a command runs is of its own file, and the first.
HeadOK(p) ==
  cmd[p].last # 0 =>
    /\ cmd[p].item.file \in cmd[p].owns /\ [id |-> cmd[p].last, item |-> cmd[p].item] \in queue
    /\ \A e \in queue : cmd[p].last <= e.id

\* What a row in the queue can rely on, so that it can be run, and run again.
RowOK(e) ==
  LET f == e.item.file
  IN /\ e.item.op = "copy" => temp[f]["mine"] # NoText
     /\ e.item = Install(f, "result") =>
          /\ temp[f]["result"] # NoText /\ recorded[f] = NoText
          /\ base[f] \subseteq temp[f]["result"] /\ safe[f] \subseteq temp[f]["result"]
     /\ e.item = Install(f, "pristine") => safe[f] \subseteq base[f]
     /\ e.item.op = "commit" =>
          /\ base[f] \subseteq disk[f] /\ safe[f] \subseteq base[f]
          /\ f \notin raced => disk[f] = base[f]

FileOK(f) ==
  /\ safe[f] \subseteq disk[f]
  /\ base[f] \subseteq disk[f] \/ \E e \in queue : e.item.op = "install" /\ e.item.file = f
  /\ recorded[f] = disk[f] => safe[f] \subseteq base[f] /\ (f \notin raced => disk[f] = base[f])

CommandOK(p) ==
  LET f    == cmd[p].file
      g    == cmd[p].item.file
      text == cmd[p].text
  IN /\ At(p, "merged") =>
          IF "result" \in cmd[p].made
          THEN /\ temp[f]["result"] # NoText
               /\ text \subseteq temp[f]["result"] /\ safe[f] \subseteq temp[f]["result"]
          ELSE safe[f] \subseteq text
     /\ At(p, "sent") => safe[f] \subseteq text /\ text \subseteq disk[f] /\ (f \notin raced => text = disk[f])
     /\ At(p, "rename") => /\ base[g] \subseteq text /\ safe[g] \subseteq text
                           /\ cmd[p].item.from = "pristine" => text = base[g]
     /\ At(p, "replace") => base[g] \subseteq text /\ safe[g] \subseteq text /\ (g \notin raced => text = base[g])
     /\ At(p, "record") => base[g] \subseteq disk[g] /\ (g \notin raced => disk[g] = base[g])
     /\ At(p, "fetch") /\ cmd[p].last # 0 /\ cmd[p].item.op = "install" => base[g] \subseteq disk[g]

IInv ==
  /\ TypeInv /\ LockInv /\ RowsInv /\ ConflictInv
  /\ \A p \in Procs : CommandInv(p)
  /\ ~foreign => /\ \A p \in Procs : HeadOK(p) /\ CommandOK(p)
                 /\ \A e \in queue : RowOK(e)
                 /\ \A f \in Files : FileOK(f)
================================================================================
