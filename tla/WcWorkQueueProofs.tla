--------------------------- MODULE WcWorkQueueProofs ---------------------------
(***************************************************************************)
(* Proofs about WcWorkQueue, for any number of commands, files, changes    *)
(* and crashes.                                                            *)
(***************************************************************************)
EXTENDS WcWorkQueue, TLAPS

--------------------------------------------------------------------------------
(* Items and texts *)

\* What there is to know of an item.
LEMMA ItemFacts ==
  ASSUME NEW item \in Items
  PROVE  /\ item.file \in Files /\ item.op \in {"install", "remove", "copy", "commit"} /\ item # NoItem
         /\ item.op = "install" => item.from \in {"pristine", "result"} /\ item = Install(item.file, item.from)
         /\ item.op \in {"remove", "copy"} => item.from \in Temps
         /\ item.op = "copy" /\ item.from = "mine" => item = CopyMine(item.file)
         /\ item.op = "commit" => item = FileCommit(item.file)
<1>1. CASE item \in [op : {"install"}, file : Files, from : {"pristine", "result"}]
  BY <1>1 DEF Install, CopyMine, FileCommit, NoItem
<1>2. CASE item \in [op : {"remove", "copy"}, file : Files, from : Temps]
  BY <1>2 DEF Install, CopyMine, FileCommit, NoItem
<1>3. CASE item \in [op : {"commit"}, file : Files]
  BY <1>3 DEF Install, CopyMine, FileCommit, NoItem
<1>. QED  BY <1>1, <1>2, <1>3 DEF Items

\* The items that are made.
LEMMA NewItems ==
  ASSUME NEW f \in Files
  PROVE  /\ \A t \in {"pristine", "result"} : /\ Install(f, t) \in Items /\ Install(f, t).op = "install"
                                              /\ Install(f, t).file = f /\ Install(f, t).from = t
         /\ \A t \in Temps : /\ Remove(f, t) \in Items /\ Remove(f, t).op = "remove"
                             /\ Remove(f, t).file = f /\ Remove(f, t).from = t
         /\ CopyMine(f) \in Items /\ CopyMine(f).op = "copy" /\ CopyMine(f).file = f /\ CopyMine(f).from = "mine"
         /\ FileCommit(f) \in Items /\ FileCommit(f).op = "commit" /\ FileCommit(f).file = f
  BY DEF Install, Remove, CopyMine, FileCommit, Items, Temps

\* The batch of an update: a file that is read is removed later, and one item installs.
Batch(f, made, s) ==
  /\ DOMAIN s = 1..Len(s) /\ Len(s) \in Nat
  /\ \A i \in DOMAIN s : s[i] \in Items /\ s[i].file = f /\ s[i].op # "commit"
  /\ \A i, j \in DOMAIN s : s[i].op = "remove" /\ s[j].op \in {"copy", "install"} /\ s[i].from = s[j].from => j < i
  /\ \A i, j \in DOMAIN s : s[i].op = "install" /\ s[j].op = "install" => i = j
  /\ \E i \in DOMAIN s : s[i].op = "install"
  /\ \A i \in DOMAIN s : (s[i].op = "copy" => s[i].from = "mine") /\ (OfMine(s[i]) => "mine" \in made)
  /\ \A i \in DOMAIN s : s[i] = Install(f, "result") => "result" \in made
  /\ \A i \in DOMAIN s : s[i] = Install(f, "pristine") => "result" \notin made
  /\ "mine" \in made => \E i \in DOMAIN s : s[i] = CopyMine(f)

\* UpdateItems gives such a batch.
LEMMA UpdateBatch ==
  ASSUME NEW f \in Files, NEW made \in {{}, {"result"}, Temps}, NEW s, s = UpdateItems(f, made)
  PROVE  Batch(f, made, s)
<1>0. "mine" \in Temps /\ "result" \in Temps
  BY DEF Temps
<1>. PICK a, b, c, d, e : /\ a = CopyMine(f) /\ b = Remove(f, "mine") /\ c = Install(f, "result")
                          /\ d = Remove(f, "result") /\ e = Install(f, "pristine")
  OBVIOUS
<1>i. /\ a \in Items /\ a.op = "copy" /\ a.file = f /\ a.from = "mine"
      /\ b \in Items /\ b.op = "remove" /\ b.file = f /\ b.from = "mine"
      /\ c \in Items /\ c.op = "install" /\ c.file = f /\ c.from = "result"
      /\ d \in Items /\ d.op = "remove" /\ d.file = f /\ d.from = "result"
      /\ e \in Items /\ e.op = "install" /\ e.file = f /\ e.from = "pristine"
  BY <1>0, NewItems
<1>1. CASE made = {}
  <2>1. s = <<e>>
    BY <1>1 DEF UpdateItems
  <2>2. DOMAIN s = 1..1 /\ Len(s) = 1 /\ s[1] = e
    BY <2>1
  <2>3. \A i \in DOMAIN s : i = 1
    BY <2>2
  <2>. QED  BY <1>i, <1>1, <2>2, <2>3 DEF OfMine, Batch
<1>2. CASE made = {"result"}
  <2>1. s = <<c, d>>
    BY <1>2 DEF UpdateItems, MergeItems
  <2>2. DOMAIN s = 1..2 /\ Len(s) = 2 /\ s[1] = c /\ s[2] = d
    BY <2>1
  <2>3. \A i \in DOMAIN s : i = 1 \/ i = 2
    BY <2>2
  <2>. QED  BY <1>i, <1>2, <2>2, <2>3 DEF OfMine, Batch
<1>3. CASE made = Temps
  <2>1. s = <<a, b>> \o <<c, d>>
    BY <1>0, <1>3 DEF UpdateItems, MergeItems, ConflictItems
  <2>2. <<a, b>> \in Seq(Items) /\ <<c, d>> \in Seq(Items) /\ Len(<<a, b>>) = 2 /\ Len(<<c, d>>) = 2
    BY <1>i
  <2>3. DOMAIN s = 1..4 /\ Len(s) = 4 /\ s[1] = a /\ s[2] = b /\ s[3] = c /\ s[4] = d
    BY <2>1, <2>2
  <2>4. \A i \in DOMAIN s : i = 1 \/ i = 2 \/ i = 3 \/ i = 4
    BY <2>3
  <2>5. \A i, j \in DOMAIN s : s[i].op = "remove" /\ s[j].op \in {"copy", "install"} /\ s[i].from = s[j].from => j < i
    <3>. SUFFICES ASSUME NEW i \in DOMAIN s, NEW j \in DOMAIN s, s[i].op = "remove",
                         s[j].op \in {"copy", "install"}, s[i].from = s[j].from
                  PROVE  j < i
      OBVIOUS
    <3>1. (i = 2 \/ i = 4) /\ (j = 1 \/ j = 3) /\ ~(i = 2 /\ j = 3)
      BY <1>i, <2>3, <2>4
    <3>. QED  BY <3>1
  <2>6. \A i \in DOMAIN s : s[i] \in Items /\ s[i].file = f /\ s[i].op # "commit" /\ (s[i].op = "copy" => s[i].from = "mine")
    BY <1>i, <2>3, <2>4
  <2>7. \A i \in DOMAIN s : s[i].op = "install" => i = 3
    BY <1>i, <2>3, <2>4
  <2>8. \A i \in DOMAIN s : s[i] # e
    BY <1>i, <2>3, <2>4
  <2>9. 1 \in DOMAIN s /\ 3 \in DOMAIN s
    BY <2>3
  <2>10. (\E i \in DOMAIN s : s[i].op = "install") /\ (\E i \in DOMAIN s : s[i] = CopyMine(f))
    BY <1>i, <2>3, <2>9
  <2>11. \A i, j \in DOMAIN s : s[i].op = "install" /\ s[j].op = "install" => i = j
    BY <2>7
  <2>12. "mine" \in made /\ "result" \in made
    BY <1>0, <1>3
  <2>13. Len(s) \in Nat /\ DOMAIN s = 1..Len(s)
    BY <2>3
  <2>. QED  BY <2>5, <2>6, <2>8, <2>10, <2>11, <2>12, <2>13 DEF Batch
<1>. QED  BY <1>1, <1>2, <1>3

\* Nothing is not a text.
LEMMA TextFacts ==
  ASSUME TypeInv
  PROVE  /\ NoText \notin Made /\ Made \subseteq Texts /\ changes \in Nat /\ {} \in Made
         /\ changes < MaxChange => changes + 1 \in 1..MaxChange /\ 1..changes \subseteq 1..(changes + 1)
         /\ MaxChange \in Nat /\ MaxCrash \in Nat
<1>1. changes \in Nat /\ MaxChange \in Nat /\ changes <= MaxChange /\ MaxCrash \in Nat
  BY QueueAssumption DEF TypeInv
<1>2. 1..changes \subseteq 1..MaxChange
  BY <1>1
<1>. QED  BY <1>1, <1>2 DEF Made, Texts, NoText

--------------------------------------------------------------------------------
(* What a step does to the command that takes it *)

Alone(p)    == cmd' \in [Procs -> Commands] /\ \A q \in Procs \ {p} : cmd'[q] = cmd[q]
SameFile(p) == cmd'[p].owns = cmd[p].owns /\ cmd'[p].file = cmd[p].file
SameItem(p) == cmd'[p].item = cmd[p].item /\ cmd'[p].last = cmd[p].last
SameText(p) == cmd'[p].text = cmd[p].text /\ cmd'[p].made = cmd[p].made

\* A process' command is replaced.
LEMMA Becomes ==
  ASSUME cmd \in [Procs -> Commands], NEW p \in Procs, NEW x \in Commands, cmd' = [cmd EXCEPT ![p] = x]
  PROVE  Alone(p) /\ cmd'[p] = x
  BY DEF Alone

\* A command goes on to the next step.
LEMMA GotoMoves ==
  ASSUME TypeInv, NEW p \in Procs, NEW pc \in Pcs, Goto(p, pc)
  PROVE  Alone(p) /\ cmd'[p].pc = pc /\ SameFile(p) /\ SameItem(p) /\ SameText(p)
<1>0. cmd \in [Procs -> Commands]
  BY DEF TypeInv
<1>1. [cmd[p] EXCEPT !.pc = pc] \in Commands
  BY <1>0 DEF Commands
<1>2. cmd' = [cmd EXCEPT ![p] = [cmd[p] EXCEPT !.pc = pc]]
  BY <1>0 DEF Goto
<1>3. Alone(p) /\ cmd'[p] = [cmd[p] EXCEPT !.pc = pc]
  BY <1>0, <1>1, <1>2, Becomes
<1>. QED  BY <1>0, <1>3 DEF Commands, SameFile, SameItem, SameText

\* A command ends.
LEMMA IdleMoves ==
  ASSUME TypeInv, NEW p \in Procs, cmd' = [cmd EXCEPT ![p] = Idle]
  PROVE  /\ Alone(p) /\ cmd'[p].pc = "idle" /\ cmd'[p].owns = {} /\ cmd'[p].file = NoFile
         /\ cmd'[p].item = NoItem /\ cmd'[p].last = 0 /\ cmd'[p].text = {} /\ cmd'[p].made = {}
<1>0. cmd \in [Procs -> Commands]
  BY DEF TypeInv
<1>1. Idle \in Commands
  BY DEF Commands, Idle, Pcs, Texts
<1>2. Alone(p) /\ cmd'[p] = Idle
  BY <1>0, <1>1, Becomes
<1>. QED  BY <1>2 DEF Idle

\* A command gives up.
LEMMA FailsMoves ==
  ASSUME TypeInv, NEW p \in Procs, Fails(p)
  PROVE  /\ Alone(p) /\ cmd'[p].pc = "release" /\ SameFile(p) /\ SameText(p)
         /\ cmd'[p].item = NoItem /\ cmd'[p].last = 0
<1>0. cmd \in [Procs -> Commands]
  BY DEF TypeInv
<1>1. [cmd[p] EXCEPT !.pc = "release", !.item = NoItem, !.last = 0] \in Commands
  BY <1>0 DEF Commands, Pcs
<1>2. cmd' = [cmd EXCEPT ![p] = [cmd[p] EXCEPT !.pc = "release", !.item = NoItem, !.last = 0]]
  BY <1>0 DEF Fails
<1>3. Alone(p) /\ cmd'[p] = [cmd[p] EXCEPT !.pc = "release", !.item = NoItem, !.last = 0]
  BY <1>0, <1>1, <1>2, Becomes
<1>. QED  BY <1>0, <1>3 DEF Commands, SameFile, SameText

\* A text is read.
LEMMA ReadMoves ==
  ASSUME TypeInv, NEW p \in Procs, NEW pc \in Pcs, NEW text \in Texts,
         cmd' = [cmd EXCEPT ![p].pc = pc, ![p].text = text]
  PROVE  /\ Alone(p) /\ cmd'[p].pc = pc /\ cmd'[p].text = text /\ SameFile(p) /\ SameItem(p)
         /\ cmd'[p].made = cmd[p].made
<1>0. cmd \in [Procs -> Commands]
  BY DEF TypeInv
<1>1. [cmd[p] EXCEPT !.pc = pc, !.text = text] \in Commands
  BY <1>0 DEF Commands
<1>2. cmd' = [cmd EXCEPT ![p] = [cmd[p] EXCEPT !.pc = pc, !.text = text]]
  BY <1>0
<1>3. Alone(p) /\ cmd'[p] = [cmd[p] EXCEPT !.pc = pc, !.text = text]
  BY <1>0, <1>1, <1>2, Becomes
<1>. QED  BY <1>0, <1>3 DEF Commands, SameFile, SameItem

\* A command gets its lock.
LEMMA ObtainMoves ==
  ASSUME TypeInv, NEW p \in Procs, NEW f \in Files,
         cmd' = [cmd EXCEPT ![p] = [@ EXCEPT !.pc = "locked", !.owns = {f}, !.file = f]]
  PROVE  /\ Alone(p) /\ cmd'[p].pc = "locked" /\ cmd'[p].owns = {f} /\ cmd'[p].file = f
         /\ SameItem(p) /\ SameText(p)
<1>0. cmd \in [Procs -> Commands]
  BY DEF TypeInv
<1>1. [cmd[p] EXCEPT !.pc = "locked", !.owns = {f}, !.file = f] \in Commands
  BY <1>0 DEF Commands, Pcs
<1>2. cmd' = [cmd EXCEPT ![p] = [cmd[p] EXCEPT !.pc = "locked", !.owns = {f}, !.file = f]]
  BY <1>0
<1>3. Alone(p) /\ cmd'[p] = [cmd[p] EXCEPT !.pc = "locked", !.owns = {f}, !.file = f]
  BY <1>0, <1>1, <1>2, Becomes
<1>. QED  BY <1>0, <1>3 DEF Commands, SameItem, SameText

\* `svn cleanup' starts.
LEMMA CleanupMoves ==
  ASSUME TypeInv, NEW p \in Procs, cmd' = [cmd EXCEPT ![p] = [Idle EXCEPT !.pc = "fetch", !.owns = Files]]
  PROVE  /\ Alone(p) /\ cmd'[p].pc = "fetch" /\ cmd'[p].owns = Files /\ cmd'[p].file = NoFile
         /\ cmd'[p].item = NoItem /\ cmd'[p].last = 0 /\ cmd'[p].text = {} /\ cmd'[p].made = {}
<1>0. cmd \in [Procs -> Commands]
  BY DEF TypeInv
<1>1. [Idle EXCEPT !.pc = "fetch", !.owns = Files] \in Commands
  BY DEF Commands, Idle, Pcs, Texts
<1>2. Alone(p) /\ cmd'[p] = [Idle EXCEPT !.pc = "fetch", !.owns = Files]
  BY <1>0, <1>1, Becomes
<1>. PICK x : x = cmd'[p]
  OBVIOUS
<1>3. x = [Idle EXCEPT !.pc = "fetch", !.owns = Files]
  BY <1>2
<1>4. x.pc = "fetch" /\ x.owns = Files
  BY <1>3 DEF Idle
<1>5. x.file = Idle.file /\ x.item = Idle.item /\ x.last = Idle.last /\ x.text = Idle.text /\ x.made = Idle.made
  BY <1>3 DEF Idle
<1>6. Idle.file = NoFile /\ Idle.item = NoItem /\ Idle.last = 0 /\ Idle.text = {} /\ Idle.made = {}
  BY DEF Idle
<1>. QED  BY <1>2, <1>4, <1>5, <1>6

\* A command has merged.
LEMMA MergeMoves ==
  ASSUME TypeInv, NEW p \in Procs, NEW text \in Texts, NEW made \in SUBSET Temps,
         cmd' = [cmd EXCEPT ![p].pc = "merged", ![p].text = text, ![p].made = made]
  PROVE  /\ Alone(p) /\ cmd'[p].pc = "merged" /\ cmd'[p].text = text /\ cmd'[p].made = made
         /\ SameFile(p) /\ SameItem(p)
<1>0. cmd \in [Procs -> Commands]
  BY DEF TypeInv
<1>1. [cmd[p] EXCEPT !.pc = "merged", !.text = text, !.made = made] \in Commands
  BY <1>0 DEF Commands, Pcs
<1>2. cmd' = [cmd EXCEPT ![p] = [cmd[p] EXCEPT !.pc = "merged", !.text = text, !.made = made]]
  BY <1>0
<1>3. Alone(p) /\ cmd'[p] = [cmd[p] EXCEPT !.pc = "merged", !.text = text, !.made = made]
  BY <1>0, <1>1, <1>2, Becomes
<1>. QED  BY <1>0, <1>3 DEF Commands, SameFile, SameItem

\* The next row, or none.
LEMMA FetchMoves ==
  ASSUME TypeInv, NEW p \in Procs, NEW pc \in Pcs, NEW item \in Items \cup {NoItem}, NEW last \in Nat,
         cmd' = [cmd EXCEPT ![p].pc = pc, ![p].item = item, ![p].last = last]
  PROVE  /\ Alone(p) /\ cmd'[p].pc = pc /\ cmd'[p].item = item /\ cmd'[p].last = last
         /\ SameFile(p) /\ SameText(p)
<1>0. cmd \in [Procs -> Commands]
  BY DEF TypeInv
<1>1. [cmd[p] EXCEPT !.pc = pc, !.item = item, !.last = last] \in Commands
  BY <1>0 DEF Commands
<1>2. cmd' = [cmd EXCEPT ![p] = [cmd[p] EXCEPT !.pc = pc, !.item = item, !.last = last]]
  BY <1>0
<1>3. Alone(p) /\ cmd'[p] = [cmd[p] EXCEPT !.pc = pc, !.item = item, !.last = last]
  BY <1>0, <1>1, <1>2, Becomes
<1>. QED  BY <1>0, <1>3 DEF Commands, SameFile, SameText

\* What is known of the command that takes a step.
LEMMA Command ==
  ASSUME IInv, NEW p \in Procs
  PROVE  /\ cmd[p].pc \in Pcs /\ cmd[p].owns \subseteq Files /\ cmd[p].file \in Files \cup {NoFile} /\ NoFile \notin Files
         /\ cmd[p].item \in Items \cup {NoItem} /\ cmd[p].last \in Nat /\ cmd[p].text \in Made /\ cmd[p].text \in Texts
         /\ cmd[p].made \subseteq Temps
         /\ cmd[p].last # 0 => cmd[p].item \in Items /\ cmd[p].item.file \in Files
         /\ cmd[p].pc \in Running => cmd[p].last # 0 /\ cmd[p].item \in Items /\ cmd[p].item.file \in Files
         /\ cmd[p].pc \in {"locked", "merged", "sent"} =>
              cmd[p].file \in Files /\ cmd[p].owns = {cmd[p].file} /\ cmd[p].file \in locked
<1>1. TypeInv /\ LockInv /\ CommandInv(p) /\ NoFile \notin Files
  BY QueueAssumption DEF IInv
<1>2. cmd[p] \in Commands /\ cmd[p].text \in Made
  BY <1>1 DEF TypeInv
<1>3. cmd[p].last # 0 => cmd[p].item \in Items /\ cmd[p].item.file \in Files
  BY <1>1, <1>2, ItemFacts DEF CommandInv, Commands
<1>4. cmd[p].pc \in Running => cmd[p].last # 0
  BY <1>1 DEF CommandInv
<1>5. cmd[p].pc \in {"locked", "merged", "sent"} =>
        cmd[p].file \in Files /\ cmd[p].owns = {cmd[p].file} /\ cmd[p].file \in locked
  BY <1>1, <1>2 DEF LockInv, Out, Commands
<1>. QED  BY <1>1, <1>2, <1>3, <1>4, <1>5 DEF Commands

--------------------------------------------------------------------------------
(* What a step leaves alone *)

\* A command goes on with the locks it has.
LEMMA LockFrame ==
  ASSUME IInv, NEW p \in Procs, Alone(p), SameFile(p), locked' = locked,
         cmd[p].pc \in Out <=> cmd'[p].pc \in Out, queue' = queue \/ cmd[p].pc \notin Out,
         cmd'[p].pc = "tidy" => cmd[p].file = NoFile /\ queue' = {},
         cmd'[p].pc \in {"locked", "merged", "sent"} => cmd[p].pc \in {"locked", "merged", "sent"}
  PROVE  LockInv'
<1>0. LockInv
  BY DEF IInv
<1>1. \A q \in Procs \ {p} : cmd'[q] = cmd[q]
  BY DEF Alone
<1>2. cmd'[p].owns = cmd[p].owns /\ cmd'[p].file = cmd[p].file
  BY DEF SameFile
<1>3. /\ \A q \in Procs : cmd'[q].owns \subseteq locked' /\ (cmd'[q].pc \in Out => cmd'[q].owns = {})
      /\ \A q, r \in Procs : q # r => cmd'[q].owns \cap cmd'[r].owns = {}
  BY <1>0, <1>1, <1>2 DEF LockInv
<1>4. ASSUME NEW q \in Procs, cmd'[q].pc \notin Out
      PROVE  IF cmd'[q].file = NoFile
             THEN /\ cmd'[q].owns = Files /\ locked' = Files /\ cmd'[q].pc \notin {"locked", "merged", "sent"}
                  /\ \A r \in Procs \ {q} : cmd'[r].pc \in Out
             ELSE cmd'[q].owns = {cmd'[q].file}
  <2>1. CASE q = p
    BY <1>0, <1>1, <1>2, <1>4, <2>1 DEF LockInv
  <2>2. CASE q # p
    BY <1>0, <1>1, <1>2, <1>4, <2>2 DEF LockInv
  <2>. QED  BY <2>1, <2>2
<1>5. ASSUME NEW q \in Procs, cmd'[q].pc = "tidy"  PROVE cmd'[q].file = NoFile /\ queue' = {}
  <2>1. CASE q = p
    BY <1>2, <1>5, <2>1
  <2>2. CASE q # p
    <3>1. cmd[q].pc = "tidy" /\ cmd[q].file = NoFile /\ queue = {}
      BY <1>0, <1>1, <1>5, <2>2 DEF LockInv, At
    <3>2. cmd[p].pc \in Out
      BY <1>0, <2>2, <3>1 DEF LockInv, Out
    <3>. QED  BY <1>1, <2>2, <3>1, <3>2
  <2>. QED  BY <2>1, <2>2
<1>. QED  BY <1>3, <1>4, <1>5 DEF LockInv, At

\* A command ends, with or without its locks.
LEMMA LockLeave ==
  ASSUME IInv, NEW p \in Procs, cmd' = [cmd EXCEPT ![p] = Idle], queue' = queue, locked' \subseteq Files,
         \A q \in Procs \ {p} : cmd[q].owns \subseteq locked',
         \A q \in Procs \ {p} : cmd[q].pc \notin Out /\ cmd[q].file = NoFile => locked' = locked
  PROVE  LockInv'
<1>0. LockInv /\ TypeInv
  BY DEF IInv
<1>1. cmd'[p].pc = "idle" /\ cmd'[p].owns = {} /\ \A q \in Procs \ {p} : cmd'[q] = cmd[q]
  BY <1>0, IdleMoves DEF Alone
<1>2. /\ \A q \in Procs : cmd'[q].owns \subseteq locked' /\ (cmd'[q].pc \in Out => cmd'[q].owns = {})
      /\ \A q, r \in Procs : q # r => cmd'[q].owns \cap cmd'[r].owns = {}
  BY <1>0, <1>1 DEF LockInv
<1>3. ASSUME NEW q \in Procs, cmd'[q].pc \notin Out
      PROVE  IF cmd'[q].file = NoFile
             THEN /\ cmd'[q].owns = Files /\ locked' = Files /\ cmd'[q].pc \notin {"locked", "merged", "sent"}
                  /\ \A r \in Procs \ {q} : cmd'[r].pc \in Out
             ELSE cmd'[q].owns = {cmd'[q].file}
  <2>1. q # p /\ cmd'[q] = cmd[q]
    BY <1>1, <1>3 DEF Out
  <2>2. CASE cmd[q].file = NoFile
    <3>1. cmd[q].owns = Files /\ locked = Files /\ cmd[q].pc \notin {"locked", "merged", "sent"}
          /\ \A r \in Procs \ {q} : cmd[r].pc \in Out
      BY <1>0, <1>3, <2>1, <2>2 DEF LockInv
    <3>2. locked' = locked
      BY <1>3, <2>1, <2>2
    <3>. QED  BY <1>1, <2>1, <2>2, <3>1, <3>2 DEF Out
  <2>3. CASE cmd[q].file # NoFile
    BY <1>0, <1>3, <2>1, <2>3 DEF LockInv
  <2>. QED  BY <2>2, <2>3
<1>4. ASSUME NEW q \in Procs, cmd'[q].pc = "tidy"  PROVE cmd'[q].file = NoFile /\ queue' = {}
  <2>1. q # p /\ cmd'[q] = cmd[q]
    BY <1>1, <1>4
  <2>. QED  BY <1>0, <1>4, <2>1 DEF LockInv, At
<1>. QED  BY <1>2, <1>3, <1>4 DEF LockInv, At

\* What a command may do to the rows, the conflicts and the files that are not its own.
Gentle(p) ==
  /\ nextId' \in Nat /\ nextId' >= nextId
  /\ \A e \in queue' : e \in queue \/ (e.id >= nextId /\ e.item.file \in cmd[p].owns)
  /\ \A f \in Files : conflicted'[f] = conflicted[f] \/ (conflicted[f] = NoText /\ f \in cmd[p].owns)
  /\ \A f \in Files : conflicted[f] # NoText /\ copy[f] = conflicted[f] => copy'[f] = copy[f]
  /\ \A f \in Files \ cmd[p].owns : conflicted[f] = NoText /\ temp[f]["mine"] # NoText => temp'[f]["mine"] # NoText

\* Such a step does not disturb the commands of others.
LEMMA OthersInv ==
  ASSUME IInv, NEW p \in Procs, NEW q \in Procs \ {p}, Alone(p), Gentle(p)
  PROVE  CommandInv(q)'
<1>0. CommandInv(q) /\ LockInv /\ TypeInv
  BY DEF IInv
<1>1. cmd'[q] = cmd[q]
  BY DEF Alone
<1>n. nextId \in Nat /\ nextId' \in Nat /\ nextId' >= nextId /\ cmd[q].last \in Nat
  BY <1>0, Command DEF Gentle, TypeInv
<1>2. cmd[q].last < nextId' /\ \A e \in queue' : e.id = cmd[q].last => e.item = cmd[q].item
  <2>1. cmd[q].last < nextId
    BY <1>0 DEF CommandInv
  <2>2. ASSUME NEW e \in queue', e.id = cmd[q].last  PROVE e.item = cmd[q].item
    <3>1. e \in queue
      BY <1>n, <2>1, <2>2 DEF Gentle
    <3>. QED  BY <1>0, <2>2, <3>1 DEF CommandInv
  <2>. QED  BY <1>n, <2>1, <2>2
<1>3. /\ cmd[q].last # 0 /\ OfMine(cmd[q].item) => conflicted'[cmd[q].item.file] # NoText
      /\ cmd[q].last # 0 /\ cmd[q].item.op = "copy" /\ cmd[q].pc = "fetch"
           => copy'[cmd[q].item.file] = conflicted'[cmd[q].item.file]
  <2>. SUFFICES ASSUME cmd[q].last # 0, OfMine(cmd[q].item) \/ cmd[q].item.op = "copy"
                PROVE  /\ conflicted'[cmd[q].item.file] # NoText
                       /\ cmd[q].item.op = "copy" /\ cmd[q].pc = "fetch"
                            => copy'[cmd[q].item.file] = conflicted'[cmd[q].item.file]
    OBVIOUS
  <2>1. OfMine(cmd[q].item)
    BY <1>0 DEF CommandInv, OfMine
  <2>2. cmd[q].item.file \in Files /\ conflicted[cmd[q].item.file] # NoText
    BY <1>0, <2>1, Command DEF CommandInv
  <2>3. conflicted'[cmd[q].item.file] = conflicted[cmd[q].item.file]
    BY <2>2 DEF Gentle
  <2>4. cmd[q].item.op = "copy" /\ cmd[q].pc = "fetch" => copy[cmd[q].item.file] = conflicted[cmd[q].item.file]
    BY <1>0 DEF CommandInv, At
  <2>. QED  BY <2>2, <2>3, <2>4 DEF Gentle
<1>4. ASSUME cmd[q].pc \in {"locked", "merged", "sent"}
      PROVE  /\ \A e \in queue' : e.item.file # cmd[q].file
             /\ conflicted[cmd[q].file] = NoText => conflicted'[cmd[q].file] = NoText
             /\ conflicted[cmd[q].file] = NoText /\ temp[cmd[q].file]["mine"] # NoText => temp'[cmd[q].file]["mine"] # NoText
  <2>1. cmd[q].file \in Files /\ cmd[q].file \notin cmd[p].owns
    BY <1>0, <1>4, Command DEF LockInv
  <2>2. \A e \in queue : e.item.file # cmd[q].file
    BY <1>0, <1>4 DEF CommandInv
  <2>. QED  BY <2>1, <2>2 DEF Gentle
<1>. QED  BY <1>0, <1>1, <1>2, <1>3, <1>4 DEF CommandInv, At

\* A step that changes nothing but the command and the locks.
LEMMA StillButLocks ==
  ASSUME IInv, NEW p \in Procs, Alone(p), cmd'[p].text \in Made, crashes' \in 0..MaxCrash,
         UNCHANGED <<base, recorded, conflicted, queue, nextId, fs, changes, ghosts>>,
         locked' \subseteq Files, \A e \in queue : e.item.file \in locked',
         LockInv', CommandInv(p)', ~foreign => HeadOK(p)' /\ CommandOK(p)'
  PROVE  IInv'
<1>. USE DEF fs, ghosts
<1>0. TypeInv /\ RowsInv /\ ConflictInv
  BY DEF IInv
<1>1. \A q \in Procs \ {p} : cmd'[q] = cmd[q]
  BY DEF Alone
<1>2. TypeInv'
  <2>1. cmd' \in [Procs -> Commands] /\ \A q \in Procs : cmd'[q].text \in Made
    BY <1>0, <1>1 DEF TypeInv, Alone
  <2>. QED  BY <1>0, <2>1 DEF TypeInv, Made
<1>3. RowsInv' /\ ConflictInv'
  <2>1. \A e \in queue : e.id \in 1..(nextId - 1)
    BY <1>0 DEF RowsInv
  <2>. QED  BY <1>0, <2>1 DEF RowsInv, ConflictInv
<1>4. \A q \in Procs : CommandInv(q)'
  <2>1. Gentle(p)
    BY <1>0 DEF Gentle, TypeInv
  <2>. QED  BY <2>1, OthersInv
<1>5. ASSUME ~foreign
      PROVE  /\ \A q \in Procs : HeadOK(q)' /\ CommandOK(q)'
             /\ \A e \in queue : RowOK(e)'
             /\ \A f \in Files : FileOK(f)'
  <2>0. /\ \A q \in Procs : HeadOK(q) /\ CommandOK(q)
        /\ \A e \in queue : RowOK(e)
        /\ \A f \in Files : FileOK(f)
    BY <1>5 DEF IInv
  <2>1. ASSUME NEW q \in Procs \ {p}  PROVE HeadOK(q)' /\ CommandOK(q)'
    <3>1. HeadOK(q)'
      BY <1>1, <2>0 DEF HeadOK
    <3>2. CommandOK(q)'
      BY <1>1, <2>0 DEF CommandOK, At
    <3>. QED  BY <3>1, <3>2
  <2>2. \A e \in queue : RowOK(e)'
    BY <2>0 DEF RowOK
  <2>3. \A f \in Files : FileOK(f)'
    BY <2>0 DEF FileOK
  <2>. QED  BY <1>5, <2>1, <2>2, <2>3
<1>. QED  BY <1>2, <1>3, <1>4, <1>5 DEF IInv

\* A step that changes nothing but the command.
LEMMA Still ==
  ASSUME IInv, NEW p \in Procs, Alone(p), cmd'[p].text \in Made, crashes' \in 0..MaxCrash,
         UNCHANGED <<db, fs, changes, ghosts>>, LockInv', CommandInv(p)',
         ~foreign => HeadOK(p)' /\ CommandOK(p)'
  PROVE  IInv'
<1>1. locked \subseteq Files /\ \A e \in queue : e.item.file \in locked
  BY DEF IInv, TypeInv, RowsInv
<1>. QED  BY <1>1, StillButLocks DEF db

--------------------------------------------------------------------------------
(* Steps of a command that change the command only *)

\* The database is opened.
LEMMA OpenStep ==
  ASSUME IInv, NEW p \in Procs, Open(p)
  PROVE  IInv'
<1>0. TypeInv /\ LockInv /\ CommandInv(p)
  BY DEF IInv
<1>1. cmd[p].pc = "idle" /\ UNCHANGED <<db, fs, changes, crashes, ghosts>> /\ crashes \in 0..MaxCrash
  BY <1>0 DEF Open, At, TypeInv
<1>2. Alone(p) /\ cmd'[p].pc = "open" /\ SameFile(p) /\ SameItem(p) /\ SameText(p)
  BY <1>0, GotoMoves DEF Open, Pcs
<1>3. LockInv'
  BY <1>1, <1>2, LockFrame DEF Out, db
<1>4. CommandInv(p)' /\ HeadOK(p)' /\ CommandOK(p)'
  BY <1>0, <1>1, <1>2 DEF CommandInv, HeadOK, CommandOK, SameItem, At, db, fs, Running
<1>. QED  BY <1>1, <1>2, <1>3, <1>4, Still, Command DEF SameText

\* The lock is not to be had.
LEMMA RefusedStep ==
  ASSUME IInv, NEW p \in Procs, NEW f \in Files, Obtain(p, f), f \in locked
  PROVE  IInv'
<1>0. TypeInv /\ LockInv /\ CommandInv(p)
  BY DEF IInv
<1>1. cmd[p].pc = "open" /\ UNCHANGED <<db, fs, changes, crashes, ghosts>> /\ crashes \in 0..MaxCrash
  BY <1>0 DEF Obtain, At, TypeInv, db
<1>2. Alone(p) /\ cmd'[p].pc = "idle" /\ SameFile(p) /\ SameItem(p) /\ SameText(p)
  BY <1>0, GotoMoves DEF Obtain, Pcs
<1>3. LockInv'
  BY <1>1, <1>2, LockFrame DEF Out, db
<1>4. CommandInv(p)' /\ HeadOK(p)' /\ CommandOK(p)'
  BY <1>0, <1>1, <1>2 DEF CommandInv, HeadOK, CommandOK, SameItem, At, db, fs, Running
<1>. QED  BY <1>1, <1>2, <1>3, <1>4, Still, Command DEF SameText

\* A command with nothing to do.
LEMMA NothingStep ==
  ASSUME IInv, NEW p \in Procs, Nothing(p)
  PROVE  IInv'
<1>0. TypeInv /\ LockInv /\ CommandInv(p)
  BY DEF IInv
<1>1. cmd[p].pc = "locked" /\ UNCHANGED <<db, fs, changes, crashes, ghosts>> /\ crashes \in 0..MaxCrash
  BY <1>0 DEF Nothing, At, TypeInv
<1>2. Alone(p) /\ cmd'[p].pc = "fetch" /\ SameFile(p) /\ SameItem(p) /\ SameText(p)
  BY <1>0, GotoMoves DEF Nothing, Pcs
<1>3. LockInv'
  BY <1>1, <1>2, LockFrame DEF Out, db
<1>4. CommandInv(p)' /\ HeadOK(p)' /\ CommandOK(p)'
  BY <1>0, <1>1, <1>2 DEF CommandInv, HeadOK, CommandOK, SameItem, At, db, fs, Running
<1>. QED  BY <1>1, <1>2, <1>3, <1>4, Still, Command DEF SameText

\* The text that is sent is the text of the file, and what the user saved before is in it.
LEMMA SendStep ==
  ASSUME IInv, NEW p \in Procs, Send(p)
  PROVE  IInv'
<1>0. TypeInv /\ LockInv /\ CommandInv(p)
  BY DEF IInv
<1>1. cmd[p].pc = "locked" /\ UNCHANGED <<db, fs, changes, crashes, ghosts>> /\ crashes \in 0..MaxCrash
  BY <1>0 DEF Send, At, TypeInv
<1>. PICK f : f = cmd[p].file
  OBVIOUS
<1>2. f \in Files /\ disk[f] \in Made /\ disk[f] \in Texts
  BY <1>0, <1>1, Command, TextFacts DEF TypeInv
<1>3. /\ Alone(p) /\ cmd'[p].pc = "sent" /\ cmd'[p].text = disk[f] /\ SameFile(p) /\ SameItem(p)
      /\ cmd'[p].made = cmd[p].made
  <2>1. cmd' = [cmd EXCEPT ![p].pc = "sent", ![p].text = disk[f]] /\ "sent" \in Pcs
    BY DEF Send, Pcs
  <2>. QED  BY <1>0, <1>2, <2>1, ReadMoves
<1>4. LockInv'
  BY <1>1, <1>3, LockFrame DEF Out, db
<1>5. CommandInv(p)' /\ HeadOK(p)'
  BY <1>0, <1>1, <1>3 DEF CommandInv, HeadOK, SameItem, SameFile, At, db, fs, Running
<1>6. ~foreign => CommandOK(p)'
  <2>1. ~foreign => safe[f] \subseteq disk[f]
    BY <1>2 DEF IInv, FileOK
  <2>. QED  BY <1>1, <1>3, <2>1 DEF CommandOK, SameFile, At, db, fs, ghosts
<1>. QED  BY <1>1, <1>2, <1>3, <1>4, <1>5, <1>6, Still

\* The run of a row stops: the row stays.
LEMMA FailsStep ==
  ASSUME IInv, NEW p \in Procs, cmd[p].pc = "run", Fails(p), UNCHANGED <<db, fs, changes, ghosts>>, crashes' \in 0..MaxCrash
  PROVE  IInv'
<1>0. TypeInv /\ LockInv /\ CommandInv(p)
  BY DEF IInv
<1>2. /\ Alone(p) /\ cmd'[p].pc = "release" /\ SameFile(p) /\ SameText(p)
      /\ cmd'[p].item = NoItem /\ cmd'[p].last = 0
  BY <1>0, FailsMoves
<1>3. LockInv'
  BY <1>2, LockFrame DEF Out, db
<1>4. CommandInv(p)' /\ HeadOK(p)' /\ CommandOK(p)'
  <2>1. nextId > 0 /\ \A e \in queue : e.id # 0
    BY <1>0 DEF TypeInv, IInv, RowsInv
  <2>. QED  BY <1>2, <2>1 DEF CommandInv, HeadOK, CommandOK, At, db, Running
<1>. QED  BY <1>2, <1>3, <1>4, Still, Command DEF SameText

\* A command is cancelled.
LEMMA CancelStep ==
  ASSUME IInv, NEW p \in Procs, Cancel(p)
  PROVE  IInv'
<1>1. crashes' \in 0..MaxCrash
  BY TextFacts DEF Cancel, IInv, TypeInv
<1>. QED  BY <1>1, FailsStep DEF Cancel, At

\* A command dies.
LEMMA CrashStep ==
  ASSUME IInv, NEW p \in Procs, Crash(p)
  PROVE  IInv'
<1>0. TypeInv /\ LockInv /\ CommandInv(p)
  BY DEF IInv
<1>1. UNCHANGED <<db, fs, changes, ghosts>> /\ crashes' \in 0..MaxCrash
  BY <1>0, TextFacts DEF Crash, TypeInv
<1>2. /\ Alone(p) /\ cmd'[p].pc = "idle" /\ cmd'[p].owns = {} /\ cmd'[p].file = NoFile
      /\ cmd'[p].item = NoItem /\ cmd'[p].last = 0 /\ cmd'[p].text = {} /\ cmd'[p].made = {}
  BY <1>0, IdleMoves DEF Crash
<1>3. LockInv'
  <2>1. cmd' = [cmd EXCEPT ![p] = Idle] /\ queue' = queue /\ locked' = locked
    BY <1>1 DEF Crash, db
  <2>2. locked \subseteq Files /\ \A q \in Procs : cmd[q].owns \subseteq locked
    BY <1>0 DEF TypeInv, LockInv
  <2>. QED  BY <2>1, <2>2, LockLeave
<1>4. CommandInv(p)' /\ HeadOK(p)' /\ CommandOK(p)'
  <2>1. nextId > 0 /\ \A e \in queue : e.id # 0
    BY <1>0 DEF TypeInv, IInv, RowsInv
  <2>. QED  BY <1>1, <1>2, <2>1 DEF CommandInv, HeadOK, CommandOK, At, db, Running
<1>. QED  BY <1>0, <1>1, <1>2, <1>3, <1>4, Still, TextFacts

\* The source of an install is read: the new base, or the merge.
LEMMA InstallReadStep ==
  ASSUME IInv, NEW p \in Procs, InstallRead(p)
  PROVE  IInv'
<1>0. TypeInv /\ LockInv /\ CommandInv(p) /\ RowsInv
  BY DEF IInv
<1>. PICK item, g : item = cmd[p].item /\ g = item.file
  OBVIOUS
<1>. PICK src : src = IF item.from = "pristine" THEN base[g] ELSE temp[g][item.from]
  OBVIOUS
<1>1. /\ cmd[p].pc = "run" /\ item.op = "install" /\ UNCHANGED <<db, fs, changes, crashes, ghosts>>
      /\ crashes' \in 0..MaxCrash
  BY <1>0 DEF InstallRead, Op, At, TypeInv
<1>2. item \in Items /\ g \in Files /\ item.from \in {"pristine", "result"} /\ item = Install(g, item.from) /\ cmd[p].last # 0
  BY <1>1, Command, ItemFacts DEF Running
<1>3. CASE src = NoText
  BY <1>1, <1>3, FailsStep DEF InstallRead
<1>4. CASE src # NoText
  <2>1. src \in Made /\ src \in Texts
    BY <1>0, <1>2, <1>4, TextFacts DEF TypeInv, Temps
  <2>2. /\ Alone(p) /\ cmd'[p].pc = "rename" /\ cmd'[p].text = src /\ SameFile(p) /\ SameItem(p)
        /\ cmd'[p].made = cmd[p].made
    <3>1. cmd' = [cmd EXCEPT ![p].pc = "rename", ![p].text = src]
      BY <1>4 DEF InstallRead
    <3>2. "rename" \in Pcs
      BY DEF Pcs
    <3>3. cmd \in [Procs -> Commands]
      BY <1>0 DEF TypeInv
    <3>4. [cmd[p] EXCEPT !.pc = "rename", !.text = src] \in Commands
      BY <2>1, <3>2, <3>3 DEF Commands
    <3>5. cmd' = [cmd EXCEPT ![p] = [cmd[p] EXCEPT !.pc = "rename", !.text = src]]
      BY <3>1, <3>3
    <3>6. Alone(p) /\ cmd'[p] = [cmd[p] EXCEPT !.pc = "rename", !.text = src]
      BY <3>3, <3>4, <3>5, Becomes
    <3>. QED  BY <3>3, <3>6 DEF Commands, SameFile, SameItem
  <2>3. LockInv'
    BY <1>1, <2>2, LockFrame DEF Out, db
  <2>4. CommandInv(p)'
    BY <1>0, <1>1, <2>2 DEF CommandInv, SameItem, SameFile, At, db, fs, Running
  <2>5. ASSUME ~foreign  PROVE HeadOK(p)' /\ CommandOK(p)'
    <3>1. HeadOK(p) /\ [id |-> cmd[p].last, item |-> item] \in queue
      BY <1>2, <2>5 DEF IInv, HeadOK
    <3>2. HeadOK(p)'
      BY <1>1, <2>2, <3>1 DEF HeadOK, SameItem, SameFile, db
    <3>3. RowOK([id |-> cmd[p].last, item |-> item])
      BY <2>5, <3>1 DEF IInv
    <3>4. base[g] \subseteq src /\ safe[g] \subseteq src /\ (item.from = "pristine" => src = base[g])
      <4>1. CASE item.from = "pristine"
        BY <1>2, <3>3, <4>1 DEF RowOK
      <4>2. CASE item.from = "result"
        BY <1>2, <3>3, <4>2 DEF RowOK
      <4>. QED  BY <1>2, <4>1, <4>2
    <3>5. CommandOK(p)'
      BY <1>1, <2>2, <3>4 DEF CommandOK, SameItem, At, db, fs, ghosts
    <3>. QED  BY <3>2, <3>5
  <2>. QED  BY <1>1, <2>1, <2>2, <2>3, <2>4, <2>5, Still
<1>. QED  BY <1>3, <1>4

\* The committed file is read.
LEMMA CommitTranslateStep ==
  ASSUME IInv, NEW p \in Procs, CommitTranslate(p)
  PROVE  IInv'
<1>0. TypeInv /\ LockInv /\ CommandInv(p) /\ RowsInv
  BY DEF IInv
<1>. PICK item, g : item = cmd[p].item /\ g = item.file
  OBVIOUS
<1>1. /\ cmd[p].pc = "run" /\ item.op = "commit" /\ UNCHANGED <<db, fs, changes, crashes, ghosts>>
      /\ crashes' \in 0..MaxCrash
  BY <1>0 DEF CommitTranslate, Op, At, TypeInv
<1>2. item \in Items /\ g \in Files /\ cmd[p].last # 0 /\ disk[g] \in Made /\ disk[g] \in Texts
  BY <1>0, <1>1, Command, TextFacts DEF Running, TypeInv
<1>3. /\ Alone(p) /\ cmd'[p].pc = "replace" /\ cmd'[p].text = disk[g] /\ SameFile(p) /\ SameItem(p)
      /\ cmd'[p].made = cmd[p].made
  <2>1. cmd' = [cmd EXCEPT ![p].pc = "replace", ![p].text = disk[g]] /\ "replace" \in Pcs
    BY DEF CommitTranslate, Pcs
  <2>. QED  BY <1>0, <1>2, <2>1, ReadMoves
<1>4. LockInv'
  BY <1>1, <1>3, LockFrame DEF Out, db
<1>5. CommandInv(p)'
  BY <1>0, <1>1, <1>3 DEF CommandInv, SameItem, SameFile, At, db, fs, Running
<1>6. ASSUME ~foreign  PROVE HeadOK(p)' /\ CommandOK(p)'
  <2>1. HeadOK(p) /\ [id |-> cmd[p].last, item |-> item] \in queue
    BY <1>2, <1>6 DEF IInv, HeadOK
  <2>2. HeadOK(p)'
    BY <1>1, <1>3, <2>1 DEF HeadOK, SameItem, SameFile, db
  <2>3. RowOK([id |-> cmd[p].last, item |-> item])
    BY <1>6, <2>1 DEF IInv
  <2>4. base[g] \subseteq disk[g] /\ safe[g] \subseteq disk[g] /\ (g \notin raced => disk[g] = base[g])
    BY <1>1, <2>3 DEF RowOK
  <2>5. CommandOK(p)'
    BY <1>1, <1>3, <2>4 DEF CommandOK, SameItem, At, db, fs, ghosts
  <2>. QED  BY <2>2, <2>5
<1>. QED  BY <1>1, <1>2, <1>3, <1>4, <1>5, <1>6, Still

--------------------------------------------------------------------------------
(* Taking and giving back locks *)

\* The lock is taken: there is no work for the file.
LEMMA ObtainStep ==
  ASSUME IInv, NEW p \in Procs, NEW f \in Files, Obtain(p, f), f \notin locked
  PROVE  IInv'
<1>0. TypeInv /\ LockInv /\ CommandInv(p) /\ RowsInv
  BY DEF IInv
<1>1. /\ cmd[p].pc = "open" /\ locked' = locked \cup {f}
      /\ UNCHANGED <<base, recorded, conflicted, queue, nextId, fs, changes, crashes, ghosts>>
      /\ crashes' \in 0..MaxCrash
  BY <1>0 DEF Obtain, At, TypeInv
<1>2. /\ Alone(p) /\ cmd'[p].pc = "locked" /\ cmd'[p].owns = {f} /\ cmd'[p].file = f
      /\ SameItem(p) /\ SameText(p)
  <2>1. cmd' = [cmd EXCEPT ![p] = [@ EXCEPT !.pc = "locked", !.owns = {f}, !.file = f]]
    BY DEF Obtain
  <2>. QED  BY <1>0, <2>1, ObtainMoves
<1>3. locked' \subseteq Files /\ \A e \in queue : e.item.file \in locked' /\ e.item.file # f
  BY <1>0, <1>1 DEF TypeInv, RowsInv
<1>4. LockInv'
  <2>0. f # NoFile /\ \A q \in Procs \ {p} : cmd'[q] = cmd[q]
    BY <1>2, QueueAssumption DEF Alone
  <2>1. \A q \in Procs \ {p} : f \notin cmd[q].owns /\ cmd[q].owns \subseteq locked
    BY <1>0 DEF LockInv
  <2>2. /\ \A q \in Procs : cmd'[q].owns \subseteq locked' /\ (cmd'[q].pc \in Out => cmd'[q].owns = {})
        /\ \A q, r \in Procs : q # r => cmd'[q].owns \cap cmd'[r].owns = {}
    BY <1>0, <1>1, <1>2, <2>0, <2>1 DEF LockInv, Out
  <2>3. ASSUME NEW q \in Procs \ {p}, cmd[q].pc \notin Out  PROVE cmd[q].file # NoFile /\ cmd[q].owns = {cmd[q].file}
    BY <1>0, <1>1, <2>3 DEF LockInv
  <2>4. \A q \in Procs \ {p} : cmd[q].pc # "tidy"
    BY <1>0, <2>3 DEF LockInv, At, Out
  <2>. QED  BY <1>2, <2>0, <2>2, <2>3, <2>4 DEF LockInv, At
<1>5. CommandInv(p)' /\ HeadOK(p)' /\ CommandOK(p)'
  BY <1>0, <1>1, <1>2, <1>3 DEF CommandInv, HeadOK, CommandOK, SameItem, At, fs, Running
<1>6. cmd'[p].text \in Made
  BY <1>2, Command DEF SameText
<1>. QED  BY <1>1, <1>2, <1>3, <1>4, <1>5, <1>6, StillButLocks

\* The locks are given back when there is no work left, or stay.
LEMMA ReleaseStep ==
  ASSUME IInv, NEW p \in Procs, Release(p)
  PROVE  IInv'
<1>0. TypeInv /\ LockInv /\ CommandInv(p) /\ RowsInv
  BY DEF IInv
<1>1. /\ cmd[p].pc = "release" /\ cmd' = [cmd EXCEPT ![p] = Idle]
      /\ locked' = locked \/ (queue = {} /\ cmd[p].file # NoFile /\ locked' = locked \ cmd[p].owns)
      /\ UNCHANGED <<base, recorded, conflicted, queue, nextId, fs, changes, crashes, ghosts>>
      /\ crashes' \in 0..MaxCrash
  BY <1>0 DEF Release, At, TypeInv
<1>2. /\ Alone(p) /\ cmd'[p].pc = "idle" /\ cmd'[p].owns = {} /\ cmd'[p].file = NoFile
      /\ cmd'[p].item = NoItem /\ cmd'[p].last = 0 /\ cmd'[p].text = {} /\ cmd'[p].made = {}
  BY <1>0, <1>1, IdleMoves
<1>3. locked' \subseteq Files /\ \A e \in queue : e.item.file \in locked'
  BY <1>0, <1>1 DEF TypeInv, RowsInv
<1>4. LockInv'
  <2>1. \A q \in Procs \ {p} : cmd[q].owns \subseteq locked'
    BY <1>0, <1>1 DEF LockInv
  <2>2. \A q \in Procs \ {p} : ~(cmd[q].pc \notin Out /\ cmd[q].file = NoFile)
    BY <1>0, <1>1 DEF LockInv, Out
  <2>. QED  BY <1>1, <1>3, <2>1, <2>2, LockLeave
<1>5. CommandInv(p)' /\ HeadOK(p)' /\ CommandOK(p)'
  <2>1. nextId > 0 /\ \A e \in queue : e.id # 0
    BY <1>0 DEF TypeInv, RowsInv
  <2>. QED  BY <1>1, <1>2, <2>1 DEF CommandInv, HeadOK, CommandOK, At, Running
<1>. QED  BY <1>0, <1>1, <1>2, <1>3, <1>4, <1>5, StillButLocks, TextFacts

\* `svn cleanup' takes all locks when nobody is at work.
LEMMA CleanupStep ==
  ASSUME IInv, NEW p \in Procs, Cleanup(p)
  PROVE  IInv'
<1>0. TypeInv /\ LockInv /\ CommandInv(p) /\ RowsInv
  BY DEF IInv
<1>1. /\ \A q \in Procs : cmd[q].pc = "idle"
      /\ locked' = Files /\ cmd' = [cmd EXCEPT ![p] = [Idle EXCEPT !.pc = "fetch", !.owns = Files]]
      /\ UNCHANGED <<base, recorded, conflicted, queue, nextId, fs, changes, crashes, ghosts>>
      /\ crashes' \in 0..MaxCrash
  BY <1>0 DEF Cleanup, Live, TypeInv
<1>2. /\ Alone(p) /\ cmd'[p].pc = "fetch" /\ cmd'[p].owns = Files /\ cmd'[p].file = NoFile
      /\ cmd'[p].item = NoItem /\ cmd'[p].last = 0 /\ cmd'[p].text = {} /\ cmd'[p].made = {}
  BY <1>0, <1>1, CleanupMoves
<1>3. locked' \subseteq Files /\ \A e \in queue : e.item.file \in locked'
  BY <1>0, <1>1 DEF TypeInv, RowsInv
<1>4. LockInv'
  <2>1. \A q \in Procs \ {p} : cmd'[q] = cmd[q] /\ cmd'[q].pc = "idle"
    BY <1>1, <1>2 DEF Alone
  <2>2. \A q \in Procs \ {p} : cmd[q].owns = {}
    BY <1>0, <1>1 DEF LockInv, Out
  <2>3. /\ \A q \in Procs : cmd'[q].owns \subseteq locked' /\ (cmd'[q].pc \in Out => cmd'[q].owns = {})
        /\ \A q, r \in Procs : q # r => cmd'[q].owns \cap cmd'[r].owns = {}
    BY <1>1, <1>2, <2>1, <2>2 DEF Out
  <2>. QED  BY <1>1, <1>2, <2>1, <2>3 DEF LockInv, At, Out
<1>5. CommandInv(p)' /\ HeadOK(p)' /\ CommandOK(p)'
  <2>1. nextId > 0 /\ \A e \in queue : e.id # 0
    BY <1>0 DEF TypeInv, RowsInv
  <2>. QED  BY <1>1, <1>2, <2>1 DEF CommandInv, HeadOK, CommandOK, At, Running
<1>. QED  BY <1>0, <1>1, <1>2, <1>3, <1>4, <1>5, StillButLocks, TextFacts

--------------------------------------------------------------------------------
(* Steps that change one file *)

\* Nothing changes but the file g and its rows; new rows have new ids.
Local(g) ==
  /\ \A f \in Files \ {g} : base'[f] = base[f] /\ recorded'[f] = recorded[f] /\ disk'[f] = disk[f] /\ temp'[f] = temp[f]
  /\ UNCHANGED <<safe, raced>>
  /\ \A e \in queue : e.item.file # g => e \in queue'
  /\ \A e \in queue' : e \in queue \/ (e.id >= nextId /\ e.item.file = g)

\* A file that no other command has locked is none of their business.
LEMMA Elsewhere ==
  ASSUME IInv, ~foreign, NEW p \in Procs, NEW q \in Procs \ {p}, Alone(p), NEW g, g \notin cmd[q].owns, Local(g), TypeInv'
  PROVE  HeadOK(q)' /\ CommandOK(q)'
<1>0. TypeInv /\ LockInv /\ CommandInv(q) /\ HeadOK(q) /\ CommandOK(q)
  BY DEF IInv
<1>1. cmd'[q] = cmd[q]
  BY DEF Alone
<1>2. HeadOK(q)'
  <2>. SUFFICES ASSUME cmd[q].last # 0
                PROVE  /\ cmd[q].item.file \in cmd[q].owns /\ [id |-> cmd[q].last, item |-> cmd[q].item] \in queue'
                       /\ \A e \in queue' : cmd[q].last <= e.id
    BY <1>1 DEF HeadOK
  <2>. PICK r : r = [id |-> cmd[q].last, item |-> cmd[q].item]
    OBVIOUS
  <2>1. cmd[q].item.file \in cmd[q].owns /\ r \in queue /\ \A e \in queue : cmd[q].last <= e.id
    BY <1>0 DEF HeadOK
  <2>2. r.item.file # g
    BY <2>1
  <2>3. r \in queue'
    BY <2>1, <2>2 DEF Local
  <2>4. cmd[q].last \in Nat /\ nextId \in Nat /\ cmd[q].last < nextId
    BY <1>0, Command DEF CommandInv, TypeInv
  <2>5. ASSUME NEW e \in queue'  PROVE cmd[q].last <= e.id
    <3>1. CASE e \in queue
      BY <2>1, <3>1
    <3>2. CASE e \notin queue
      <4>1. e.id >= nextId /\ e.id \in Nat
        BY <2>5, <3>2 DEF Local, TypeInv
      <4>. QED  BY <2>4, <4>1
    <3>. QED  BY <3>1, <3>2
  <2>. QED  BY <2>1, <2>3, <2>5
<1>3. CommandOK(q)'
  <2>1. cmd[q].pc \in {"merged", "sent"} => cmd[q].file \in Files \ {g}
    BY <1>0, Command
  <2>2. cmd[q].pc \in {"rename", "replace", "record"} => cmd[q].last # 0
    BY <1>0 DEF CommandInv, Running
  <2>3. cmd[q].last # 0 => cmd[q].item.file \in Files \ {g}
    BY <1>0, Command DEF HeadOK
  <2>4. cmd[q].pc \in {"merged", "sent"} =>
          /\ temp'[cmd[q].file] = temp[cmd[q].file] /\ safe' = safe /\ raced' = raced
          /\ disk'[cmd[q].file] = disk[cmd[q].file]
    BY <2>1 DEF Local
  <2>5. cmd[q].last # 0 =>
          /\ base'[cmd[q].item.file] = base[cmd[q].item.file] /\ safe' = safe /\ raced' = raced
          /\ disk'[cmd[q].item.file] = disk[cmd[q].item.file]
    BY <2>3 DEF Local
  <2>. QED  BY <1>0, <1>1, <2>2, <2>4, <2>5 DEF CommandOK, At
<1>. QED  BY <1>2, <1>3

\* The parts of the invariant put together.
LEMMA Assemble ==
  ASSUME IInv, NEW p \in Procs, Alone(p), Gentle(p), NEW g, Local(g),
         TypeInv', LockInv', RowsInv', ConflictInv', CommandInv(p)',
         ~foreign' => /\ ~foreign /\ HeadOK(p)' /\ CommandOK(p)'
                      /\ \A q \in Procs \ {p} : g \notin cmd[q].owns
                      /\ \A e \in queue' : e.item.file = g => RowOK(e)'
                      /\ g \in Files => FileOK(g)'
  PROVE  IInv'
<1>1. \A q \in Procs : CommandInv(q)'
  BY OthersInv
<1>2. ASSUME ~foreign'
      PROVE  /\ \A q \in Procs : HeadOK(q)' /\ CommandOK(q)'
             /\ \A e \in queue' : RowOK(e)'
             /\ \A f \in Files : FileOK(f)'
  <2>0. ~foreign /\ (\A e \in queue : RowOK(e)) /\ (\A f \in Files : FileOK(f)) /\ TypeInv /\ TypeInv'
    BY <1>2 DEF IInv
  <2>1. \A q \in Procs : HeadOK(q)' /\ CommandOK(q)'
    BY <1>2, <2>0, Elsewhere
  <2>2. ASSUME NEW e \in queue', e.item.file # g  PROVE RowOK(e)'
    <3>1. e \in queue /\ RowOK(e)
      BY <2>0, <2>2 DEF Local
    <3>2. e.item.file \in Files \ {g}
      BY <2>0, <2>2, <3>1, ItemFacts DEF TypeInv
    <3>. QED  BY <3>1, <3>2 DEF RowOK, Local
  <2>3. ASSUME NEW f \in Files, f # g  PROVE FileOK(f)'
    <3>1. FileOK(f) /\ base'[f] = base[f] /\ recorded'[f] = recorded[f] /\ disk'[f] = disk[f] /\ safe' = safe /\ raced' = raced
      BY <2>0, <2>3 DEF Local
    <3>2. (\E e \in queue : e.item.op = "install" /\ e.item.file = f)
            => \E e \in queue' : e.item.op = "install" /\ e.item.file = f
      BY <2>3 DEF Local
    <3>. QED  BY <3>1, <3>2 DEF FileOK
  <2>. QED  BY <1>2, <2>1, <2>2, <2>3
<1>. QED  BY <1>1, <1>2 DEF IInv

\* A row is being run, the effect is on its file, and the row stays.
LEMMA RunFrame ==
  ASSUME IInv, NEW p \in Procs, Alone(p), SameFile(p), SameItem(p), SameText(p),
         cmd[p].pc \in Running, cmd'[p].pc \in {"fetch", "record"},
         UNCHANGED <<base, conflicted, queue, nextId, locked, changes, crashes, ghosts>>,
         NEW g, g = cmd[p].item.file,
         disk' \in [Files -> Made], recorded' \in [Files -> Made \cup {NoText}],
         copy' \in [Files -> Made \cup {NoText}], temp' \in [Files -> [Temps -> Made \cup {NoText}]],
         \A f \in Files \ {g} : recorded'[f] = recorded[f] /\ disk'[f] = disk[f] /\ temp'[f] = temp[f] /\ copy'[f] = copy[f],
         \/ temp'[g]["mine"] = temp[g]["mine"]
         \/ temp'[g]["mine"] = NoText /\ OfMine(cmd[p].item),
         copy'[g] \in {copy[g], conflicted[g]},
         CommandInv(p)',
         ~foreign => /\ CommandOK(p)' /\ FileOK(g)'
                     /\ \A e \in queue : e.item.file = g => RowOK(e)'
  PROVE  IInv'
<1>. USE DEF ghosts
<1>0. TypeInv /\ LockInv /\ RowsInv /\ ConflictInv /\ CommandInv(p)
  BY DEF IInv
<1>1. g \in Files /\ cmd[p].last # 0 /\ cmd[p].text \in Made
  BY Command
<1>2. OfMine(cmd[p].item) => conflicted[g] # NoText
  BY <1>0, <1>1 DEF CommandInv
<1>3. TypeInv'
  <2>1. \A q \in Procs : cmd'[q].text \in Made
    BY <1>0 DEF Alone, SameText, TypeInv
  <2>2. Made' = Made
    BY DEF Made
  <2>. QED  BY <1>0, <2>1, <2>2 DEF TypeInv, Alone
<1>4. LockInv'
  BY LockFrame DEF Out, Running
<1>5. RowsInv'
  BY <1>0 DEF RowsInv
<1>6. ConflictInv'
  <2>. SUFFICES ASSUME NEW f \in Files, conflicted[f] # NoText
                PROVE  /\ temp'[f]["mine"] \in {NoText, conflicted[f]}
                       /\ copy'[f] = conflicted[f] \/ \E e \in queue : e.item = CopyMine(f)
    BY DEF ConflictInv
  <2>1. /\ temp[f]["mine"] \in {NoText, conflicted[f]}
        /\ copy[f] = conflicted[f] \/ \E e \in queue : e.item = CopyMine(f)
    BY <1>0 DEF ConflictInv
  <2>. QED  BY <2>1
<1>7. Gentle(p)
  <2>1. nextId \in Nat
    BY <1>0 DEF TypeInv
  <2>2. \A f \in Files : conflicted[f] # NoText /\ copy[f] = conflicted[f] => copy'[f] = copy[f]
    OBVIOUS
  <2>3. \A f \in Files : conflicted[f] = NoText /\ temp[f]["mine"] # NoText => temp'[f]["mine"] # NoText
    BY <1>2
  <2>. QED  BY <2>1, <2>2, <2>3 DEF Gentle
<1>8. Local(g)
  BY DEF Local
<1>9. ASSUME ~foreign  PROVE HeadOK(p)' /\ \A q \in Procs \ {p} : g \notin cmd[q].owns
  <2>1. HeadOK(p)
    BY <1>9 DEF IInv
  <2>2. g \in cmd[p].owns
    BY <1>1, <2>1 DEF HeadOK
  <2>3. HeadOK(p)'
    BY <2>1 DEF HeadOK, SameItem, SameFile
  <2>. QED  BY <1>0, <2>2, <2>3 DEF LockInv
<1>. QED  BY <1>3, <1>4, <1>5, <1>6, <1>7, <1>8, <1>9, Assemble

\* What is known of the row that is run.
LEMMA RunRow ==
  ASSUME IInv, ~foreign, NEW p \in Procs, cmd[p].last # 0, NEW r, r = [id |-> cmd[p].last, item |-> cmd[p].item]
  PROVE  r \in queue /\ RowOK(r) /\ r.id = cmd[p].last /\ r.item = cmd[p].item /\ \A e \in queue : r.id <= e.id
  BY DEF IInv, HeadOK

\* The temporary file goes: the rows that need it are before this one, and this one is the first.
LEMMA RemoveStep ==
  ASSUME IInv, NEW p \in Procs, RunRemove(p)
  PROVE  IInv'
<1>0. TypeInv /\ RowsInv /\ ConflictInv /\ CommandInv(p)
  BY DEF IInv
<1>. PICK item, g, t : item = cmd[p].item /\ g = item.file /\ t = item.from
  OBVIOUS
<1>1. /\ cmd[p].pc = "run" /\ item.op = "remove" /\ UNCHANGED <<db, disk, copy, changes, crashes, ghosts>>
      /\ temp' = [temp EXCEPT ![g][t] = NoText]
  BY DEF RunRemove, Op, At
<1>2. item \in Items /\ g \in Files /\ t \in Temps /\ cmd[p].last # 0
  BY <1>1, Command, ItemFacts DEF Running
<1>3. Alone(p) /\ cmd'[p].pc = "fetch" /\ SameFile(p) /\ SameItem(p) /\ SameText(p)
  BY <1>0, GotoMoves DEF RunRemove, Pcs
<1>4. /\ temp' \in [Files -> [Temps -> Made \cup {NoText}]]
      /\ \A f \in Files \ {g} : temp'[f] = temp[f]
      /\ \A u \in Temps : temp'[g][u] = IF u = t THEN NoText ELSE temp[g][u]
  BY <1>0, <1>1, <1>2 DEF TypeInv
<1>5. CommandInv(p)'
  BY <1>0, <1>1, <1>2, <1>3 DEF CommandInv, SameItem, SameFile, At, db, Running
<1>6. ASSUME ~foreign
      PROVE  /\ CommandOK(p)' /\ FileOK(g)'
             /\ \A e \in queue : e.item.file = g => RowOK(e)'
  <2>1. CommandOK(p)'
    BY <1>1, <1>3 DEF CommandOK, SameItem, At
  <2>2. FileOK(g)'
    <3>1. FileOK(g)
      BY <1>2, <1>6 DEF IInv
    <3>. QED  BY <1>1, <3>1 DEF FileOK, db, ghosts
  <2>3. ASSUME NEW e \in queue, e.item.file = g  PROVE RowOK(e)'
    <3>. PICK r : r = [id |-> cmd[p].last, item |-> item]
      OBVIOUS
    <3>1. r \in queue /\ r.item = item /\ r.id <= e.id /\ r.id \in Nat /\ e.id \in Nat
      BY <1>0, <1>2, <1>6, RunRow DEF TypeInv
    <3>2. ~(e.item.op \in {"copy", "install"} /\ e.item.from = t)
      <4>1. e.item.op \in {"copy", "install"} /\ e.item.from = t => e.id < r.id
        BY <1>0, <1>1, <2>3, <3>1 DEF RowsInv
      <4>. QED  BY <3>1, <4>1
    <3>3. RowOK(e)
      BY <1>6 DEF IInv
    <3>4. e.item.op = "copy" => t # "mine"
      BY <1>0, <3>2 DEF RowsInv
    <3>5. e.item = Install(g, "result") => t # "result"
      BY <1>2, <3>2, NewItems
    <3>6. "mine" \in Temps /\ "result" \in Temps
      BY DEF Temps
    <3>. QED  BY <1>1, <1>4, <2>3, <3>3, <3>4, <3>5, <3>6 DEF RowOK, db, ghosts
  <2>. QED  BY <2>1, <2>2, <2>3
<1>7. temp'[g]["mine"] = temp[g]["mine"] \/ (temp'[g]["mine"] = NoText /\ OfMine(item))
  BY <1>1, <1>4 DEF OfMine, Temps
<1>8. /\ disk' \in [Files -> Made] /\ recorded' \in [Files -> Made \cup {NoText}]
      /\ copy' \in [Files -> Made \cup {NoText}]
  BY <1>0, <1>1 DEF TypeInv, db
<1>9. cmd[p].pc \in Running /\ cmd'[p].pc \in {"fetch", "record"}
  BY <1>1, <1>3 DEF Running
<1>10. UNCHANGED <<base, conflicted, queue, nextId, locked, changes, crashes, ghosts>> /\ UNCHANGED <<disk, recorded, copy>>
  BY <1>1 DEF db
<1>. QED  BY <1>3, <1>4, <1>5, <1>6, <1>7, <1>8, <1>9, <1>10, RunFrame

\* What is copied is the user's text of the conflict.
LEMMA CopyStep ==
  ASSUME IInv, NEW p \in Procs, RunCopy(p)
  PROVE  IInv'
<1>0. TypeInv /\ RowsInv /\ ConflictInv /\ CommandInv(p)
  BY DEF IInv
<1>. PICK item, g, text : item = cmd[p].item /\ g = item.file /\ text = temp[g][item.from]
  OBVIOUS
<1>1. cmd[p].pc = "run" /\ item.op = "copy" /\ UNCHANGED <<db, disk, temp, changes, crashes, ghosts>>
  BY DEF RunCopy, Op, At
<1>2. item \in Items /\ g \in Files /\ cmd[p].last # 0 /\ item.from = "mine" /\ conflicted[g] # NoText
  BY <1>0, <1>1, Command DEF Running, CommandInv, OfMine
<1>3. CASE text = NoText
  <2>1. Fails(p) /\ UNCHANGED copy /\ crashes' \in 0..MaxCrash
    BY <1>0, <1>1, <1>3 DEF RunCopy, TypeInv
  <2>. QED  BY <1>1, <2>1, FailsStep DEF fs
<1>4. CASE text # NoText
  <2>1. copy' = [copy EXCEPT ![g] = text] /\ Goto(p, "fetch")
    BY <1>4 DEF RunCopy
  <2>2. text = conflicted[g] /\ text \in Made
    BY <1>0, <1>2, <1>4 DEF ConflictInv, TypeInv, Temps
  <2>3. Alone(p) /\ cmd'[p].pc = "fetch" /\ SameFile(p) /\ SameItem(p) /\ SameText(p)
    BY <1>0, <2>1, GotoMoves DEF Pcs
  <2>4. /\ copy' \in [Files -> Made \cup {NoText}] /\ copy'[g] = conflicted[g]
        /\ \A f \in Files \ {g} : copy'[f] = copy[f]
    BY <1>0, <1>2, <2>1, <2>2 DEF TypeInv
  <2>5. CommandInv(p)'
    BY <1>0, <1>1, <1>2, <2>3, <2>4 DEF CommandInv, SameItem, SameFile, At, db, Running
  <2>6. ASSUME ~foreign
        PROVE  /\ CommandOK(p)' /\ FileOK(g)'
               /\ \A e \in queue : e.item.file = g => RowOK(e)'
    <3>1. CommandOK(p)'
      BY <1>1, <2>3 DEF CommandOK, SameItem, At
    <3>2. FileOK(g) /\ \A e \in queue : RowOK(e)
      BY <1>2, <2>6 DEF IInv
    <3>3. FileOK(g)'
      BY <1>1, <3>2 DEF FileOK, db, ghosts
    <3>4. \A e \in queue : RowOK(e)'
      BY <1>1, <3>2 DEF RowOK, db, ghosts
    <3>. QED  BY <3>1, <3>3, <3>4
  <2>7. /\ disk' \in [Files -> Made] /\ recorded' \in [Files -> Made \cup {NoText}]
        /\ temp' \in [Files -> [Temps -> Made \cup {NoText}]]
    BY <1>0, <1>1 DEF TypeInv, db
  <2>8. cmd[p].pc \in Running /\ cmd'[p].pc \in {"fetch", "record"}
    BY <1>1, <2>3 DEF Running
  <2>9. UNCHANGED <<base, conflicted, queue, nextId, locked, changes, crashes, ghosts>> /\ UNCHANGED <<disk, recorded, temp>>
    BY <1>1 DEF db
  <2>. QED  BY <2>3, <2>4, <2>5, <2>6, <2>7, <2>8, <2>9, RunFrame
<1>. QED  BY <1>3, <1>4

\* The working file is replaced by a text that has all changes of the base and of the user.
LEMMA RenameStep ==
  ASSUME IInv, NEW p \in Procs, InstallRename(p)
  PROVE  IInv'
<1>0. TypeInv /\ RowsInv /\ ConflictInv /\ CommandInv(p)
  BY DEF IInv
<1>. PICK item, g, text : item = cmd[p].item /\ g = item.file /\ text = cmd[p].text
  OBVIOUS
<1>. PICK pc : pc = IF item.from = "pristine" THEN "record" ELSE "fetch"
  OBVIOUS
<1>1. /\ cmd[p].pc = "rename" /\ UNCHANGED <<db, copy, temp, changes, crashes, ghosts>>
      /\ disk' = [disk EXCEPT ![g] = text] /\ Goto(p, pc)
  BY DEF InstallRename, At
<1>2. /\ item \in Items /\ g \in Files /\ cmd[p].last # 0 /\ item.op = "install" /\ text \in Made
      /\ item.from \in {"pristine", "result"} /\ item = Install(g, item.from)
  BY <1>0, <1>1, Command, ItemFacts DEF Running, CommandInv, At
<1>3. Alone(p) /\ cmd'[p].pc = pc /\ SameFile(p) /\ SameItem(p) /\ SameText(p) /\ pc \in {"fetch", "record"}
  <2>1. pc \in Pcs /\ pc \in {"fetch", "record"}
    BY DEF Pcs
  <2>. QED  BY <1>0, <1>1, <2>1, GotoMoves
<1>4. /\ disk' \in [Files -> Made] /\ disk'[g] = text
      /\ \A f \in Files \ {g} : disk'[f] = disk[f]
  BY <1>0, <1>1, <1>2 DEF TypeInv
<1>5. CommandInv(p)'
  BY <1>0, <1>1, <1>2, <1>3 DEF CommandInv, SameItem, SameFile, At, db, Running
<1>6. ASSUME ~foreign
      PROVE  /\ CommandOK(p)' /\ FileOK(g)'
             /\ \A e \in queue : e.item.file = g => RowOK(e)'
  <2>. PICK r : r = [id |-> cmd[p].last, item |-> item]
    OBVIOUS
  <2>1. r \in queue /\ r.item = item /\ RowOK(r)
    BY <1>2, <1>6, RunRow
  <2>2. base[g] \subseteq text /\ safe[g] \subseteq text /\ (item.from = "pristine" => text = base[g])
    BY <1>1, <1>6 DEF IInv, CommandOK, At
  <2>3. CommandOK(p)'
    BY <1>1, <1>2, <1>3, <1>4, <2>2 DEF CommandOK, SameItem, At, db, ghosts
  <2>4. item.from = "result" => recorded[g] = NoText
    BY <1>2, <2>1 DEF RowOK
  <2>5. text # NoText
    BY <1>0, <1>2, TextFacts
  <2>6. FileOK(g)'
    BY <1>1, <1>2, <1>4, <2>2, <2>4, <2>5 DEF FileOK, db, ghosts
  <2>7. ASSUME NEW e \in queue, e.item.file = g  PROVE RowOK(e)'
    <3>1. e.item.op # "commit"
      <4>1. e.item.op = "commit" => e = r
        BY <1>0, <2>1, <2>7 DEF RowsInv
      <4>. QED  BY <1>2, <2>1, <4>1
    <3>2. RowOK(e)
      BY <1>6 DEF IInv
    <3>. QED  BY <1>1, <3>1, <3>2 DEF RowOK, db, ghosts
  <2>. QED  BY <2>3, <2>6, <2>7
<1>7. /\ recorded' \in [Files -> Made \cup {NoText}] /\ copy' \in [Files -> Made \cup {NoText}]
      /\ temp' \in [Files -> [Temps -> Made \cup {NoText}]]
  BY <1>0, <1>1 DEF TypeInv, db
<1>8. cmd[p].pc \in Running
  BY <1>1 DEF Running
<1>9. UNCHANGED <<base, conflicted, queue, nextId, locked, changes, crashes, ghosts>> /\ UNCHANGED <<recorded, copy, temp>>
  BY <1>1 DEF db
<1>. QED  BY <1>3, <1>4, <1>5, <1>6, <1>7, <1>8, <1>9, RunFrame

\* The committed file is replaced by its translation, or not.
LEMMA ReplaceStep ==
  ASSUME IInv, NEW p \in Procs, CommitReplace(p)
  PROVE  IInv'
<1>0. TypeInv /\ RowsInv /\ ConflictInv /\ CommandInv(p)
  BY DEF IInv
<1>. PICK item, g, text : item = cmd[p].item /\ g = item.file /\ text = cmd[p].text
  OBVIOUS
<1>1. /\ cmd[p].pc = "replace" /\ UNCHANGED <<db, copy, temp, changes, crashes, ghosts>>
      /\ disk' = [disk EXCEPT ![g] = text] \/ disk' = disk
      /\ Goto(p, "record")
  BY DEF CommitReplace, At
<1>2. item \in Items /\ g \in Files /\ cmd[p].last # 0 /\ item.op = "commit" /\ text \in Made
  BY <1>0, <1>1, Command DEF Running, CommandInv, At
<1>3. Alone(p) /\ cmd'[p].pc = "record" /\ SameFile(p) /\ SameItem(p) /\ SameText(p)
  BY <1>0, <1>1, GotoMoves DEF Pcs
<1>4. /\ disk' \in [Files -> Made] /\ disk'[g] \in {text, disk[g]}
      /\ \A f \in Files \ {g} : disk'[f] = disk[f]
  BY <1>0, <1>1, <1>2 DEF TypeInv
<1>5. CommandInv(p)'
  BY <1>0, <1>1, <1>2, <1>3 DEF CommandInv, SameItem, SameFile, At, db, Running
<1>6. ASSUME ~foreign
      PROVE  /\ CommandOK(p)' /\ FileOK(g)'
             /\ \A e \in queue : e.item.file = g => RowOK(e)'
  <2>. PICK r : r = [id |-> cmd[p].last, item |-> item]
    OBVIOUS
  <2>1. r \in queue /\ r.item = item /\ RowOK(r)
    BY <1>2, <1>6, RunRow
  <2>2. base[g] \subseteq text /\ safe[g] \subseteq text /\ (g \notin raced => text = base[g])
    BY <1>1, <1>6 DEF IInv, CommandOK, At
  <2>3. base[g] \subseteq disk[g] /\ safe[g] \subseteq base[g] /\ (g \notin raced => disk[g] = base[g])
    BY <1>2, <2>1 DEF RowOK
  <2>4. base[g] \subseteq disk'[g] /\ safe[g] \subseteq disk'[g] /\ (g \notin raced => disk'[g] = base[g])
    BY <1>4, <2>2, <2>3
  <2>5. CommandOK(p)'
    BY <1>1, <1>2, <1>3, <2>4 DEF CommandOK, SameItem, At, db, ghosts
  <2>6. FileOK(g)'
    BY <1>1, <2>3, <2>4 DEF FileOK, db, ghosts
  <2>7. ASSUME NEW e \in queue, e.item.file = g  PROVE RowOK(e)'
    <3>1. e = r
      BY <1>0, <1>2, <2>1, <2>7 DEF RowsInv
    <3>2. e.item.op = "commit"
      BY <1>2, <2>1, <3>1
    <3>3. \A t : e.item # Install(g, t)
      BY <3>2 DEF Install
    <3>. QED  BY <1>1, <2>3, <2>4, <2>7, <3>2, <3>3 DEF RowOK, db, ghosts
  <2>. QED  BY <2>5, <2>6, <2>7
<1>7. /\ recorded' \in [Files -> Made \cup {NoText}] /\ copy' \in [Files -> Made \cup {NoText}]
      /\ temp' \in [Files -> [Temps -> Made \cup {NoText}]]
  BY <1>0, <1>1 DEF TypeInv, db
<1>8. cmd[p].pc \in Running /\ cmd'[p].pc \in {"fetch", "record"}
  BY <1>1, <1>3 DEF Running
<1>9. UNCHANGED <<base, conflicted, queue, nextId, locked, changes, crashes, ghosts>> /\ UNCHANGED <<recorded, copy, temp>>
  BY <1>1 DEF db
<1>. QED  BY <1>3, <1>4, <1>5, <1>6, <1>7, <1>8, <1>9, RunFrame

\* Size and time are recorded of a file that has the pristine text, if nobody edited it.
LEMMA RecordStep ==
  ASSUME IInv, NEW p \in Procs, Record(p)
  PROVE  IInv'
<1>0. TypeInv /\ RowsInv /\ ConflictInv /\ CommandInv(p)
  BY DEF IInv
<1>. PICK item, g : item = cmd[p].item /\ g = item.file
  OBVIOUS
<1>1. /\ cmd[p].pc = "record"
      /\ UNCHANGED <<base, conflicted, queue, nextId, locked, fs, changes, crashes, ghosts>>
      /\ recorded' = [recorded EXCEPT ![g] = disk[g]]
      /\ Goto(p, "fetch")
  BY DEF Record, At
<1>2. /\ item \in Items /\ g \in Files /\ cmd[p].last # 0
      /\ item.op = "commit" \/ (item.op = "install" /\ item = Install(g, "pristine"))
  BY <1>0, <1>1, Command, ItemFacts DEF Running, CommandInv, At
<1>3. Alone(p) /\ cmd'[p].pc = "fetch" /\ SameFile(p) /\ SameItem(p) /\ SameText(p)
  BY <1>0, <1>1, GotoMoves DEF Pcs
<1>4. /\ recorded' \in [Files -> Made \cup {NoText}] /\ recorded'[g] = disk[g]
      /\ \A f \in Files \ {g} : recorded'[f] = recorded[f]
  BY <1>0, <1>1, <1>2 DEF TypeInv
<1>5. CommandInv(p)'
  BY <1>0, <1>1, <1>2, <1>3 DEF CommandInv, SameItem, SameFile, At, fs, Running
<1>6. ASSUME ~foreign
      PROVE  /\ CommandOK(p)' /\ FileOK(g)'
             /\ \A e \in queue : e.item.file = g => RowOK(e)'
  <2>. PICK r : r = [id |-> cmd[p].last, item |-> item]
    OBVIOUS
  <2>1. r \in queue /\ r.item = item /\ RowOK(r)
    BY <1>2, <1>6, RunRow
  <2>2. base[g] \subseteq disk[g] /\ (g \notin raced => disk[g] = base[g])
    BY <1>1, <1>6 DEF IInv, CommandOK, At
  <2>3. safe[g] \subseteq base[g]
    BY <1>2, <2>1 DEF RowOK
  <2>4. CommandOK(p)'
    BY <1>1, <1>2, <1>3, <2>2 DEF CommandOK, SameItem, At, fs, ghosts
  <2>5. FileOK(g)'
    BY <1>1, <1>4, <2>2, <2>3 DEF FileOK, fs, ghosts
  <2>6. ASSUME NEW e \in queue, e.item.file = g  PROVE RowOK(e)'
    <3>1. e.item # Install(g, "result")
      <4>1. CASE item.op = "commit"
        <5>1. e = r
          BY <1>0, <2>1, <2>6, <4>1 DEF RowsInv
        <5>. QED  BY <1>2, <2>1, <4>1, <5>1, NewItems
      <4>2. CASE item.op = "install" /\ item = Install(g, "pristine")
        <5>. SUFFICES ASSUME e.item = Install(g, "result")  PROVE FALSE
          OBVIOUS
        <5>1. e.item.op = "install" /\ e.item.from = "result" /\ item.from = "pristine"
          BY <1>2, <4>2, NewItems
        <5>2. e = r
          BY <1>0, <2>1, <2>6, <4>2, <5>1 DEF RowsInv
        <5>. QED  BY <2>1, <5>1, <5>2
      <4>. QED  BY <1>2, <4>1, <4>2
    <3>2. RowOK(e)
      BY <1>6 DEF IInv
    <3>. QED  BY <1>1, <2>6, <3>1, <3>2 DEF RowOK, fs, ghosts
  <2>. QED  BY <2>4, <2>5, <2>6
<1>7. /\ disk' \in [Files -> Made] /\ copy' \in [Files -> Made \cup {NoText}]
      /\ temp' \in [Files -> [Temps -> Made \cup {NoText}]]
  BY <1>0, <1>1 DEF TypeInv, fs
<1>8. cmd[p].pc \in Running /\ cmd'[p].pc \in {"fetch", "record"}
  BY <1>1, <1>3 DEF Running
<1>9. UNCHANGED <<base, conflicted, queue, nextId, locked, changes, crashes, ghosts>> /\ UNCHANGED <<disk, copy, temp>>
  BY <1>1 DEF fs
<1>. QED  BY <1>3, <1>4, <1>5, <1>6, <1>7, <1>8, <1>9, RunFrame

--------------------------------------------------------------------------------
(* New bases and new rows *)

\* The file a command has locked is nobody else's.
LEMMA Mine ==
  ASSUME IInv, NEW p \in Procs, NEW f \in cmd[p].owns
  PROVE  \A q \in Procs \ {p} : f \notin cmd[q].owns
  BY DEF IInv, LockInv

\* The change from the repository is merged into a temporary file; a file that is taken for
\* unmodified has no change of the user that is not in the base.
LEMMA MergeStep ==
  ASSUME IInv, NEW p \in Procs, Merge(p)
  PROVE  IInv'
<1>0. TypeInv /\ LockInv /\ RowsInv /\ ConflictInv /\ CommandInv(p)
  BY DEF IInv
<1>. PICK f, new : f = cmd[p].file /\ new = changes + 1
  OBVIOUS
<1>1. /\ cmd[p].pc = "locked" /\ changes < MaxChange /\ conflicted[f] = NoText /\ changes' = new
      /\ recorded' = [recorded EXCEPT ![f] = Repaired(f)]
      /\ UNCHANGED <<base, conflicted, queue, nextId, locked, disk, copy, crashes, ghosts>>
  BY DEF Merge, At
<1>. PICK made \in (IF Modified(f) THEN {{"result"}, Temps} ELSE {{}}) :
       /\ temp' = [temp EXCEPT ![f] = [t \in Temps |->
                     IF t \in made THEN (IF t = "result" THEN disk[f] \cup {new} ELSE disk[f]) ELSE temp[f][t]]]
       /\ cmd' = [cmd EXCEPT ![p].pc = "merged", ![p].text = base[f] \cup {new}, ![p].made = made]
  <2>1. temp \in [Files -> [Temps -> Made \cup {NoText}]] /\ f \in Files
    BY <1>0, <1>1, Command DEF TypeInv
  <2>2. PICK made \in (IF Modified(f) THEN {{"result"}, Temps} ELSE {{}}) :
          /\ temp' = [temp EXCEPT ![f] = [t \in Temps |->
                        IF t \in made THEN (IF t = "result" THEN disk[f] \cup {new} ELSE disk[f]) ELSE @[t]]]
          /\ cmd' = [cmd EXCEPT ![p].pc = "merged", ![p].text = base[f] \cup {new}, ![p].made = made]
    BY DEF Merge
  <2>. QED  BY <2>1, <2>2
<1>2. f \in Files /\ cmd[p].owns = {f} /\ cmd[p].last = 0
  BY <1>0, <1>1, Command DEF CommandInv, Running
<1>3. made \in {{}, {"result"}, Temps} /\ made \subseteq Temps /\ (~Modified(f) => made = {}) /\ (Modified(f) => "result" \in made)
  BY DEF Temps
<1>4. /\ Made \subseteq Made' /\ new \in Nat /\ new \in 1..MaxChange /\ {new} \subseteq 1..new
      /\ base[f] \cup {new} \in Made' /\ base[f] \cup {new} \in Texts /\ disk[f] \cup {new} \in Made' /\ disk[f] \in Made
      /\ changes' \in 0..MaxChange
  <2>1. changes \in Nat /\ MaxChange \in Nat /\ Made \subseteq Texts /\ base[f] \in Made /\ disk[f] \in Made
    BY <1>0, <1>2, TextFacts DEF TypeInv
  <2>2. new \in Nat /\ new \in 1..MaxChange /\ new \in 1..new /\ 1..changes \subseteq 1..new /\ changes' \in 0..MaxChange
    BY <1>1, <2>1
  <2>. QED  BY <1>1, <2>1, <2>2 DEF Made, Texts
<1>5. /\ Alone(p) /\ cmd'[p].pc = "merged" /\ cmd'[p].text = base[f] \cup {new} /\ cmd'[p].made = made
      /\ SameFile(p) /\ SameItem(p)
  BY <1>0, <1>3, <1>4, MergeMoves
<1>6. /\ temp' \in [Files -> [Temps -> Made' \cup {NoText}]]
      /\ \A h \in Files \ {f} : temp'[h] = temp[h]
      /\ "result" \in made => temp'[f]["result"] = disk[f] \cup {new}
      /\ "mine" \in made => temp'[f]["mine"] = disk[f]
  <2>0. temp \in [Files -> [Temps -> Made \cup {NoText}]]
    BY <1>0 DEF TypeInv
  <2>. PICK x : x = [t \in Temps |-> IF t \in made THEN (IF t = "result" THEN disk[f] \cup {new} ELSE disk[f]) ELSE temp[f][t]]
    OBVIOUS
  <2>1. x \in [Temps -> Made' \cup {NoText}]
    BY <1>2, <1>4, <2>0
  <2>2. temp' = [temp EXCEPT ![f] = x]
    OBVIOUS
  <2>3. temp \in [Files -> [Temps -> Made' \cup {NoText}]]
    <3>. SUFFICES ASSUME NEW h \in Files  PROVE temp[h] \in [Temps -> Made' \cup {NoText}]
      BY <2>0
    <3>. QED  BY <1>4, <2>0
  <2>4. "result" \in Temps /\ "mine" \in Temps
    BY DEF Temps
  <2>5. temp' \in [Files -> [Temps -> Made' \cup {NoText}]] /\ temp'[f] = x /\ \A h \in Files \ {f} : temp'[h] = temp[h]
    <3>1. DOMAIN temp = Files
      BY <2>0
    <3>2. DOMAIN temp' = Files /\ temp'[f] = x /\ \A h \in Files \ {f} : temp'[h] = temp[h]
      BY <1>2, <2>2, <3>1
    <3>3. \A h \in Files : temp'[h] \in [Temps -> Made' \cup {NoText}]
      BY <2>1, <2>3, <3>2
    <3>4. temp' = [h \in Files |-> temp'[h]]
      BY <2>2, <3>1
    <3>. QED  BY <3>2, <3>3, <3>4
  <2>6. ("result" \in made => x["result"] = disk[f] \cup {new}) /\ ("mine" \in made => x["mine"] = disk[f])
    BY <2>4
  <2>. QED  BY <2>5, <2>6
<1>7. TypeInv'
  <2>1. /\ base' \in [Files -> Made'] /\ disk' \in [Files -> Made'] /\ safe' \in [Files -> Made']
        /\ conflicted' \in [Files -> Made' \cup {NoText}] /\ copy' \in [Files -> Made' \cup {NoText}]
    BY <1>0, <1>1, <1>4 DEF TypeInv, ghosts
  <2>2. recorded' \in [Files -> Made' \cup {NoText}]
    BY <1>0, <1>1, <1>2, <1>4 DEF TypeInv, Repaired
  <2>3. \A q \in Procs : cmd'[q].text \in Made'
    BY <1>0, <1>4, <1>5 DEF TypeInv, Alone
  <2>4. /\ queue' \subseteq [id : Nat, item : Items] /\ nextId' \in Nat /\ nextId' > 0
        /\ locked' \subseteq Files /\ raced' \subseteq Files /\ crashes' \in 0..MaxCrash
    BY <1>0, <1>1 DEF TypeInv, ghosts
  <2>5. foreign' \in BOOLEAN
    BY <1>0, <1>1 DEF TypeInv, ghosts
  <2>. QED  BY <1>4, <1>5, <1>6, <2>1, <2>2, <2>3, <2>4, <2>5 DEF TypeInv, Alone
<1>8. LockInv'
  BY <1>1, <1>5, LockFrame DEF Out
<1>9. RowsInv'
  BY <1>0, <1>1 DEF RowsInv
<1>10. ConflictInv'
  <2>. SUFFICES ASSUME NEW h \in Files, conflicted[h] # NoText
                PROVE  /\ temp'[h]["mine"] \in {NoText, conflicted[h]}
                       /\ copy[h] = conflicted[h] \/ \E e \in queue : e.item = CopyMine(h)
    BY <1>1 DEF ConflictInv
  <2>. QED  BY <1>0, <1>1, <1>6 DEF ConflictInv
<1>11. CommandInv(p)'
  <2>1. "mine" \in made => temp'[f]["mine"] # NoText
    BY <1>0, <1>4, <1>6, TextFacts
  <2>. QED  BY <1>0, <1>1, <1>2, <1>3, <1>5, <2>1 DEF CommandInv, SameItem, SameFile, At, Running
<1>12. Gentle(p)
  BY <1>0, <1>1, <1>2, <1>6 DEF Gentle, TypeInv
<1>13. Local(f)
  BY <1>0, <1>1, <1>2, <1>6 DEF Local, ghosts, TypeInv
<1>14. ASSUME ~foreign
       PROVE  /\ HeadOK(p)' /\ CommandOK(p)' /\ FileOK(f)'
              /\ \A e \in queue' : e.item.file # f
  <2>1. \A e \in queue : e.item.file # f
    BY <1>0, <1>1 DEF CommandInv
  <2>2. FileOK(f)
    BY <1>2, <1>14 DEF IInv
  <2>3. base[f] \subseteq disk[f] /\ safe[f] \subseteq disk[f]
    BY <2>1, <2>2 DEF FileOK
  <2>4. ~Modified(f) => safe[f] \subseteq base[f]
    BY <2>2, <2>3 DEF Modified, FileOK
  <2>5. HeadOK(p)'
    BY <1>2, <1>5 DEF HeadOK, SameItem
  <2>6. disk[f] \cup {new} # NoText
    <3>1. new # 0 /\ new \in disk[f] \cup {new}
      BY <1>4
    <3>. QED  BY <3>1 DEF NoText
  <2>7. CommandOK(p)'
    BY <1>1, <1>3, <1>5, <1>6, <2>3, <2>4, <2>6 DEF CommandOK, SameFile, At, ghosts
  <2>8. recorded'[f] = Repaired(f)
    BY <1>0, <1>1, <1>2 DEF TypeInv
  <2>9. FileOK(f)'
    BY <1>1, <2>2, <2>3, <2>8 DEF FileOK, Repaired, ghosts
  <2>. QED  BY <1>1, <2>1, <2>5, <2>7, <2>9
<1>15. foreign' = foreign
  BY <1>1 DEF ghosts
<1>. QED  BY <1>2, <1>5, <1>7, <1>8, <1>9, <1>10, <1>11, <1>12, <1>13, <1>14, <1>15, Mine, Assemble

\* A batch of rows is added for a file that had none.
AddedRows(f, s) ==
  /\ queue' \subseteq [id : Nat, item : Items] /\ nextId' \in Nat /\ nextId' > 0 /\ nextId' >= nextId
  /\ queue \subseteq queue'
  /\ \A e \in queue : e.item.file # f /\ e.id < nextId
  /\ \A e \in queue' : e \in queue \/ \E i \in DOMAIN s : e.item = s[i] /\ e.id = nextId + i - 1
  /\ \A i \in DOMAIN s : \E e \in queue' : e.item = s[i] /\ e.item.file = f
  /\ \A e \in queue' : e.id \in 1..(nextId' - 1)

\* Queued adds such a batch.
LEMMA Added ==
  ASSUME IInv, NEW p \in Procs, cmd[p].pc \in {"merged", "sent"}, NEW f, f = cmd[p].file, NEW s, Queued(s),
         DOMAIN s = 1..Len(s), Len(s) \in Nat, \A i \in DOMAIN s : s[i] \in Items /\ s[i].file = f
  PROVE  AddedRows(f, s)
<1>0. TypeInv /\ RowsInv /\ CommandInv(p)
  BY DEF IInv
<1>1. nextId \in Nat /\ nextId > 0 /\ queue \subseteq [id : Nat, item : Items]
  BY <1>0 DEF TypeInv
<1>2. \A e \in queue : e.item.file # f /\ e.id < nextId /\ e.id \in 1..(nextId - 1)
  BY <1>0, <1>1 DEF RowsInv, CommandInv
<1>3. /\ queue' = queue \cup {[id |-> nextId + i - 1, item |-> s[i]] : i \in DOMAIN s}
      /\ nextId' = nextId + Len(s)
  BY DEF Queued
<1>4. ASSUME NEW i \in DOMAIN s
      PROVE  /\ [id |-> nextId + i - 1, item |-> s[i]] \in [id : Nat, item : Items]
             /\ nextId + i - 1 \in 1..(nextId' - 1)
  <2>1. i \in Nat /\ i >= 1 /\ i <= Len(s)
    OBVIOUS
  <2>2. nextId + i - 1 \in Nat /\ nextId + i - 1 \in 1..(nextId' - 1)
    BY <1>1, <1>3, <2>1
  <2>. QED  BY <2>2
<1>5. \A e \in queue' : e \in queue \/ \E i \in DOMAIN s : e = [id |-> nextId + i - 1, item |-> s[i]]
  BY <1>3
<1>6. queue' \subseteq [id : Nat, item : Items]
  BY <1>1, <1>4, <1>5
<1>7. nextId' \in Nat /\ nextId' > 0 /\ nextId' >= nextId
  BY <1>1, <1>3
<1>8. \A e \in queue' : \/ e \in queue
                        \/ \E i \in DOMAIN s : e.item = s[i] /\ e.id = nextId + i - 1
  BY <1>5
<1>9. ASSUME NEW i \in DOMAIN s  PROVE \E e \in queue' : e.item = s[i] /\ e.item.file = f
  <2>. PICK e : e = [id |-> nextId + i - 1, item |-> s[i]]
    OBVIOUS
  <2>1. e \in queue' /\ e.item = s[i]
    BY <1>3
  <2>. QED  BY <2>1
<1>10. \A e \in queue' : e.id \in 1..(nextId' - 1)
  <2>1. \A e \in queue : e.id \in 1..(nextId' - 1)
    BY <1>1, <1>2, <1>7
  <2>. QED  BY <1>4, <1>8, <2>1
<1>. QED  BY <1>2, <1>3, <1>6, <1>7, <1>8, <1>9, <1>10 DEF AddedRows

\* The new base and the rows that bring it to the disk.
LEMMA UpdateBaseStep ==
  ASSUME IInv, NEW p \in Procs, UpdateBase(p)
  PROVE  IInv'
<1>0. TypeInv /\ LockInv /\ RowsInv /\ ConflictInv /\ CommandInv(p)
  BY DEF IInv
<1>. PICK f, made, s : f = cmd[p].file /\ made = cmd[p].made /\ s = UpdateItems(f, made)
  OBVIOUS
<1>1. /\ cmd[p].pc = "merged" /\ base' = [base EXCEPT ![f] = cmd[p].text]
      /\ recorded' = [recorded EXCEPT ![f] = NoText]
      /\ conflicted' = [conflicted EXCEPT ![f] = IF "mine" \in made THEN temp[f]["mine"] ELSE NoText]
      /\ Queued(s) /\ Goto(p, "fetch")
      /\ UNCHANGED <<locked, fs, changes, crashes, ghosts>>
  BY DEF UpdateBase, At
<1>2. /\ f \in Files /\ cmd[p].owns = {f} /\ f \in locked /\ cmd[p].last = 0 /\ made \in {{}, {"result"}, Temps}
      /\ conflicted[f] = NoText /\ ("mine" \in made => temp[f]["mine"] # NoText) /\ cmd[p].text \in Made
  BY <1>0, <1>1, Command DEF CommandInv, Running, At
<1>3. Alone(p) /\ cmd'[p].pc = "fetch" /\ SameFile(p) /\ SameItem(p) /\ SameText(p)
  BY <1>0, <1>1, GotoMoves DEF Pcs
<1>4. Batch(f, made, s)
  BY <1>2, UpdateBatch
<1>l. DOMAIN s = 1..Len(s) /\ Len(s) \in Nat /\ \A i \in DOMAIN s : s[i] \in Items /\ s[i].file = f /\ i \in Nat /\ i >= 1
  <2>1. DOMAIN s = 1..Len(s) /\ Len(s) \in Nat /\ \A i \in DOMAIN s : s[i] \in Items /\ s[i].file = f
    BY <1>4 DEF Batch
  <2>. QED  BY <2>1
<1>5. AddedRows(f, s)
  BY <1>1, <1>l, Added
<1>i. nextId' \in Nat /\ nextId' > 0 /\ nextId' >= nextId /\ queue \subseteq queue' /\ queue' \subseteq [id : Nat, item : Items]
  BY <1>5 DEF AddedRows
<1>r. \A e \in queue' \ queue : \E i \in DOMAIN s : e.item = s[i] /\ e.id = nextId + i - 1
  BY <1>5 DEF AddedRows
<1>o. \A e \in queue : e.item.file # f /\ e.id < nextId
  BY <1>5 DEF AddedRows
<1>n. nextId \in Nat /\ queue \subseteq [id : Nat, item : Items]
  BY <1>0 DEF TypeInv
<1>6. /\ base' \in [Files -> Made] /\ base'[f] = cmd[p].text
      /\ recorded' \in [Files -> Made \cup {NoText}] /\ recorded'[f] = NoText
      /\ conflicted' \in [Files -> Made \cup {NoText}]
      /\ conflicted'[f] = IF "mine" \in made THEN temp[f]["mine"] ELSE NoText
      /\ \A h \in Files \ {f} : base'[h] = base[h] /\ recorded'[h] = recorded[h] /\ conflicted'[h] = conflicted[h]
  BY <1>0, <1>1, <1>2 DEF TypeInv, Temps
<1>7. TypeInv'
  <2>1. Made' = Made
    BY <1>1 DEF Made
  <2>2. \A q \in Procs : cmd'[q].text \in Made
    BY <1>0, <1>3 DEF Alone, SameText, TypeInv
  <2>. QED  BY <1>0, <1>1, <1>3, <1>i, <1>6, <2>1, <2>2 DEF TypeInv, Alone, fs, ghosts
<1>8. LockInv'
  BY <1>1, <1>3, LockFrame DEF Out
<1>9. RowsInv'
  \* A row of the queue is old and of another file, or new.
  <2>1. \A e \in queue' : e.item.file = f <=> e \notin queue
    BY <1>l, <1>r, <1>o
  <2>2. \A e \in queue' : e.id \in 1..(nextId' - 1) /\ e.item.file \in locked'
    BY <1>0, <1>1, <1>2, <1>5, <2>1 DEF RowsInv, AddedRows
  <2>3. ASSUME NEW e \in queue', OfMine(e.item)  PROVE conflicted'[e.item.file] # NoText
    <3>1. CASE e \in queue
      <4>1. e.item.file \in Files \ {f}
        BY <1>o, <1>n, <3>1, ItemFacts
      <4>2. conflicted[e.item.file] # NoText
        BY <1>0, <2>3, <3>1 DEF RowsInv
      <4>. QED  BY <1>6, <4>1, <4>2
    <3>2. CASE e \notin queue
      <4>1. e.item.file = f /\ \E i \in DOMAIN s : e.item = s[i]
        BY <1>r, <2>1, <3>2
      <4>2. "mine" \in made
        BY <1>4, <2>3, <4>1 DEF Batch
      <4>. QED  BY <1>2, <1>6, <4>1, <4>2
    <3>. QED  BY <3>1, <3>2
  <2>4. \A e \in queue' : e.item.op = "copy" => e.item.from = "mine"
    <3>. SUFFICES ASSUME NEW e \in queue'  PROVE e.item.op = "copy" => e.item.from = "mine"
      OBVIOUS
    <3>1. CASE e \in queue
      BY <1>0, <3>1 DEF RowsInv
    <3>2. CASE e \notin queue
      BY <1>4, <1>r, <3>2 DEF Batch
    <3>. QED  BY <3>1, <3>2
  <2>5. ASSUME NEW d \in queue', NEW e \in queue', d.id = e.id  PROVE d = e
    <3>1. CASE d \in queue /\ e \in queue
      BY <1>0, <2>5, <3>1 DEF RowsInv
    <3>2. CASE d \notin queue /\ e \notin queue
      <4>1. PICK i \in DOMAIN s : d.item = s[i] /\ d.id = nextId + i - 1
        BY <1>r, <3>2
      <4>2. PICK j \in DOMAIN s : e.item = s[j] /\ e.id = nextId + j - 1
        BY <1>r, <3>2
      <4>3. i \in Nat /\ j \in Nat
        BY <1>l
      <4>4. nextId + i - 1 = nextId + j - 1
        BY <2>5, <4>1, <4>2
      <4>5. i = j
        BY <1>n, <4>3, <4>4
      <4>6. d.item = e.item /\ d \in [id : Nat, item : Items] /\ e \in [id : Nat, item : Items]
        BY <1>i, <4>1, <4>2, <4>5
      <4>. QED  BY <2>5, <4>6
    <3>3. ASSUME NEW a \in queue, NEW b \in queue' \ queue  PROVE a.id # b.id
      <4>1. PICK i \in DOMAIN s : b.id = nextId + i - 1
        BY <1>r, <3>3
      <4>2. i \in Nat /\ i >= 1 /\ a.id \in Nat /\ a.id < nextId
        BY <1>l, <1>o, <1>n
      <4>. QED  BY <1>n, <4>1, <4>2
    <3>. QED  BY <2>5, <3>1, <3>2, <3>3
  <2>6. ASSUME NEW d \in queue', NEW e \in queue', d.item.op = "remove", e.item.op \in {"copy", "install"},
               d.item.file = e.item.file, d.item.from = e.item.from
        PROVE  e.id < d.id
    <3>1. CASE d \in queue
      <4>1. e \in queue
        BY <2>1, <2>6, <3>1
      <4>. QED  BY <1>0, <2>6, <3>1, <4>1 DEF RowsInv
    <3>2. CASE d \notin queue
      <4>0. e \notin queue
        BY <2>1, <2>6, <3>2
      <4>1. PICK i \in DOMAIN s : d.item = s[i] /\ d.id = nextId + i - 1
        BY <1>r, <3>2
      <4>2. PICK j \in DOMAIN s : e.item = s[j] /\ e.id = nextId + j - 1
        BY <1>r, <4>0
      <4>3. i \in Nat /\ j \in Nat
        BY <1>l
      <4>4. j < i
        <5>1. s[i].op = "remove" /\ s[j].op \in {"copy", "install"} /\ s[i].from = s[j].from
          BY <2>6, <4>1, <4>2
        <5>2. \A k, m \in DOMAIN s : s[k].op = "remove" /\ s[m].op \in {"copy", "install"} /\ s[k].from = s[m].from => m < k
          BY <1>4 DEF Batch
        <5>. QED  BY <5>1, <5>2
      <4>. QED  BY <1>n, <4>1, <4>2, <4>3, <4>4
    <3>. QED  BY <3>1, <3>2
  <2>7. ASSUME NEW d \in queue', NEW e \in queue', d.item.op = "commit", d.item.file = e.item.file  PROVE d = e
    <3>1. d \in queue
      BY <1>4, <1>r, <2>7 DEF Batch
    <3>2. e \in queue
      BY <2>1, <2>7, <3>1
    <3>. QED  BY <1>0, <2>7, <3>1, <3>2 DEF RowsInv
  <2>8. ASSUME NEW d \in queue', NEW e \in queue', d.item.op = "install", e.item.op = "install", d.item.file = e.item.file
        PROVE  d = e
    <3>1. CASE d \in queue
      <4>1. e \in queue
        BY <2>1, <2>8, <3>1
      <4>. QED  BY <1>0, <2>8, <3>1, <4>1 DEF RowsInv
    <3>2. CASE d \notin queue
      <4>0. e \notin queue
        BY <2>1, <2>8, <3>2
      <4>1. PICK i \in DOMAIN s : d.item = s[i] /\ d.id = nextId + i - 1
        BY <1>r, <3>2
      <4>2. PICK j \in DOMAIN s : e.item = s[j] /\ e.id = nextId + j - 1
        BY <1>r, <4>0
      <4>3. i = j
        BY <1>4, <2>8, <4>1, <4>2 DEF Batch
      <4>. QED  BY <2>5, <4>1, <4>2, <4>3
    <3>. QED  BY <3>1, <3>2
  <2>. QED  BY <2>2, <2>3, <2>4, <2>5, <2>6, <2>7, <2>8 DEF RowsInv
<1>10. ConflictInv'
  <2>. SUFFICES ASSUME NEW h \in Files, conflicted'[h] # NoText
                PROVE  /\ temp[h]["mine"] \in {NoText, conflicted'[h]}
                       /\ copy[h] = conflicted'[h] \/ \E e \in queue' : e.item = CopyMine(h)
    BY <1>1 DEF ConflictInv, fs
  <2>1. CASE h = f
    <3>1. "mine" \in made /\ conflicted'[f] = temp[f]["mine"]
      BY <1>6, <2>1
    <3>2. PICK i \in DOMAIN s : s[i] = CopyMine(f)
      BY <1>4, <3>1 DEF Batch
    <3>3. \E e \in queue' : e.item = s[i]
      BY <1>5 DEF AddedRows
    <3>. QED  BY <2>1, <3>1, <3>2, <3>3
  <2>2. CASE h # f
    BY <1>0, <1>i, <1>6, <2>2 DEF ConflictInv
  <2>. QED  BY <2>1, <2>2
<1>11. CommandInv(p)'
  <2>1. \A e \in queue' : e.id # 0
    BY <1>5, <1>i DEF AddedRows
  <2>. QED  BY <1>0, <1>2, <1>3, <1>i, <2>1 DEF CommandInv, SameItem, SameFile, At, Running
<1>12. Local(f)
  <2>1. \A e \in queue' : e \in queue \/ (e.id >= nextId /\ e.item.file = f)
    <3>. SUFFICES ASSUME NEW e \in queue', e \notin queue  PROVE e.id >= nextId /\ e.item.file = f
      OBVIOUS
    <3>1. PICK i \in DOMAIN s : e.item = s[i] /\ e.id = nextId + i - 1
      BY <1>r
    <3>2. i \in Nat /\ i >= 1
      BY <1>l
    <3>. QED  BY <1>l, <1>n, <3>1, <3>2
  <2>. QED  BY <1>1, <1>i, <1>6, <2>1 DEF Local, fs, ghosts
<1>13. Gentle(p)
  BY <1>1, <1>2, <1>i, <1>6, <1>12 DEF Gentle, Local, fs
<1>14. ASSUME ~foreign
       PROVE  /\ HeadOK(p)' /\ CommandOK(p)' /\ FileOK(f)'
              /\ \A e \in queue' : e.item.file = f => RowOK(e)'
  <2>1. IF "result" \in made
        THEN /\ temp[f]["result"] # NoText
             /\ cmd[p].text \subseteq temp[f]["result"] /\ safe[f] \subseteq temp[f]["result"]
        ELSE safe[f] \subseteq cmd[p].text
    BY <1>1, <1>14 DEF IInv, CommandOK, At
  <2>2. FileOK(f)
    BY <1>2, <1>14 DEF IInv
  <2>3. HeadOK(p)' /\ CommandOK(p)'
    BY <1>2, <1>3 DEF HeadOK, CommandOK, SameItem, At
  <2>4. disk[f] # NoText
    BY <1>0, <1>2, TextFacts DEF TypeInv
  <2>5. \E e \in queue' : e.item.op = "install" /\ e.item.file = f
    <3>1. PICK i \in DOMAIN s : s[i].op = "install"
      BY <1>4 DEF Batch
    <3>. QED  BY <1>5, <3>1 DEF AddedRows
  <2>6. FileOK(f)'
    BY <1>1, <1>6, <2>2, <2>4, <2>5 DEF FileOK, fs, ghosts
  <2>7. ASSUME NEW e \in queue', e.item.file = f  PROVE RowOK(e)'
    <3>1. PICK i \in DOMAIN s : e.item = s[i]
      BY <1>r, <1>o, <2>7
    <3>2. e.item.op = "copy" => "mine" \in made
      BY <1>4, <3>1 DEF OfMine, Batch
    <3>3. e.item.op # "commit" /\ (e.item = Install(f, "result") => "result" \in made)
          /\ (e.item = Install(f, "pristine") => "result" \notin made)
      BY <1>4, <3>1 DEF Batch
    <3>. QED  BY <1>1, <1>2, <1>6, <2>1, <2>7, <3>2, <3>3 DEF RowOK, fs, ghosts
  <2>. QED  BY <2>3, <2>6, <2>7
<1>15. foreign' = foreign
  BY <1>1 DEF ghosts
<1>. QED  BY <1>2, <1>3, <1>7, <1>8, <1>9, <1>10, <1>11, <1>12, <1>13, <1>14, <1>15, Mine, Assemble

\* The text that was sent is the new base, and one row is added.
LEMMA CommitBaseStep ==
  ASSUME IInv, NEW p \in Procs, CommitBase(p)
  PROVE  IInv'
<1>0. TypeInv /\ LockInv /\ RowsInv /\ ConflictInv /\ CommandInv(p)
  BY DEF IInv
<1>. PICK f, s : f = cmd[p].file /\ s = <<FileCommit(f)>>
  OBVIOUS
<1>1. /\ cmd[p].pc = "sent" /\ base' = [base EXCEPT ![f] = cmd[p].text]
      /\ recorded' = [recorded EXCEPT ![f] = NoText]
      /\ Queued(s) /\ Goto(p, "fetch")
      /\ UNCHANGED <<conflicted, locked, fs, changes, crashes, ghosts>>
  BY DEF CommitBase, At
<1>2. f \in Files /\ cmd[p].owns = {f} /\ f \in locked /\ cmd[p].last = 0 /\ cmd[p].text \in Made
  BY <1>0, <1>1, Command DEF CommandInv, Running
<1>3. Alone(p) /\ cmd'[p].pc = "fetch" /\ SameFile(p) /\ SameItem(p) /\ SameText(p)
  BY <1>0, <1>1, GotoMoves DEF Pcs
<1>4. /\ DOMAIN s = 1..Len(s) /\ Len(s) \in Nat /\ Len(s) = 1
      /\ \A i \in DOMAIN s : i = 1 /\ s[i] = FileCommit(f) /\ s[i] \in Items /\ s[i].file = f /\ s[i].op = "commit"
  <2>1. DOMAIN s = 1..1 /\ Len(s) = 1 /\ s[1] = FileCommit(f)
    OBVIOUS
  <2>. QED  BY <1>2, <2>1, NewItems
<1>5. AddedRows(f, s)
  BY <1>1, <1>4, Added
<1>n. nextId \in Nat /\ queue \subseteq [id : Nat, item : Items]
  BY <1>0 DEF TypeInv
<1>i. nextId' \in Nat /\ nextId' > 0 /\ nextId' >= nextId /\ queue \subseteq queue' /\ queue' \subseteq [id : Nat, item : Items]
  BY <1>5 DEF AddedRows
<1>r. \A e \in queue' \ queue : e.item = FileCommit(f) /\ e.item.op = "commit" /\ e.item.file = f /\ e.id = nextId
  <2>. SUFFICES ASSUME NEW e \in queue' \ queue
                PROVE  e.item = FileCommit(f) /\ e.item.op = "commit" /\ e.item.file = f /\ e.id = nextId
    OBVIOUS
  <2>1. PICK i \in DOMAIN s : e.item = s[i] /\ e.id = nextId + i - 1
    BY <1>5 DEF AddedRows
  <2>2. i = 1 /\ s[i] = FileCommit(f) /\ s[i].file = f /\ s[i].op = "commit"
    BY <1>4
  <2>. QED  BY <1>n, <2>1, <2>2
<1>o. \A e \in queue : e.item.file # f /\ e.id < nextId
  BY <1>5 DEF AddedRows
<1>6. /\ base' \in [Files -> Made] /\ base'[f] = cmd[p].text
      /\ recorded' \in [Files -> Made \cup {NoText}] /\ recorded'[f] = NoText
      /\ \A h \in Files \ {f} : base'[h] = base[h] /\ recorded'[h] = recorded[h]
  BY <1>0, <1>1, <1>2 DEF TypeInv
<1>7. TypeInv'
  <2>1. Made' = Made
    BY <1>1 DEF Made
  <2>2. \A q \in Procs : cmd'[q].text \in Made
    BY <1>0, <1>3 DEF Alone, SameText, TypeInv
  <2>. QED  BY <1>0, <1>1, <1>3, <1>i, <1>6, <2>1, <2>2 DEF TypeInv, Alone, fs, ghosts
<1>8. LockInv'
  BY <1>1, <1>3, LockFrame DEF Out
<1>9. RowsInv'
  <2>0. \A d, e \in queue' \ queue : d = e
    BY <1>i, <1>r
  <2>1. \A e \in queue' : e.item.file = f <=> e \notin queue
    BY <1>r, <1>o
  <2>2. \A e \in queue' : e.id \in 1..(nextId' - 1) /\ e.item.file \in locked'
    BY <1>0, <1>1, <1>2, <1>5, <2>1 DEF RowsInv, AddedRows
  <2>3. \A e \in queue' : OfMine(e.item) => conflicted'[e.item.file] # NoText
    BY <1>0, <1>1, <1>r DEF RowsInv, OfMine
  <2>4. \A e \in queue' : e.item.op = "copy" => e.item.from = "mine"
    BY <1>0, <1>r DEF RowsInv
  <2>5. \A d, e \in queue' : d.id = e.id => d = e
    <3>1. ASSUME NEW a \in queue, NEW b \in queue' \ queue  PROVE a.id # b.id
      BY <1>n, <1>o, <1>r, <3>1
    <3>. QED  BY <1>0, <2>0, <3>1 DEF RowsInv
  <2>6. ASSUME NEW d \in queue', NEW e \in queue', d.item.op = "remove", e.item.op \in {"copy", "install"},
               d.item.file = e.item.file, d.item.from = e.item.from
        PROVE  e.id < d.id
    <3>1. d \in queue /\ e \in queue
      BY <1>r, <2>6
    <3>. QED  BY <1>0, <2>6, <3>1 DEF RowsInv
  <2>7. ASSUME NEW d \in queue', NEW e \in queue', d.item.op = "commit", d.item.file = e.item.file  PROVE d = e
    <3>1. d \in queue <=> e \in queue
      BY <2>1, <2>7
    <3>. QED  BY <1>0, <2>0, <2>7, <3>1 DEF RowsInv
  <2>8. ASSUME NEW d \in queue', NEW e \in queue', d.item.op = "install", e.item.op = "install", d.item.file = e.item.file
        PROVE  d = e
    <3>1. d \in queue /\ e \in queue
      BY <1>r, <2>8
    <3>. QED  BY <1>0, <2>8, <3>1 DEF RowsInv
  <2>. QED  BY <2>2, <2>3, <2>4, <2>5, <2>6, <2>7, <2>8 DEF RowsInv
<1>10. ConflictInv'
  BY <1>0, <1>1, <1>i DEF ConflictInv, fs
<1>11. CommandInv(p)'
  <2>1. \A e \in queue' : e.id # 0
    BY <1>5, <1>i DEF AddedRows
  <2>. QED  BY <1>0, <1>2, <1>3, <1>i, <2>1 DEF CommandInv, SameItem, SameFile, At, Running
<1>12. Local(f)
  <2>1. \A e \in queue' : e \in queue \/ (e.id >= nextId /\ e.item.file = f)
    BY <1>n, <1>r
  <2>. QED  BY <1>1, <1>i, <1>6, <2>1 DEF Local, fs, ghosts
<1>13. Gentle(p)
  BY <1>1, <1>2, <1>i, <1>6, <1>12 DEF Gentle, Local, fs
<1>14. ASSUME ~foreign
       PROVE  /\ HeadOK(p)' /\ CommandOK(p)' /\ FileOK(f)'
              /\ \A e \in queue' : e.item.file = f => RowOK(e)'
  <2>1. safe[f] \subseteq cmd[p].text /\ cmd[p].text \subseteq disk[f] /\ (f \notin raced => cmd[p].text = disk[f])
    BY <1>1, <1>14 DEF IInv, CommandOK, At
  <2>2. FileOK(f)
    BY <1>2, <1>14 DEF IInv
  <2>3. HeadOK(p)' /\ CommandOK(p)'
    BY <1>2, <1>3 DEF HeadOK, CommandOK, SameItem, At
  <2>4. disk[f] # NoText
    BY <1>0, <1>2, TextFacts DEF TypeInv
  <2>5. FileOK(f)'
    BY <1>1, <1>6, <2>1, <2>2, <2>4 DEF FileOK, fs, ghosts
  <2>6. ASSUME NEW e \in queue', e.item.file = f  PROVE RowOK(e)'
    <3>1. e.item.op = "commit"
      BY <1>r, <1>o, <2>6
    <3>2. \A t : e.item # Install(f, t)
      BY <3>1 DEF Install
    <3>. QED  BY <1>1, <1>6, <2>1, <2>6, <3>1, <3>2 DEF RowOK, fs, ghosts
  <2>. QED  BY <2>3, <2>5, <2>6
<1>15. foreign' = foreign
  BY <1>1 DEF ghosts
<1>. QED  BY <1>2, <1>3, <1>7, <1>8, <1>9, <1>10, <1>11, <1>12, <1>13, <1>14, <1>15, Mine, Assemble

--------------------------------------------------------------------------------
(* The next row *)

\* The row that was finished is removed, and the first of the others is taken, or there is none.
LEMMA FetchStep ==
  ASSUME IInv, NEW p \in Procs, Fetch(p)
  PROVE  IInv'
<1>0. TypeInv /\ LockInv /\ RowsInv /\ ConflictInv /\ CommandInv(p)
  BY DEF IInv
<1>. PICK item, last : item = cmd[p].item /\ last = cmd[p].last
  OBVIOUS
<1>. PICK g : g = IF last = 0 THEN NoFile ELSE item.file
  OBVIOUS
<1>1. /\ cmd[p].pc = "fetch" /\ queue' = {e \in queue : e.id # last}
      /\ UNCHANGED <<base, recorded, conflicted, nextId, locked, fs, changes, crashes, safe, raced>>
      /\ \/ /\ queue' = {} /\ foreign' = foreign
            /\ cmd' = [cmd EXCEPT ![p].pc = IF cmd[p].file = NoFile THEN "tidy" ELSE "release",
                                  ![p].item = NoItem, ![p].last = 0]
         \/ \E e \in queue' :
              /\ \A d \in queue' : e.id <= d.id
              /\ cmd' = [cmd EXCEPT ![p].pc = "run", ![p].item = e.item, ![p].last = e.id]
              /\ foreign' = (foreign \/ e.item.file \notin cmd[p].owns)
  BY DEF Fetch, At, Completed, First
<1>2. /\ last \in Nat /\ queue' \subseteq queue /\ nextId \in Nat /\ nextId > 0
      /\ \A e \in queue : e.id = last => e.item = item /\ last # 0
      /\ \A e \in queue : e.id \in Nat /\ e.id # 0 /\ e.id < nextId /\ e.item \in Items /\ e.item.file \in Files
  <2>1. \A e \in queue : e.id \in Nat /\ e.id # 0 /\ e.id < nextId /\ e.item \in Items
    BY <1>0 DEF RowsInv, TypeInv
  <2>2. \A e \in queue : e.item.file \in Files
    BY <2>1, ItemFacts
  <2>. QED  BY <1>0, <1>1, <2>1, <2>2, Command DEF CommandInv, TypeInv
<1>3. PICK pc \in Pcs, item2 \in Items \cup {NoItem}, last2 \in Nat :
        /\ cmd' = [cmd EXCEPT ![p].pc = pc, ![p].item = item2, ![p].last = last2]
        /\ foreign' \in {foreign, TRUE}
        /\ \/ /\ queue' = {} /\ item2 = NoItem /\ last2 = 0 /\ foreign' = foreign
              /\ pc = IF cmd[p].file = NoFile THEN "tidy" ELSE "release"
           \/ \E e \in queue' :
                /\ \A d \in queue' : e.id <= d.id
                /\ pc = "run" /\ item2 = e.item /\ last2 = e.id
                /\ ~foreign' => ~foreign /\ e.item.file \in cmd[p].owns
  <2>0. foreign \in BOOLEAN
    BY <1>0 DEF TypeInv
  <2>1. CASE /\ queue' = {} /\ foreign' = foreign
             /\ cmd' = [cmd EXCEPT ![p].pc = IF cmd[p].file = NoFile THEN "tidy" ELSE "release",
                                   ![p].item = NoItem, ![p].last = 0]
    <3>1. (IF cmd[p].file = NoFile THEN "tidy" ELSE "release") \in Pcs /\ 0 \in Nat /\ NoItem \in Items \cup {NoItem}
      BY DEF Pcs
    <3>. QED  BY <2>1, <3>1
  <2>2. CASE \E e \in queue' :
               /\ \A d \in queue' : e.id <= d.id
               /\ cmd' = [cmd EXCEPT ![p].pc = "run", ![p].item = e.item, ![p].last = e.id]
               /\ foreign' = (foreign \/ e.item.file \notin cmd[p].owns)
    <3>0. PICK e \in queue' :
            /\ \A d \in queue' : e.id <= d.id
            /\ cmd' = [cmd EXCEPT ![p].pc = "run", ![p].item = e.item, ![p].last = e.id]
            /\ foreign' = (foreign \/ e.item.file \notin cmd[p].owns)
      BY <2>2
    <3>1. "run" \in Pcs /\ e.item \in Items \cup {NoItem} /\ e.id \in Nat
      BY <1>2 DEF Pcs
    <3>2. foreign' \in {foreign, TRUE} /\ (~foreign' => ~foreign /\ e.item.file \in cmd[p].owns)
      BY <2>0, <3>0
    <3>. QED  BY <3>0, <3>1, <3>2
  <2>. QED  BY <1>1, <2>1, <2>2
<1>4. /\ Alone(p) /\ cmd'[p].pc = pc /\ cmd'[p].item = item2 /\ cmd'[p].last = last2
      /\ SameFile(p) /\ SameText(p)
  BY <1>0, <1>3, FetchMoves
<1>5. pc \in {"tidy", "release", "run"} /\ (pc = "tidy" => cmd[p].file = NoFile /\ queue' = {})
  BY <1>3
<1>6. /\ last2 < nextId /\ (last2 = 0 <=> item2 = NoItem) /\ \A e \in queue' : e.id = last2 => e.item = item2
      /\ pc = "run" => last2 # 0
      /\ last2 # 0 => pc = "run" /\ \E e \in queue' : e.item = item2 /\ e.id = last2 /\ \A d \in queue' : e.id <= d.id
  <2>1. CASE last2 = 0 /\ item2 = NoItem /\ queue' = {} /\ pc # "run"
    BY <1>2, <2>1
  <2>2. CASE \E e \in queue' : item2 = e.item /\ last2 = e.id /\ pc = "run" /\ \A d \in queue' : e.id <= d.id
    <3>1. PICK e \in queue' : item2 = e.item /\ last2 = e.id /\ pc = "run" /\ \A d \in queue' : e.id <= d.id
      BY <2>2
    <3>2. item2 # NoItem /\ last2 # 0 /\ last2 < nextId
      BY <1>2, <3>1, ItemFacts
    <3>3. \A d \in queue' : d.id = last2 => d = e
      BY <1>0, <1>2, <3>1 DEF RowsInv
    <3>. QED  BY <3>1, <3>2, <3>3
  <2>. QED  BY <1>3, <2>1, <2>2
<1>7. TypeInv'
  <2>1. Made' = Made
    BY <1>1 DEF Made
  <2>2. \A q \in Procs : cmd'[q].text \in Made
    BY <1>0, <1>4 DEF Alone, SameText, TypeInv
  <2>3. foreign' \in BOOLEAN
    BY <1>0, <1>3 DEF TypeInv
  <2>. QED  BY <1>0, <1>1, <1>2, <1>4, <2>1, <2>2, <2>3 DEF TypeInv, Alone, fs
<1>8. LockInv'
  BY <1>1, <1>4, <1>5, LockFrame DEF Out
<1>9. RowsInv'
  <2>1. \A e \in queue' : e \in queue
    BY <1>2
  <2>2. /\ \A e \in queue' : e.id \in 1..(nextId' - 1) /\ e.item.file \in locked'
        /\ \A e \in queue' : OfMine(e.item) => conflicted'[e.item.file] # NoText
        /\ \A e \in queue' : e.item.op = "copy" => e.item.from = "mine"
    BY <1>0, <1>1, <2>1 DEF RowsInv
  <2>. QED  BY <1>0, <2>1, <2>2 DEF RowsInv
<1>10. ConflictInv'
  <2>. SUFFICES ASSUME NEW f \in Files, conflicted[f] # NoText
                PROVE  /\ temp[f]["mine"] \in {NoText, conflicted[f]}
                       /\ copy[f] = conflicted[f] \/ \E e \in queue' : e.item = CopyMine(f)
    BY <1>1 DEF ConflictInv, fs
  <2>1. /\ temp[f]["mine"] \in {NoText, conflicted[f]}
        /\ copy[f] = conflicted[f] \/ \E e \in queue : e.item = CopyMine(f)
    BY <1>0 DEF ConflictInv
  <2>2. ASSUME NEW e \in queue, e.item = CopyMine(f)  PROVE copy[f] = conflicted[f] \/ e \in queue'
    <3>. SUFFICES ASSUME e \notin queue'  PROVE copy[f] = conflicted[f]
      OBVIOUS
    <3>1. item = CopyMine(f) /\ last # 0
      BY <1>1, <1>2, <2>2
    <3>2. item.op = "copy" /\ item.file = f
      BY <3>1, NewItems
    <3>. QED  BY <1>0, <1>1, <3>1, <3>2 DEF CommandInv, At
  <2>. QED  BY <2>1, <2>2
<1>11. CommandInv(p)'
  <2>1. last2 # 0 /\ OfMine(item2) => conflicted[item2.file] # NoText
    BY <1>0, <1>2, <1>6 DEF RowsInv
  <2>2. last2 # 0 /\ item2.op = "copy" => item2.from = "mine"
    BY <1>0, <1>2, <1>6 DEF RowsInv
  <2>. QED  BY <1>1, <1>4, <1>5, <1>6, <2>1, <2>2 DEF CommandInv, At, Running
<1>12. Local(g)
  <2>1. \A e \in queue : e.item.file # g => e \in queue'
    BY <1>1, <1>2
  <2>. QED  BY <1>1, <1>2, <2>1 DEF Local, fs
<1>13. Gentle(p)
  <2>1. nextId' = nextId /\ conflicted' = conflicted /\ copy' = copy /\ temp' = temp
    BY <1>1 DEF fs
  <2>2. nextId' \in Nat /\ nextId' >= nextId
    BY <1>2, <2>1
  <2>3. \A e \in queue' : e \in queue
    BY <1>2
  <2>. QED  BY <2>1, <2>2, <2>3 DEF Gentle
<1>14. ASSUME ~foreign'
       PROVE  /\ ~foreign /\ HeadOK(p)' /\ CommandOK(p)'
              /\ \A q \in Procs \ {p} : g \notin cmd[q].owns
              /\ \A e \in queue' : e.item.file = g => RowOK(e)'
              /\ g \in Files => FileOK(g)'
  <2>1. ~foreign
    BY <1>3, <1>14
  <2>2. HeadOK(p)'
    <3>. SUFFICES ASSUME last2 # 0
                  PROVE  /\ item2.file \in cmd[p].owns /\ [id |-> last2, item |-> item2] \in queue'
                         /\ \A e \in queue' : last2 <= e.id
      BY <1>4 DEF HeadOK, SameFile
    <3>1. PICK e \in queue' : /\ \A d \in queue' : e.id <= d.id
                              /\ item2 = e.item /\ last2 = e.id /\ e.item.file \in cmd[p].owns
      BY <1>3, <1>14
    <3>2. e = [id |-> last2, item |-> item2]
      BY <1>7, <3>1 DEF TypeInv
    <3>. QED  BY <3>1, <3>2
  <2>3. CommandOK(p)'
    BY <1>4, <1>5 DEF CommandOK, At
  <2>4. HeadOK(p) /\ CommandOK(p) /\ (\A e \in queue : RowOK(e)) /\ (\A f \in Files : FileOK(f))
    BY <2>1 DEF IInv
  <2>5. \A q \in Procs \ {p} : g \notin cmd[q].owns
    <3>1. CASE last = 0
      BY <1>0, <3>1, QueueAssumption, Command
    <3>2. CASE last # 0
      BY <2>4, <3>2, Mine DEF HeadOK
    <3>. QED  BY <3>1, <3>2
  <2>6. \A e \in queue' : RowOK(e)'
    BY <1>1, <1>2, <2>4 DEF RowOK, fs
  <2>7. ASSUME g \in Files  PROVE FileOK(g)'
    <3>1. last # 0 /\ g = item.file
      BY <2>7, QueueAssumption
    <3>2. base[g] \subseteq disk[g] \/ \E e \in queue' : e.item.op = "install" /\ e.item.file = g
      <4>1. base[g] \subseteq disk[g] \/ \E e \in queue : e.item.op = "install" /\ e.item.file = g
        BY <2>4, <2>7 DEF FileOK
      <4>2. item.op = "install" => base[g] \subseteq disk[g]
        BY <1>1, <2>4, <3>1 DEF CommandOK, At
      <4>3. \A e \in queue : e \in queue' \/ e.item = item
        BY <1>1, <1>2
      <4>. QED  BY <4>1, <4>2, <4>3
    <3>3. FileOK(g)
      BY <2>4, <2>7
    <3>. QED  BY <1>1, <3>2, <3>3 DEF FileOK, fs
  <2>. QED  BY <2>1, <2>2, <2>3, <2>5, <2>6, <2>7
<1>. QED  BY <1>4, <1>7, <1>8, <1>9, <1>10, <1>11, <1>12, <1>13, <1>14, Assemble

--------------------------------------------------------------------------------
(* The end of `svn cleanup', and the user *)

\* Nobody else is at work, and there is none left: the temporary files can go.
LEMMA TidyStep ==
  ASSUME IInv, NEW p \in Procs, Tidy(p)
  PROVE  IInv'
<1>0. TypeInv /\ LockInv /\ RowsInv /\ ConflictInv /\ CommandInv(p)
  BY DEF IInv
<1>1. /\ cmd[p].pc = "tidy" /\ temp' = [f \in Files |-> [t \in Temps |-> NoText]]
      /\ recorded' = [f \in Files |-> Repaired(f)] /\ locked' = {} /\ cmd' = [cmd EXCEPT ![p] = Idle]
      /\ UNCHANGED <<base, conflicted, queue, nextId, disk, copy, changes, crashes, ghosts>>
  BY DEF Tidy, At
<1>2. /\ Alone(p) /\ cmd'[p].pc = "idle" /\ cmd'[p].owns = {} /\ cmd'[p].file = NoFile
      /\ cmd'[p].item = NoItem /\ cmd'[p].last = 0 /\ cmd'[p].text = {} /\ cmd'[p].made = {}
  BY <1>0, <1>1, IdleMoves
<1>3. queue = {} /\ cmd[p].owns = Files /\ \A q \in Procs \ {p} : cmd[q].pc \in Out /\ cmd[q].owns = {} /\ cmd[q].last = 0
  <2>1. cmd[p].file = NoFile /\ queue = {}
    BY <1>0, <1>1 DEF LockInv, At
  <2>2. cmd[p].owns = Files /\ \A q \in Procs \ {p} : cmd[q].pc \in Out
    BY <1>0, <1>1, <2>1 DEF LockInv, Out
  <2>3. \A q \in Procs \ {p} : cmd[q].owns = {} /\ cmd[q].last = 0
    BY <1>0, <2>2 DEF IInv, LockInv, CommandInv, Out, Running
  <2>. QED  BY <2>1, <2>2, <2>3
<1>4. /\ temp' \in [Files -> [Temps -> Made \cup {NoText}]] /\ \A f \in Files : temp'[f]["mine"] = NoText
      /\ recorded' \in [Files -> Made \cup {NoText}] /\ \A f \in Files : recorded'[f] = Repaired(f)
  <2>1. \A f \in Files : Repaired(f) \in Made \cup {NoText}
    BY <1>0 DEF TypeInv, Repaired
  <2>. QED  BY <1>1, <2>1 DEF Temps
<1>5. TypeInv'
  <2>1. Made' = Made /\ {} \in Made
    BY <1>0, <1>1, TextFacts DEF Made
  <2>2. \A q \in Procs : cmd'[q].text \in Made
    BY <1>0, <1>2, <2>1 DEF Alone, TypeInv
  <2>. QED  BY <1>0, <1>1, <1>2, <1>4, <2>1, <2>2 DEF TypeInv, Alone, ghosts
<1>6. LockInv'
  <2>1. queue' = queue /\ locked' \subseteq Files
    BY <1>1
  <2>2. \A q \in Procs \ {p} : cmd[q].owns \subseteq locked' /\ ~(cmd[q].pc \notin Out)
    BY <1>3
  <2>. QED  BY <1>1, <2>1, <2>2, LockLeave
<1>7. RowsInv'
  BY <1>1, <1>3 DEF RowsInv
<1>8. ConflictInv'
  BY <1>0, <1>1, <1>3, <1>4 DEF ConflictInv
<1>9. \A q \in Procs : CommandInv(q)'
  <2>1. nextId \in Nat /\ nextId > 0
    BY <1>0 DEF TypeInv
  <2>2. CommandInv(p)'
    BY <1>1, <1>2, <1>3, <2>1 DEF CommandInv, At, Running
  <2>3. Gentle(p)
    BY <1>1, <1>3, <2>1 DEF Gentle
  <2>. QED  BY <1>2, <2>2, <2>3, OthersInv
<1>10. ASSUME ~foreign'
       PROVE  /\ \A q \in Procs : HeadOK(q)' /\ CommandOK(q)'
              /\ \A e \in queue' : RowOK(e)'
              /\ \A f \in Files : FileOK(f)'
  <2>1. ~foreign /\ \A f \in Files : FileOK(f)
    BY <1>1, <1>10 DEF IInv, ghosts
  <2>2. \A q \in Procs : cmd'[q].last = 0 /\ cmd'[q].pc \in Out
    BY <1>2, <1>3 DEF Alone, Out
  <2>3. \A q \in Procs : HeadOK(q)' /\ CommandOK(q)'
    BY <2>2 DEF HeadOK, CommandOK, At, Out
  <2>4. ASSUME NEW f \in Files  PROVE FileOK(f)'
    <3>1. FileOK(f) /\ base[f] \subseteq disk[f]
      BY <1>3, <2>1 DEF FileOK
    <3>. QED  BY <1>1, <1>4, <3>1 DEF FileOK, Repaired, ghosts
  <2>. QED  BY <1>1, <1>3, <2>3, <2>4
<1>. QED  BY <1>5, <1>6, <1>7, <1>8, <1>9, <1>10 DEF IInv

\* The user saves a change: a new one, so that what is recorded is not of the new text, and under
\* the lock nothing is said of the file any more but that it has every change of its base.
LEMMA EditStep ==
  ASSUME IInv, NEW f \in Files, Edit(f)
  PROVE  IInv'
<1>0. TypeInv /\ LockInv /\ RowsInv /\ ConflictInv
  BY DEF IInv
<1>. PICK new : new = changes + 1
  OBVIOUS
<1>1. /\ changes < MaxChange /\ changes' = new /\ disk' = [disk EXCEPT ![f] = disk[f] \cup {new}]
      /\ IF f \in locked
         THEN raced' = raced \cup {f} /\ safe' = safe
         ELSE safe' = [safe EXCEPT ![f] = safe[f] \cup {new}] /\ raced' = raced
      /\ UNCHANGED <<db, copy, temp, cmd, crashes, foreign>>
  BY <1>0 DEF Edit, TypeInv
<1>2. /\ Made \subseteq Made' /\ new \in Nat /\ new \notin 1..changes /\ new # 0 /\ changes' \in 0..MaxChange
      /\ disk[f] \cup {new} \in Made' /\ safe[f] \cup {new} \in Made'
  <2>1. changes \in Nat /\ MaxChange \in Nat /\ disk[f] \in Made /\ safe[f] \in Made
    BY <1>0, TextFacts DEF TypeInv
  <2>2. new \in Nat /\ new # 0 /\ new \notin 1..changes /\ new \in 1..new /\ 1..changes \subseteq 1..new /\ changes' \in 0..MaxChange
    BY <1>1, <2>1
  <2>. QED  BY <1>1, <2>1, <2>2 DEF Made
<1>3. /\ disk' \in [Files -> Made'] /\ safe' \in [Files -> Made'] /\ raced' \subseteq Files
      /\ disk'[f] = disk[f] \cup {new} /\ \A h \in Files \ {f} : disk'[h] = disk[h] /\ safe'[h] = safe[h]
      /\ f \in locked => safe' = safe /\ f \in raced'
      /\ f \notin locked => safe'[f] = safe[f] \cup {new} /\ raced' = raced
      /\ \A h \in Files \ {f} : h \in raced' <=> h \in raced
  BY <1>0, <1>1, <1>2 DEF TypeInv
<1>4. TypeInv'
  <2>1. /\ base' \in [Files -> Made'] /\ recorded' \in [Files -> Made' \cup {NoText}]
        /\ conflicted' \in [Files -> Made' \cup {NoText}] /\ copy' \in [Files -> Made' \cup {NoText}]
    BY <1>0, <1>1, <1>2 DEF TypeInv, db
  <2>2. temp' \in [Files -> [Temps -> Made' \cup {NoText}]]
    <3>1. temp \in [Files -> [Temps -> Made \cup {NoText}]] /\ temp' = temp
      BY <1>0, <1>1 DEF TypeInv
    <3>. SUFFICES ASSUME NEW h \in Files  PROVE temp[h] \in [Temps -> Made' \cup {NoText}]
      BY <3>1
    <3>. QED  BY <1>2, <3>1
  <2>3. \A q \in Procs : cmd'[q].text \in Made'
    BY <1>0, <1>1, <1>2 DEF TypeInv
  <2>4. /\ queue' \subseteq [id : Nat, item : Items] /\ nextId' \in Nat /\ nextId' > 0
        /\ locked' \subseteq Files /\ crashes' \in 0..MaxCrash /\ cmd' \in [Procs -> Commands]
    BY <1>0, <1>1 DEF TypeInv, db
  <2>5. foreign' \in BOOLEAN
    BY <1>0, <1>1 DEF TypeInv
  <2>. QED  BY <1>2, <1>3, <2>1, <2>2, <2>3, <2>4, <2>5 DEF TypeInv
<1>5. LockInv' /\ RowsInv' /\ ConflictInv'
  BY <1>0, <1>1 DEF LockInv, RowsInv, ConflictInv, db, At
<1>6. ASSUME NEW q \in Procs  PROVE CommandInv(q)'
  <2>1. CommandInv(q)
    BY DEF IInv
  <2>. QED  BY <1>1, <2>1 DEF CommandInv, db, At
<1>7. ASSUME ~foreign'
      PROVE  /\ \A q \in Procs : HeadOK(q)' /\ CommandOK(q)'
             /\ \A e \in queue' : RowOK(e)'
             /\ \A h \in Files : FileOK(h)'
  <2>0. /\ ~foreign /\ \A q \in Procs : HeadOK(q) /\ CommandOK(q)
        /\ \A e \in queue : RowOK(e)
        /\ \A h \in Files : FileOK(h)
    BY <1>1, <1>7 DEF IInv
  <2>u. base' = base /\ recorded' = recorded /\ queue' = queue /\ temp' = temp /\ cmd' = cmd
    BY <1>1 DEF db
  \* In the file, or in one that is locked:
  <2>l. ASSUME NEW h \in Files, h \in locked
        PROVE  /\ safe'[h] = safe[h] /\ disk[h] \subseteq disk'[h]
               /\ h \notin raced' => h \notin raced /\ disk'[h] = disk[h]
    BY <1>3, <2>l
  <2>1. ASSUME NEW q \in Procs  PROVE HeadOK(q)' /\ CommandOK(q)'
    <3>1. HeadOK(q)'
      BY <2>0, <2>u DEF HeadOK
    <3>2. cmd[q].pc \in {"merged", "sent"} => cmd[q].file \in Files /\ cmd[q].file \in locked
      BY Command
    <3>3. cmd[q].last # 0 => cmd[q].item.file \in Files /\ cmd[q].item.file \in locked
      BY <1>0, <2>0, Command DEF HeadOK, LockInv
    <3>4. cmd[q].pc \in {"rename", "replace", "record"} => cmd[q].last # 0
      BY Command DEF Running
    <3>. PICK c, g, t : c = cmd[q].file /\ g = cmd[q].item.file /\ t = cmd[q].text
      OBVIOUS
    <3>5. cmd[q].pc \in {"merged", "sent"} =>
            /\ safe'[c] = safe[c] /\ disk[c] \subseteq disk'[c]
            /\ c \notin raced' => c \notin raced /\ disk'[c] = disk[c]
      BY <2>l, <3>2
    <3>6. cmd[q].last # 0 =>
            /\ safe'[g] = safe[g] /\ disk[g] \subseteq disk'[g]
            /\ g \notin raced' => g \notin raced /\ disk'[g] = disk[g]
      BY <2>l, <3>3
    <3>7. CommandOK(q)
      BY <2>0
    <3>8. CommandOK(q)'
      <4>1. CASE cmd[q].pc = "merged"
        BY <2>u, <3>5, <3>7, <4>1 DEF CommandOK, At
      <4>2. CASE cmd[q].pc = "sent"
        BY <2>u, <3>5, <3>7, <4>2 DEF CommandOK, At
      <4>3. CASE cmd[q].pc \in {"rename", "replace", "record"}
        BY <2>u, <3>4, <3>6, <3>7, <4>3 DEF CommandOK, At
      <4>4. CASE cmd[q].pc = "fetch"
        BY <2>u, <3>6, <3>7, <4>4 DEF CommandOK, At
      <4>5. CASE cmd[q].pc \notin {"merged", "sent", "rename", "replace", "record", "fetch"}
        BY <2>u, <4>5 DEF CommandOK, At
      <4>. QED  BY <4>1, <4>2, <4>3, <4>4, <4>5
    <3>. QED  BY <3>1, <3>8
  <2>2. ASSUME NEW e \in queue  PROVE RowOK(e)'
    <3>. PICK h : h = e.item.file
      OBVIOUS
    <3>1. h \in Files /\ h \in locked /\ RowOK(e)
      BY <1>0, <2>0 DEF RowsInv, TypeInv
    <3>2. /\ safe'[h] = safe[h] /\ disk[h] \subseteq disk'[h]
          /\ h \notin raced' => h \notin raced /\ disk'[h] = disk[h]
      BY <2>l, <3>1
    <3>. QED  BY <2>u, <3>1, <3>2 DEF RowOK
  <2>3. ASSUME NEW h \in Files  PROVE FileOK(h)'
    <3>0. FileOK(h)
      BY <2>0
    <3>1. CASE h # f
      BY <1>3, <2>u, <3>0, <3>1 DEF FileOK
    <3>2. CASE h = f
      <4>1. recorded[f] # disk'[f]
        <5>1. new \notin recorded[f]
          BY <1>0, <1>2 DEF TypeInv, Made, NoText
        <5>. QED  BY <1>3, <5>1
      <4>2. safe'[f] \subseteq disk'[f]
        BY <1>3, <3>0, <3>2 DEF FileOK
      <4>. QED  BY <1>3, <2>u, <3>0, <3>2, <4>1, <4>2 DEF FileOK
    <3>. QED  BY <3>1, <3>2
  <2>. QED  BY <2>u, <2>1, <2>2, <2>3
<1>. QED  BY <1>4, <1>5, <1>6, <1>7 DEF IInv

--------------------------------------------------------------------------------
(* The theorems *)

\* The invariant holds of a fresh working copy.
LEMMA InitInv == Init => IInv
<1>. SUFFICES ASSUME Init  PROVE IInv
  OBVIOUS
<1>1. MaxChange \in Nat /\ MaxCrash \in Nat
  BY QueueAssumption
<1>2. Idle \in Commands /\ {} \in Made
  BY DEF Commands, Idle, Pcs, Texts, Made
<1>3. \A p \in Procs : cmd[p] = Idle
  BY DEF Init
<1>4. Idle.pc = "idle" /\ Idle.owns = {} /\ Idle.file = NoFile /\ Idle.item = NoItem /\ Idle.last = 0 /\ Idle.text = {}
  BY DEF Idle
<1>5. TypeInv
  <2>1. /\ base \in [Files -> Made] /\ disk \in [Files -> Made] /\ safe \in [Files -> Made]
        /\ recorded \in [Files -> Made \cup {NoText}]
        /\ conflicted \in [Files -> Made \cup {NoText}] /\ copy \in [Files -> Made \cup {NoText}]
        /\ temp \in [Files -> [Temps -> Made \cup {NoText}]]
    BY <1>2 DEF Init
  <2>2. changes \in 0..MaxChange /\ crashes \in 0..MaxCrash
    BY <1>1 DEF Init
  <2>3. cmd \in [Procs -> Commands] /\ \A p \in Procs : cmd[p].text \in Made
    BY <1>2, <1>3, <1>4 DEF Init
  <2>4. queue \subseteq [id : Nat, item : Items] /\ nextId \in Nat /\ nextId > 0 /\ locked \subseteq Files /\ raced \subseteq Files
    BY DEF Init
  <2>5. foreign \in BOOLEAN
    BY DEF Init
  <2>. QED  BY <2>1, <2>2, <2>3, <2>4, <2>5 DEF TypeInv
<1>6. LockInv
  BY <1>3, <1>4 DEF LockInv, Out, At, Init
<1>7. RowsInv /\ ConflictInv
  BY DEF RowsInv, ConflictInv, Init
<1>8. \A p \in Procs : CommandInv(p) /\ HeadOK(p) /\ CommandOK(p)
  <2>1. queue = {} /\ nextId = 1
    BY DEF Init
  <2>. SUFFICES ASSUME NEW p \in Procs  PROVE CommandInv(p) /\ HeadOK(p) /\ CommandOK(p)
    OBVIOUS
  <2>2. cmd[p].pc = "idle" /\ cmd[p].item = NoItem /\ cmd[p].last = 0
    BY <1>3, <1>4
  <2>3. CommandInv(p)
    BY <2>1, <2>2 DEF CommandInv, At, Running
  <2>. QED  BY <2>2, <2>3 DEF HeadOK, CommandOK, At
<1>9. (\A e \in queue : RowOK(e)) /\ \A f \in Files : FileOK(f)
  BY DEF FileOK, Init
<1>. QED  BY <1>5, <1>6, <1>7, <1>8, <1>9 DEF IInv

\* Every step keeps the invariant.
LEMMA NextInv == IInv /\ [Next]_vars => IInv'
<1>. SUFFICES ASSUME IInv, [Next]_vars  PROVE IInv'
  OBVIOUS
<1>1. ASSUME NEW p \in Procs, Step(p)  PROVE IInv'
  <2>1. CASE Open(p)
    BY <2>1, OpenStep
  <2>2. ASSUME NEW f \in Files, Obtain(p, f)  PROVE IInv'
    BY <2>2, ObtainStep, RefusedStep
  <2>3. CASE Merge(p)
    BY <2>3, MergeStep
  <2>4. CASE UpdateBase(p)
    BY <2>4, UpdateBaseStep
  <2>5. CASE Send(p)
    BY <2>5, SendStep
  <2>6. CASE CommitBase(p)
    BY <2>6, CommitBaseStep
  <2>7. CASE Nothing(p)
    BY <2>7, NothingStep
  <2>8. CASE Fetch(p)
    BY <2>8, FetchStep
  <2>9. CASE Cancel(p)
    BY <2>9, CancelStep
  <2>10. CASE RunRemove(p)
    BY <2>10, RemoveStep
  <2>11. CASE RunCopy(p)
    BY <2>11, CopyStep
  <2>12. CASE InstallRead(p)
    BY <2>12, InstallReadStep
  <2>13. CASE InstallRename(p)
    BY <2>13, RenameStep
  <2>14. CASE CommitTranslate(p)
    BY <2>14, CommitTranslateStep
  <2>15. CASE CommitReplace(p)
    BY <2>15, ReplaceStep
  <2>16. CASE Record(p)
    BY <2>16, RecordStep
  <2>17. CASE Release(p)
    BY <2>17, ReleaseStep
  <2>18. CASE Cleanup(p)
    BY <2>18, CleanupStep
  <2>19. CASE Tidy(p)
    BY <2>19, TidyStep
  <2>20. CASE Crash(p)
    BY <2>20, CrashStep
  <2>. QED  BY <1>1, <2>1, <2>2, <2>3, <2>4, <2>5, <2>6, <2>7, <2>8, <2>9, <2>10, <2>11, <2>12, <2>13,
                <2>14, <2>15, <2>16, <2>17, <2>18, <2>19, <2>20 DEF Step
<1>2. ASSUME NEW f \in Files, Edit(f)  PROVE IInv'
  BY <1>2, EditStep
<1>3. CASE UNCHANGED vars
  <2>. USE <1>3 DEF vars, db, fs, ghosts
  <2>1. TypeInv'
    BY DEF IInv, TypeInv, Made
  <2>2. LockInv'
    BY DEF IInv, LockInv, At
  <2>3. RowsInv' /\ ConflictInv'
    BY DEF IInv, RowsInv, ConflictInv
  <2>4. ASSUME NEW p \in Procs  PROVE CommandInv(p)'
    BY DEF IInv, CommandInv, At
  <2>5. ASSUME ~foreign, NEW p \in Procs  PROVE HeadOK(p)' /\ CommandOK(p)'
    <3>1. HeadOK(p) /\ CommandOK(p)
      BY <2>5 DEF IInv
    <3>2. HeadOK(p)'
      BY <3>1 DEF HeadOK
    <3>3. CommandOK(p)'
      BY <3>1 DEF CommandOK, At
    <3>. QED  BY <3>2, <3>3
  <2>6. ASSUME ~foreign, NEW e \in queue  PROVE RowOK(e)'
    BY <2>6 DEF IInv, RowOK
  <2>7. ASSUME ~foreign, NEW f \in Files  PROVE FileOK(f)'
    BY <2>7 DEF IInv, FileOK
  <2>8. foreign' = foreign /\ queue' = queue
    OBVIOUS
  <2>. QED  BY <2>1, <2>2, <2>3, <2>4, <2>5, <2>6, <2>7, <2>8 DEF IInv
<1>. QED  BY <1>1, <1>2, <1>3 DEF Next

\* The inductive invariant holds in every reachable state, whatever the commands, the crashes and
\* the user do.
THEOREM Invariance == Spec => []IInv
<1>1. Init => IInv
  BY InitInv
<1>2. IInv /\ [Next]_vars => IInv'
  BY NextInv
<1>. QED  BY <1>1, <1>2, PTL DEF Spec

\* An item in the queue can be run, and run again after a crash: the temporary file it reads is
\* there until the item is removed (run_file_install, run_file_copy_translated); the types.
THEOREM ItemsCanRun == Spec => []SourcesKept
<1>1. IInv => SourcesKept
  <2>. SUFFICES ASSUME IInv  PROVE SourcesKept
    OBVIOUS
  <2>0. TypeInv /\ RowsInv /\ Made \subseteq Texts
    BY TextFacts DEF IInv
  <2>1. TypeOK
    <3>1. /\ base \in [Files -> Texts] /\ disk \in [Files -> Texts] /\ safe \in [Files -> Texts]
          /\ recorded \in [Files -> Texts \cup {NoText}]
          /\ conflicted \in [Files -> Texts \cup {NoText}] /\ copy \in [Files -> Texts \cup {NoText}]
      BY <2>0 DEF TypeInv
    <3>2. temp \in [Files -> [Temps -> Texts \cup {NoText}]]
      <4>1. temp \in [Files -> [Temps -> Made \cup {NoText}]]
        BY <2>0 DEF TypeInv
      <4>. SUFFICES ASSUME NEW h \in Files  PROVE temp[h] \in [Temps -> Texts \cup {NoText}]
        BY <4>1
      <4>. QED  BY <2>0, <4>1
    <3>3. /\ \A e \in queue : e.id \in 1..(nextId - 1) /\ e.item \in Items
          /\ \A d, e \in queue : d.id = e.id => d = e
      BY <2>0 DEF TypeInv, RowsInv
    <3>4. cmd \in [Procs -> [pc : Pcs, owns : SUBSET Files, file : Files \cup {NoFile},
                             item : Items \cup {NoItem}, last : 0..(nextId - 1), text : Texts,
                             made : SUBSET Temps]]
      <4>1. nextId \in Nat /\ cmd \in [Procs -> Commands]
        BY <2>0 DEF TypeInv
      <4>2. ASSUME NEW p \in Procs  PROVE cmd[p].last \in 0..(nextId - 1)
        <5>1. cmd[p].last \in Nat /\ cmd[p].last < nextId
          BY Command DEF IInv, CommandInv
        <5>. QED  BY <4>1, <5>1
      <4>. QED  BY <4>1, <4>2 DEF Commands
    <3>5. locked \subseteq Files /\ changes \in 0..MaxChange /\ crashes \in 0..MaxCrash /\ raced \subseteq Files
      BY <2>0 DEF TypeInv
    <3>6. foreign \in BOOLEAN
      BY <2>0 DEF TypeInv
    <3>. QED  BY <3>1, <3>2, <3>3, <3>4, <3>5, <3>6 DEF TypeOK
  <2>2. ASSUME ~foreign, NEW e \in queue,
               e.item.op = "copy" \/ (e.item.op = "install" /\ e.item.from # "pristine")
        PROVE  temp[e.item.file][e.item.from] # NoText
    <3>1. RowOK(e) /\ e.item \in Items
      BY <2>0, <2>2 DEF IInv, TypeInv
    <3>2. CASE e.item.op = "copy"
      BY <2>0, <3>1, <3>2 DEF RowOK, RowsInv
    <3>3. CASE e.item.op = "install" /\ e.item.from # "pristine"
      <4>1. e.item = Install(e.item.file, "result") /\ e.item.from = "result"
        BY <3>1, <3>3, ItemFacts
      <4>. QED  BY <3>1, <4>1 DEF RowOK
    <3>. QED  BY <2>2, <3>2, <3>3
  <2>. QED  BY <2>1, <2>2 DEF SourcesKept
<1>. QED  BY <1>1, Invariance, PTL

\* What the user saved while the directory was not locked is in the working file for ever
\* (run_file_install, install_committed_file).
THEOREM EditsSurvive == Spec => []EditsKept
<1>1. IInv => EditsKept
  BY DEF IInv, FileOK, EditsKept
<1>. QED  BY <1>1, Invariance, PTL

\* Size and time that match mean the pristine text (svn_wc__internal_file_modified_p).
THEOREM StatusHonest == Spec => []StatusTrue
<1>1. IInv => StatusTrue
  BY DEF IInv, FileOK, StatusTrue
<1>. QED  BY <1>1, Invariance, PTL

\* The lock is given back only when the new base is in the working file (svn_wc__release_write_lock,
\* svn_wc_cleanup3).
THEOREM BaseReachesDisk == Spec => []BaseInstalled
<1>1. IInv => BaseInstalled
  <2>. SUFFICES ASSUME IInv, ~foreign, NEW f \in Files, f \notin locked  PROVE base[f] \subseteq disk[f]
    BY DEF BaseInstalled
  <2>1. FileOK(f) /\ \A e \in queue : e.item.file # f
    BY DEF IInv, RowsInv
  <2>. QED  BY <2>1 DEF FileOK
<1>. QED  BY <1>1, Invariance, PTL

\* The lock is given back only when the user's text of a conflict is beside the file
\* (preserve_pre_merge_files, run_file_copy_translated), even if commands ran each other's items.
THEOREM ConflictTextStays == Spec => []ConflictTextKept
<1>1. IInv => ConflictTextKept
  <2>. SUFFICES ASSUME IInv, NEW f \in Files, f \notin locked, conflicted[f] # NoText  PROVE copy[f] = conflicted[f]
    BY DEF ConflictTextKept
  <2>1. \A e \in queue : e.item # CopyMine(f)
    BY NewItems DEF IInv, RowsInv
  <2>. QED  BY <2>1 DEF IInv, ConflictInv
<1>. QED  BY <1>1, Invariance, PTL
================================================================================
