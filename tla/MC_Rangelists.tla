----------------------------- MODULE MC_Rangelists -----------------------------
(***************************************************************************)
(* The rangelists of one source path over a few revisions: every list over *)
(* the first of them, and some longer ones.                                *)
(***************************************************************************)
EXTENDS Rangelists

Ext == INSTANCE SequencesExt

CONSTANTS
  Upto,     \* bound: the youngest revision of the lists of which all are taken
  MaxElts,  \* bound: ranges of a line
  Forks     \* bound: ranges in the lists of a three-way merge

\* The shortest list with a meaning: its runs, in order.
Runs(m) ==
  {r \in Spans : LET kind == IF r.inh THEN 2 ELSE 1
                IN  /\ \A v \in 1..N : Covers(r, v) => m[v] = kind
                    /\ r.start > 0 => m[r.start] # kind
                    /\ r.end < N => m[r.end + 1] # kind}
ListOf(m) == Ext!SetToSortSeq(Runs(m), Before)

AllLists == {ListOf([v \in 1..N |-> IF v <= Upto THEN m[v] ELSE 0]) : m \in [1..Upto -> 0..2]}
ShortLists == {l \in AllLists : Len(l) <= Forks}
SortedLines ==
  {l \in UNION {[1..n -> {r \in Spans : r.end <= Upto}] : n \in 1..MaxElts} :
     \A i, j \in 1..Len(l) : i < j => ~Before(l[j], l[i])}

\* Revisions inherited between others, and a range over all of them.
Odd(v)  == v % 2 = 1
Whole   == ListOf([v \in 1..N |-> 1])
Mixed   == ListOf([v \in 1..N |-> IF v = 1 THEN 1 ELSE IF Odd(v) THEN 2 ELSE 0])
Further == AllLists \cup {Whole, Mixed, ListOf([v \in 1..N |-> IF v = 1 THEN 0 ELSE 1])}
================================================================================
