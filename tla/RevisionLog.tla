------------------------------ MODULE RevisionLog ------------------------------
(***************************************************************************)
(* What a Subversion filesystem promises about its history: revisions are  *)
(* numbered 0, 1, 2, ..., a revision never changes once it exists, a new   *)
(* one is only ever appended after the youngest, and a transaction becomes *)
(* at most one revision.  How the files under db/ achieve this is the      *)
(* business of FsfsCommit, which implements this specification.            *)
(***************************************************************************)
EXTENDS Naturals

CONSTANTS
  Txns,     \* transaction names
  Trees     \* directory trees a revision may hold

VARIABLES
  youngest, \* number of the youngest revision
  author,   \* author[r]: the transaction that became revision r
  tree      \* tree[r]: the tree of revision r

vars == <<youngest, author, tree>>

Init ==
  /\ youngest = 0
  /\ author \in [{0} -> {0}]
  /\ tree \in [{0} -> Trees]

\* Transaction t becomes the next revision, whose tree is new.
Commit(t, new) ==
  /\ \A r \in 0..youngest : author[r] # t
  /\ youngest' = youngest + 1
  /\ author' = [r \in 0..youngest + 1 |-> IF r = youngest + 1 THEN t ELSE author[r]]
  /\ tree' = [r \in 0..youngest + 1 |-> IF r = youngest + 1 THEN new ELSE tree[r]]

Next == \E t \in Txns, new \in Trees : Commit(t, new)

Spec == Init /\ [][Next]_vars
================================================================================
