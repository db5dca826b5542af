---------------------------- MODULE MC_FsfsCommit ----------------------------
(* FsfsCommit for TLC: processes and paths are interchangeable. *)
EXTENDS FsfsCommit, TLC

Symmetry == Permutations(Procs) \cup Permutations(Paths)
==============================================================================
