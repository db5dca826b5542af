------------------------------ MODULE MC_FsfsPack ------------------------------
(* FsfsPack on small instances.  Processes are interchangeable.              *)
EXTENDS FsfsPack, TLC

Symmetry == Permutations(Procs)
================================================================================
