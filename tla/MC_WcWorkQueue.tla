---------------------------- MODULE MC_WcWorkQueue -----------------------------
(* WcWorkQueue with commands and files that are interchangeable.             *)
EXTENDS WcWorkQueue, TLC

Symmetry == Permutations(Procs) \cup Permutations(Files)
================================================================================
