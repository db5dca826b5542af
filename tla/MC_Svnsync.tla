------------------------------- MODULE MC_Svnsync -------------------------------
(* Svnsync with a log message and an author, or neither.                    *)
EXTENDS Svnsync, TLC

MCFirst  == [log |-> 1, author |-> 1]
MCLists  == {MCFirst, [log |-> Absent, author |-> Absent]}
MCRanges == {<<1, 0>>}

Symmetry == Permutations(Procs)
================================================================================
