------------------------------- MODULE MC_WcLocks -------------------------------
(* WcLocks on three directories, each in the one before.                    *)
EXTENDS WcLocks, TLC

MCDirs   == {<< >>, <<"A">>, <<"A", "B">>}
MCBase   == {<< >>}
MCLevels == {0, 1, Infinite}
Symmetry == Permutations(Procs)
================================================================================
