---------------------------- MODULE MC_FsfsRevprops ----------------------------
(* FsfsRevprops on small instances.  Processes with the cache are            *)
(* interchangeable.                                                          *)
EXTENDS FsfsRevprops, TLC

\* A change that fits, one that splits the pack file in two, one in three.
MCChanges == {<<1, 1>>, <<1, 4>>, <<3, 9>>}

Symmetry == Permutations(Cached)
================================================================================
