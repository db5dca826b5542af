----------------------------- MODULE MC_FsfsLocks ------------------------------
(* FsfsLocks on a small tree: two files, one of them deeper, two users.      *)
EXTENDS FsfsLocks, TLC

CONSTANTS u1, u2

Root == << >>
A == <<"A">>
B == <<"A", "B">>
f == <<"A", "B", "f">>
g == <<"A", "g">>

MCPaths == {Root, A, B, f, g}
MCFiles == {f, g}
MCChangeSets == {{<<f, "modify">>}, {<<A, "delete">>}, {<<A, "replace">>, <<B, "add">>, <<f, "add">>}}

Lock(q, u, steal, exp, rev) ==
  [op |-> "lock", path |-> q, user |-> u, steal |-> steal, expires |-> exp, rev |-> rev]
Unlock(q, u, brk, i) == [op |-> "unlock", path |-> q, user |-> u, break |-> brk, token |-> i]
Put(u, ids, ch)      == [op |-> "commit", user |-> u, tokens |-> ids, changes |-> ch]

\* Every kind of request: granted, refused, stolen, expiring, out of date.
MCAsked ==
  {Lock(f, u1, FALSE, TRUE, 0), Lock(f, u2, TRUE, FALSE, NoRev), Lock(g, u2, FALSE, FALSE, 1),
   Lock(g, NoUser, FALSE, FALSE, NoRev)}
  \cup {Unlock(f, u1, FALSE, i) : i \in {1, 2}} \cup {Unlock(f, NoUser, TRUE, 1), Unlock(g, u2, FALSE, 2)}
  \cup {Put(u1, {1}, ch) : ch \in MCChangeSets} \cup {Put(u2, {}, {<<A, "delete">>})}
  \cup {[op |-> "get_locks", path |-> Root, depth |-> "infinity"],
        [op |-> "get_locks", path |-> A, depth |-> "files"], [op |-> "get_lock", path |-> f]}

Symmetry == Permutations(Procs)
================================================================================
