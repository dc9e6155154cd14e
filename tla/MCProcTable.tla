---------------------------- MODULE MCProcTable ----------------------------
(* Instances of ProcTable for TLC. *)
EXTENDS ProcTable, TLC

\* Threads that do not exist yet, and processes, are interchangeable.
Symmetry == Permutations(Threads) \cup Permutations(Procs)

\* setpgid(0, 0), and setpgid(2, 1) whatever slot 2 is by then.
SomePgids == {<<0, 0>>, <<2, 1>>}
=============================================================================
