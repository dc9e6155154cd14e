---------------------------- MODULE MCFileLocks ----------------------------
(* Instances of FileLocks for TLC. *)
EXTENDS FileLocks

\* Programs that lock the whole file, as ksh does with its history, and wait;
\* that do not wait, and copy the descriptor or open the file twice; that lock
\* one range and wait, or several and do not; that fork and execute between.
McMenus == {{"flock", "wait"}, {"flock", "dup"}, {"flock", "reopen"},
            {"fcntl", "wait", "single", "apart"}, {"fcntl", "apart"},
            {"fcntl", "fork", "exec", "clean", "apart"}}
McRanges == {<<0, 1>>, <<1, 1>>, <<0, 2>>}
McWhole == {<<0, 2>>}
McToEnd == {<<0, 0>>, <<1, 0>>}
=============================================================================
