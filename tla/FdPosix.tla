------------------------------- MODULE FdPosix -------------------------------
(***************************************************************************)
(* What a program may expect of its descriptors, whatever the processes it *)
(* shares a Win32 process with do: a descriptor is given out at the lowest *)
(* free number and names one open file until its own process closes it; a  *)
(* child starts with its parent's descriptors, and an exec()ed program     *)
(* keeps all of them but those marked close-on-exec.                       *)
(***************************************************************************)
EXTENDS Naturals

CONSTANTS Tasks, NoTask, OPEN_MAX, Files, NoFile

VARIABLES
  stage,    \* what each process is doing
  dad,      \* the parent a child copies from
  file,     \* file[p][fd]: the open file a descriptor names
  cloexec   \* the descriptors marked close-on-exec

Fds == 0 .. OPEN_MAX - 1
Free(p) == {fd \in Fds : file[p][fd] = NoFile}

Open(p) == Fds \ Free(p)

\* Nothing changes but the descriptor fd of p.
OnlyAt(p, fd) ==
  /\ file' = [file EXCEPT ![p][fd] = file'[p][fd]]
  /\ cloexec' = [cloexec EXCEPT ![p][fd] = cloexec'[p][fd]]
  /\ UNCHANGED <<stage, dad>>

Gets(p, fd, f, c) == file'[p][fd] = f /\ cloexec'[p][fd] = c

\* open() and socket().
Give(p, fd) ==
  /\ stage[p] = "run"
  /\ fd \in Free(p) /\ \A g \in Free(p) : fd <= g
  /\ file'[p][fd] \in Files
  /\ OnlyAt(p, fd)

Pipe(p, r, w) ==
  /\ stage[p] = "run"
  /\ r \in Free(p) /\ w \in Free(p) /\ r < w
  /\ \A g \in Free(p) \ {r} : w <= g
  /\ \E fr, fw \in Files :
       file' = [file EXCEPT ![p][r] = fr, ![p][w] = fw]
  /\ UNCHANGED <<stage, dad, cloexec>>

\* dup() and fcntl(F_DUPFD), at the number its argument asks for.
Dup(p, old, fd) ==
  /\ stage[p] = "run"
  /\ old \in Open(p) /\ fd \in Free(p)
  /\ file'[p][fd] = file[p][old]
  /\ OnlyAt(p, fd)

Dup2(p, old, new) ==
  /\ stage[p] = "run"
  /\ old \in Open(p) /\ new # old
  /\ Gets(p, new, file[p][old], FALSE)
  /\ OnlyAt(p, new)

\* close(), one descriptor of a closefrom(), or of an exit.
Close(p, fd) ==
  /\ stage[p] \in {"run", "closing", "exit"}
  /\ Gets(p, fd, NoFile, FALSE)
  /\ OnlyAt(p, fd)

SetCloexec(p, fd) ==
  /\ stage[p] = "run" /\ fd \in Open(p)
  /\ file'[p][fd] = file[p][fd]
  /\ OnlyAt(p, fd)

ClosingFrom(p) ==
  /\ \/ stage[p] = "run" /\ stage' = [stage EXCEPT ![p] = "closing"]
     \/ stage[p] = "closing" /\ stage' = [stage EXCEPT ![p] = "run"]
  /\ UNCHANGED <<dad, file, cloexec>>

ForkBegin(p, c) ==
  /\ stage[p] = "run" /\ stage[c] = "none"
  /\ stage' = [stage EXCEPT ![p] = "fork", ![c] = "child"]
  /\ dad' = [dad EXCEPT ![c] = p]
  /\ UNCHANGED <<file, cloexec>>

\* The child receives one of its parent's descriptors, with its mark.
Inherit(c, fd) ==
  /\ stage[c] = "child"
  /\ Gets(c, fd, file[dad[c]][fd], cloexec[dad[c]][fd])
  /\ OnlyAt(c, fd)

ForkEnd(c) ==
  /\ stage[c] = "child"
  /\ file[c] = file[dad[c]] /\ cloexec[c] = cloexec[dad[c]]
  /\ stage' = [stage EXCEPT ![c] = "run", ![dad[c]] = "run"]
  /\ dad' = [dad EXCEPT ![c] = NoTask]
  /\ UNCHANGED <<file, cloexec>>

ExecBegin(p) ==
  /\ stage[p] = "run"
  /\ stage' = [stage EXCEPT ![p] = "exec"]
  /\ UNCHANGED <<dad, file, cloexec>>

CloseOnExec(p, fd) ==
  /\ stage[p] = "exec" /\ cloexec[p][fd]
  /\ Gets(p, fd, NoFile, FALSE)
  /\ OnlyAt(p, fd)

ExecEnd(p) ==
  /\ stage[p] = "exec" /\ \A fd \in Fds : ~cloexec[p][fd]
  /\ stage' = [stage EXCEPT ![p] = "run"]
  /\ UNCHANGED <<dad, file, cloexec>>

ExitBegin(p) ==
  /\ stage[p] = "run"
  /\ stage' = [stage EXCEPT ![p] = "exit"]
  /\ UNCHANGED <<dad, file, cloexec>>

ExitEnd(p) ==
  /\ stage[p] \in {"run", "exit"}
  /\ stage' = [stage EXCEPT ![p] = "none"]
  /\ file' = [file EXCEPT ![p] = [fd \in Fds |-> NoFile]]
  /\ cloexec' = [cloexec EXCEPT ![p] = [fd \in Fds |-> FALSE]]
  /\ UNCHANGED dad

FInit ==
  /\ file = [p \in Tasks |-> [fd \in Fds |-> NoFile]]
  /\ cloexec = [p \in Tasks |-> [fd \in Fds |-> FALSE]]
  /\ dad = [p \in Tasks |-> NoTask]
  /\ stage \in [Tasks -> {"none", "run"}]

FNext ==
  \E p \in Tasks :
    \/ \E fd \in Fds : Give(p, fd) \/ Close(p, fd) \/ SetCloexec(p, fd)
    \/ \E fd \in Fds : Inherit(p, fd) \/ CloseOnExec(p, fd)
    \/ \E x, y \in Fds : Pipe(p, x, y) \/ Dup(p, x, y) \/ Dup2(p, x, y)
    \/ \E c \in Tasks : ForkBegin(p, c)
    \/ ClosingFrom(p) \/ ForkEnd(p) \/ ExecBegin(p) \/ ExecEnd(p)
    \/ ExitBegin(p) \/ ExitEnd(p)

fvars == <<stage, dad, file, cloexec>>

FSpec == FInit /\ [][FNext]_fvars
=============================================================================
