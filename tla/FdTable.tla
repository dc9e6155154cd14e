------------------------------- MODULE FdTable -------------------------------
(***************************************************************************)
(* The descriptor tables of libposix.  Every slot of the process table has *)
(* an array Node[]; an entry names a Win32 handle, and a pipe or a socket  *)
(* also an event.  Handles mean something only inside one Win32 process,   *)
(* and one Win32 process runs a program together with everything it has    *)
(* forked: their Node[] arrays are separate, their handles are not.        *)
(* fork() duplicates handles within the process, execve() moves them into  *)
(* a new one, and an entry is taken to be free when its Access is 0 by     *)
(* some of the code and when its Handle is NULL by the rest.               *)
(*                                                                         *)
(* fork(), execve(), closefrom() and exit() go through Node[] one entry at *)
(* a time while the other processes run: each entry is a step here.        *)
(***************************************************************************)
EXTENDS Naturals

CONSTANTS
  Tasks,       \* bound: processes that exist at one time
  Wins,        \* bound: Win32 processes that exist at one time
  Handles,     \* bound: handle values of a Win32 process
  PipeEvent,   \* the handle of __PipeEvent, attached by every Win32 process
  NoHandle,    \* NULL
  NoTask,      \* no process
  NoWin,       \* no Win32 process
  Issue(_),    \* the values Windows may issue, out of a set of free ones
  OPEN_MAX,    \* entries of Node[]
  Paths,       \* files on disk that programs open
  NoFile,      \* what a handle that is not open refers to
  Menus,       \* the sets of system calls that programs make
  RawPipes,    \* do they execve() with descriptors that pipe() returned?
  SetClosed    \* do they fcntl() descriptors that are not open?

\* "std": open() of /dev/stdin, /dev/stdout or /dev/stderr.
Call == {"open", "std", "pipe", "socket", "dup", "dup2", "close", "closefrom",
         "setfd", "setfl", "fork", "exec"}

ASSUME FdAssumption ==
  /\ OPEN_MAX \in Nat \ {0}
  /\ NoTask \notin Tasks /\ NoWin \notin Wins
  /\ PipeEvent \in Handles /\ NoHandle \notin Handles
  /\ \A S \in SUBSET Handles : Issue(S) \subseteq S
  /\ NoFile \notin Paths \cup {"rd", "wr", "sock", "event"}
  /\ "event" \notin Paths
  /\ Menus \subseteq SUBSET Call /\ RawPipes \in BOOLEAN /\ SetClosed \in BOOLEAN

Fds == 0 .. OPEN_MAX - 1
FSType == {"disk", "pipe", "sock"}

\* What handles refer to.  Events only wake sleepers; the rest are files.
Files == Paths \cup {"rd", "wr", "sock"}
Objects == Files \cup {"event"}

\* An entry of a Win32 handle table.
Entry == [obj : Objects \cup {NoFile}, inh : BOOLEAN]
Unused == [obj |-> NoFile, inh |-> FALSE]

\* The fields of WIN_VNODE that the life of a descriptor depends on; Access
\* is "not 0", FSType "none" is FS_TYPE_UNKNOWN, Flags follow from FSType.
Vnode == [Access : BOOLEAN, Handle : Handles \cup {NoHandle},
          Event : Handles \cup {NoHandle}, CloseExec : BOOLEAN,
          FSType : FSType \cup {"none"}]
ZeroNode == [Access |-> FALSE, Handle |-> NoHandle, Event |-> NoHandle,
             CloseExec |-> FALSE, FSType |-> "none"]

PC == {"none",     \* no such process
       "run",      \* in the program
       "closing",  \* in closefrom(), about to look at Node[at]
       "fork",     \* in fork(), waiting for the child
       "child",    \* in proc_dup(), about to copy Node[at] of the parent
       "exec",     \* in proc_execve(), about to move Node[at]
       "exit"}     \* in DLL_THREAD_DETACH, about to close Node[at]

VARIABLES
  pc,     \* what each process is doing
  at,     \* the index its loop over Node[] has reached
  dad,    \* the process a child copies from
  win,    \* the Win32 process it runs in
  dst,    \* the Win32 process execve() has created
  main,   \* __Process: the slot each Win32 process was started for
  node,   \* Node[]
  ht,     \* the handle table of each Win32 process
  full,   \* history: has a call failed with EMFILE?
  calls   \* the system calls the programs make

vars == <<pc, at, dad, win, dst, main, node, ht, full, calls>>

TypeOK ==
  /\ pc \in [Tasks -> PC]
  /\ at \in [Tasks -> 0 .. OPEN_MAX]
  /\ dad \in [Tasks -> Tasks \cup {NoTask}]
  /\ win \in [Tasks -> Wins \cup {NoWin}] /\ dst \in [Tasks -> Wins \cup {NoWin}]
  /\ main \in [Wins -> Tasks \cup {NoTask}]
  /\ node \in [Tasks -> [Fds -> Vnode]]
  /\ ht \in [Wins -> [Handles -> Entry]]
  /\ full \in BOOLEAN /\ calls \in Menus

-----------------------------------------------------------------------------
(* Win32, as libposix uses it *)

Alive(t) == pc[t] # "none"
\* The Win32 processes that exist: a thread runs in them, or they wait for
\* the descriptors of the program they were created for.
Used == {win[t] : t \in Tasks} \cup {dst[t] : t \in Tasks}
Alone(t) == \A u \in Tasks \ {t} : win[u] # win[t]

IsOpen(w, h) == h \in Handles /\ ht[w][h] # Unused
FreeIn(w) == {h \in Handles \ {PipeEvent} : ~IsOpen(w, h)}
Single(w) == Issue(FreeIn(w))
Pairs(w) == UNION {{h} \X Issue(FreeIn(w) \ {h}) : h \in Single(w)}

\* CloseHandle() of the handles H, and the end of a process.
Closed(w, H) == [ht EXCEPT ![w] = [h \in Handles |-> IF h \in H THEN Unused
                                                     ELSE ht[w][h]]]

-----------------------------------------------------------------------------
(* Node[] *)

HasEvent(n) == n.FSType \in {"pipe", "sock"}

\* The values that a duplicate of n may get in process w.
NewFor(w, n) == IF HasEvent(n) THEN Pairs(w) ELSE Single(w) \X {NoHandle}

\* WSASocket() returns inheritable handles, which execve() leaves alone.
Inheritable(n) == n.FSType = "sock"

\* Mutant: the loop of fd_posix starts at the end of the table.
fd_posix_last(nodes, n, min) ==
  LET free == {fd \in Fds : fd >= min /\ ~nodes[fd].Access} IN
  [fd \in Fds |-> IF fd \in free /\ \A g \in free : fd >= g THEN n
                  ELSE nodes[fd]]

\* fd_posix(): the table with n at the first free entry from min on; without
\* one nothing is stored, and nobody closes the handles of n.
fd_posix(nodes, n, min) ==
  LET free == {fd \in Fds : fd >= min /\ ~nodes[fd].Access} IN
  [fd \in Fds |-> IF fd \in free /\ \A g \in free : fd <= g THEN n
                  ELSE nodes[fd]]

EMFILE(nodes, min) == \A fd \in Fds : fd >= min => nodes[fd].Access

\* The handles vfs_close() closes, and what becomes of the entry.
CloseSet(w, n) ==
  {h \in Handles :
     /\ IsOpen(w, h) /\ n.Handle # NoHandle
     /\ \/ n.FSType # "sock" /\ h = n.Handle
        \/ n.FSType = "sock" /\ IsOpen(w, n.Event) /\ h \in {n.Handle, n.Event}}

\* Mutant: the handle is forgotten and the rest of the entry left.
vfs_close_keep(w, n) == [n EXCEPT !.Handle = NoHandle]

vfs_close(w, n) ==
  IF \/ n.Handle = NoHandle
     \/ n.FSType # "pipe" /\ ~IsOpen(w, n.Handle)
     \/ n.FSType = "sock" /\ ~IsOpen(w, n.Event)
  THEN n ELSE ZeroNode

\* DuplicateHandle() of n's handle and then its event from process w into v,
\* with DUPLICATE_CLOSE_SOURCE if move: x is what the new handles are.
GotHandle(w, n) == n.FSType # "none" /\ IsOpen(w, n.Handle)
GotEvent(w, n) == GotHandle(w, n) /\ HasEvent(n) /\ IsOpen(w, n.Event)
DupOK(w, n) == GotHandle(w, n) /\ (HasEvent(n) => GotEvent(w, n))

Duplicated(w, v, n, move, x) ==
  [u \in Wins |-> [h \in Handles |->
     CASE u = v /\ GotHandle(w, n) /\ h = x[1] ->
            [ht[w][n.Handle] EXCEPT !.inh = Inheritable(n)]
       [] u = v /\ GotEvent(w, n) /\ h = x[2] ->
            [ht[w][n.Event] EXCEPT !.inh = Inheritable(n)]
       [] /\ u = w /\ move
          /\ \/ GotHandle(w, n) /\ h = n.Handle
             \/ GotEvent(w, n) /\ h = n.Event -> Unused
       [] OTHER -> ht[u][h]]]

DupNode(n, c, x) == [n EXCEPT !.CloseExec = c, !.Handle = x[1],
                              !.Event = IF HasEvent(n) THEN x[2] ELSE @]

-----------------------------------------------------------------------------
(* System calls on descriptors *)

\* sys_open() of a file on disk.
Open(t, f, c) ==
  /\ pc[t] = "run" /\ "open" \in calls
  /\ \E h \in Single(win[t]) :
       /\ ht' = [ht EXCEPT ![win[t]][h] = [obj |-> f, inh |-> FALSE]]
       /\ node' = [node EXCEPT ![t] = fd_posix(@,
            [Access |-> TRUE, Handle |-> h, Event |-> NoHandle,
             CloseExec |-> c, FSType |-> "disk"], 0)]
  /\ full' = (full \/ EMFILE(node[t], 0))
  /\ UNCHANGED <<pc, at, dad, win, dst, main>>

\* sys_open() of /dev/stdin, /dev/stdout, /dev/stderr: a copy of the entry k
\* of the slot this Win32 process was started for, handle and all.
OpenStd(t, k) ==
  /\ pc[t] = "run" /\ "std" \in calls /\ main[win[t]] # NoTask
  /\ node' = [node EXCEPT ![t] = fd_posix(@, node[main[win[t]]][k], 0)]
  /\ full' = (full \/ EMFILE(node[t], 0))
  /\ UNCHANGED <<pc, at, dad, win, dst, main, ht>>

\* sys_pipe(): both entries name the process-wide __PipeEvent.
PipeNode(h) == [Access |-> TRUE, Handle |-> h, Event |-> PipeEvent,
                CloseExec |-> FALSE, FSType |-> "pipe"]
Pipe(t) ==
  /\ pc[t] = "run" /\ "pipe" \in calls
  /\ \E x \in Pairs(win[t]) :
       LET one == fd_posix(node[t], PipeNode(x[1]), 0) IN
       /\ ht' = [ht EXCEPT ![win[t]][x[1]] = [obj |-> "rd", inh |-> FALSE],
                           ![win[t]][x[2]] = [obj |-> "wr", inh |-> FALSE]]
       /\ node' = [node EXCEPT ![t] = fd_posix(one, PipeNode(x[2]), 0)]
       /\ full' = (full \/ EMFILE(one, 0))
  /\ UNCHANGED <<pc, at, dad, win, dst, main>>

\* sys_socket() for the Internet domain: an event of its own.
Socket(t) ==
  /\ pc[t] = "run" /\ "socket" \in calls
  /\ \E x \in Pairs(win[t]) :
       /\ ht' = [ht EXCEPT ![win[t]][x[1]] = [obj |-> "sock", inh |-> TRUE],
                           ![win[t]][x[2]] = [obj |-> "event", inh |-> FALSE]]
       /\ node' = [node EXCEPT ![t] = fd_posix(@,
            [Access |-> TRUE, Handle |-> x[1], Event |-> x[2],
             CloseExec |-> FALSE, FSType |-> "sock"], 0)]
  /\ full' = (full \/ EMFILE(node[t], 0))
  /\ UNCHANGED <<pc, at, dad, win, dst, main>>

\* sys_dup() and fcntl(F_DUPFD).  When the event cannot be duplicated the
\* handle already is, and stays.
Dup(t, fd, c, min) ==
  LET w == win[t]
      n == node[t][fd]
  IN
  /\ pc[t] = "run" /\ "dup" \in calls
  /\ GotHandle(w, n)
  /\ \E x \in NewFor(w, n) :
       /\ ht' = Duplicated(w, w, n, FALSE, x)
       /\ node' = IF DupOK(w, n)
                  THEN [node EXCEPT ![t] = fd_posix(@, DupNode(n, c, x), min)]
                  ELSE node
  /\ full' = (full \/ (DupOK(w, n) /\ EMFILE(node[t], min)))
  /\ UNCHANGED <<pc, at, dad, win, dst, main>>

\* Mutant: what the descriptor was is not closed.
Dup2NoClose(t, old, new) ==
  LET w == win[t]
      n == node[t][old]
  IN
  /\ pc[t] = "run" /\ "dup2" \in calls /\ old # new
  /\ n.Handle # NoHandle
  /\ \E x \in NewFor(w, n) :
       /\ ht' = Duplicated(w, w, n, FALSE, x)
       /\ node' = [node EXCEPT ![t][new] = IF DupOK(w, n) THEN DupNode(n, FALSE, x)
                                           ELSE [n EXCEPT !.CloseExec = FALSE]]
  /\ UNCHANGED <<pc, at, dad, win, dst, main, full>>

\* sys_dup2(): vfs_F_DUPFD() copies the entry before it duplicates; what the
\* descriptor was is closed if that succeeds.
Dup2(t, old, new) ==
  LET w == win[t]
      n == node[t][old]
      was == node[t][new]
  IN
  /\ pc[t] = "run" /\ "dup2" \in calls /\ old # new
  /\ n.Handle # NoHandle
  /\ \E x \in NewFor(w, n) :
       LET dup == Duplicated(w, w, n, FALSE, x) IN
       IF DupOK(w, n)
       THEN /\ node' = [node EXCEPT ![t][new] = DupNode(n, FALSE, x)]
            /\ ht' = [dup EXCEPT ![w] = [h \in Handles |->
                        IF h \in CloseSet(w, was) THEN Unused ELSE @[h]]]
       ELSE /\ node' = [node EXCEPT ![t][new] = [n EXCEPT !.CloseExec = FALSE]]
            /\ ht' = dup
  /\ UNCHANGED <<pc, at, dad, win, dst, main, full>>

\* vfs_close() of one entry.
CloseNode(t, fd) ==
  /\ node' = [node EXCEPT ![t][fd] = vfs_close(win[t], @)]
  /\ ht' = Closed(win[t], CloseSet(win[t], node[t][fd]))

Close(t, fd) ==
  /\ pc[t] = "run" /\ "close" \in calls
  /\ CloseNode(t, fd)
  /\ UNCHANGED <<pc, at, dad, win, dst, main, full>>

\* fcntl(F_SETFD), FIOCLEX and FIONCLEX.
SetFd(t, fd, c) ==
  /\ pc[t] = "run" /\ "setfd" \in calls
  /\ node[t][fd].Access \/ SetClosed
  /\ node' = [node EXCEPT ![t][fd].CloseExec = c]
  /\ UNCHANGED <<pc, at, dad, win, dst, main, ht, full>>

\* fcntl(F_SETFL): Access and CloseExec come from the flags, which always
\* make Access nonzero.  A socket's handle has to be valid for that, and that
\* of a pipe to read from; a pipe may have been opened for writing here.
SetFl(t, fd, c) ==
  LET n == node[t][fd] IN
  /\ pc[t] = "run" /\ "setfl" \in calls
  /\ n.Access \/ SetClosed
  /\ n.FSType = "sock" => IsOpen(win[t], n.Handle)
  /\ node' = [node EXCEPT ![t][fd].Access = TRUE, ![t][fd].CloseExec = c]
  /\ UNCHANGED <<pc, at, dad, win, dst, main, ht, full>>

-----------------------------------------------------------------------------
(* fork() *)

\* The parent waits in proc_fork() until the child has copied the table.
Fork(t) ==
  /\ pc[t] = "run" /\ "fork" \in calls
  /\ \E c \in Tasks :
       /\ pc[c] = "none"
       /\ pc' = [pc EXCEPT ![t] = "fork", ![c] = "child"]
       /\ at' = [at EXCEPT ![c] = 0]
       /\ dad' = [dad EXCEPT ![c] = t]
       /\ win' = [win EXCEPT ![c] = win[t]]
  /\ UNCHANGED <<dst, main, node, ht, full>>

\* Mutant: the entry is copied and its handle shared with the parent.
CopyChannelShared(c) ==
  /\ pc[c] = "child" /\ at[c] < OPEN_MAX
  /\ node' = [node EXCEPT ![c][at[c]] = node[dad[c]][at[c]]]
  /\ at' = [at EXCEPT ![c] = @ + 1]
  /\ UNCHANGED <<pc, dad, win, dst, main, ht, full>>

\* One entry of ProcDupChannels(), which does not look whether it failed: the
\* entry then is a copy of the parent's, handles included.
CopyChannel(c) ==
  LET w == win[c]
      n == node[dad[c]][at[c]]
  IN
  /\ pc[c] = "child" /\ at[c] < OPEN_MAX
  /\ IF n.Access
     THEN \E x \in NewFor(w, n) :
            /\ ht' = Duplicated(w, w, n, FALSE, x)
            /\ node' = [node EXCEPT ![c][at[c]] =
                          IF DupOK(w, n) THEN DupNode(n, n.CloseExec, x) ELSE n]
     ELSE UNCHANGED <<ht, node>>
  /\ at' = [at EXCEPT ![c] = @ + 1]
  /\ UNCHANGED <<pc, dad, win, dst, main, full>>

\* proc_fork_leave(): the child runs and the parent goes on.
ForkDone(c) ==
  /\ pc[c] = "child" /\ at[c] = OPEN_MAX
  /\ pc' = [pc EXCEPT ![c] = "run", ![dad[c]] = "run"]
  /\ dad' = [dad EXCEPT ![c] = NoTask]
  /\ at' = [at EXCEPT ![c] = 0]
  /\ UNCHANGED <<win, dst, main, node, ht, full>>

-----------------------------------------------------------------------------
(* execve() and exit() *)

\* The thread of t leaves its Win32 process for v; the last one to leave
\* takes all handles along.
Leave(t, v) ==
  /\ win' = [win EXCEPT ![t] = v]
  /\ dst' = [dst EXCEPT ![t] = NoWin]
  /\ main' = [w \in Wins |-> CASE w = v -> t
                               [] w # v /\ w = win[t] /\ Alone(t) -> NoTask
                               [] OTHER -> main[w]]
  /\ ht' = IF Alone(t) THEN Closed(win[t], Handles) ELSE ht

\* CreateProcessAsUser(): the new Win32 process has its own __PipeEvent and
\* every inheritable handle of the old one, at the same value.
Exec(t) ==
  /\ pc[t] = "run" /\ "exec" \in calls
  /\ RawPipes \/ \A fd \in Fds : node[t][fd].Event # PipeEvent
  /\ \E v \in Wins \ Used :
       /\ dst' = [dst EXCEPT ![t] = v]
       /\ ht' = [ht EXCEPT ![v] = [h \in Handles |->
                   CASE h = PipeEvent -> [obj |-> "event", inh |-> FALSE]
                     [] h # PipeEvent /\ ht[win[t]][h].inh -> ht[win[t]][h]
                     [] OTHER -> Unused]]
  /\ pc' = [pc EXCEPT ![t] = "exec"]
  /\ at' = [at EXCEPT ![t] = 0]
  /\ UNCHANGED <<dad, win, main, node, full>>

\* Mutant: the handles are moved and the entry keeps the old ones.
MoveChannelStale(t) ==
  LET n == node[t][at[t]] IN
  /\ pc[t] = "exec" /\ at[t] < OPEN_MAX
  /\ \/ n.Access /\ n.CloseExec /\ CloseNode(t, at[t])
     \/ /\ n.Access /\ ~n.CloseExec /\ ~Inheritable(n)
        /\ \E x \in NewFor(dst[t], n) :
             ht' = Duplicated(win[t], dst[t], n, TRUE, x) /\ UNCHANGED node
     \/ (n.Access => ~n.CloseExec /\ Inheritable(n)) /\ UNCHANGED <<ht, node>>
  /\ at' = [at EXCEPT ![t] = @ + 1]
  /\ UNCHANGED <<pc, dad, win, dst, main, full>>

\* One entry of ProcInheritChannels(): closed if close-on-exec, left alone if
\* the new process has inherited the handle, otherwise moved there.  If the
\* move fails the entry keeps handles that mean nothing in the new process.
MoveChannel(t) ==
  LET w == win[t]
      v == dst[t]
      n == node[t][at[t]]
  IN
  /\ pc[t] = "exec" /\ at[t] < OPEN_MAX
  /\ \/ n.Access /\ n.CloseExec /\ CloseNode(t, at[t])
     \/ /\ n.Access /\ ~n.CloseExec /\ ~Inheritable(n)
        /\ \E x \in NewFor(v, n) :
             /\ ht' = Duplicated(w, v, n, TRUE, x)
             /\ node' = [node EXCEPT ![t][at[t]] =
                           IF DupOK(w, n) THEN DupNode(n, FALSE, x) ELSE n]
     \/ (n.Access => ~n.CloseExec /\ Inheritable(n)) /\ UNCHANGED <<ht, node>>
  /\ at' = [at EXCEPT ![t] = @ + 1]
  /\ UNCHANGED <<pc, dad, win, dst, main, full>>

\* The old thread dies without EXITING: nothing is closed on the way.
ExecDone(t) ==
  /\ pc[t] = "exec" /\ at[t] = OPEN_MAX
  /\ pc' = [pc EXCEPT ![t] = "run"]
  /\ at' = [at EXCEPT ![t] = 0]
  /\ Leave(t, dst[t])
  /\ UNCHANGED <<dad, node, full>>

Die(t) ==
  /\ pc' = [pc EXCEPT ![t] = "none"]
  /\ at' = [at EXCEPT ![t] = 0]
  /\ node' = [node EXCEPT ![t] = [fd \in Fds |-> ZeroNode]]
  /\ Leave(t, NoWin)
  /\ UNCHANGED <<dad, full>>

\* exit(): the last thread ends the Win32 process, any other one closes its
\* descriptors in DLL_THREAD_DETACH.  Some process, init, always stays.
Exit(t) ==
  /\ pc[t] = "run" /\ \E u \in Tasks \ {t} : pc[u] = "run"
  /\ \/ Alone(t) /\ Die(t)
     \/ /\ ~Alone(t)
        /\ pc' = [pc EXCEPT ![t] = "exit"]
        /\ at' = [at EXCEPT ![t] = 0]
        /\ UNCHANGED <<dad, win, dst, main, node, ht, full>>

CloseFrom(t, fd) ==
  /\ pc[t] = "run" /\ "closefrom" \in calls
  /\ pc' = [pc EXCEPT ![t] = "closing"]
  /\ at' = [at EXCEPT ![t] = fd]
  /\ UNCHANGED <<dad, win, dst, main, node, ht, full>>

\* Mutant: the loop of __closefrom() without its bound.
CloseNextOverrun(t) ==
  /\ pc[t] \in {"closing", "exit"}
  /\ IF at[t] \in Fds /\ node[t][at[t]].Access THEN CloseNode(t, at[t])
     ELSE UNCHANGED <<node, ht>>
  /\ at' = [at EXCEPT ![t] = @ + 1]
  /\ UNCHANGED <<pc, dad, win, dst, main, full>>

\* One entry of __closefrom().
CloseNext(t) ==
  /\ pc[t] \in {"closing", "exit"} /\ at[t] < OPEN_MAX
  /\ IF node[t][at[t]].Access THEN CloseNode(t, at[t]) ELSE UNCHANGED <<node, ht>>
  /\ at' = [at EXCEPT ![t] = @ + 1]
  /\ UNCHANGED <<pc, dad, win, dst, main, full>>

CloseDone(t) ==
  /\ pc[t] \in {"closing", "exit"} /\ at[t] = OPEN_MAX
  /\ \/ pc[t] = "exit" /\ Die(t)
     \/ /\ pc[t] = "closing"
        /\ pc' = [pc EXCEPT ![t] = "run"]
        /\ at' = [at EXCEPT ![t] = 0]
        /\ UNCHANGED <<dad, win, dst, main, node, ht, full>>

-----------------------------------------------------------------------------
\* One program, started in a Win32 process of its own.
Init ==
  \E t \in Tasks, w \in Wins :
  /\ pc = [u \in Tasks |-> IF u = t THEN "run" ELSE "none"]
  /\ at = [u \in Tasks |-> 0]
  /\ dad = [u \in Tasks |-> NoTask]
  /\ win = [u \in Tasks |-> IF u = t THEN w ELSE NoWin]
  /\ dst = [u \in Tasks |-> NoWin]
  /\ main = [v \in Wins |-> IF v = w THEN t ELSE NoTask]
  /\ node = [u \in Tasks |-> [fd \in Fds |-> ZeroNode]]
  /\ ht = [v \in Wins |-> [h \in Handles |->
             IF v = w /\ h = PipeEvent THEN [obj |-> "event", inh |-> FALSE]
             ELSE Unused]]
  /\ full = FALSE
  /\ calls \in Menus

Step ==
  \E t \in Tasks :
    \/ \E f \in Paths, c \in BOOLEAN : Open(t, f, c)
    \/ \E k \in Fds : OpenStd(t, k)
    \/ Pipe(t) \/ Socket(t)
    \/ \E fd, min \in Fds, c \in BOOLEAN : Dup(t, fd, c, min)
    \/ \E old, new \in Fds : Dup2(t, old, new)
    \/ \E fd \in Fds : Close(t, fd) \/ CloseFrom(t, fd)
    \/ \E fd \in Fds, c \in BOOLEAN : SetFd(t, fd, c) \/ SetFl(t, fd, c)
    \/ Fork(t) \/ CopyChannel(t) \/ ForkDone(t)
    \/ Exec(t) \/ MoveChannel(t) \/ ExecDone(t)
    \/ Exit(t) \/ CloseNext(t) \/ CloseDone(t)

Next == Step /\ UNCHANGED calls

Spec == Init /\ [][Next]_vars

-----------------------------------------------------------------------------
(* Properties *)

\* The Win32 process in which the handles of a descriptor are meant: execve()
\* has moved the entries it has passed.
Where(t, fd) == IF pc[t] = "exec" /\ fd < at[t] THEN dst[t] ELSE win[t]

Descriptors == {d \in Tasks \X Fds : Alive(d[1]) /\ node[d[1]][d[2]].Access}
HandlesOf(d) == {node[d[1]][d[2]].Handle, node[d[1]][d[2]].Event}
                \ {NoHandle, PipeEvent}

\* The two ways libposix tells a free entry apart agree: Access is 0 (open,
\* fork, execve, closefrom) exactly when Handle is NULL (close, dup2).
InUse ==
  \A t \in Tasks, fd \in Fds :
    Alive(t) => (node[t][fd].Access <=> node[t][fd].Handle # NoHandle)

\* Unless they open /dev/stdin, no two descriptors of the processes that share
\* a Win32 process share a handle or an event of their own: none of them can
\* close another's.
Isolated ==
  "std" \notin calls => \A d, e \in Descriptors :
    d # e /\ Where(d[1], d[2]) = Where(e[1], e[2])
      => HandlesOf(d) \cap HandlesOf(e) = {}

\* A descriptor can be used: its handle is open where its process runs, and
\* so is the event that poll() and read() of a pipe or socket sleep on.
Usable ==
  "std" \notin calls => \A d \in Descriptors :
    LET n == node[d[1]][d[2]]
        w == Where(d[1], d[2])
    IN
    /\ IsOpen(w, n.Handle) /\ ht[w][n.Handle].obj \in Files
    /\ HasEvent(n) => IsOpen(w, n.Event) /\ ht[w][n.Event].obj = "event"

\* A file, pipe or socket is open only as long as a descriptor names it (a
\* reader of a pipe sees its end, a peer its disconnection), unless some call
\* has failed with EMFILE after it had created the handle.
Referenced ==
  "std" \notin calls => \A w \in Wins, h \in Handles :
    ht[w][h].obj \in Files =>
      \/ full
      \/ \E d \in Descriptors :
           Where(d[1], d[2]) = w /\ node[d[1]][d[2]].Handle = h

Posix == INSTANCE FdPosix WITH
  stage <- pc,
  file <- [t \in Tasks |-> [fd \in Fds |->
             IF node[t][fd].Access /\ node[t][fd].Handle # NoHandle
             THEN ht[Where(t, fd)][node[t][fd].Handle].obj ELSE NoFile]],
  cloexec <- [t \in Tasks |-> [fd \in Fds |->
                node[t][fd].Access /\ node[t][fd].CloseExec]]

\* The descriptors of every process behave as FdPosix says, whatever the
\* processes it shares handles with do.
ImplementsPosix == Posix!FSpec

\* So do those of programs that leave /dev/stdin, whose entry is a copy of
\* another's with its handle, alone.
ActsPosix == [][("std" \notin calls) => Posix!FNext]_(Posix!fvars)

=============================================================================
