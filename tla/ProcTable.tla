------------------------------ MODULE ProcTable ------------------------------
(***************************************************************************)
(* The process table of libposix: the array __Tasks[] that every MinC      *)
(* process maps from shared memory, without a lock.  A POSIX process is a  *)
(* slot of the table; the Win32 thread that runs it finds the slot through *)
(* thread-local storage (CURRENT).  fork() starts a thread in the caller's *)
(* Win32 process, execve() starts a new Win32 process and lets the calling *)
(* thread die, exit() marks the slot and leaves the rest to the DLL's      *)
(* detach notification, wait4() collects zombies out of the table.         *)
(*                                                                         *)
(* Steps are cut where another thread can observe or change the table      *)
(* between them: the scan for a free slot and its claim, the exit, the     *)
(* detach notification and the notification of the parent, the scan of     *)
(* wait4() and the reaping that follows it.                                *)
(***************************************************************************)
EXTENDS Naturals, Sequences

CONSTANTS
  CHILD_MAX,    \* number of slots (WIN_CHILD_MAX)
  Threads,      \* bound: Win32 threads that can exist at one time
  BootThread,   \* the thread of bsd.exe, which runs slot 0
  NoThread,     \* thread id 0
  Procs,        \* bound: Win32 processes that can exist at one time
  NoProc,       \* the process of a thread that does not exist
  ExitCodes,    \* exit codes the programs use
  Launch,       \* does Windows start programs besides the ones that exec()?
  Vfork,        \* do programs call vfork()?
  SerialForks,  \* is at most one slot being claimed at any time?
  WaitKinds,    \* the forms of wait4() programs use: subset of WaitKind
  Handlers,     \* do programs wait4() in a restarting SIGCHLD handler?
  PgidArgs      \* the argument pairs <<pid, pgid>> of setpgid()

WaitKind == {"any", "pid", "grp"}

ASSUME ProcAssumption ==
  /\ CHILD_MAX \in Nat /\ CHILD_MAX > 2
  /\ BootThread \notin Threads /\ NoThread \notin Threads
  /\ BootThread # NoThread /\ NoProc \notin Procs
  /\ ExitCodes \subseteq Nat
  /\ Launch \in BOOLEAN /\ Vfork \in BOOLEAN /\ SerialForks \in BOOLEAN
  /\ Handlers \in BOOLEAN
  /\ WaitKinds \subseteq WaitKind
  /\ PgidArgs \subseteq (0 .. CHILD_MAX - 1) \X (0 .. CHILD_MAX - 1)

Pids == 0 .. CHILD_MAX - 1
ThreadId == Threads \cup {BootThread, NoThread}
WIN_PID_INIT == 1

\* WIN_PS_*: the flags of a slot that something reads.
Flag == {"EMBRYO", "PPWAIT", "EXITING", "ZOMBIE", "NOZOMBIE"}

\* The parts of WIN_TASK the process life cycle reads; Handle is "not NULL".
Task == [Flags : SUBSET Flag, ThreadId : ThreadId, ParentId : Pids,
         GroupId : Pids, Handle : BOOLEAN, Status : Nat]

FreeTask == [Flags |-> {}, ThreadId |-> NoThread, ParentId |-> 0,
             GroupId |-> 0, Handle |-> FALSE, Status |-> 0]

\* WIN_THREAD_STRUCT; NoThread stands for a process Windows started itself.
ThreadStruct == [TaskId : Pids, ThreadId : Threads \cup {NoThread},
                 Flags : SUBSET {"PPWAIT"}]
NoStruct == [TaskId |-> 0, ThreadId |-> NoThread, Flags |-> {}]

PC == {"none",      \* no such thread
       "scan",      \* in ProcCreateTask, about to look at slot at[t]
       "claim",     \* in ProcCreateTask, saw slot at[t] free
       "run",       \* in the program
       "fork",      \* in proc_fork, waiting for WM_USER
       "wait",      \* in vfs_wait4
       "reap",      \* in WaitNoHang, saw a zombie, about to proc_close() it
       "xthread",   \* in ExitThread, before DLL_THREAD_DETACH
       "xproc",     \* in ExitProcess, before DLL_PROCESS_DETACH
       "xnotify"}   \* in the detach notification, zombie marked

VARIABLES
  tasks,   \* __Tasks[]
  pc,      \* where each thread is
  cur,     \* CURRENT: the slot in the thread's local storage
  proc,    \* the Win32 process of each thread
  arg,     \* the WIN_THREAD_STRUCT a forked thread was given
  at,      \* the scan position of ProcCreateTask
  vec,     \* the vector taskv_win() computed for wait4()
  res,     \* TaskId and Status of the WIN_RUSAGE wait4() is filling
  mail,    \* WM_USER messages of each thread: the pids they carry
  chld,    \* has the thread a CTRL_CHILD_EVENT message?
  kid,     \* history: the slot the thread's fork() under way has created, 0
           \* before that, CHILD_MAX when its scan has run off the table
  forker   \* history: the slot whose process forked the one in this slot; 0
           \* when that has exited, or when Windows started the process

vars == <<tasks, pc, cur, proc, arg, at, vec, res, mail, chld, kid, forker>>

NoRes == [TaskId |-> 0, Status |-> 0]

TypeOK ==
  /\ tasks \in [Pids -> Task]
  /\ pc \in [Threads -> PC]
  /\ cur \in [Threads -> Pids]
  /\ proc \in [Threads -> Procs \cup {NoProc}]
  /\ arg \in [Threads -> ThreadStruct]
  /\ at \in [Threads -> 0 .. CHILD_MAX]
  /\ vec \in [Threads -> SUBSET (Pids \ {0})]
  /\ res \in [Threads -> [TaskId : Pids, Status : Nat]]
  /\ mail \in [Threads -> Seq(Pids)]
  /\ chld \in [Threads -> BOOLEAN]
  /\ kid \in [Threads -> 0 .. CHILD_MAX]
  /\ forker \in [Pids -> Pids]

-----------------------------------------------------------------------------
(* Win32, as libposix uses it *)

\* PostThreadMessage() succeeds for a thread that exists.  bsd.exe sleeps in
\* waitpid(1) until the system goes down; what is posted to it stays unread.
Running(t) == t \in Threads /\ pc[t] # "none"
Alive(t) == t = BootThread \/ Running(t)

\* CreateThread/CreateProcess return a thread that does not exist yet.
Fresh == {t \in Threads : pc[t] = "none"}
FreshProcs == {q \in Procs : \A t \in Threads : proc[t] # q}

\* __ThreadCount counts the threads that have not passed proc_exit() yet.
LastThread(t) ==
  \A u \in Threads \ {t} :
     proc[u] = proc[t] => pc[u] \in {"xthread", "xproc", "xnotify"}

\* proc_exit(): where ExitThread() or ExitProcess() leaves the thread.
proc_exit(t) == IF LastThread(t) THEN "xproc" ELSE "xthread"

\* The slots of S that proc_close() has marked, and the ones WaitNoHang()
\* takes for zombies.
ReapedOrDead(S) == {s \in S : "ZOMBIE" \in tasks[s].Flags}
Reaped(S) == {s \in S : "NOZOMBIE" \in tasks[s].Flags}
Zombies(S) == {s \in S : "ZOMBIE" \in tasks[s].Flags} \ Reaped(S)

\* A thread in the program or in a system call; a process that has not exited.
Active(t) == pc[t] \in {"run", "fork", "wait", "reap"}
Runs(p) == \E t \in Threads : Active(t) /\ cur[t] = p

-----------------------------------------------------------------------------
(* fork() and vfork() *)

\* No thread is between the start of ProcCreateTask and its claim.
NoScanner == \A u \in Threads : pc[u] \notin {"scan", "claim"}

\* proc_fork_enter() and proc_fork() up to GetMessage(): a thread is created
\* in the caller's process and the caller waits for a WM_USER message.
Fork(t, flags) ==
  /\ pc[t] = "run"
  /\ SerialForks => NoScanner
  /\ \E u \in Fresh :
       /\ pc' = [pc EXCEPT ![t] = "fork", ![u] = "scan"]
       /\ proc' = [proc EXCEPT ![u] = proc[t]]
       /\ arg' = [arg EXCEPT ![u] = [TaskId |-> cur[t], ThreadId |-> t,
                                     Flags |-> flags]]
       /\ at' = [at EXCEPT ![u] = tasks[cur[t]].GroupId]
  /\ UNCHANGED <<tasks, cur, vec, res, mail, chld, kid, forker>>

\* proc_start() of a program that Windows started: ProcCreateTask(0).
Start ==
  /\ Launch
  /\ SerialForks => NoScanner
  /\ \E u \in Fresh, q \in FreshProcs :
       /\ pc' = [pc EXCEPT ![u] = "scan"]
       /\ proc' = [proc EXCEPT ![u] = q]
  /\ UNCHANGED <<tasks, cur, arg, at, vec, res, mail, chld, kid, forker>>

\* Mutant: the loop of ProcCreateTask without its bound.
ScanOverrun(u) ==
  /\ pc[u] = "scan"
  /\ IF at[u] \in Pids /\ tasks[at[u]].Flags = {}
     THEN pc' = [pc EXCEPT ![u] = "claim"] /\ UNCHANGED at
     ELSE at' = [at EXCEPT ![u] = @ + 1] /\ UNCHANGED pc
  /\ UNCHANGED <<tasks, cur, proc, arg, vec, res, mail, chld, kid, forker>>

\* One iteration of the loop of ProcCreateTask: a free slot ends the scan, a
\* reaped one is cleared and passed over.
Scan(u) ==
  /\ pc[u] = "scan"
  /\ at[u] < CHILD_MAX
  /\ IF tasks[at[u]].Flags = {}
     THEN /\ pc' = [pc EXCEPT ![u] = "claim"]
          /\ UNCHANGED <<tasks, at>>
     ELSE /\ at' = [at EXCEPT ![u] = @ + 1]
          /\ tasks' = [s \in Pids |-> IF s \in Reaped({at[u]})
                                      THEN FreeTask ELSE tasks[s]]
          /\ UNCHANGED pc
  /\ UNCHANGED <<cur, proc, arg, vec, res, mail, chld, kid, forker>>

\* The loop ran off the table: vfs_raise(CTRL_ABORT_EVENT) on a thread whose
\* CURRENT is still 0, so the default action is charged to slot 0.  The
\* thread that forked is never answered.
TableFull(u) ==
  /\ pc[u] = "scan"
  /\ at[u] = CHILD_MAX
  /\ tasks' = [tasks EXCEPT ![0].Status = 127 * 256,
                            ![0].Flags = @ \cup {"EXITING"}]
  /\ pc' = [pc EXCEPT ![u] = proc_exit(u)]
  /\ arg' = [arg EXCEPT ![u] = NoStruct]
  /\ at' = [at EXCEPT ![u] = 0]
  /\ kid' = [t \in Threads |-> IF t = arg[u].ThreadId /\ pc[t] = "fork"
                               THEN CHILD_MAX ELSE kid[t]]
  /\ UNCHANGED <<cur, proc, vec, res, mail, chld, forker>>

\* The slot that ProcCreateTask fills and proc_dup() completes.  handle: did
\* the parent store the result of CreateThread() before the child read it?
ClaimedTask(u, handle) ==
  LET old == tasks[at[u]] IN
  IF arg[u].ThreadId = NoThread
  THEN [old EXCEPT !.Flags = {"EMBRYO"}, !.ThreadId = u]
  ELSE [old EXCEPT !.Flags = {"EMBRYO"} \cup arg[u].Flags, !.ThreadId = u,
                   !.Handle = handle, !.ParentId = arg[u].TaskId,
                   !.GroupId = tasks[arg[u].TaskId].GroupId]

\* Mutant: the answer goes to the parent that called vfork().
proc_fork_leave_swapped(u) ==
  IF Running(arg[u].ThreadId) /\ "PPWAIT" \in arg[u].Flags
  THEN [mail EXCEPT ![arg[u].ThreadId] = Append(@, at[u])] ELSE mail

\* proc_fork_leave(): WM_USER to the parent, unless it called vfork().
proc_fork_leave(u) ==
  IF Running(arg[u].ThreadId) /\ "PPWAIT" \notin arg[u].Flags
  THEN [mail EXCEPT ![arg[u].ThreadId] = Append(@, at[u])] ELSE mail

\* The rest of ProcCreateTask, which does not look at the slot again; then
\* proc_dup(), copy_thread() and proc_fork_leave().
Claim(u) ==
  /\ pc[u] = "claim"
  /\ \E h \in BOOLEAN : tasks' = [tasks EXCEPT ![at[u]] = ClaimedTask(u, h)]
  /\ cur' = [cur EXCEPT ![u] = at[u]]
  /\ pc' = [pc EXCEPT ![u] = "run"]
  /\ mail' = proc_fork_leave(u)
  /\ kid' = IF arg[u].ThreadId = NoThread THEN kid
            ELSE [kid EXCEPT ![arg[u].ThreadId] = at[u]]
  /\ forker' = [forker EXCEPT
       ![at[u]] = IF arg[u].ThreadId # NoThread /\ Runs(arg[u].TaskId)
                  THEN arg[u].TaskId ELSE 0]
  /\ arg' = [arg EXCEPT ![u] = NoStruct]      \* LocalFree(Thread)
  /\ at' = [at EXCEPT ![u] = 0]
  /\ UNCHANGED <<proc, vec, res, chld>>

\* Mutant: the message is looked at and left in the queue.
ForkReturnPeek(t) ==
  /\ pc[t] = "fork"
  /\ mail[t] # <<>>
  /\ kid' = [kid EXCEPT ![t] = 0]
  /\ pc' = [pc EXCEPT ![t] = "run"]
  /\ UNCHANGED <<tasks, cur, proc, arg, at, vec, res, mail, chld, forker>>

\* GetMessage() in proc_fork() returns: any WM_USER message will do.
ForkReturn(t) ==
  /\ pc[t] = "fork"
  /\ mail[t] # <<>>
  /\ mail' = [mail EXCEPT ![t] = Tail(@)]
  /\ kid' = [kid EXCEPT ![t] = 0]
  /\ pc' = [pc EXCEPT ![t] = "run"]
  /\ UNCHANGED <<tasks, cur, proc, arg, at, vec, res, chld, forker>>

-----------------------------------------------------------------------------
(* execve() and exit() *)

\* proc_execve(): the slot moves to the first thread of a new Win32 process,
\* with a handle that is certainly valid; the caller dies in proc_exit(0)
\* without EXITING.
Exec(t) ==
  /\ pc[t] = "run"
  /\ \E u \in Fresh, q \in FreshProcs :
       /\ pc' = [pc EXCEPT ![t] = proc_exit(t), ![u] = "run"]
       /\ proc' = [proc EXCEPT ![u] = q]
       /\ cur' = [cur EXCEPT ![u] = cur[t]]
       /\ tasks' = [tasks EXCEPT ![cur[t]].ThreadId = u,
                                 ![cur[t]].Handle = TRUE]
  /\ UNCHANGED <<arg, at, vec, res, mail, chld, kid, forker>>

\* __exit(): note the status, mark the slot, leave through proc_exit().
__exit(t, code) ==
  /\ tasks' = [tasks EXCEPT ![cur[t]].Status = code * 256,
                            ![cur[t]].Flags = @ \cup {"EXITING"}]
  /\ pc' = [pc EXCEPT ![t] = proc_exit(t)]
  /\ forker' = [s \in Pids |-> IF forker[s] = cur[t] THEN 0 ELSE forker[s]]

\* bsd.exe and init exit only when the system goes down.
Exit(t, code) ==
  /\ pc[t] = "run"
  /\ cur[t] # WIN_PID_INIT
  /\ __exit(t, code)
  /\ UNCHANGED <<cur, proc, arg, at, vec, res, mail, chld, kid>>

\* proc_poll(), at the start of a system call or in the loop of vfs_wait4(),
\* finds a WM_USER message: it is CTRL_DETACH_EVENT, SIGTHR, whose default
\* action is to terminate.
PollUser(t) ==
  /\ pc[t] \in {"run", "wait"}
  /\ mail[t] # <<>>
  /\ mail' = [mail EXCEPT ![t] = Tail(@)]
  /\ vec' = [vec EXCEPT ![t] = {}]
  /\ __exit(t, 127)
  /\ UNCHANGED <<cur, proc, arg, at, res, chld, kid>>

\* proc_poll() finds CTRL_CHILD_EVENT: SIGCHLD is ignored by default.
PollChild(t) ==
  /\ pc[t] = "run"
  /\ chld[t]
  /\ chld' = [chld EXCEPT ![t] = FALSE]
  /\ UNCHANGED <<tasks, pc, cur, proc, arg, at, vec, res, mail, kid, forker>>

\* A thread that is gone takes its message queue with it.
Gone(S, newpc, newmail, newchld) ==
  /\ pc' = [t \in Threads |-> IF t \in S THEN "none" ELSE newpc[t]]
  /\ cur' = [t \in Threads |-> IF t \in S THEN 0 ELSE cur[t]]
  /\ proc' = [t \in Threads |-> IF t \in S THEN NoProc ELSE proc[t]]
  /\ mail' = [t \in Threads |-> IF t \in S THEN <<>> ELSE newmail[t]]
  /\ chld' = [t \in Threads |-> IF t \in S THEN FALSE ELSE newchld[t]]
  /\ UNCHANGED <<arg, at, vec, res, kid, forker>>

\* The thread of the slot that the slot p names as its parent (pid_win).
Dad(p) == tasks[tasks[p].ParentId].ThreadId

\* The other threads of t's Win32 process.
Mates(t) == {u \in Threads \ {t} : proc[u] = proc[t]}

\* Mutant: every thread that detaches is taken to be exiting.
ExitingAlways(p) == TRUE

Exiting(p) == "EXITING" \in tasks[p].Flags

\* posix_THREAD_DETACH() and posix_PROCESS_DETACH() up to __closefrom().  The
\* loader lock keeps one thread of a process in its notification at a time;
\* ExitProcess() destroys the threads that have not reached theirs.
Detach(t) ==
  LET p == cur[t]
      lost == (IF pc[t] = "xproc" THEN Mates(t) ELSE {})
              \cup (IF Exiting(p) THEN {} ELSE {t})
      release == pc[t] = "xthread" /\ "PPWAIT" \in tasks[p].Flags
  IN
  /\ pc[t] \in {"xthread", "xproc"}
  /\ \A u \in Mates(t) : pc[u] # "xnotify"
  /\ tasks' = IF Exiting(p) THEN [tasks EXCEPT ![p].Flags = @ \cup {"ZOMBIE"}]
              ELSE tasks
  /\ Gone(lost, [pc EXCEPT ![t] = "xnotify"],
          IF release /\ Running(Dad(p))
          THEN [mail EXCEPT ![Dad(p)] = Append(@, p)] ELSE mail,
          chld)

\* Mutant: the notification waits for a parent that takes the message.
NotifyNoOrphan(t) ==
  /\ pc[t] = "xnotify"
  /\ Running(Dad(cur[t]))
  /\ UNCHANGED tasks
  /\ Gone({t}, pc, mail, [chld EXCEPT ![Dad(cur[t])] = TRUE])

\* The rest of the notification: SIGCHLD to the parent, and proc_orphanize()
\* if no thread takes it.  The slot is read again: it may have been reaped.
\* A handle that belongs to another Win32 process cannot be closed and stays.
Notify(t) ==
  LET p == cur[t]
      rcpt == IF Alive(Dad(p)) THEN Dad(p) ELSE tasks[WIN_PID_INIT].ThreadId
  IN
  /\ pc[t] = "xnotify"
  /\ \/ Alive(Dad(p)) /\ UNCHANGED tasks
     \/ /\ ~Alive(Dad(p))
        /\ \E h \in {FALSE, tasks[p].Handle} :
             tasks' = [tasks EXCEPT ![p].ParentId = WIN_PID_INIT, ![p].Handle = h]
  /\ Gone({t}, pc, mail, IF Running(rcpt) THEN [chld EXCEPT ![rcpt] = TRUE]
                         ELSE chld)

-----------------------------------------------------------------------------
(* wait4() *)

\* Mutant: the parent is not looked at.
taskv_USED(p) == {s \in Pids \ {0} : tasks[s].Flags # {}}

taskv_ANY(p) == {s \in Pids \ {0} : tasks[s].ParentId = p}
taskv_GRP(g) == {s \in Pids \ {0} : tasks[s].GroupId = g}
taskv_PID(p) == {s \in {p} : tasks[s].Handle}

\* taskv_win(): the slots a wait4() is about.  Only "any" looks at ParentId.
taskv_win(t, kind, p) ==
  CASE kind = "any" -> taskv_ANY(cur[t])
    [] kind = "grp" -> taskv_GRP(tasks[cur[t]].GroupId)
    [] kind = "pid" -> IF p = cur[t] THEN {} ELSE taskv_PID(p)

\* sys_wait4() up to the loop of vfs_wait4(); an empty vector is ECHILD.
Wait4(t, kind, p) ==
  /\ pc[t] = "run"
  /\ vec' = [vec EXCEPT ![t] = taskv_win(t, kind, p)]
  /\ vec'[t] # {}
  /\ pc' = [pc EXCEPT ![t] = "wait"]
  /\ UNCHANGED <<tasks, cur, proc, arg, at, res, mail, chld, kid, forker>>

\* WaitNoHang() finds a zombie: the slots it passed that were reaped already
\* are cleared, TaskId and Status are noted, and proc_close() comes next.
WaitFound(t) ==
  /\ pc[t] = "wait"
  /\ \E z \in Zombies(vec[t]) :
       /\ \A s \in Zombies(vec[t]) : z <= s
       /\ tasks' = [s \in Pids |-> IF s < z /\ s \in Reaped(vec[t])
                                   THEN FreeTask ELSE tasks[s]]
       /\ res' = [res EXCEPT ![t] = [TaskId |-> z, Status |-> tasks[z].Status]]
  /\ pc' = [pc EXCEPT ![t] = "reap"]
  /\ UNCHANGED <<cur, proc, arg, at, vec, mail, chld, kid, forker>>

\* WaitNoHang() finds nothing: reaped slots are cleared.  With WNOHANG, or
\* when the handle of a slot is NULL so that WaitForMultipleObjectsEx() fails,
\* wait4() returns; otherwise it sleeps and looks again.
WaitNone(t, nohang) ==
  LET now == [s \in Pids |-> IF s \in Reaped(vec[t]) THEN FreeTask ELSE tasks[s]]
  IN
  /\ pc[t] = "wait"
  /\ Zombies(vec[t]) = {}
  /\ tasks' = now
  /\ IF nohang \/ \E s \in vec[t] : ~now[s].Handle
     THEN /\ pc' = [pc EXCEPT ![t] = "run"]
          /\ vec' = [vec EXCEPT ![t] = {}]
     ELSE UNCHANGED <<pc, vec>>
  /\ UNCHANGED <<cur, proc, arg, at, res, mail, chld, kid, forker>>

\* proc_close(): the slot loses its parent and may be reclaimed.
proc_close(s) == [tasks EXCEPT ![s].ParentId = 0,
                               ![s].Flags = @ \cup {"NOZOMBIE"}]

\* Mutant: the loop of vfs_wait4() goes on after the zombie was collected.
WaitReapOn(t) ==
  /\ pc[t] = "reap"
  /\ tasks' = proc_close(res[t].TaskId)
  /\ forker' = [forker EXCEPT ![res[t].TaskId] = 0]
  /\ pc' = [pc EXCEPT ![t] = "wait"]
  /\ UNCHANGED <<cur, proc, arg, at, vec, res, mail, chld, kid>>

\* WaitNoHang() collects the zombie and wait4() returns its pid and status.
WaitReap(t) ==
  /\ pc[t] = "reap"
  /\ tasks' = proc_close(res[t].TaskId)
  /\ forker' = [forker EXCEPT ![res[t].TaskId] = 0]
  /\ pc' = [pc EXCEPT ![t] = "run"]
  /\ vec' = [vec EXCEPT ![t] = {}]
  /\ res' = [res EXCEPT ![t] = NoRes]
  /\ UNCHANGED <<cur, proc, arg, at, mail, chld, kid>>

\* proc_poll() in vfs_wait4() takes SIGCHLD: with a handler that does not
\* restart, wait4() returns EINTR; otherwise it goes on with the same vector.
WaitPoll(t, interrupted) ==
  /\ pc[t] = "wait"
  /\ chld[t]
  /\ chld' = [chld EXCEPT ![t] = FALSE]
  /\ IF interrupted
     THEN /\ pc' = [pc EXCEPT ![t] = "run"]
          /\ vec' = [vec EXCEPT ![t] = {}]
     ELSE UNCHANGED <<pc, vec>>
  /\ UNCHANGED <<tasks, cur, proc, arg, at, res, mail, kid, forker>>

\* The same, with a restarting handler that itself collects one child with
\* wait4(WAIT_ANY, WNOHANG); the outer wait4() goes on with its old vector.
WaitRecursive(t) ==
  /\ Handlers
  /\ pc[t] = "wait"
  /\ chld[t]
  /\ chld' = [chld EXCEPT ![t] = FALSE]
  /\ \E z \in Zombies(taskv_ANY(cur[t])) :
       tasks' = proc_close(z) /\ forker' = [forker EXCEPT ![z] = 0]
  /\ UNCHANGED <<pc, vec, cur, proc, arg, at, res, mail, kid>>

-----------------------------------------------------------------------------
(* Process groups *)

\* sys_setpgid(): the target slot is taken as it is, in use or not.
SetPgid(t, pid, pgid) ==
  LET p == IF pid = 0 THEN cur[t] ELSE pid
      g == IF pgid # 0 THEN pgid
           ELSE IF tasks[p].Flags = {} THEN 0 ELSE p
  IN
  /\ pc[t] = "run"
  /\ tasks' = [tasks EXCEPT ![p].GroupId = g]
  /\ UNCHANGED <<pc, cur, proc, arg, at, vec, res, mail, chld, kid, forker>>

-----------------------------------------------------------------------------
\* The state bsd.exe reaches when it has started init and waits for it.
Init ==
  \E i \in Threads, q \in Procs :
  /\ tasks = [p \in Pids |->
       CASE p = 0 -> [FreeTask EXCEPT !.Flags = {"EMBRYO"}, !.ThreadId = BootThread]
         [] p = WIN_PID_INIT -> [FreeTask EXCEPT !.Flags = {"EMBRYO"},
                                                 !.ThreadId = i, !.Handle = TRUE]
         [] OTHER -> FreeTask]
  /\ pc = [t \in Threads |-> IF t = i THEN "run" ELSE "none"]
  /\ cur = [t \in Threads |-> IF t = i THEN WIN_PID_INIT ELSE 0]
  /\ proc = [t \in Threads |-> IF t = i THEN q ELSE NoProc]
  /\ arg = [t \in Threads |-> NoStruct]
  /\ at = [t \in Threads |-> 0]
  /\ vec = [t \in Threads |-> {}]
  /\ res = [t \in Threads |-> NoRes]
  /\ mail = [t \in Threads |-> <<>>]
  /\ chld = [t \in Threads |-> FALSE]
  /\ kid = [t \in Threads |-> 0]
  /\ forker = [p \in Pids |-> 0]

ForkFlags == IF Vfork THEN {{}, {"PPWAIT"}} ELSE {{}}

Next ==
  \/ Start
  \/ \E t \in Threads :
       \/ \E f \in ForkFlags : Fork(t, f)
       \/ Scan(t) \/ TableFull(t) \/ Claim(t) \/ ForkReturn(t)
       \/ Exec(t)
       \/ \E c \in ExitCodes : Exit(t, c)
       \/ PollUser(t) \/ PollChild(t) \/ Detach(t) \/ Notify(t)
       \/ \E k \in WaitKinds, p \in Pids \ {0} :
            (k = "pid" \/ p = 1) /\ Wait4(t, k, p)
       \/ WaitFound(t) \/ WaitReap(t) \/ WaitRecursive(t)
       \/ \E b \in BOOLEAN : WaitNone(t, b) \/ WaitPoll(t, b)
       \/ \E a \in PgidArgs : SetPgid(t, a[1], a[2])

Spec == Init /\ [][Next]_vars

\* Windows schedules every thread: one that can go on inside libposix does.
\* What a program calls, and when, is up to the program.
Fairness ==
  \A t \in Threads :
    /\ WF_vars(Scan(t) \/ TableFull(t) \/ Claim(t))
    /\ WF_vars(ForkReturn(t))
    /\ WF_vars(Detach(t) \/ Notify(t))
    /\ WF_vars(WaitFound(t) \/ WaitReap(t))

FairSpec == Spec /\ Fairness

-----------------------------------------------------------------------------
(* Properties *)

\* A thread in the program or in a system call owns the slot it finds through
\* CURRENT: the slot names this thread, is in use, and nobody has marked it as
\* exiting, dead or reclaimable.  Two threads never run the same slot.
SlotOwned ==
  \A t \in Threads : Active(t) =>
    /\ cur[t] # 0
    /\ tasks[cur[t]].ThreadId = t
    /\ "EMBRYO" \in tasks[cur[t]].Flags
    /\ tasks[cur[t]].Flags \cap {"EXITING", "ZOMBIE", "NOZOMBIE"} = {}

\* wait4() reports a child once, with the status it exited with, and never the
\* child of another process that still runs: when WaitNoHang() comes to
\* proc_close() the slot it saw is still that zombie, names the caller's slot
\* as its parent, and was forked by the caller unless its forker has exited.
ReapsNoOthersChild ==
  \A t \in Threads : pc[t] = "reap" =>
    LET s == res[t].TaskId IN
    /\ tasks[s].ParentId = cur[t]
    /\ forker[s] \in {0, cur[t]}
    /\ "ZOMBIE" \in tasks[s].Flags
    /\ "NOZOMBIE" \notin tasks[s].Flags
    /\ tasks[s].Status = res[t].Status

\* What wait4() promises and the code does not keep: a process other than init
\* collects only what it forked itself.  The children of a process that exits
\* keep its slot number as their parent, and the next process there gets them.
ReapsOwnChild ==
  \A t \in Threads :
    pc[t] = "reap" /\ cur[t] # WIN_PID_INIT => forker[res[t].TaskId] = cur[t]

\* WM_USER is sent to a thread only while it waits in proc_fork(), and carries
\* the slot of the child that this very fork() created.
ForkAnswer ==
  \A t \in Threads : mail[t] # <<>> =>
    /\ pc[t] = "fork"
    /\ mail[t] = <<kid[t]>>

\* A zombie whose notification is over can be collected: the slot it names as
\* its parent is run by a thread that is not itself on its way out.
ZombieHasParent ==
  \A s \in Zombies(Pids \ {0}) :
    \/ \E t \in Threads : cur[t] = s /\ pc[t] = "xnotify"
    \/ Runs(tasks[s].ParentId)

\* A slot marked NOZOMBIE ("ready to be reclaimed") is out of use: no thread
\* of the process it was still has to work on it.
ReapedIsQuiet ==
  \A s \in Reaped(Pids) : \A t \in Threads : pc[t] = "xnotify" => cur[t] # s

\* A slot marked EXITING becomes a zombie: until it is one, a thread is left
\* that will run its detach notification.
ExitCompletes ==
  \A s \in Pids \ {0} :
    "EXITING" \in tasks[s].Flags =>
      \/ tasks[s].Flags \cap {"ZOMBIE", "NOZOMBIE"} # {}
      \/ \E t \in Threads : cur[t] = s /\ pc[t] \in {"xthread", "xproc"}

\* fork() returns, whatever the other processes do, unless its own scan of the
\* table ran off the end: the child claims a slot and its WM_USER is not lost.
ForkReturns ==
  \A t \in Threads : pc[t] = "fork" ~> (pc[t] # "fork" \/ kid[t] = CHILD_MAX)

\* wait4() returns when one of the slots it was called for has become a
\* zombie; the thread handles in its wait set make the wake-up certain.
WaitReturns ==
  \A t \in Threads :
    (pc[t] = "wait" /\ Zombies(vec[t]) # {}) ~> pc[t] \notin {"wait", "reap"}

\* exit() ends: a thread in it dies and takes the loader lock along.
ExitEnds ==
  \A t \in Threads : pc[t] \in {"xthread", "xproc", "xnotify"} ~> pc[t] = "none"


\* The stage of a slot's process, read off its flags.
StageOf(p) ==
  LET f == tasks[p].Flags IN
  CASE f = {} -> "free"
    [] "NOZOMBIE" \in f -> "reaped"
    [] "NOZOMBIE" \notin f /\ "ZOMBIE" \in f -> "zombie"
    [] f \cap {"NOZOMBIE", "ZOMBIE"} = {} /\ "EXITING" \in f -> "exiting"
    [] OTHER -> "live"

Life == INSTANCE ProcLife WITH Ids <- Pids \ {0},
                               life <- [p \in Pids \ {0} |-> StageOf(p)]

\* Every slot but bsd.exe's goes through the stages of a process in order: an
\* id is not given out while its last process runs or waits to be collected,
\* and no process is collected before it died or twice.
ImplementsLife == Life!LSpec

=============================================================================
