# A verification of MinC's libposix

MinC runs OpenBSD programs on Windows.  Its core is `libposix` (src/libposix), a
DLL that every MinC program loads: `sys/` decodes the OpenBSD system calls, `vfs/`
implements them on Win32, `win/` wraps Win32 itself.  There is no kernel process.
What a kernel would keep in its memory (the process table, the devices, the
terminals, the mount table) lies in shared memory that every program maps and
changes directly, without a lock; what a kernel would do when a process dies is
done by the DLL's detach notification of the dying thread.  The properties that
make such a system right are about several actors at once, and that is what this
project states, checks with TLC and, for the process table, descriptors, signals, pipes,
file locks and sessions, proves with TLAPS.

Paths below are relative to `src/libposix/` unless they begin with `src/`.

## 1. Inventory

State that all processes share (`src/include/vfs_types.h` 655-665): `__Tasks[80]`,
`__Devices`, `__Terminals`, `__Strings`, `__Mounts`, `__Globals`; and three
auto-reset events with one name for the whole session, `__Interrupt`, `__PipeEvent`
and `__MailEvent` (`vfs/vfs.c` 163-165).  Nothing else synchronises the processes
but the message queue each Win32 thread has.

A POSIX process is a slot of `__Tasks[]`.  fork() starts a *thread* in the caller's
Win32 process and copies the stack; execve() creates a new Win32 process for the
slot and lets the old thread end; so one Win32 process runs a program together with
everything it has forked, and these share handles and `__ThreadCount` though not
descriptors.  A signal is a message posted to the thread of the slot.

| component | state | operations | what is hard | what makes it right |
|---|---|---|---|---|
| process table: `vfs/process/`, `sys/wait.c`, `vfs/vfs_wait.c`, `libposix.c` | `__Tasks[]`: Flags, ThreadId, Handle, ParentId, GroupId, Status; `__ThreadCount` | fork, vfork, execve, exit, detach notifications, wait4, setpgid | slots are claimed without a lock; exit, notification and collection race; slots are reused at once | a slot belongs to one process from fork to wait4; wait4 reports a child once, with its status, and never a child of another living process |
| descriptors: `sys/vnode.c`, `sys/fcntl.c`, `sys/unistd.c`, `vfs/*_fcntl.c`, `vfs/*_unistd.c` | `Node[]` of each slot; the handle table of each Win32 process | open, pipe, socket, dup, dup2, close, closefrom, fcntl, and the loops of fork, execve and exit | two tests for "free"; handles shared inside a Win32 process; entries moved one by one while others run; failed duplications are ignored | POSIX descriptors: lowest free, copied by fork, kept by execve, closed by exit; nobody closes another's handle |
| signals: `sys/signal.c`, `vfs/vfs_signal.c`, `vfs/process/process_poll.c` | message queues, `Action[]`, `ProcMask`, `Status` | kill, killpg, sigaction, sigprocmask, sigsuspend, proc_poll, handlers, default actions | handlers run on top of the call that polled and make calls themselves; delivery only at polls | the signal sent is the one raised; a sleeper notices it; the mask comes back |
| `__Interrupt` and sleeping calls: `vfs/vfs_event.c`, `vfs/vfs_poll.c`, `vfs/vfs_time.c` | one event, interval timers | SetEvent in kill, waits in poll, wait4 and read, APCs of timers | auto-reset, shared by all processes; counts to one | no lost wake-up |
| poll and select: `vfs/vfs_poll.c`, `sys/poll.c`, `sys/select.c` | per call only | scan, sleep, rescan | readiness between scan and sleep; at most 64 objects | a ready descriptor ends the call |
| pipes, FIFOs, local sockets: `vfs/pipe/` | Win32 pipes, `__PipeEvent` | read, write, connect, accept | one event for all pipes of the session | no reader sleeps on data |
| terminals and sessions: `vfs/vfs_tty.c`, `vfs/pdo/pdo_termio.c`, `vfs/vfs_termio.c` | `__Terminals[]`, `__CTTY`, CONTROLT | setsid, TIOCSCTTY, TIOCSPGRP, revoke | leader exits while others use the terminal | one session per terminal |
| credentials: `sys/unistd.c`, `win/win_capability.c` | Real/Saved ids, thread token | set*id, fork, execve | ids and token change in separate steps that can fail | ids and token agree |
| mounts and lookup: `sys/mount.c`, `vfs/vfs_mount.c`, `vfs/vfs_namei.c` | `__Mounts[]`, `__Strings` | mount, unmount, lookup | table changed while others look names up | a name resolves in one mount |
| devices: `vfs/vfs_device.c`, `vfs/pdo/` | `__Devices[]` | attach, open, close | slots claimed without a lock | one device per slot |
| file locks: `sys/fcntl.c`, `vfs/vfs_fcntl.c`, `vfs/disk/file/file_fcntl.c` | LockFileEx regions | F_SETLK, F_SETLKW, flock | owner is the Win32 process, which several POSIX processes share | exclusion between processes |
| access control lists: `vfs/vfs_acl.c`, `vfs/disk/disk_stat.c`, `vfs/disk/disk_unistd.c` | the security descriptor of each file, in NTFS | creation, chmod, chown, stat | nothing says which entry is the owner's, the group's or the others': each call guesses, from what the calls before it have written | stat tells what was asked for; a stranger gets no more than the others |
| sockets, mailslots, console, sysctl, ktrace, memory, files, registry views, system call entry, reboot, userland | Windows', or none | | | see section 8 |

`PROJECT.json` lists every component with its sources, and under `hazards` what in
this code is hard to test, each at its line, with the properties aimed at it.

## 2. Plan

The order is that of importance: everything else in libposix runs inside a slot of
the process table, and everything a program does goes through its descriptors.

| step | modules | state |
|---|---|---|
| 1 | `ProcLife` (abstract), `ProcTable`, `MCProcTable`, `ProcTable_proofs`, `ProcFork_proofs` | done; to add: wait4(WUNTRACED) with its early report, the split of execve |
| 2 | `FdPosix` (abstract), `FdTable`, `MCFdTable`, `FdTable_proofs` | done |
| 3 | `Signals`, `MCSignals`, `Signals_proofs` | done; to add: dispositions over fork |
| 4 | `Pipes`, `MCPipes`, `Pipes_proofs`: scan, sleep, rescan on events that pipes share | done |
| 5 | `Sessions`, `MCSessions`, `Sessions_proofs`: logins, controlling terminals, job control, with the slots of devices, terminals and tasks they take | done; to add: terminal modes |
| 6 | `AdvisoryLocks` (abstract), `FileLocks`, `MCFileLocks`, `FileLocks_proofs` | done |
| 7 | `Inodes` (abstract), `AclMode`, `MCAclMode` | done for local disks |
| 8 | `Creds`: set*id and the token over fork and execve | open |
| 9 | `Mounts`: the unlocked mount table; lookup as a pure operator against a reference definition | open |

## 3. Modules and the code

`PROJECT.json` maps each definition to the lines it stands for.  Here is the idea
of each module.

### ProcTable, ProcLife

`tasks` is `__Tasks[]` with the fields the life of a process depends on; `pc`, `cur`,
`proc` say where each Win32 thread is, which slot it finds through CURRENT and in
which Win32 process it runs; `arg`, `at`, `vec`, `res` are the locals of fork,
ProcCreateTask and wait4 that survive from one step to the next; `mail` and `chld`
are the WM_USER and CTRL_CHILD_EVENT messages of a thread.  `kid` and `forker` are
history variables: the child of the fork a thread waits in, with `CHILD_MAX` for a child
whose own scan ran off the table, and the slot of the process that forked the one in each
slot, 0 once that has exited or when Windows started it.  `ParentId` is a slot number, so
it cannot tell a parent from the next process in its slot; `forker` can.  Steps are cut where another thread can observe or change the table:

- fork is `Fork` (CreateThread, then wait), `Scan` per slot, `Claim` (fill the slot,
  proc_dup, answer) in the child and `ForkReturn` in the parent; `TableFull` is the
  scan that runs off the table; `Start` is a program Windows starts itself.
- execve is `Exec`; exit is `Exit`, `Detach` (the notification marks the zombie and
  releases a vfork parent) and `Notify` (SIGCHLD, or proc_orphanize).  ExitProcess
  destroys the other threads of the process; the loader lock serialises `Detach`
  and `Notify` within it.
- wait4 is `Wait4` (taskv_win), `WaitFound` / `WaitNone` (WaitNoHang), `WaitReap`
  (proc_close), `WaitPoll` and `WaitRecursive` (signals taken while it sleeps).
- `PollUser`, `PollChild` are proc_poll at the start of a system call, `PollUser` also in
  the loop of wait4; `SetPgid`.

The initial state is the one bsd.exe (src/openbsd/sbin/bsd.c) leaves: slot 0 its
own, slot 1 init.  Win32 threads, processes, messages and the loader lock are
modelled from how libposix uses them.

`ProcLife` is the promise to a user of pids: free, live, exiting, zombie, reaped,
free again, in this order and never otherwise.  `ProcTable` maps the flags of a slot
to the stage (`StageOf`) and `ImplementsLife` says it implements it.

### FdTable, FdPosix

`node` is `Node[]` of each process, `ht` the handle table of each Win32 process,
`win`, `dst`, `main` who runs where; `pc` and `at` are the loops over `Node[]`.
Each iteration of the loops in fork (`CopyChannel`), execve (`MoveChannel`), exit and
closefrom (`CloseNext`) is a step, between which the other processes open, close and
fork.  `Access` and `Handle` are separate fields because some code takes an entry
with Access 0 for free and some an entry with Handle NULL; `Event` because pipes
share `__PipeEvent` and sockets have an event of their own.  Handle values are given
out by the constant `Issue`, so that reuse at once is among the behaviours.
A duplication of a handle that is not open fails, and the code's ways of ignoring
that are modelled.

`FdPosix` is what a program may expect: a partial map from descriptors to files with
close-on-exec marks, changed by its own calls only.  `ImplementsPosix` reads it off
`node` and `ht`.

### Signals

`stack` is what each process is in the middle of, innermost first: a handler on top
of the sigsuspend() that took the message on top of the handler before, and so on.
`Raise` is sigproc_posix with sigproc_default: it pushes a handler frame, stops,
terminates or lets the call go on; `Resumed` says what becomes of the call below
when the handler returns.  Messages are taken in `Poll` (syscall_enter),
`WakeInterrupt`, `WakeOther`, `WakeTimer` (after a sleep) and `GetMessage`
(sigsuspend, and the stop of sigproc_default).  `interrupt` is the one event;
`Post` sets it, and whoever wakes, or enters a system call with a timer, resets it.
kill() of a group is a loop (`SendNext`) between whose steps the others run.
Signals carry the numbers of OpenBSD and go through both tables of `sys/signal.c`.
A sleep is poll(), the read of a local socket or wait4(WUNTRACED); what it is for is
abstracted to `Ready`.  With SIG_ERR, Status also gets the errno of the last failed
call; the model stores 0 for it.

### Pipes

`buf` counts the data each end can read, `holders` the processes that have a handle
of it, `link` is the state of a named pipe, `event` the set of signalled events.
poll() and select() are a loop over their descriptors (`pc` "scan"), which may stop
to disconnect a broken pipe ("disc") or to connect a listener ("conn"), then one wait
("sleep") and the loop again; write() is two steps, the data and the event, with a
reset in front when the pipe was full; close() and exit() close the handle first and
set the event then.  Read, write, close, connect and exit of others come between any
two of these.  The difference between the ends is a matter of `EventOf`: all pipes of
the session share `__PipeEvent`, the two ends of a socketpair share one.

### Sessions

`task`, `tty`, `device` are `__Tasks`, `__Terminals` and `__Devices` with the fields
that say whose terminal is whose; `image` is what a Win32 process knows, `__Process` and
`__CTTY`, set once.  `pc` is where a program is: bsd.exe's login (fork, setsid, open of
/dev/ptm in `FindUnit` and `FindTerm`, TIOCSCTTY, execve of ksh), ksh's job control
(`Fork`, `Front`, `JobExec`, `Gone`, `Reap`, `Back`) and exit, with the revoke in it.
ksh and bsd.exe are modelled as the programs that call libposix in this order;
`Scene` lets in what a user has to time well: two logins at once, an execve that
fails.  A Ctrl-C is a `press` that the handler's thread of each Win32 process of the
window takes some time later.

### FileLocks, AdvisoryLocks

`lock` is what Windows has locked, by file object and Win32 process; `node` has the two
sums by which an entry of `Node[]` remembers its locks, modulo `Word`; `told` is history:
what the results of its calls allow a holder to believe.  Taking a lock is
UnlockFileEx (`file_F_SETLK`) and LockFileEx (`LockFileEx`), with a wait between
request and grant (`Granted`); fork, execve, dup and close change who shares an object.
`AdvisoryLocks` is what fcntl and flock promise, and `told` is to follow it.

### AclMode, Inodes

`sd` is the security descriptor of each object and `op` the call each user is in, with
the descriptor it has read.  Entries are records with what `AclOwnerType` tests: the
rights beside read, write and execute as one of four levels, whether the entry allows
and whether it is for children only.  `Types` is the loop each function makes over a
list, from its end.  `Inodes` knows permissions, owner and group only, and what a call
that succeeds leaves; `ImplementsInodes` reads them off the descriptors as stat() does.
A file made in a directory that is no user's is the directory's owner's, not its
creator's: vfs_acl_create() replaces an owner of this machine only (`vfs/vfs_acl.c:205`),
and `Inodes` says so.  An entry beside those of the three roles, such as that of a second
user with whom Windows' tools have shared a folder, is handed down to all that is made
below with the mask it has, and chmod() passes it over (`vfs/vfs_acl.c:213`).  `KeepsOut`
allows what these entries of `Top`'s list give (`Granting`) and nothing else; that a mode
is all there is to a file's permissions, `ModeIsAll`, does not hold there (section 7).

## 4. Runs and what they show

Deadlock is checked except where stated.  Times are with two workers.

| run | instance | checks | shows |
|---|---|---|---|
| `proc_vfork` | `ProcVfork.cfg`: 4 slots, 3 threads, vfork, claims one at a time | `TypeOK`, `SlotOwned`, `ReapsNoOthersChild`, `ImplementsLife` | every running slot has its one thread, wait4 collects the zombie it saw and not the child of another process that runs, and pids go through the life cycle in order (1.8 million states, 3 min) |
| `proc_free` | `ProcFree.cfg`: 3 slots, overlapping forks, programs Windows starts, all forms of wait4, wait4 in handlers, setpgid | `ForkAnswer` | without vfork a WM_USER always reaches the fork that waits for it, with its own child |
| `proc_live` | `ProcLive.cfg`: 4 slots, of which forks give away two, 3 threads of one Win32 process (no execve), fair | `ForkReturns`, `WaitReturns`, `ExitEnds` | fork returns unless that fork itself found the table full, also after others did and slots were collected and given away again; wait4 returns when a child is a zombie, exit ends |
| `proc_overlap` | `ProcOverlap.cfg`: overlapping claims | `SlotOwned` (violated) | finding: two forks take the same slot |
| `fd_calls` | `FdCalls.cfg`: 2 processes, 2 descriptors each, 3 Win32 processes; six menus of calls on files, pipes, sockets and /dev/stdin | `TypeOK`, `Isolated`, `Usable`, `Referenced`, `InUse`, `ActsPosix` | with fork, execve and exit interleaved the descriptors are those of POSIX: nobody loses or keeps another's handle, sockets keep their events, both tests for a free entry agree (125,000 states, 2 min) |
| `sig_mask` | `SigMask.cfg`: shell and job, three signals | `TypeOK`, `MaskRestored`, `SignalArrives` | however suspensions, stops, handlers and their calls nest, the program's mask comes back; signals arrive as themselves |
| `sig_sleep` | `SigSleep.cfg`: one sleeper, with a timer; fair | `SignalWakes` | a sleeper that is alone, and that every signal it gets interrupts, notices all of them |
| `sig_stop` | `SigStop.cfg`: one shell in wait4(WUNTRACED); fair | `StopIsTold` | the shell hears of a job that stops |
| `pipe_poll` | `PipePoll.cfg`: one process polls a pipe and a socketpair, or a named socket, two others write and close; fair | `TypeOK`, `PollTrue`, `ReadHonest`, `EndIsFinal`, `KeptUntilRead`, `ReadyEnds` | what poll says holds when the program acts on it, read takes what it returns, nothing is discarded, and no one sleeps on data |
| `sess_login` | `SessLogin.cfg`: two logins, jobs, subshells and shells, one Ctrl-C | `TypeOK`, `Exclusive`, `GroupsApart`, `OwnForeground`, `RevokesOwn`, `HitOwn` | a session has its terminal to itself, changes that one's foreground group and gives back that one, and a Ctrl-C strikes in it (367,000 states) |
| `lock_share` | `LockShare.cfg`: two processes that lock a file of two bytes, with programs that keep to what the code supports; fair | `TypeOK`, `Backed`, `Known`, `GetLkTrue`, `ActsPosix`, `Served` | what a program was told it has is locked and nobody else was told so, no lock is left behind, waiting ends (47,000 states) |
| `acl_files` | `AclFiles.cfg`: two users and root, a directory and a file in it, below four kinds of Windows' directories, two of them shared with a second user | `TypeOK`, `KeepsOut`, `ImplementsInodes` | through any chain of mkdir, create, chmod and chown stat tells what was asked for, and strangers get no more than the others, save what Windows' own list gives a further user (269,000 states, 3.5 min) |

Each property of a passing run has a mutant of the code (`PROJECT.json`, `mutants`)
under which the run finds it violated.

### Bounds, and why they are enough

- `CHILD_MAX` 3 or 4, `Threads` 3 or 4: init, a child and a grandchild, or two
  children; slots are reused and the table fills up, which makes `TableFull` happen.
  Two threads are needed for every race in the code, and a third to be harmed.
  In `ProcLive.cfg` two children can live at once beside init, so that forks after the
  first, and forks into collected slots, find a free slot and have to return.
- `Procs` (Win32 processes): as many as threads, so that execve is never short.  In
  `ProcLive.cfg` there is one: the waits it is about do not depend on execve, which only
  releases a vfork parent.
- `ExitCodes` {1}: a status differs from 0, the value of a cleared slot.
- `OPEN_MAX` 2, two processes, `Handles` 5 to 10 values of which one is
  `__PipeEvent`: both descriptors of a pipe, a dup2 onto an open descriptor, a full
  table, fork and execve with both in use.  `Issue <- Lowest` makes Windows give out
  the lowest free value, which is the case in which a stale entry hits a new object.
- `NoLeaks`, `FewLeaks` (constraints): handles without a descriptor do not come back,
  so a state after a leak adds only a smaller handle table.  `Referenced` is evaluated
  on the leaking state itself.
- `Menus` (descriptors, locks): a program makes the calls of one menu.  A menu holds
  the calls whose interleaving matters; all of them together would multiply without a
  new pair.
- `Cap` 1 unit: a pipe is empty or full.  Three processes: a reader, a writer, and one
  more who holds the writer's end or takes the event.
- `MaxTask` 4, `MaxUnit`, `MaxTerm` 2, `Starts` 2, `Forks` 2: two sessions, one of which
  boots, and two processes of jobs; slots of tasks, ptys and terminals are used again.
- `MaxByte` 1, `Word` 3: ranges that overlap, touch and contain each other, and sums
  that wrap.  Two processes: with three, readers that come and go can keep a writer
  waiting for ever, which is Windows' affair.
- `Objects` a directory and a file, `MaxCalls` 2: the file's list is derived from one
  that was itself derived, and another call comes between reading and writing.
- `MaxSent` 1 to 3 signals, timers' included; the queues and the nesting are bounded by
  it.  Two signals are needed to nest, or to meet in one queue.
- Symmetry: `Threads`, `Procs`, `Tasks`, `Wins` and `Paths` are sets of model values
  that no constant tells apart.  It is used with invariants and with the action
  properties of a refinement, never under fairness.

Deadlock is not checked where the system may stop: a full table leaves the forking
thread waiting for good (`ProcVfork`, `ProcLive`, `ProcOverlap`), and all processes may
wait for a signal that nobody sends (`Sig*.cfg`), or have exited (`Pipe*.cfg`,
`Sess*.cfg`).

### Restrictions of the passing runs

They are constants, not hidden in the model, and the configurations of section 7 show
what happens without them: `SerialForks` (at most one slot is being claimed),
`WaitKinds` {"any"}, `Handlers` FALSE, `Vfork` FALSE for `ForkAnswer`, `RawPipes` FALSE,
`SetClosed` FALSE; in `SigSleep.cfg` one element in `Sleepers`, no `ign`/`restart`
dispositions, and no child, whose SIGCHLD would be ignored; `FullWrites` FALSE and one
reader in `PipePoll.cfg`; `Scene` {} and no pipelines or background shells in
`SessLogin.cfg`; the words "single", "apart", "clean" in the menus of `LockShare.cfg`
(a process has one lock at a time, unlocks the ranges it locked, and forks and
executes without a lock); `Serial` in `AclFiles.cfg` (one call at a time on an object).

## 5. Fairness

`ProcTable`: Windows schedules every thread, so a thread that can go on inside
libposix does: the scan and claim of a child, the return of fork once the message is
there, the notification of a dying thread (the loader lock is released by a step that
is itself fair), and the return of wait4 (thread handles stay signalled, so the
wake-up cannot be missed).  Nothing is assumed of programs: no fairness on fork,
execve, exit or on calling wait4.

`Signals`: the same for proc_poll, GetMessage, the loop of a group kill, the scan of
wait4 and the wake-up by `__Interrupt`.  Weak fairness of `WakeInterrupt` is
deliberately all there is: an auto-reset event that stays set wakes some waiter, and
one that another process has consumed wakes nobody.  Handlers need not return, and what
a sleep was for need not come.

`Pipes`: every process inside a call goes on when it can (`Goes`), which includes the
wait when one of its events is set; that the time limit of poll() runs out is not
assumed, so that `ReadyEnds` is due to the events alone.

`FileLocks`: LockFileEx returns or waits (weak), Windows grants a lock that is free
again and again (strong, as its queue is in order), and, what `Served` is about, a
program that has a lock unlocks it some day (`GivesUp`, strong, since it may be in
another call in between).

## 6. Proofs

`ProcTable_proofs` proves for every `CHILD_MAX` > 2 and every set of threads, Win32
processes and exit codes (assumption `ProcAssumption`, which TLC evaluates on each
run):

- `TypeCorrect`: `Spec => []TypeOK`, whatever programs call and however forks overlap.
  `TypeOK` is not inductive: a thread that has seen a free slot claims the slot it
  has at that time in `at`, so `ClaimInRange` (the scan stops inside the table) is
  added; `Typed` is the conjunction.
- `Ownership`: `Spec => []SlotOwned`, and `CollectsNoOthersChild`:
  `Spec => []ReapsNoOthersChild`, both assuming `Orderly`: slots are claimed one at a time
  and wait4 is called for any child outside SIGCHLD handlers.  Both rest on one
  inductive invariant, `Owned`:

| part | says | needed because |
|---|---|---|
| `Typed` | types, scan in range | updates of records and functions |
| `Claimant` | one thread at most scans or claims; the slot it saw is still free | `Claim` writes a slot without looking again |
| `SlotOwned` | the property | |
| `ParentUsed` | a slot that names a parent is in use and not collected | a slot in some wait4's vector is not given away |
| `VectorOwned` | the vector of a wait4 in progress holds children of its caller; the zombie it saw is dead with that status | `WaitReap` works on a slot seen earlier |
| `BootSlot` | slot 0 stays bsd.exe's | ParentId 0 means none, and full tables are charged to slot 0 |

  The argument goes action by action.  Lemmas on the effect of each update of a slot
  (`ClearEffect`, `ExitEffect`, `CloseEffect`, `ClaimEffect`...) are followed by frame
  lemmas (`SlotsKept`, `VectorsKept`): a step that changes one slot keeps the parts if
  no thread runs that slot, or waits for it, afterwards.  Why a slot that wait4 is
  about to collect cannot change under it is the heart of it: a zombie is run by no
  thread, it is not free and not yet reaped, so no scan takes or clears it, and its
  only parent is the caller itself, which is busy.

  `Owned` speaks of slot numbers.  That the caller is the process that forked the zombie,
  unless that process has exited, needs two more parts.  `Parented`: as long as the
  forker of a process runs, it is the one `ParentId` names.  It would break if a process
  ended without the step that clears `forker`, by the ExitProcess() of another thread of
  its Win32 process; `Ends` says that only the last thread to leave calls that.
  `Related` is `Owned`, `Ends` and `Parented`, and inductive.

`LifeCycle` proves `Orderly => (Spec => ImplementsLife)`, the refinement: from `Owned`, each
step changes the stage of one slot at most, to the next in the life of a pid.  The stage is
a function of four fields of the slot (`StageFacts`), so the proof asks of each action which
of them it writes, and takes from `Owned` in which stage the slot it writes is.

TLC checks these properties on `proc_vfork` as well.

`ProcFork_proofs` proves `ForkAnswered`: `~Vfork => (Spec => []ForkAnswer)`, for every
table, and *without* `Orderly`: forks may overlap and take the same slot.  The invariant
`Answers` adds to `ForkAnswer` that a child that still scans has a parent that waits for
it and no other (`ParentWaits`, `OneChild`), that the locals of a fork are cleared when
it is over (`ArgsFreed`), that PPWAIT is never set (`NoVfork`), and which threads a
Win32 process ends with (`LastOne`, `InProcess`): an exit that destroyed a waiting
parent, or the child it waits for, would leave a message without a reader.

`Signals_proofs` proves `TypeCorrect`, `MasksRestored` and `Arrival` for any number of
processes and signals sent.  Their invariant is `TypeOK /\ AllGood /\ TimersSet`.
`AllGood` says of each stack that the mask the program set itself is in force or, while it
is suspended, stored by the outermost suspension; and that a handler or a stop is always
on top of a call that polled.  `Popped` and `ResumedGood` show that
taking a frame away and resuming what is below keeps it, `PushPlain` and `PushWaiter`
that putting one on top does, so each action is one or two of these.  `Translated` is
the round trip of signal numbers through both tables.

`Pipes_proofs` has five theorems, for any processes, ends, kinds of pipes, sizes, buffers and
calls.  There are some twenty actions, and each invariant depends on few of the things they
do.  So what an action may do to a process's call, to the data and to the holders is said
once (`Effect`, proved of every action by `StepEffect`), and the invariants are proved
over this classification.

| theorem | property | invariant adds | assuming |
|---|---|---|---|
| `TypeCorrect` | `TypeOK` | `Shapes`: which locals of a call mean something where; `NoneYet`: a call in progress has returned nothing; `Posted` | nothing |
| `EndOfFile` | `EndIsFinal` | `Ends0`: a process holds the ends it uses, a socketpair is disconnected only after its client, and who disconnects a pipe has found it ended; what has ended stays so, since nobody opens the peer again | nothing |
| `WhatReadReturns` | `ReadHonest` | `Honest`: what a readv() in progress has counted is what it has taken | `OneBuffer`: readv() of a socket has one buffer; with more, sock_read() finds the pipe closed, leaves its count, and the buffer before is counted twice |
| `NothingLost` | `KeptUntilRead` | `Kept`: who is about to disconnect a pipe has found it ended, and it still is, with no new client; a client's handle goes with the connection | `Unshared(Sockets)`: one process serves a named socket; of two that found its pipe broken the second disconnects the next client |
| `WhatPollSaid` | `PollTrue` | `Single`: `Kept`, and what a scan in progress has found so far is so | `Unshared(Ends)`: of two readers of one end, one may take what the other has polled, and close |

`FdTable_proofs` proves every property that `fd_calls` checks, for any number of processes,
descriptors, Win32 processes, handles and paths, and whatever value Windows issues for a
handle as long as it is free (`FdAssumption`).  `TypeCorrect` needs nothing else, and
`FreeAgreed` (`InUse`) only `~SetClosed`.  The others assume `Supported`, which is what
section 7 shows to be needed: no F_SETFL on a closed descriptor (`FdPhantom`), no execve with
a descriptor that names `__PipeEvent` itself, as pipe()'s do until fork or dup has given
them an event of their own (`FdPipeExec`), no program that has sockets and calls execve
(`FdSocketExec`); `fd_calls` runs under it.

| theorem | states | which says |
|---|---|---|
| `TypeCorrect` | `TypeOK` | with who runs, waits and copies where (`Placed`) |
| `FreeAgreed` | `InUse` | both tests for a free entry agree |
| `HandlesApart` | `Isolated` | no descriptor's handles are another's |
| `AlwaysUsable` | `Usable` | handle and event are open where the process runs |
| `AlwaysReferenced` | `Referenced` | what is open has a descriptor, or was created when none was free |
| `ActsLikePosix` | `ActsPosix` | every step is one of `FdPosix`, or changes nothing it sees |
| `DescriptorsPosix` | `ImplementsPosix` | so a program that leaves /dev/stdin alone implements `FdPosix` |

The last five rest on one inductive invariant, `Kept`: `Agreed` (types and `InUse`) and, unless
the program opens /dev/stdin, `Good` and `Loops`.  `Good` is the three properties together
(none is inductive alone: a close is harmless because handles are apart, a copy is usable
because its source is) with `Nodes` (what an entry in use looks like, and whose it may be)
and `Clean` (the handle table of a Win32 process that does not exist is empty; only sockets
are inheritable).  `Loops` is how far the loops over `Node[]` have come: a child has its
parent's descriptors below `at` and none above, execve has left none marked close-on-exec,
exit has left none.  It is what `ExitEnd`, `ForkEnd` and `ExecEnd` of `FdPosix` ask.

That a step keeps `Good` is not proved action by action.  `Change(t, S)` is an effect: the
descriptors of `t` in `S` are gone or have handles that were free, all others mean what
they meant, and the handles that changed were free, or belonged to `S`, or to a Win32
process without descriptors; `GoodStays` proves the invariant from it, and each action is
shown to be a `Change` of no descriptor (`Rests`), of one (`Becomes`), or of two (pipe()).
The same classification gives the refinement: `BecomesThat` reads the step of `FdPosix` off
the new entry.

`AdvisoryLocks` has the theorem `Exclusion`: a system that follows it never lets two holders
have a byte that one of them has to write.  `FileLocks_proofs` proves that `FileLocks` is such
a system, for any number of processes, descriptors and bytes, any ranges and any width of the
sums (`FileLocksAssumption`).  `TypeCorrect` (`TypeOK`) needs nothing else; it takes `Busy`,
that a process which is in no call has no request left over and one in LockFileEx() asks for
a lock.  The others assume `Careful`, of what programs ask for, which the programs of
`lock_share` are:

| theorem | states | which says |
|---|---|---|
| `LocksBacked` | `Backed` | what a program was told it has is locked |
| `NoneLeftBehind` | `Known` | what is locked somebody was told, who can unlock it |
| `LocksPosix` | `ActsPosix` | the calls implement `AdvisoryLocks` |
| `LocksExclusive` | `Posix!Exclusive` | so no two holders have a byte that one has to write |

Each part of `Careful` keeps out a behaviour of the code that TLC shows (section 7): l_len = 0
locks no bytes; a request for bytes the caller has (`apart`) unlocks them first and may not
get them back; unlocking a range that was not locked fails with ERROR_NOT_LOCKED and says it
did not; a program that closes one of two descriptors leaves locks it takes for gone; a program
that forks or executes with a lock shares it or leaves it behind (`clean`); and with flock(),
parent and child have one open file, whose lock Windows gives to one of them.

The invariant, `Trusted`, is `TypeOK`, `Busy` and five parts.  `Matched` (each lock is some
process's, whose holder was told so) and `Meant` (what was told is so locked) are `Known` and
`Backed` with the process named, which the steps need: an exit takes the locks of the Win32
process with it, and a process has that for itself while it has a lock or asks for one
(`Separate`), so a lock taken away is that of the one who leaves.  `Disjoint` says that the
locks of one owner do not overlap, so an unlock takes nothing from another lock; `Asking` that
a request in progress is for bytes its holder does not have, which the unlock that precedes
it made true and no other process may change in between.  Steps are proved by what they do to
locks: nothing (`Unmoved`), a process leaves (`Leaves`, of close and exit), one lock goes
(`Drops`) or comes (`Adds`).  That a grant respects the others is `Meant` once more: whoever
was told of a byte has it locked, by another owner, so LockFileEx() is `Obstructed`.

`Sessions_proofs` proves every property that `sess_login` checks, for any tasks, Win32
processes, devices, terminals, windows, logins, jobs and Ctrl-C (`SessionsAssumption`).

| theorem | states | assuming |
|---|---|---|
| `TypeCorrect` | `TypeOK` | nothing |
| `GroupsOfOneSession` | `GroupsApart` | "pipe" is not among `Jobs` |
| `TerminalsExclusive` | `Exclusive`, `Paired` | `Calm` |
| `RevokedByOwner` | `RevokesOwn` | `Calm` |
| `ForegroundOfOwnSession` | `OwnForeground` | `Calm`, `Plainly`, and always `UnitLeft` |
| `CtrlCHitsOwnSession` | `HitOwn` | the same, and "left" is not in `Scene` |
| `UnitsSuffice` | always `UnitLeft` | `Calm`, no more logins than ptys |
| `JobControlOfFewLogins` | `OwnForeground`, `HitOwn` | so without `UnitLeft`: `Calm`, `Plainly`, no "left", no more logins than ptys |

Section 7 shows what the code does without them.  `Calm`: no two logins open /dev/ptm
at once (`SessBoot.cfg` with "race") or boot at once (`SessBoot.cfg`), the shell is there to be
executed ("fail"), and there is a terminal for each pty, besides the console's.  The code has that by
its constants: `WIN_TTY_MAX` is `WIN_UNIT_MAX` (src/include/vfs_types.h:575) and ptys begin
at unit 8 of it (src/include/dev_types.h:120).  `Calm` admits "left", a first
task that ends before its threads, after which a Ctrl-C can strike another session's task in
its slot.  With a "pipe" `GroupsApart` is false (`SessGroups.cfg`), and `OwnForeground` and
`HitOwn` are proved from it, though no run found them violated.  `Plainly` leaves out pipes
and "daemon", a shell in the background, which goes on with the terminal's index when the
session has ended and another one has that terminal.  `UnitLeft`: a
login that opens /dev/ptm finds a unit; one that does not goes on without a terminal, and its
shell takes terminal 0 for its own (`vfs/pdo/pdo_device.c:87`, among the hazards).

None of the properties is inductive, and each takes the invariant before it:

| part | says | needed because |
|---|---|---|
| `Typed` | types of all slots and locals; a task lives as long as its program is somewhere | every step |
| `Grouped` | a group is its only member's, or the group a child inherited and has yet to leave, while its parent still waits to move it (`ChildOf`, `Indexed`); a login that has not called setsid() is in group and session 0 | slots are used again as numbers of groups, and parent and child both call setpgid() |
| `Slots` | a device and a terminal in use name each other (`Matched`); each terminal in use is held by one process: its leader, the login that has yet to control it, or the one that boots (`Held`, `Apart`); who is between the choice of a unit and its use is alone, and the unit still is free; a leader's terminal is open, and its Win32 process has the handles (`LeadOK`) | every terminal that is given back must be found to be the exiting process's own, through `__CTTY`, `__Terminals` and `__Devices` |
| `Chain` | who uses a terminal has its leader below it in the task table, in the same session (`TermOK`), and of two on one terminal the earlier waits for a child that is on it (`InLine`) | a leader does not exit under a shell or a job that is about to call tcsetpgrp() |
| `Seats` | the first task of a Win32 process runs in it as long as any does, and `__CTTY` is what it knows (`MainOK`) | a Ctrl-C is handled later, for `__Process` |
| `Aims` | a task whose group is in the foreground of the terminal it knows is of that terminal's session | the handler compares numbers of groups, not sessions |
| `Spared` | logins that seek a unit and units that are ready are together no more than the logins there were | a login takes one unit, and nothing else takes any |

That terminals do not run out before units (`TerminalLeft`) is the pigeonhole principle on
`Matched`; `InLine` holds since `ProcCreateTask()` looks for a slot from the group of the parent on
(`DupSpawns`), so that a child's slot is above its parent's.

Only model-checked are liveness (no prover here reasons about fairness), the refinement of
`Inodes` and the properties of `AclMode`, whose `Types` is defined by recursion over a list,
and `GetLkTrue`: the sums of an entry of `Node[]` add up the locks of a set, which takes an
induction over it.

## 7. Where the code does not do what it says

One disagreement is among the runs (`findings` of `PROJECT.json`): `proc_overlap`.  The
following configurations, to be run by hand with `tlc -config X.cfg MC...`, violate
their property too; they document the limits of what section 4 shows.

| configuration | violated | what the code does |
|---|---|---|
| `ProcStrayUser` | `ForkAnswer` | `libposix.c:161`: PPWAIT stays set after exec has released the vfork parent; the program's exit posts WM_USER again |
| `ProcLeak` | `ZombieHasParent` | `libposix.c:168`: a parent that exits leaves its zombies to nobody |
| `ProcBusy` | `ReapedIsQuiet` | `libposix.c:165`: a slot can be collected while its thread still has to notify from it |
| `ProcVfork` with `INVARIANTS ReapsOwnChild` | `ReapsOwnChild` | `libposix.c:158`: the children of a process that exits keep its slot number as their ParentId, and the next process in the slot collects them, though it has not forked them |
| `AclFiles` with `INVARIANTS ModeIsAll` | `ModeIsAll` | `vfs/vfs_acl.c:213`: a further user's entry of a Windows folder is in the list of all that is made below, and neither the mode asked for nor a later chmod() changes what it gives; in a folder that all may read and a second user may modify that entry is the one for all users |
| `ProcStale` | `ReapsNoOthersChild` | `vfs/vfs_wait.c:96`: after a wait4 in a handler the outer one goes on with its old vector, and may collect another process's child |
| `ProcLost` | `ExitCompletes` | `vfs/process/process_stdlib.c:117`: ExitProcess destroys a thread that has counted itself out but not detached; its slot is never a zombie |
| `FdPipeExec` | `ImplementsPosix` | `vfs/pipe/pipe_fcntl.c:67`: execve with both descriptors of pipe() moves their common event with the first and loses the second |
| `FdSocketExec` | `Usable` | `vfs/process/process_unistd.c:60`: the event of a socket does not survive execve |
| `FdPhantom` | `InUse` | `vfs/vfs_fcntl.c:109`: F_SETFL on a closed descriptor takes an entry that close does not give back |
| `SigTwo` | `SignalWakes` | `vfs/process/process_poll.c:56`: of two signals that set the event once, a sleeper that ignores the first leaves the second in its queue; `sys/signal.c:206`: "don't terminate, but interrupt system call" |
| `SigCont` | `ContResumes` | `sys/signal.c:46`: SIGCONT is in SIGMASK_STOP and stops the stopped process once more; src/openbsd/bin/ksh/ksh.1:2832: "Resume the specified stopped job(s) in the background." |
| `SigBlocked` | `BlockedWaits` | `sys/signal.c:200`: the test of the mask is commented out ("This will hang during boot."); src/include/vfs_types.h:536 calls ProcMask "blocked signals" |
| `SigStatus` | `StatusNamesSignal` | `sys/signal.c:171`: __exit() overwrites the signal number with exit(127); ksh.1:1282 expects "128 plus the signal number" |
| `SigExec` | `IgnoredStays` | `vfs/process/process_unistd.c:162`: execve resets ignored signals; src/openbsd/bin/ksh/jobs.c:507: "the signals have their inherited values" |
| `SigSteal` | `SignalWakes` | `vfs/vfs_signal.c:85`: of two sleepers the wrong one takes the event that was set for the other, and the signal waits until something else sets it |
| `PipeExit` | `ReadyEnds` | `vfs/vfs.c:168`: the exit of a program of its own closes pipes without setting their event, and the reader sleeps on the end of its file |
| `PipeFull` | `ReadyEnds` | `vfs/vfs_poll.c:103`: a write that finds the pipe full resets the event its reader waits for |
| `PipeReply` | `ReadyEnds` | `vfs/pipe/socket/socket_unistd.c:76`: both ends of a socketpair sleep on one event, and the reply wakes the one who wrote it |
| `SessBoot` | `Paired` | `vfs/vfs_tty.c:50`: a login that starts while another boots leaves a terminal and a device that do not name each other |
| `SessGroups` | `GroupsApart` | `sys/unistd.c:664`: ksh names a job by its first process, which is reaped and whose slot becomes a session's |
| `LockFork` | `Backed` | `vfs/disk/file/file_fcntl.c:46`: the child of a process that has a lock unlocks it with its own request |
| `LockWait` | `Served` | `vfs/disk/file/file_fcntl.c:53`: a process waits for an overlapping lock of its own |

Some more follow from the configurations of section 4 by changing a constant:
`LockFork.cfg` with `Menus = {{"fcntl"}}` violates `Backed` (`vfs/disk/file/file_fcntl.c:46`:
a conversion that fails has lost the lock), and so it does with `Ranges <- McToEnd` and
`Menus = {{"fcntl", "single"}}` (`sys/fcntl.c:186`: l_len = 0 locks no bytes); with
`Menus = {{"flock", "fork", "exec", "clean"}}` it violates `Backed` and `Known`
(`vfs/process/process_unistd.c:61`: parent and child have one open file in two Win32
processes, and the LOCK_UN of one does not find the lock of the other); with `MaxFd = 1` and
`Menus = {{"fcntl", "dup", "apart"}}` or `{{"fcntl", "reopen", "apart"}}` it violates `Known`
(`vfs/disk/file/file_unistd.c:39`: to close one of two descriptors leaves the lock there,
where a program that uses fcntl() takes all its locks for gone);
`AclFiles.cfg` with `Serial = FALSE` violates `ImplementsInodes` (a chmod and a chown of one
file read the same list, and the second to write undoes the first); `SessBoot.cfg` with
`Scene = {"race"}` violates `Paired` and, checked alone, `Exclusive`
(`vfs/pdo/pdo_device.c:76`: two opens of /dev/ptm find the same free unit); `SessLogin.cfg` with
`Scene = {"fail"}` violates `RevokesOwn` (`sys/syscall.c:611`: a login whose execve fails
revokes the terminal its Win32 process started with), with `Jobs = {"daemon", "fore"}`
`OwnForeground` (`vfs/vfs_termio.c:212`: a shell in the background outlives its session and
its terminal), so with `MaxUnit = 1`, four logins in three windows, `MaxTask = 6` and
`MaxImage = 7` (`vfs/pdo/pdo_device.c:87`: no unit is left), and with `Scene = {"left"}`,
`Jobs = {"back"}`, four logins and `MaxTask = MaxImage = 6` `HitOwn`
(`vfs/char/char_console.c:45`: `__Process` is another session's by then);
`SessLogin.cfg` with the property
`FrontReached` shows that Ctrl-C does not reach a forked process that has not executed
a program (`vfs/char/char_console.c:45`).  `FdCalls.cfg` passes with one menu
of all calls on files, too.

## 8. What is not modelled

Open: credentials and mounts (section 2).  In `ProcTable`: wait4(WUNTRACED) and rusage,
Windows' limit of 64 handles in one wait, the steps inside execve (the new program may run while the old
thread still moves its descriptors).  In `FdTable`: file positions, locks and contents,
directories, terminals as descriptors, and the difference between the kinds of open
beyond the life of their entries.  In `Signals`: what fork does to dispositions and
queue, sigpending (Pending is never set), exceptions, the console's control handler,
which runs handlers in a thread of its own (`Sessions` has whom it strikes), nanosleep and
the arithmetic of timeouts.  In `Pipes`: Winsock's sockets, consoles, mailslots and files in
the set of poll(), the limit of 64 objects, and sizes other than a unit.  In `Sessions`: modes
and sizes of terminals, input and output, job control signals (those are in `Signals`) and
network logins.  In `FileLocks`: locks on directories, files that grow, more than one file.
In `AclMode`: network shares, file systems without lists, entries that deny, rename() and
link(), and the sticky bit.

Left aside for good: sockets beyond their descriptors, mailslots, console escape
sequences, sysctl, ktrace, memory mapping and semaphores, names and times of files, the registry
and shell views, and rlimits, which are wrappers of one Windows call each, read-only
views, or sequential formatting; the generated system call tables and the assembly of fork;
shutdown; and the OpenBSD userland, which is third-party code.
