------------------------------ MODULE Sessions ------------------------------
(***************************************************************************)
(* Logins, controlling terminals and job control.  The bsd program forks;  *)
(* the child makes a session, opens a terminal (the console while booting, *)
(* a new pty of /dev/ptm after that), makes it its controlling terminal    *)
(* and becomes ksh, which runs jobs in process groups of their own.        *)
(*                                                                         *)
(* A task knows its terminal by an index, a Win32 process by a pointer it  *)
(* sets once, when it starts.  Devices and terminals are slots of shared   *)
(* tables that are free when their flags are zero; no lock guards them.    *)
(***************************************************************************)
EXTENDS Naturals, FiniteSets

CONSTANTS
  MaxTask,    \* the last slot of the task table (bound)
  MaxImage,   \* bound: Win32 processes at one time
  MaxUnit,    \* the last unit pdo_attach() tries (WIN_UNIT_MAX)
  MaxTerm,    \* the last slot of __Terminals (WIN_TTY_MAX)
  Windows,    \* the windows in which logins are started
  Starts,     \* bound: logins
  Presses,    \* bound: Ctrl-C
  Forks,      \* bound: processes of jobs
  Jobs,       \* what jobs do: "fore", "back" (ground), "pipe" (of two
              \* processes), "sub" (a subshell, not executed), "shell" (a ksh
              \* in the foreground) and "daemon" (one in the background)
  Scene       \* what may happen besides, see Happening

Happening == {"race",   \* two logins open /dev/ptm at the same time
              "boot",   \* a second login starts while the first one boots
              "fail",   \* execve() of the shell fails
              "left"}   \* the first task of a Win32 process ends before its
                        \* other threads

ASSUME SessionsAssumption ==
  /\ {MaxTask, MaxImage, MaxUnit, MaxTerm, Starts, Presses, Forks} \subseteq Nat
  /\ MaxUnit > 0 /\ MaxImage > 0
  /\ Jobs \subseteq {"fore", "back", "pipe", "sub", "shell", "daemon"}
  /\ Scene \subseteq Happening

TaskIds == 0 .. MaxTask
Images == 1 .. MaxImage
Ptys == 1 .. MaxUnit
Console == 0
Devices == Ptys \cup {Console}
Beyond == MaxUnit + 1     \* what follows the last unit
Terminals == 0 .. MaxTerm
None == 0                 \* no image, no child

VARIABLES
  task,    \* __Tasks
  image,   \* the Win32 processes: __Process, __CTTY, and what they inherit
  tty,     \* __Terminals
  device,  \* __Devices
  level,   \* __Globals->SecureLevel
  press,   \* Win32 processes that have yet to handle a Ctrl-C
  used,    \* logins and Ctrl-C so far
  pc       \* where each program is, with its locals

vars == <<task, image, tty, device, level, press, used, pc>>

Free == [st |-> "free", img |-> None, gid |-> 0, sid |-> 0, ctty |-> 0,
         ctl |-> FALSE, parent |-> 0, fd |-> 0]
Away == [at |-> "none", child |-> None, kind |-> "none", unit |-> 0, index |-> 0]

NoTask == [p \in TaskIds |-> Free]
NoTty == [i \in Terminals |-> [active |-> FALSE, dev |-> 0, gid |-> 0, sid |-> 0]]
NoDevice == [d \in Devices |-> [ready |-> d = Console, open |-> FALSE, index |-> 0]]

Live(p) == task[p].st = "live"
Used(i) == \E p \in TaskIds : Live(p) /\ task[p].img = i

-----------------------------------------------------------------------------
(* The task table. *)

\* The slot ProcCreateTask(offset) takes, and the slots it clears on the way.
IsNew(n, offset) ==
  /\ n \in offset .. MaxTask /\ task[n].st = "free"
  /\ \A m \in offset .. (n - 1) : task[m].st # "free"
Cleared(n, offset) ==
  [m \in TaskIds |-> IF m \in offset .. (n - 1) /\ task[m].st = "done"
                     THEN Free ELSE task[m]]

\* The first Win32 process that is not in use.
IsFresh(i) == i \in Images /\ ~Used(i) /\ \A j \in 1 .. (i - 1) : Used(j)

\* Mutant: the child is as much of a session's leader as its parent.
Dup_flags(p, c) == [Cleared(c, task[p].gid) EXCEPT ![c] = [task[p] EXCEPT !.parent = p]]
\* proc_dup(): the child is a thread of its parent's Win32 process.
Dup(p, c) == [Cleared(c, task[p].gid) EXCEPT
                ![c] = [task[p] EXCEPT !.ctl = FALSE, !.parent = p]]

\* A Win32 process is gone with its last thread.
NoImage == [main |-> 0, ctty |-> 0, window |-> None, has |-> {}]
Leaves(p) == \A q \in TaskIds \ {p} : Live(q) => task[q].img # task[p].img
Left(p) == IF Leaves(p) THEN [image EXCEPT ![task[p].img] = NoImage] ELSE image
Unpressed(p) == IF Leaves(p) THEN press \ {task[p].img} ELSE press

\* Mutant: the new program does not learn its terminal.
Exec_console(p, i) ==
  /\ IsFresh(i)
  /\ image' = [Left(p) EXCEPT ![i] = [main |-> p, ctty |-> 0,
                                      window |-> image[task[p].img].window,
                                      has |-> image[task[p].img].has]]
  /\ task' = [task EXCEPT ![p].img = i, ![p].fd = 0]
  /\ press' = Unpressed(p)

\* execve(): p goes on in a Win32 process of its own that inherits the handles
\* of the old one, and knows its terminal by __CTTY.
Exec(p, i) ==
  /\ IsFresh(i)
  /\ image' = [Left(p) EXCEPT ![i] = [main |-> p, ctty |-> task[p].ctty,
                                      window |-> image[task[p].img].window,
                                      has |-> image[task[p].img].has]]
  /\ task' = [task EXCEPT ![p].img = i, ![p].fd = task[p].ctty]
  /\ press' = Unpressed(p)

-----------------------------------------------------------------------------
(* Devices and terminals. *)

\* The first slot whose flags are zero, in pdo_attach() and tty_attach().
IsUnit(u) == u \in Ptys /\ ~device[u].ready /\ \A v \in 1 .. (u - 1) : device[v].ready
IsTerm(i) == i \in Terminals /\ ~tty[i].active /\ \A j \in 0 .. (i - 1) : tty[j].active

\* tty_attach() takes the slot; config_found() makes a pty ready.
Attach(d, i, ready) ==
  /\ tty' = [tty EXCEPT ![i].active = TRUE, ![i].dev = d]
  /\ device' = [device EXCEPT ![d].ready = ready, ![d].index = i]

\* char_revoke() in Win32 process i.  The handles of the device have values
\* of the process that opened them; in one that did not inherit them
\* CloseHandle() fails, or closes what has the same value there.
char_revoke(d, i) ==
  LET Close == /\ device' = [device EXCEPT ![d].open = FALSE, ![d].ready = FALSE]
               /\ tty' = [tty EXCEPT ![device[d].index].active = FALSE]
      Fail == UNCHANGED <<tty, device>>
  IN IF ~device[d].open THEN Fail
     ELSE IF d \in image[i].has THEN Close ELSE Close \/ Fail

\* vfs_TIOCSCTTY() of a descriptor of device d and terminal i.
Controls(p, d, i) == ~task[p].ctl /\ d # Beyond /\ device[d].ready
\* Mutant: the session is not recorded in the terminal.
TIOCSCTTY_group(p, d, i) ==
  IF Controls(p, d, i)
  THEN /\ device' = [device EXCEPT ![d].open = TRUE]
       /\ image' = [image EXCEPT ![task[p].img].has = @ \cup {d}]
       /\ tty' = [tty EXCEPT ![i].gid = task[p].gid]
       /\ task' = [task EXCEPT ![p].ctl = TRUE, ![p].ctty = i]
  ELSE UNCHANGED <<task, image, tty, device>>
TIOCSCTTY(p, d, i) ==
  IF Controls(p, d, i)
  THEN /\ device' = [device EXCEPT ![d].open = TRUE]
       /\ image' = [image EXCEPT ![task[p].img].has = @ \cup {d}]
       /\ tty' = [tty EXCEPT ![i].sid = task[p].sid, ![i].gid = task[p].gid]
       /\ task' = [task EXCEPT ![p].ctl = TRUE, ![p].ctty = i]
  ELSE UNCHANGED <<task, image, tty, device>>

\* vfs_TIOCSPGRP() of the descriptor p keeps of its terminal.
TIOCSPGRP(p, g) ==
  /\ tty' = [tty EXCEPT ![task[p].fd].gid = g]
  /\ UNCHANGED <<device, level, used>>

-----------------------------------------------------------------------------
(* The bsd program. *)

\* A login is started in a window: proc_start() without STARTF_PS_EXEC.
Start(w) ==
  \E n \in TaskIds, i \in Images :
    /\ used.starts < Starts /\ IsNew(n, 0) /\ IsFresh(i)
    /\ \A p \in TaskIds : pc[p].at \in {"bsd", "wait"} => image[task[p].img].window # w
    /\ "boot" \in Scene \/ level = 1 \/ \A p \in TaskIds : ~Live(p)
    /\ task' = [Cleared(n, 0) EXCEPT ![n] = [Free EXCEPT !.st = "live", !.img = i]]
    /\ image' = [image EXCEPT ![i] = [main |-> n, ctty |-> 0, window |-> w, has |-> {}]]
    /\ pc' = [pc EXCEPT ![n] = [Away EXCEPT !.at = "bsd",
                                 !.kind = IF level = 0 THEN "single" ELSE "multi"]]
    /\ used' = [used EXCEPT !.starts = @ + 1]
    /\ UNCHANGED <<tty, device, level, press>>

\* main(): fork, and wait for the child.
BsdFork(p) ==
  \E c \in TaskIds :
    /\ pc[p].at = "bsd" /\ IsNew(c, task[p].gid)
    /\ task' = Dup(p, c)
    /\ pc' = [pc EXCEPT ![p].at = "wait", ![p].child = c,
                ![c] = [Away EXCEPT !.at = IF pc[p].kind = "single" THEN "single" ELSE "setsid",
                                    !.kind = pc[p].kind]]
    /\ UNCHANGED <<image, tty, device, level, press, used>>

\* single(): tty_init(), sysctl(), revoke() of the console.
tty_init(p) ==
  /\ pc[p].at = "single"
  /\ \/ \E i \in Terminals : IsTerm(i) /\ Attach(Console, i, device[Console].ready)
     \/ (\A i \in Terminals : tty[i].active) /\ UNCHANGED <<tty, device>>
  /\ pc' = [pc EXCEPT ![p].at = "level"]
  /\ UNCHANGED <<task, image, level, press, used>>

SetLevel(p) ==
  /\ pc[p].at = "level"
  /\ level' = 1
  /\ pc' = [pc EXCEPT ![p].at = "revoke"]
  /\ UNCHANGED <<task, image, tty, device, press, used>>

sys_revoke(p) ==
  /\ pc[p].at = "revoke"
  /\ IF device[Console].ready THEN char_revoke(Console, task[p].img)
     ELSE UNCHANGED <<tty, device>>
  /\ pc' = [pc EXCEPT ![p].at = "setsid"]
  /\ UNCHANGED <<task, image, level, press, used>>

\* Mutant: setsid() leaves the group as it is.
vfs_setsid_group(p) ==
  /\ pc[p].at = "setsid"
  /\ task' = IF task[p].gid = p THEN task ELSE [task EXCEPT ![p].sid = p]
  /\ pc' = [pc EXCEPT ![p].at = "open"]
  /\ UNCHANGED <<image, tty, device, level, press, used>>
vfs_setsid(p) ==
  /\ pc[p].at = "setsid"
  /\ task' = IF task[p].gid = p THEN task
             ELSE [task EXCEPT ![p].gid = p, ![p].sid = p]
  /\ pc' = [pc EXCEPT ![p].at = "open"]
  /\ UNCHANGED <<image, tty, device, level, press, used>>

-----------------------------------------------------------------------------
(* getty(): open, ioctl(TIOCSCTTY); shell(): execve().  What getty() returns *)
(* is not looked at.                                                         *)

\* PdoOpenFile() of the console.
OpenConsole(p) ==
  /\ pc[p].at = "open" /\ pc[p].kind = "single"
  /\ pc' = [pc EXCEPT ![p].at = IF device[Console].ready THEN "ctty" ELSE "exec",
                      ![p].unit = Console, ![p].index = device[Console].index]
  /\ UNCHANGED <<task, image, tty, device, level, press, used>>

\* pdo_attach() of /dev/ptm finds a unit, or none.
FindUnit(p) ==
  /\ pc[p].at = "open" /\ pc[p].kind = "multi"
  /\ "race" \in Scene \/ \A q \in TaskIds : pc[q].at \notin {"unit", "slot"}
  /\ \/ \E u \in Ptys : IsUnit(u)
                        /\ pc' = [pc EXCEPT ![p].at = "unit", ![p].unit = u]
     \/ /\ \A u \in Ptys : device[u].ready
        /\ pc' = [pc EXCEPT ![p].at = "ctty", ![p].unit = Beyond]
  /\ UNCHANGED <<task, image, tty, device, level, press, used>>

\* tty_attach() finds a terminal; without one the unit is as it was.
FindTerm(p) ==
  /\ pc[p].at = "unit"
  /\ \/ \E i \in Terminals : IsTerm(i)
                             /\ pc' = [pc EXCEPT ![p].at = "slot", ![p].index = i]
     \/ /\ \A i \in Terminals : tty[i].active
        /\ pc' = [pc EXCEPT ![p].at = "ctty", ![p].index = device[pc[p].unit].index]
  /\ UNCHANGED <<task, image, tty, device, level, press, used>>

tty_attach(p) ==
  /\ pc[p].at = "slot"
  /\ Attach(pc[p].unit, pc[p].index, TRUE)
  /\ pc' = [pc EXCEPT ![p].at = "ctty"]
  /\ UNCHANGED <<task, image, level, press, used>>

Getty(p) ==
  /\ pc[p].at = "ctty"
  /\ TIOCSCTTY(p, pc[p].unit, pc[p].index)
  /\ pc' = [pc EXCEPT ![p].at = "exec"]
  /\ UNCHANGED <<level, press, used>>

\* The program is ksh; it opens /dev/tty: tty_open() of __CTTY.
Shell(p) ==
  /\ pc[p].at = "exec"
  /\ \/ /\ \E i \in Images : Exec(p, i)
        /\ pc' = [pc EXCEPT ![p] = [Away EXCEPT !.at = "sh"]]
     \/ /\ "fail" \in Scene
        /\ pc' = [pc EXCEPT ![p] = [Away EXCEPT !.at = "exit"]]
        /\ UNCHANGED <<task, image, press>>
  /\ UNCHANGED <<tty, device, level, used>>

-----------------------------------------------------------------------------
(* ksh: j.c exchild(), j_waitj(). *)

\* A job, or the second process of one, is forked.  The shell is at "sh", or
\* at "more" with the first process in child.
Fork(p, kind) ==
  \E c \in TaskIds :
    /\ kind \in Jobs /\ used.forks < Forks /\ IsNew(c, task[p].gid)
    /\ \/ pc[p].at = "sh"
       \/ pc[p].at = "more" /\ kind = "pipe"
    /\ task' = Dup(p, c)
    /\ LET g == IF pc[p].at = "more" THEN pc[p].child ELSE c
       IN pc' = [pc EXCEPT
                   ![p] = [Away EXCEPT !.at = "group", !.child = c, !.index = g, !.kind = kind],
                   ![c] = [Away EXCEPT !.at = "jgroup", !.index = g, !.kind = kind]]
    /\ used' = [used EXCEPT !.forks = @ + 1]
    /\ UNCHANGED <<image, tty, device, level, press>>

Fore(kind) == kind \in {"fore", "pipe", "sub", "shell"}

\* sys_setpgid(), in parent and child.
sys_setpgid(p) ==
  LET c == IF pc[p].at = "group" THEN pc[p].child ELSE p
      g == pc[p].index
  IN /\ pc[p].at \in {"group", "jgroup"}
     /\ task' = [task EXCEPT ![c].gid = g]
     /\ pc' = [pc EXCEPT ![p] =
                 IF pc[p].at = "jgroup"
                 THEN [@ EXCEPT !.at = IF Fore(pc[p].kind) THEN "jfront" ELSE "jexec"]
                 ELSE IF Fore(pc[p].kind) THEN [@ EXCEPT !.at = "front"]
                 ELSE [Away EXCEPT !.at = "sh"]]
     /\ UNCHANGED <<image, tty, device, level, press, used>>

\* tcsetpgrp(), in parent and child, for the first process of the job.
Front(p) ==
  LET g == pc[p].index
  IN /\ pc[p].at \in {"front", "jfront"}
     /\ TIOCSPGRP(p, g)
     /\ pc' = [pc EXCEPT ![p].at =
                 IF pc[p].at = "jfront" THEN "jexec"
                 ELSE IF pc[p].kind = "pipe" /\ pc[p].child = g THEN "more" ELSE "waitj"]
     /\ UNCHANGED <<task, image, press>>

\* The job's program starts; a subshell stays a thread of the shell.
JobExec(p) ==
  /\ pc[p].at = "jexec"
  /\ IF pc[p].kind = "sub"
     THEN /\ pc' = [pc EXCEPT ![p] = [Away EXCEPT !.at = "prog"]]
          /\ UNCHANGED <<task, image, press>>
     ELSE /\ \E i \in Images : Exec(p, i)
          /\ pc' = [pc EXCEPT ![p] = [Away EXCEPT !.at =
                        IF pc[p].kind \in {"shell", "daemon"} THEN "sh" ELSE "prog"]]
  /\ UNCHANGED <<tty, device, level, used>>

\* wait4(): proc_close() of a zombie.  The shell takes the terminal back when
\* all processes of the job it waits for are gone.
Gone(p, c, g) == /\ task[c].gid = g
                 /\ \A q \in TaskIds \ {c} : task[q].parent = p => task[q].gid # g
Reap(p, c) ==
  /\ task[c].st = "zombie" /\ task[c].parent = p
  /\ task' = [task EXCEPT ![c] = [Free EXCEPT !.st = "done"]]
  /\ \/ pc[p].at = "sh" /\ UNCHANGED pc
     \/ /\ pc[p].at = "waitj"
        /\ pc' = IF Gone(p, c, pc[p].index) THEN [pc EXCEPT ![p].at = "back"] ELSE pc
     \/ pc[p].at = "wait" /\ c = pc[p].child /\ pc' = [pc EXCEPT ![p].at = "exit"]
  /\ UNCHANGED <<image, tty, device, level, press, used>>

Back(p) ==
  /\ pc[p].at = "back"
  /\ TIOCSPGRP(p, task[p].gid)
  /\ pc' = [pc EXCEPT ![p] = [Away EXCEPT !.at = "sh"]]
  /\ UNCHANGED <<task, image, press>>

\* __exit(): the leader of a session revokes the terminal of its Win32
\* process.  posix_THREAD_DETACH(): a zombie, of task 1 if it is an orphan.
\* The shared tables are gone with the last process.
Ends(p) == /\ pc[p].at \in {"sh", "prog", "exit"}
           /\ "left" \in Scene \/ Leaves(p) \/ image[task[p].img].main # p
Last(p) == \A q \in TaskIds \ {p} : ~Live(q)

\* Mutants: every process revokes its terminal; the last one leaves the task
\* table as it is.
sys_exit_any(p) ==
  LET i == task[p].img
      q == task[p].parent
  IN /\ Ends(p) /\ ~Last(p)
     /\ char_revoke(tty[image[i].ctty].dev, i)
     /\ task' = [task EXCEPT ![p] = [Free EXCEPT !.st = "zombie", !.gid = task[p].gid,
                                       !.parent = IF Live(q) THEN q ELSE 1]]
     /\ UNCHANGED level
vfs_shmexit_tasks(p) ==
  /\ Ends(p) /\ Last(p)
  /\ task' = task /\ tty' = NoTty /\ device' = NoDevice /\ level' = 0

sys_exit(p) ==
  LET i == task[p].img
      q == task[p].parent
  IN /\ Ends(p) /\ ~Last(p)
     /\ IF task[p].ctl THEN char_revoke(tty[image[i].ctty].dev, i)
        ELSE UNCHANGED <<tty, device>>
     /\ task' = [task EXCEPT ![p] = [Free EXCEPT !.st = "zombie", !.gid = task[p].gid,
                                       !.parent = IF Live(q) THEN q ELSE 1]]
     /\ UNCHANGED level

vfs_shmexit(p) ==
  /\ Ends(p) /\ Last(p)
  /\ task' = NoTask /\ tty' = NoTty /\ device' = NoDevice /\ level' = 0

Exit(p) ==
  /\ sys_exit(p) \/ vfs_shmexit(p)
  /\ image' = Left(p) /\ press' = Unpressed(p)
  /\ pc' = [pc EXCEPT ![p] = Away]
  /\ UNCHANGED used

-----------------------------------------------------------------------------
(* Ctrl-C. *)

\* Windows starts a thread in every process of the window.
CtrlC(w) ==
  /\ used.presses < Presses
  /\ press' = press \cup {i \in Images : Used(i) /\ image[i].window = w}
  /\ used' = [used EXCEPT !.presses = @ + 1]
  /\ UNCHANGED <<task, image, tty, device, level, pc>>

Strikes(i) == task[image[i].main].gid = tty[image[i].ctty].gid

\* The thread acts for __Process, whose program goes on, or ends: bsd and jobs
\* have the default action, ksh has a handler.
ConControlHandler(i) ==
  LET m == image[i].main
  IN /\ i \in press
     /\ press' = press \ {i}
     /\ pc' = IF Used(i) /\ Strikes(i) /\ pc[m].at \in {"bsd", "wait", "prog"}
              THEN [pc EXCEPT ![m] = [Away EXCEPT !.at = "exit"]] ELSE pc
     /\ UNCHANGED <<task, image, tty, device, level, used>>

-----------------------------------------------------------------------------
Init ==
  /\ task = NoTask
  /\ image = [i \in Images |-> NoImage]
  /\ tty = NoTty
  /\ device = NoDevice
  /\ level = 0
  /\ press = {}
  /\ used = [starts |-> 0, presses |-> 0, forks |-> 0]
  /\ pc = [p \in TaskIds |-> Away]

Login(p) ==
  \/ BsdFork(p) \/ tty_init(p) \/ SetLevel(p) \/ sys_revoke(p) \/ vfs_setsid(p)
  \/ OpenConsole(p) \/ FindUnit(p) \/ FindTerm(p) \/ tty_attach(p)
  \/ Getty(p) \/ Shell(p)

Job(p) ==
  \/ \E kind \in Jobs : Fork(p, kind)
  \/ sys_setpgid(p) \/ Front(p) \/ JobExec(p) \/ Back(p) \/ Exit(p)
  \/ \E c \in TaskIds : Reap(p, c)

Next ==
  \/ \E w \in Windows : Start(w) \/ CtrlC(w)
  \/ \E p \in TaskIds : Login(p) \/ Job(p)
  \/ \E i \in Images : ConControlHandler(i)

Spec == Init /\ [][Next]_vars

-----------------------------------------------------------------------------
TypeOK ==
  /\ task \in [TaskIds -> [st : {"free", "live", "zombie", "done"}, img : Images \cup {None},
                           gid : TaskIds, sid : TaskIds, ctty : Terminals, ctl : BOOLEAN,
                           parent : TaskIds, fd : Terminals]]
  /\ image \in [Images -> [main : TaskIds, ctty : Terminals, window : Windows \cup {None},
                            has : SUBSET Devices]]
  /\ tty \in [Terminals -> [active : BOOLEAN, dev : Devices, gid : TaskIds, sid : TaskIds]]
  /\ device \in [Devices -> [ready : BOOLEAN, open : BOOLEAN, index : Terminals]]
  /\ level \in {0, 1} /\ press \subseteq Images
  /\ used \in [starts : 0 .. Starts, presses : 0 .. Presses, forks : 0 .. Forks]
  /\ \A p \in TaskIds : Live(p) <=> pc[p].at # "none"
  /\ \A p \in TaskIds : Live(p) => task[p].img \in Images

\* Two live processes do not control the same terminal: the terminal a login
\* gets from /dev/ptm, pdo_attach() and tty_attach(), is nobody else's, until
\* char_revoke() gives it back.
Exclusive == \A p, q \in TaskIds :
  Live(p) /\ Live(q) /\ task[p].ctl /\ task[q].ctl /\ p # q => task[p].ctty # task[q].ctty

\* The two shared tables agree: a terminal in use and the device behind it name
\* each other, whatever pdo_attach(), tty_init() and char_revoke() of different
\* logins did in between.
Paired ==
  /\ \A i \in Terminals : tty[i].active => device[tty[i].dev].index = i
  /\ \A u \in Ptys : device[u].ready =>
        tty[device[u].index].active /\ tty[device[u].index].dev = u

\* A process group is of one session, as kill(-pgid) and Ctrl-C need it: a
\* group is named by a slot of the task table, and slots are used again.
GroupsApart == \A p, q \in TaskIds :
  Live(p) /\ Live(q) /\ task[p].gid = task[q].gid => task[p].sid = task[q].sid

\* tcsetpgrp() of a shell or a job changes its own session's terminal, while
\* that is in use: the descriptor goes by an index of __Terminals that was
\* copied when the program started.
OwnForeground == [][\A p \in TaskIds : Front(p) \/ Back(p) =>
                      /\ tty[task[p].fd].active
                      /\ task[p].sid = tty[task[p].fd].sid]_vars

\* A terminal is given back only by the exit of the process that controls it:
\* __exit() revokes the device of __CTTY, not of the task.
RevokesOwn == [][\A i \in Terminals : tty[i].active /\ ~tty'[i].active =>
                   \E p \in TaskIds : /\ Live(p) /\ task[p].ctl /\ task[p].ctty = i
                                      /\ pc'[p] = Away]_vars

\* ConControlHandler() raises SIGINT for a task that still runs in this Win32
\* process, in the session of the terminal whose foreground group it compared.
HitOwn == [][\A i \in Images : ConControlHandler(i) /\ Strikes(i) =>
               LET m == image[i].main
               IN Live(m) => task[m].img = i /\ task[m].sid = tty[image[i].ctty].sid]_vars

\* Ctrl-C reaches every process of the foreground group, those that are
\* threads of another's Win32 process too.  (ConControlHandler() does not have
\* this: it looks at __Process only.)
FrontReached == [][\A i \in Images : ConControlHandler(i) =>
                     \A q \in TaskIds :
                       Live(q) /\ task[q].img = i /\ task[q].gid = tty[task[q].ctty].gid
                       => Strikes(i) /\ q = image[i].main]_vars
=============================================================================
