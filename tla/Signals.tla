------------------------------- MODULE Signals -------------------------------
(***************************************************************************)
(* Signals of libposix.  A signal is a message in the queue of the target's*)
(* thread, followed by a SetEvent() of __Interrupt, an auto-reset event    *)
(* that all processes of the session share and sleep on.  A process takes  *)
(* one message at the start of every system call and one whenever a sleep  *)
(* ends (proc_poll); sigsuspend() and the default action of the stop       *)
(* signals wait for one message.  Whoever took a message raises it there   *)
(* and then: the handler, or the default action, runs on top of the call.  *)
(*                                                                         *)
(* stack[p] is that nesting, innermost first.  Handlers may make system    *)
(* calls, whose messages may run handlers again.                           *)
(***************************************************************************)
EXTENDS Naturals, Sequences, FiniteSetsExt

CONSTANTS
  Procs,      \* the processes; slot 1 is init
  Parent,     \* the parent each has at first, or 0
  GroupId,    \* the process group of each
  Admins,     \* the processes that may kill(-1)
  Sigs,       \* the signals that occur, SIGCHLD and SIGINT among them
  Kills,      \* the signals programs send
  Disps,      \* what programs set with sigaction(): subset of Disp
  Masks,      \* the signal sets programs use
  Handlers,   \* the processes that call sigaction(), sigprocmask(), sigsuspend()
  Sleepers,   \* the processes that make calls that sleep
  Timers,     \* the processes that call setitimer()
  Calls,      \* the system calls about signals programs make: subset of Call
  MaxSent     \* bound: signals that are sent, timers' included

Call == {"kill", "killpg", "killall", "sigaction", "sigprocmask", "sigsuspend",
         "execve", "exit"}

\* SIG_DFL, SIG_IGN, SIG_ERR, a handler, and one with SA_RESTART.
Disp == {"dfl", "ign", "err", "catch", "restart"}

WIN_PID_INIT == 1
NSIG == 33
SIGINT == 2
SIGKILL == 9
SIGALRM == 14
SIGSTOP == 17
SIGCHLD == 20

\* STOP, TSTP, CONT, TTIN, TTOU; URG, CHLD, IO, WINCH, INFO.
SIGMASK_STOP == {17, 18, 19, 21, 22}
SIGMASK_IGNORE == {16, 20, 23, 28, 29}

\* _WSTOPPED and the status of exit(c).
_WSTOPPED == 127
ExitStatus(c) == c * 256

ASSUME SignalsAssumption ==
  /\ Procs \subseteq Nat \ {0}
  /\ Parent \in [Procs -> Procs \cup {0}] /\ GroupId \in [Procs -> Nat]
  /\ Admins \subseteq Procs /\ Handlers \subseteq Procs
  /\ Sleepers \subseteq Procs /\ Timers \subseteq Procs
  /\ {SIGINT, SIGCHLD} \subseteq Sigs /\ Sigs \subseteq 1 .. NSIG - 1
  /\ Kills \subseteq Sigs
  /\ Timers # {} => SIGALRM \in Sigs
  /\ Disps \subseteq Disp /\ Masks \subseteq SUBSET Sigs
  /\ Calls \subseteq Call /\ MaxSent \in Nat

\* Mutant: the rows of SIGCONT and SIGCHLD are exchanged.
SIG_WIN_swapped(s) ==
  <<0, 5, 0, 12, 4, 28, 14, 20, 7, 2, 21, 3, 19, 13, 10, 6, 16, 23, 1, 9, 24,
    25, 26, 27, 29, 30, 15, 31, 8, 22, 17, 18, 11>>[s + 1]

\* __SIG_WIN[]: the control event of each signal number.
SIG_WIN(s) ==
  <<0, 5, 0, 12, 4, 28, 14, 20, 7, 2, 21, 3, 19, 13, 10, 6, 16, 23, 1, 24, 9,
    25, 26, 27, 29, 30, 15, 31, 8, 22, 17, 18, 11>>[s + 1]

\* __SIG_POSIX[]: the signal number of each control event.
SIG_POSIX(e) ==
  <<2, 18, 9, 11, 4, 1, 15, 8, 28, 20, 14, 32, 3, 13, 6, 26, 16, 30, 31, 12, 7,
    10, 29, 17, 19, 21, 22, 23, 5, 24, 25, 27, 0>>[e + 1]

\* The signal that arrives when s is sent.
Posted(s) == SIG_POSIX(SIG_WIN(s))

\* What a process is in the middle of.
FrameKind ==
  {"prog",      \* the program
   "catch",     \* a handler; the call it interrupts returns EINTR
   "restart",   \* a handler with SA_RESTART
   "begin",     \* syscall_enter(), about to proc_poll()
   "enter",     \* a system call that is past syscall_enter()
   "send",      \* kill() of several, in the loop over the tasks
   "sleep",     \* poll(), read() of a socket and the like
   "look",      \* wait4(WUNTRACED), about to look at the children
   "wait",      \* the same, asleep
   "suspend",   \* sigsuspend(): GetMessage() in vfs_sigsuspend()
   "stop",      \* the same, called by sigproc_default()
   "ret"}       \* sigproc_default() about to return -1
Frame == [f : FrameKind \ {"send"}, mask : SUBSET Sigs]
           \cup [f : {"send"}, sig : 0 .. NSIG - 1, to : SUBSET Procs]
Fr(f) == [f |-> f, mask |-> {}]

VARIABLES
  stack,      \* what each process is in the middle of; <<>> when it is dead
  queue,      \* the messages of its thread: signal numbers
  act,        \* Action[]
  mask,       \* ProcMask
  status,     \* Status
  interrupt,  \* the state of __Interrupt
  sent,       \* how many signals were sent
  want,       \* history: the mask the program has set outside sigsuspend()
  parent,     \* ParentId
  timer,      \* whether it has an interval timer
  cause       \* history: the signal that terminated the process, or 0

vars == <<stack, queue, act, mask, status, interrupt, sent, want, parent,
          timer, cause>>

TypeOK ==
  /\ stack \in [Procs -> Seq(Frame)]
  /\ queue \in [Procs -> Seq(Sigs)]
  /\ act \in [Procs -> [Sigs -> Disp]]
  /\ mask \in [Procs -> SUBSET Sigs] /\ want \in [Procs -> SUBSET Sigs]
  /\ status \in [Procs -> Nat]
  /\ interrupt \in BOOLEAN
  /\ sent \in 0 .. MaxSent
  /\ parent \in [Procs -> Procs \cup {0}]
  /\ timer \in [Procs -> BOOLEAN]
  /\ cause \in [Procs -> Sigs \cup {0}]

Alive(p) == stack[p] # <<>>
Top(p) == IF Alive(p) THEN Head(stack[p]).f ELSE "none"
InProgram(p) == Top(p) \in {"prog", "catch", "restart"}
Asleep(p) == Top(p) \in {"sleep", "wait"}
Suspended(p) == Top(p) \in {"suspend", "stop"}
Holds(p, kinds) == \E i \in 1 .. Len(stack[p]) : stack[p][i].f \in kinds

-----------------------------------------------------------------------------
(* Raising a signal *)

\* What becomes of the call that polled, the innermost frame of stk, when the
\* signal has been raised: if it was handled it returns EINTR, else it goes
\* on.  vfs_sigsuspend() returns either way, and after it sigproc_default(),
\* which discards the signal.
Resumed(stk, handled) ==
  CASE Head(stk).f = "begin" ->
         IF handled THEN Tail(stk) ELSE <<Fr("enter")>> \o Tail(stk)
    [] Head(stk).f = "sleep" -> IF handled THEN Tail(stk) ELSE stk
    [] Head(stk).f = "wait" -> IF handled THEN Tail(stk)
                               ELSE <<Fr("look")>> \o Tail(stk)
    [] Head(stk).f = "suspend" -> Tail(stk)
    [] Head(stk).f = "stop" -> <<Fr("ret")>> \o Tail(stk)

\* Mutant: vfs_sigsuspend() keeps the mask it was called with.
RestoredNot(p, stk) == mask[p]

\* The mask afterwards: vfs_sigsuspend() restores the one it found.
Restored(p, stk) ==
  IF Head(stk).f \in {"suspend", "stop"} THEN Head(stk).mask ELSE mask[p]

\* p ends; its parent gets SIGCHLD.
__exit(p, c, ev) ==
  LET dad == {d \in Procs : d = parent[p] /\ Alive(d)} IN
  /\ status' = [status EXCEPT ![p] = ExitStatus(c)]
  /\ stack' = [stack EXCEPT ![p] = <<>>]
  /\ queue' = [r \in Procs |-> CASE r = p -> <<>>
                                 [] r \in dad -> Append(queue[r], SIGCHLD)
                                 [] OTHER -> queue[r]]
  /\ interrupt' = (ev \/ dad # {})
  /\ UNCHANGED mask

\* Mutant: the parent that waits for its child to stop is not woken.
StopsQuietly(p, q, ev) ==
  /\ status' = [status EXCEPT ![p] = _WSTOPPED]
  /\ stack' = [stack EXCEPT ![p] = <<[f |-> "stop", mask |-> mask[p]]>> \o @]
  /\ mask' = [mask EXCEPT ![p] = {}]
  /\ queue' = [queue EXCEPT ![p] = Tail(q)]
  /\ interrupt' = ev
  /\ UNCHANGED cause

\* sigproc_default() of a stop signal, SIGCONT among them.
Stops(p, q, ev) ==
  /\ status' = [status EXCEPT ![p] = _WSTOPPED]
  /\ stack' = [stack EXCEPT ![p] = <<[f |-> "stop", mask |-> mask[p]]>> \o @]
  /\ mask' = [mask EXCEPT ![p] = {}]
  /\ queue' = [queue EXCEPT ![p] = Tail(q)]
  /\ interrupt' = TRUE
  /\ UNCHANGED cause

\* sigproc_posix() of the first message of q, taken by the innermost frame of
\* p while __Interrupt is ev.  (With SIG_ERR the status also holds the errno
\* of the last call that failed, here 0.)
Raise(p, q, ev) ==
  LET s == Head(q)
      d == act[p][s]
  IN
  \/ d = "dfl" /\ s \in SIGMASK_STOP /\ Stops(p, q, ev)
  \/ /\ d = "dfl" /\ s \notin SIGMASK_STOP \cup SIGMASK_IGNORE
     /\ __exit(p, 127, ev)
     /\ cause' = [cause EXCEPT ![p] = s]
  \/ /\ d \in {"catch", "restart"}
     /\ stack' = [stack EXCEPT ![p] = <<Fr(d)>> \o @]
     /\ queue' = [queue EXCEPT ![p] = Tail(q)]
     /\ interrupt' = ev
     /\ UNCHANGED <<mask, status, cause>>
  \/ /\ d \in {"ign", "err"} \/ (d = "dfl" /\ s \in SIGMASK_IGNORE)
     /\ stack' = [stack EXCEPT ![p] = Resumed(@, d = "err")]
     /\ mask' = [mask EXCEPT ![p] = Restored(p, stack[p])]
     /\ status' = IF d = "err" THEN [status EXCEPT ![p] = s] ELSE status
     /\ queue' = [queue EXCEPT ![p] = Tail(q)]
     /\ interrupt' = ev
     /\ UNCHANGED cause

\* A handler returns, or sigproc_default() after a stop.
Return(p) ==
  /\ Top(p) \in {"catch", "restart", "ret"}
  /\ stack' = [stack EXCEPT ![p] = Resumed(Tail(@), Top(p) = "catch")]
  /\ mask' = [mask EXCEPT ![p] = Restored(p, Tail(stack[p]))]
  /\ UNCHANGED <<queue, act, status, interrupt, sent, want, parent, cause, timer>>

-----------------------------------------------------------------------------
(* System calls *)

\* syscall_enter() of a process with a timer looks at __Interrupt, which
\* resets it; if it was not set, an expired timer may post its message.
Enter(p) ==
  /\ InProgram(p)
  /\ stack' = [stack EXCEPT ![p] = <<Fr("begin")>> \o @]
  /\ interrupt' = (interrupt /\ ~timer[p])
  /\ \/ UNCHANGED <<queue, sent, timer>>
     \/ /\ timer[p] /\ ~interrupt /\ sent < MaxSent
        /\ queue' = [queue EXCEPT ![p] = Append(@, SIGALRM)]
        /\ sent' = sent + 1
  /\ UNCHANGED <<act, mask, status, want, parent, cause, timer>>

\* proc_poll() in syscall_enter().
Poll(p) ==
  /\ Top(p) = "begin"
  /\ \/ queue[p] # <<>> /\ Raise(p, queue[p], interrupt)
     \/ /\ queue[p] = <<>>
        /\ stack' = [stack EXCEPT ![p] = Resumed(@, FALSE)]
        /\ UNCHANGED <<queue, mask, status, interrupt, cause>>
  /\ UNCHANGED <<act, sent, want, parent, timer>>

\* The call itself is made and returns.
Returns(p) == /\ Top(p) = "enter"
              /\ stack' = [stack EXCEPT ![p] = Tail(@)]

\* Mutant: the message is posted and nobody woken.
PostSilently(q, s) ==
  /\ queue' = IF Alive(q) THEN [queue EXCEPT ![q] = Append(@, Posted(s))] ELSE queue
  /\ interrupt' = interrupt

\* Mutant: the control event is taken for the signal.
PostUntranslated(q, s) ==
  /\ queue' = IF Alive(q) THEN [queue EXCEPT ![q] = Append(@, SIG_WIN(s))] ELSE queue
  /\ interrupt' = (interrupt \/ Alive(q))

\* vfs_kill_PID(): a message for the thread of q, then the event.
Post(q, s) ==
  /\ queue' = IF Alive(q) THEN [queue EXCEPT ![q] = Append(@, Posted(s))] ELSE queue
  /\ interrupt' = (interrupt \/ Alive(q))

Sending == sent < MaxSent /\ sent' = sent + 1

\* Any other system call, or one that fails.
Other(p) ==
  /\ Returns(p)
  /\ UNCHANGED <<queue, act, mask, status, interrupt, sent, want, parent, cause, timer>>

\* kill(pid, sig).  Of the three forms this alone looks whether sig is 0.
Kill(p, q, s) ==
  /\ Returns(p) /\ "kill" \in Calls
  /\ Sending /\ Post(q, s)
  /\ UNCHANGED <<act, mask, status, want, parent, cause, timer>>

\* A system call becomes the frame f.
Becomes(p, f) == /\ Top(p) = "enter"
                 /\ stack' = [stack EXCEPT ![p] = <<f>> \o Tail(@)]

\* kill(-pgid, sig), and kill(0, sig) for the group of p itself.
KillGrp(p, g, s) ==
  /\ "killpg" \in Calls
  /\ Becomes(p, [f |-> "send", sig |-> s,
                 to |-> {q \in Procs : GroupId[q] = g /\ q > WIN_PID_INIT}])
  /\ Sending
  /\ UNCHANGED <<queue, act, mask, status, interrupt, want, parent, cause, timer>>

\* kill(-1, sig)
KillSys(p, s) ==
  /\ "killall" \in Calls /\ p \in Admins
  /\ Becomes(p, [f |-> "send", sig |-> s, to |-> Procs \ {p}])
  /\ Sending
  /\ UNCHANGED <<queue, act, mask, status, interrupt, want, parent, cause, timer>>

\* The next task of the loop, from the last slot down.
SendNext(p) ==
  /\ Top(p) = "send"
  /\ LET to == Head(stack[p]).to IN
     \/ /\ to # {}
        /\ Post(Max(to), Head(stack[p]).sig)
        /\ stack' = [stack EXCEPT ![p][1].to = to \ {Max(to)}]
     \/ /\ to = {}
        /\ stack' = [stack EXCEPT ![p] = Tail(@)]
        /\ UNCHANGED <<queue, interrupt>>
  /\ UNCHANGED <<act, mask, status, sent, want, parent, cause, timer>>

\* sigaction(); SIGKILL and SIGSTOP are refused.
SigAction(p, s, d) ==
  /\ Returns(p) /\ "sigaction" \in Calls /\ p \in Handlers
  /\ s \notin {SIGKILL, SIGSTOP}
  /\ act' = [act EXCEPT ![p][s] = d]
  /\ UNCHANGED <<queue, mask, status, interrupt, sent, want, parent, cause, timer>>

\* sigprocmask(): SIG_BLOCK, SIG_UNBLOCK or SIG_SETMASK.
SigProcMask(p, how, m) ==
  LET set == m \ {SIGKILL, SIGSTOP}
      new == CASE how = "block" -> mask[p] \cup set
               [] how = "unblock" -> mask[p] \ set
               [] how = "set" -> set
  IN
  /\ Returns(p) /\ "sigprocmask" \in Calls /\ p \in Handlers
  /\ mask' = [mask EXCEPT ![p] = new]
  /\ want' = IF Holds(p, {"suspend", "stop"}) THEN want
             ELSE [want EXCEPT ![p] = new]
  /\ UNCHANGED <<queue, act, status, interrupt, sent, parent, cause, timer>>

SigSuspend(p, m) ==
  /\ "sigsuspend" \in Calls /\ p \in Handlers
  /\ Becomes(p, [f |-> "suspend", mask |-> mask[p]])
  /\ mask' = [mask EXCEPT ![p] = m]
  /\ UNCHANGED <<queue, act, status, interrupt, sent, want, parent, cause, timer>>

\* GetMessage() in vfs_sigsuspend().
GetMessage(p) ==
  /\ Suspended(p) /\ queue[p] # <<>>
  /\ Raise(p, queue[p], interrupt)
  /\ UNCHANGED <<act, sent, want, parent, timer>>

\* setitimer()
SetITimer(p) ==
  /\ p \in Timers
  /\ Returns(p)
  /\ timer' = [timer EXCEPT ![p] = TRUE]
  /\ UNCHANGED <<queue, act, mask, status, interrupt, sent, want, parent, cause>>

\* poll() and read() of a socket when nothing is ready, and wait4().
Sleep(p, f) ==
  /\ p \in Sleepers
  /\ f = "look" => \E k \in Procs : parent[k] = p
  /\ Becomes(p, Fr(f))
  /\ UNCHANGED <<queue, act, mask, status, interrupt, sent, want, parent, cause, timer>>

\* WaitNoHang(): a dead child is collected, one that has a status reported.
\* The wait for the handles of children that a handler has collected fails.
Look(p) ==
  /\ Top(p) = "look"
  /\ LET kids == {k \in Procs : parent[k] = p}
         dead == {k \in kids : ~Alive(k)}
         told == {k \in kids : Alive(k) /\ status[k] # 0}
     IN
     \/ /\ stack' = [stack EXCEPT ![p] = Tail(@)]
        /\ \/ \E k \in dead : parent' = [parent EXCEPT ![k] = 0]
           \/ (told # {} \/ kids = {}) /\ UNCHANGED parent
     \/ /\ kids # {} /\ dead \cup told = {}
        /\ stack' = [stack EXCEPT ![p] = <<Fr("wait")>> \o Tail(@)]
        /\ UNCHANGED parent
  /\ UNCHANGED <<queue, act, mask, status, interrupt, sent, want, cause, timer>>

\* A sleep ends, leaving __Interrupt as ev, and proc_poll() is called.
Woken(p, ev) ==
  \/ queue[p] # <<>> /\ Raise(p, queue[p], ev)
  \/ /\ queue[p] = <<>>
     /\ stack' = [stack EXCEPT ![p] = Resumed(@, FALSE)]
     /\ interrupt' = ev
     /\ UNCHANGED <<queue, mask, status, cause>>

WakeInterrupt(p) ==
  /\ Asleep(p) /\ interrupt
  /\ Woken(p, FALSE)
  /\ UNCHANGED <<act, sent, want, parent, timer>>

\* By an event that has nothing to report, or the handle of a dead child.
WakeOther(p) ==
  /\ Asleep(p)
  /\ Woken(p, interrupt)
  /\ UNCHANGED <<act, sent, want, parent, timer>>

\* TimeProc() runs in the sleeping thread and posts the thread a message.
WakeTimer(p) ==
  /\ Asleep(p) /\ timer[p] /\ sent < MaxSent
  /\ Raise(p, Append(queue[p], SIGALRM), interrupt)
  /\ sent' = sent + 1
  /\ UNCHANGED <<act, want, parent, timer>>

\* What poll() or read() sleeps for has come.
Ready(p) ==
  /\ Top(p) = "sleep"
  /\ stack' = [stack EXCEPT ![p] = Tail(@)]
  /\ UNCHANGED <<queue, act, mask, status, interrupt, sent, want, parent, cause, timer>>

\* execve(): a new thread, with no messages, runs the new program.
Exec(p) ==
  /\ Top(p) = "enter" /\ "execve" \in Calls
  /\ stack' = [stack EXCEPT ![p] = <<Fr("prog")>>]
  /\ queue' = [queue EXCEPT ![p] = <<>>]
  /\ act' = [act EXCEPT ![p] = [s \in Sigs |-> "dfl"]]
  /\ want' = [want EXCEPT ![p] = mask[p]]
  /\ timer' = [timer EXCEPT ![p] = FALSE]
  /\ UNCHANGED <<mask, status, interrupt, sent, parent, cause>>

Exit(p) ==
  /\ Top(p) = "enter" /\ "exit" \in Calls
  /\ __exit(p, 0, interrupt)
  /\ UNCHANGED <<act, sent, want, parent, cause, timer>>

-----------------------------------------------------------------------------
Init ==
  /\ stack = [p \in Procs |-> <<Fr("prog")>>]
  /\ queue = [p \in Procs |-> <<>>]
  /\ act = [p \in Procs |-> [s \in Sigs |-> "dfl"]]
  /\ mask = [p \in Procs |-> {}] /\ want = [p \in Procs |-> {}]
  /\ status = [p \in Procs |-> 0]
  /\ interrupt = FALSE
  /\ sent = 0
  /\ parent = Parent
  /\ timer = [p \in Procs |-> FALSE]
  /\ cause = [p \in Procs |-> 0]

Next ==
  \E p \in Procs :
    \/ Enter(p) \/ Poll(p) \/ Return(p) \/ Other(p) \/ SendNext(p)
    \/ \E q \in Procs, s \in Kills : Kill(p, q, s)
    \/ \E g \in {GroupId[q] : q \in Procs}, s \in Kills \cup {0} : KillGrp(p, g, s)
    \/ \E s \in Kills \cup {0} : KillSys(p, s)
    \/ \E s \in Sigs, d \in Disps : SigAction(p, s, d)
    \/ \E how \in {"block", "unblock", "set"}, m \in Masks : SigProcMask(p, how, m)
    \/ \E m \in Masks : SigSuspend(p, m)
    \/ GetMessage(p)
    \/ Sleep(p, "sleep") \/ Sleep(p, "look")
    \/ SetITimer(p) \/ Look(p)
    \/ WakeInterrupt(p) \/ WakeOther(p) \/ WakeTimer(p) \/ Ready(p)
    \/ Exec(p) \/ Exit(p)

Spec == Init /\ [][Next]_vars

\* A thread that can go on inside libposix does.  What programs and their
\* handlers do, and what a sleep was for, is not up to libposix.
Fairness ==
  \A p \in Procs :
    /\ WF_vars(Poll(p)) /\ WF_vars(GetMessage(p)) /\ WF_vars(Look(p))
    /\ WF_vars(WakeInterrupt(p)) /\ WF_vars(SendNext(p))
    /\ WF_vars(Top(p) = "ret" /\ Return(p))

FairSpec == Spec /\ Fairness

-----------------------------------------------------------------------------
(* Properties *)

\* The signal that arrives is the one that was sent, whatever its number:
\* __SIG_POSIX[] undoes __SIG_WIN[].
SignalArrives ==
  [][\A p, q \in Procs, s \in Kills :
       Kill(p, q, s) /\ Alive(q) => queue'[q] = Append(queue[q], s)]_vars

\* However suspensions nest, with handlers and stops in between, the mask is
\* the one the program has set itself as soon as the last of them is over.
MaskRestored ==
  \A p \in Procs :
    Alive(p) /\ ~Holds(p, {"suspend", "stop"}) => mask[p] = want[p]

\* A process asleep in a system call notices the signals sent to it.
SignalWakes ==
  \A p \in Procs :
    (Asleep(p) /\ queue[p] # <<>>) ~> (~Asleep(p) \/ queue[p] = <<>>)

\* A parent in wait4(WUNTRACED) hears of a child that stops.
StopIsTold ==
  \A p, k \in Procs :
    (Top(p) = "wait" /\ parent[k] = p /\ Top(k) = "stop")
      ~> (Top(p) # "wait" \/ Top(k) # "stop")

\* SIGCONT makes a stopped process go on.
ContResumes ==
  \A p \in Procs :
    (Top(p) = "stop" /\ queue[p] # <<>> /\ Head(queue[p]) = 19)
      ~> ~Holds(p, {"stop"})

\* A signal that its process blocks is not acted upon.
BlockedWaits ==
  [][\A p \in Procs :
       queue[p] # <<>> /\ queue'[p] = Tail(queue[p]) /\ Alive(p)
         => Head(queue[p]) \notin mask[p]]_vars

\* The status of a process that a signal has terminated names the signal.
StatusNamesSignal ==
  \A p \in Procs : ~Alive(p) /\ cause[p] # 0 => status[p] = cause[p]

\* A running process is not reported as stopped.
StoppedIsStopped ==
  \A p \in Procs : status[p] = _WSTOPPED => Holds(p, {"stop"}) \/ ~Alive(p)

\* execve() leaves the signals alone that are ignored.
IgnoredStays ==
  [][\A p \in Procs : Exec(p) =>
       \A s \in Sigs : act[p][s] = "ign" => act'[p][s] = "ign"]_vars
=============================================================================
