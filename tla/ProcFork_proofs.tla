---------------------------- MODULE ProcFork_proofs ----------------------------
(***************************************************************************)
(* The answer to fork(): without vfork(), a WM_USER message reaches only a *)
(* thread that waits for it, and carries the child that this very fork()   *)
(* created, however forks overlap and whatever else programs do.  With     *)
(* vfork() it does not hold: ProcStrayUser shows how.                      *)
(***************************************************************************)
EXTENDS ProcTable_proofs

\* A thread that fork() has created for another, and that has no slot yet.
Asks(u) == pc[u] \in {"scan", "claim"} /\ arg[u].ThreadId # NoThread

\* The parent of a child without a slot waits, and has no message.
ParentWaits ==
  \A u \in Threads : Asks(u) =>
    LET t == arg[u].ThreadId IN t \in Threads /\ pc[t] = "fork" /\ mail[t] = <<>>
\* A fork() has one child.
OneChild ==
  \A u, v \in Threads : Asks(u) /\ Asks(v) /\ arg[u].ThreadId = arg[v].ThreadId => u = v
\* The argument of a thread goes with its start.
ArgsFreed == \A u \in Threads : pc[u] \notin {"scan", "claim"} => arg[u] = NoStruct
NoVfork ==
  /\ \A u \in Threads : arg[u].Flags = {}
  /\ \A s \in Pids : "PPWAIT" \notin tasks[s].Flags

Answers == /\ Typed /\ ForkAnswer
           /\ ParentWaits /\ OneChild /\ ArgsFreed /\ NoVfork /\ Ends

LEMMA AnswersInit == Init => Answers
<1> SUFFICES ASSUME Init PROVE Answers
  OBVIOUS
<1>1. PICK i \in Threads, q \in Procs :
        /\ tasks = [p \in Pids |->
             CASE p = 0 -> [FreeTask EXCEPT !.Flags = {"EMBRYO"}, !.ThreadId = BootThread]
               [] p = WIN_PID_INIT -> [FreeTask EXCEPT !.Flags = {"EMBRYO"},
                                                 !.ThreadId = i, !.Handle = TRUE]
               [] OTHER -> FreeTask]
        /\ pc = [t \in Threads |-> IF t = i THEN "run" ELSE "none"]
        /\ proc = [t \in Threads |-> IF t = i THEN q ELSE NoProc]
        /\ arg = [t \in Threads |-> NoStruct]
        /\ mail = [t \in Threads |-> <<>>]
  BY DEF Init
<1>2. \A s \in Pids : "PPWAIT" \notin tasks[s].Flags
  BY <1>1 DEF FreeTask
<1>3. NoStruct.Flags = {}
  BY DEF NoStruct
<1> QED BY <1>1, <1>2, <1>3, TypedInit, EndsInit
        DEF Answers, ForkAnswer, ParentWaits, OneChild, ArgsFreed, NoVfork, Asks

\* A step of a thread that neither forks nor claims a slot.
LEMMA QuietAnswers ==
  ASSUME Answers, Typed', Ends', NEW t \in Threads,
         pc[t] \notin {"none", "scan", "claim", "fork"},
         pc'[t] \notin {"none", "scan", "claim", "fork"},
         \A u \in Threads \ {t} : pc'[u] = pc[u],
         pc[t] \in Exits => pc'[t] \in Exits,
         pc'[t] = "xproc" => pc[t] = "xproc" \/ LastThread(t),
         UNCHANGED <<arg, proc, mail, kid>>,
         \A s \in Pids : "PPWAIT" \notin tasks'[s].Flags
  PROVE  Answers'
<1> USE DEF Answers, Asks
<1>1. ForkAnswer'
  BY DEF ForkAnswer
<1>2. ParentWaits'
  BY DEF ParentWaits
<1>3. OneChild'
  BY DEF OneChild
<1>4. ArgsFreed'
  BY DEF ArgsFreed
<1>5. NoVfork'
  BY DEF NoVfork
<1> QED BY <1>1, <1>2, <1>3, <1>4, <1>5

\* Threads end, all of them exiting.
LEMMA GoneAnswers ==
  ASSUME Answers, Typed', Ends', NEW t \in Threads, pc[t] \in Exits, NEW S,
         \A u \in Threads : u \in S => pc[u] \in Exits,
         NEW newpc, \A u \in Threads : newpc[u] = pc[u] \/ (u = t /\ newpc[u] = "xnotify"),
         NEW newchld, Gone(S, newpc, mail, newchld),
         \A s \in Pids : "PPWAIT" \notin tasks'[s].Flags
  PROVE  Answers'
<1> USE DEF Answers, Asks
<1>1. /\ \A u \in Threads : pc'[u] = IF u \in S THEN "none" ELSE newpc[u]
      /\ \A u \in Threads : proc'[u] = IF u \in S THEN NoProc ELSE proc[u]
      /\ \A u \in Threads : mail'[u] = IF u \in S THEN <<>> ELSE mail[u]
      /\ UNCHANGED <<arg, kid>>
  BY DEF Gone
<1>2. \A u \in Threads : \/ pc'[u] = pc[u] /\ u \notin S
                         \/ pc[u] \in Exits /\ u \in S /\ pc'[u] = "none"
                         \/ pc[u] \in Exits /\ u \notin S /\ pc'[u] = "xnotify"
  BY <1>1
<1>3. ForkAnswer'
  BY <1>1, <1>2 DEF ForkAnswer, Exits
<1>4. \A u \in Threads : Asks(u)' => Asks(u)
  BY <1>1, <1>2
<1>5. ParentWaits'
  BY <1>1, <1>2, <1>4 DEF ParentWaits, Exits
<1>6. OneChild'
  BY <1>1, <1>4 DEF OneChild
<1>7. ArgsFreed'
  BY <1>1, <1>2 DEF ArgsFreed, Exits
<1>8. NoVfork'
  BY <1>1 DEF NoVfork
<1> QED BY <1>3, <1>5, <1>6, <1>7, <1>8

-----------------------------------------------------------------------------
LEMMA ForkAnswers ==
  ASSUME ~Vfork, Answers, Typed', Ends', NEW t \in Threads, NEW f \in ForkFlags, Fork(t, f)
  PROVE  Answers'
<1> USE DEF Answers, Asks
<1>1. PICK u \in Fresh :
        /\ pc' = [pc EXCEPT ![t] = "fork", ![u] = "scan"]
        /\ proc' = [proc EXCEPT ![u] = proc[t]]
        /\ arg' = [arg EXCEPT ![u] = [TaskId |-> cur[t], ThreadId |-> t, Flags |-> f]]
  BY DEF Fork
<1>2. /\ f = {} /\ pc[t] = "run" /\ u \in Threads /\ pc[u] = "none" /\ u # t
      /\ UNCHANGED <<tasks, mail, kid>>
  BY <1>1 DEF Fork, ForkFlags, Fresh
<1>3. /\ pc'[t] = "fork" /\ pc'[u] = "scan" /\ proc'[u] = proc[t]
      /\ arg'[u].ThreadId = t /\ arg'[u].Flags = {}
      /\ \A v \in Threads \ {t, u} : pc'[v] = pc[v]
      /\ \A v \in Threads \ {u} : proc'[v] = proc[v] /\ arg'[v] = arg[v]
  BY <1>1, <1>2 DEF Typed, TypeOK
<1>4. mail[t] = <<>> /\ mail[u] = <<>>
  BY <1>2 DEF ForkAnswer
<1>5. \A v \in Threads \ {u} : Asks(v)' => Asks(v) /\ arg[v].ThreadId # t /\ arg[v].ThreadId # u
  BY <1>2, <1>3 DEF ParentWaits
<1>6. ForkAnswer'
  BY <1>2, <1>3, <1>4 DEF ForkAnswer
<1>7. ParentWaits'
  BY <1>2, <1>3, <1>4, <1>5 DEF ParentWaits
<1>8. OneChild'
  BY <1>3, <1>5 DEF OneChild
<1>9. ArgsFreed'
  BY <1>2, <1>3 DEF ArgsFreed
<1>10. NoVfork'
  BY <1>2, <1>3 DEF NoVfork
<1> QED BY <1>6, <1>7, <1>8, <1>9, <1>10

LEMMA StartAnswers == ASSUME Answers, Typed', Ends', Start PROVE Answers'
<1> USE DEF Answers, Asks
<1>1. PICK u \in Fresh, q \in FreshProcs :
        pc' = [pc EXCEPT ![u] = "scan"] /\ proc' = [proc EXCEPT ![u] = q]
  BY DEF Start
<1>2. /\ u \in Threads /\ pc[u] = "none" /\ q \in Procs /\ \A t \in Threads : proc[t] # q
      /\ UNCHANGED <<tasks, arg, mail, kid>>
  BY DEF Start, Fresh, FreshProcs
<1>3. /\ pc'[u] = "scan" /\ proc'[u] = q
      /\ \A v \in Threads \ {u} : pc'[v] = pc[v] /\ proc'[v] = proc[v]
  BY <1>1, <1>2 DEF Typed, TypeOK
<1>4. arg[u].ThreadId = NoThread
  BY <1>2 DEF ArgsFreed, NoStruct
<1>5. \A v \in Threads : Asks(v)' => Asks(v) /\ v # u /\ arg[v].ThreadId # u
  BY <1>2, <1>3, <1>4 DEF ParentWaits
<1>6. ForkAnswer'
  BY <1>2, <1>3 DEF ForkAnswer
<1>7. ParentWaits'
  BY <1>2, <1>3, <1>5 DEF ParentWaits
<1>8. OneChild'
  BY <1>2, <1>5 DEF OneChild
<1>9. ArgsFreed' /\ NoVfork'
  BY <1>2, <1>3 DEF ArgsFreed, NoVfork
<1> QED BY <1>6, <1>7, <1>8, <1>9

\* A look at a slot, or the end of the thread that has looked at them all.
LEMMA ScanAnswers ==
  ASSUME Answers, Typed', Ends', NEW t \in Threads, Scan(t) \/ TableFull(t)
  PROVE  Answers'
<1> USE DEF Answers, Asks
<1>1. /\ pc[t] = "scan" /\ pc'[t] \in {"scan", "claim"} \cup Exits
      /\ pc'[t] = "xproc" => LastThread(t)
      /\ pc'[t] \in Exits => arg'[t] = NoStruct
      /\ pc'[t] \notin Exits => arg'[t] = arg[t]
      /\ \A v \in Threads \ {t} : pc'[v] = pc[v] /\ arg'[v] = arg[v]
      /\ UNCHANGED <<proc, mail>>
  <2>1. CASE Scan(t)
    BY <2>1 DEF Scan, Typed, TypeOK, Exits
  <2>2. CASE TableFull(t)
    <3>1. proc_exit(t) \in {"xthread", "xproc"} /\ (proc_exit(t) = "xproc" => LastThread(t))
      BY DEF proc_exit
    <3>2. /\ pc[t] = "scan" /\ pc' = [pc EXCEPT ![t] = proc_exit(t)]
          /\ arg' = [arg EXCEPT ![t] = NoStruct] /\ UNCHANGED <<proc, mail>>
      BY <2>2 DEF TableFull
    <3> QED BY <3>1, <3>2 DEF Typed, TypeOK, Exits
  <2> QED BY <2>1, <2>2
<1>2. \A s \in Pids : "PPWAIT" \notin tasks'[s].Flags
  <2>1. CASE Scan(t)
    BY <2>1, FreeFields DEF Scan, NoVfork
  <2>2. CASE TableFull(t)
    <3>1. 127 * 256 \in Nat
      OBVIOUS
    <3>2. /\ tasks'[0].Flags = tasks[0].Flags \cup {"EXITING"}
          /\ \A s \in Pids : s # 0 => tasks'[s] = tasks[s]
      <4>1. Typed /\ 0 \in Pids
        BY PidFacts
      <4>2. tasks' = [tasks EXCEPT ![0].Status = 127 * 256,
                                   ![0].Flags = @ \cup {"EXITING"}]
        BY <2>2 DEF TableFull
      <4> HIDE DEF Answers
      <4> QED BY <3>1, <4>1, <4>2, ExitEffect
    <3> QED BY <3>2 DEF NoVfork
  <2> QED BY <2>1, <2>2
<1>3. \A v \in Threads : Asks(v)' => Asks(v) /\ arg'[v] = arg[v]
  BY <1>1 DEF NoStruct, Exits
<1>4. ForkAnswer'
  <2>1. ASSUME NEW v \in Threads, mail[v] # <<>> PROVE v # t /\ kid'[v] = kid[v]
    <3>1. v # t
      BY <1>1, <2>1 DEF ForkAnswer
    <3>2. v # arg[t].ThreadId
      BY <1>1, <2>1, ProcAssumption DEF ParentWaits
    <3>3. CASE Scan(t)
      BY <3>1, <3>3 DEF Scan
    <3>4. CASE TableFull(t)
      BY <3>1, <3>2, <3>4 DEF TableFull
    <3> QED BY <3>1, <3>3, <3>4
  <2> QED BY <1>1, <2>1 DEF ForkAnswer
<1>5. ParentWaits'
  BY <1>1, <1>3 DEF ParentWaits
<1>6. OneChild'
  BY <1>3 DEF OneChild
<1>7. ArgsFreed'
  BY <1>1 DEF ArgsFreed
<1>8. NoVfork'
  BY <1>1, <1>2 DEF NoVfork, NoStruct
<1> QED BY <1>4, <1>5, <1>6, <1>7, <1>8

\* The child has its slot and tells the parent that waits for it.
LEMMA ClaimAnswers ==
  ASSUME Answers, Typed', Ends', NEW u \in Threads, Claim(u) PROVE Answers'
<1> USE DEF Answers, Asks
<1> DEFINE d == arg[u].ThreadId
<1>1. /\ pc[u] = "claim" /\ pc'[u] = "run" /\ arg'[u] = NoStruct
      /\ at[u] \in Pids /\ arg[u].Flags = {}
      /\ \A v \in Threads \ {u} : pc'[v] = pc[v] /\ arg'[v] = arg[v]
      /\ UNCHANGED proc
  BY DEF Claim, Typed, TypeOK, NoVfork
<1>2. \A s \in Pids : "PPWAIT" \notin tasks'[s].Flags
  <2>1. PICK h \in BOOLEAN : tasks' = [tasks EXCEPT ![at[u]] = ClaimedTask(u, h)]
    BY DEF Claim
  <2>2. ClaimedTask(u, h).Flags = {"EMBRYO"}
    <3>1. tasks[at[u]] \in Task /\ tasks \in [Pids -> Task]
      BY <1>1 DEF Typed, TypeOK
    <3> QED BY <1>1, <3>1 DEF ClaimedTask, Task
  <2>3. tasks'[at[u]].Flags = {"EMBRYO"}
    BY <1>1, <2>1, <2>2 DEF Typed, TypeOK
  <2> QED BY <1>1, <2>1, <2>3, ClaimEffect DEF NoVfork
<1>3. \A v \in Threads : Asks(v)' => Asks(v) /\ v # u /\ arg'[v] = arg[v]
  BY <1>1
<1>4. OneChild' /\ ArgsFreed' /\ NoVfork'
  <2>1. OneChild'
    BY <1>3 DEF OneChild
  <2>2. ArgsFreed'
    BY <1>1 DEF ArgsFreed
  <2>3. NoStruct.Flags = {}
    BY DEF NoStruct
  <2>4. NoVfork'
    BY <1>1, <1>2, <2>3 DEF NoVfork
  <2> QED BY <2>1, <2>2, <2>4
<1>5. CASE d = NoThread
  <2>1. UNCHANGED <<mail, kid>>
    BY <1>5, ProcAssumption DEF Claim, proc_fork_leave, Running
  <2>2. ForkAnswer'
    BY <1>1, <2>1 DEF ForkAnswer
  <2>3. ParentWaits'
    BY <1>1, <1>3, <2>1 DEF ParentWaits
  <2> QED BY <2>2, <2>3, <1>4
<1>6. CASE d # NoThread
  <2>1. d \in Threads /\ pc[d] = "fork" /\ mail[d] = <<>> /\ d # u
    BY <1>1, <1>6 DEF ParentWaits
  <2>2. /\ mail' = [mail EXCEPT ![d] = Append(@, at[u])]
        /\ kid' = [kid EXCEPT ![d] = at[u]]
    BY <1>1, <1>6, <2>1 DEF Claim, proc_fork_leave, Running
  <2>3. /\ mail'[d] = <<at[u]>> /\ kid'[d] = at[u]
        /\ \A v \in Threads \ {d} : mail'[v] = mail[v] /\ kid'[v] = kid[v]
    BY <2>1, <2>2 DEF Typed, TypeOK
  <2>4. ForkAnswer'
    BY <1>1, <2>1, <2>3 DEF ForkAnswer
  <2>5. \A v \in Threads : Asks(v)' => arg[v].ThreadId # d
    BY <1>1, <1>3, <1>6 DEF OneChild
  <2>6. ParentWaits'
    BY <1>1, <1>3, <2>3, <2>5 DEF ParentWaits
  <2> QED BY <2>4, <2>6, <1>4
<1> QED BY <1>5, <1>6

\* The parent takes the message.
LEMMA ReturnAnswers ==
  ASSUME Answers, Typed', Ends', NEW t \in Threads, ForkReturn(t) PROVE Answers'
<1> USE DEF Answers, Asks
<1>1. /\ pc[t] = "fork" /\ mail[t] # <<>> /\ pc'[t] = "run" /\ mail'[t] = <<>>
      /\ \A v \in Threads \ {t} : pc'[v] = pc[v] /\ mail'[v] = mail[v] /\ kid'[v] = kid[v]
      /\ UNCHANGED <<tasks, arg, proc>>
  <2>1. mail[t] = <<kid[t]>>
    BY DEF ForkReturn, ForkAnswer
  <2>2. Tail(mail[t]) = <<>>
    BY <2>1
  <2> QED BY <2>2 DEF ForkReturn, Typed, TypeOK
<1>2. \A v \in Threads : Asks(v)' => Asks(v) /\ arg[v].ThreadId # t
  BY <1>1 DEF ParentWaits
<1>3. ForkAnswer'
  BY <1>1 DEF ForkAnswer
<1>4. ParentWaits'
  BY <1>1, <1>2 DEF ParentWaits
<1> QED BY <1>1, <1>2, <1>3, <1>4
        DEF OneChild, ArgsFreed, NoVfork

LEMMA ExecAnswers ==
  ASSUME Answers, Typed', Ends', NEW t \in Threads, Exec(t) PROVE Answers'
<1> USE DEF Answers, Asks
<1>1. PICK u \in Fresh, q \in FreshProcs :
        /\ pc' = [pc EXCEPT ![t] = proc_exit(t), ![u] = "run"]
        /\ proc' = [proc EXCEPT ![u] = q]
        /\ tasks' = [tasks EXCEPT ![cur[t]].ThreadId = u, ![cur[t]].Handle = TRUE]
  BY DEF Exec
<1>2. /\ pc[t] = "run" /\ u \in Threads /\ pc[u] = "none" /\ u # t
      /\ q \in Procs /\ \A v \in Threads : proc[v] # q
      /\ UNCHANGED <<arg, mail, kid>>
  BY <1>1 DEF Exec, Fresh, FreshProcs
<1>3. /\ pc'[t] \in {"xproc", "xthread"} /\ pc'[u] = "run" /\ proc'[u] = q
      /\ pc'[t] = "xproc" => LastThread(t)
      /\ \A v \in Threads \ {t, u} : pc'[v] = pc[v]
      /\ \A v \in Threads \ {u} : proc'[v] = proc[v]
  BY <1>1, <1>2 DEF proc_exit, Typed, TypeOK
<1>4. \A s \in Pids : "PPWAIT" \notin tasks'[s].Flags
  BY <1>1, <1>2, TypedAt, ExecEffect DEF NoVfork
<1>5. \A v \in Threads : Asks(v)' => Asks(v) /\ v \notin {t, u}
  BY <1>2, <1>3
<1>6. ForkAnswer'
  BY <1>2, <1>3 DEF ForkAnswer
<1>7. ParentWaits'
  BY <1>2, <1>3, <1>5 DEF ParentWaits
<1> QED BY <1>2, <1>3, <1>4, <1>5, <1>6, <1>7
        DEF OneChild, ArgsFreed, NoVfork, Exits

\* exit(): the message is one that ForkAnswer rules out.
LEMMA ExitAnswers ==
  ASSUME Answers, Typed', Ends', NEW t \in Threads, NEW c \in ExitCodes,
         Exit(t, c) \/ PollUser(t)
  PROVE  Answers'
<1> USE DEF Answers
<1>1. Exit(t, c)
  BY DEF PollUser, ForkAnswer
<1>2. \A s \in Pids : "PPWAIT" \notin tasks'[s].Flags
  <2>1. c * 256 \in Nat
    BY ProcAssumption
  <2>2. cur[t] \in Pids
    BY TypedAt
  <2>3. /\ tasks'[cur[t]].Flags = tasks[cur[t]].Flags \cup {"EXITING"}
        /\ \A s \in Pids : s # cur[t] => tasks'[s] = tasks[s]
    BY <1>1, <2>1, <2>2, ExitEffect DEF Exit, __exit
  <2> QED BY <2>3 DEF NoVfork
<1>3. /\ pc[t] = "run" /\ pc'[t] \in {"xproc", "xthread"}
      /\ pc'[t] = "xproc" => LastThread(t)
      /\ \A v \in Threads \ {t} : pc'[v] = pc[v]
      /\ UNCHANGED <<arg, proc, mail, kid>>
  BY <1>1 DEF Exit, __exit, proc_exit, Typed, TypeOK
<1> QED BY <1>2, <1>3, QuietAnswers DEF Exits

\* The detach notification: without vfork() it sends no WM_USER.
LEMMA DetachAnswers ==
  ASSUME Answers, Typed', Ends', NEW t \in Threads, Detach(t) \/ Notify(t)
  PROVE  Answers'
<1> USE DEF Answers
<1>1. cur[t] \in Pids /\ \A s \in Pids : "PPWAIT" \notin tasks[s].Flags
  BY TypedAt DEF NoVfork
<1>2. CASE Detach(t)
  <2> DEFINE lost == (IF pc[t] = "xproc" THEN Mates(t) ELSE {})
                     \cup (IF Exiting(cur[t]) THEN {} ELSE {t})
             new == [pc EXCEPT ![t] = "xnotify"]
  <2>1. pc[t] \in Exits /\ Gone(lost, new, mail, chld)
    BY <1>1, <1>2 DEF Detach, Exits
  <2>2. \A u \in Threads : u \in lost => pc[u] \in Exits
    BY <2>1 DEF Ends, LastOne, Mates
  <2>3. \A u \in Threads : new[u] = pc[u] \/ (u = t /\ new[u] = "xnotify")
    BY DEF Typed, TypeOK
  <2>4. \A s \in Pids : "PPWAIT" \notin tasks'[s].Flags
    BY <1>1, <1>2, FlagEffect DEF Detach, Flag
  <2> HIDE DEF lost, new, Answers
  <2> QED BY <2>1, <2>2, <2>3, <2>4, GoneAnswers
<1>3. CASE Notify(t)
  <2>1. PICK c : Gone({t}, pc, mail, c)
    BY <1>3 DEF Notify
  <2>2. pc[t] \in Exits
    BY <1>3 DEF Notify, Exits
  <2>3. \A s \in Pids : "PPWAIT" \notin tasks'[s].Flags
    <3>1. tasks[cur[t]].Handle \in BOOLEAN
      BY <1>1, TypedAt, TaskFields
    <3> QED BY <1>1, <1>3, <3>1, OrphanEffect DEF Notify
  <2> HIDE DEF Answers
  <2> QED BY <2>1, <2>2, <2>3, GoneAnswers
<1> QED BY <1>2, <1>3

\* wait4() and setpgid() send no message and end no thread.
LEMMA WaitAnswers ==
  ASSUME Answers, Typed', Ends', NEW t \in Threads,
         \/ PollChild(t) \/ WaitFound(t) \/ WaitReap(t) \/ WaitRecursive(t)
         \/ \E k \in WaitKinds, p \in Pids \ {0} : Wait4(t, k, p)
         \/ \E b \in BOOLEAN : WaitNone(t, b) \/ WaitPoll(t, b)
         \/ \E a \in PgidArgs : SetPgid(t, a[1], a[2])
  PROVE  Answers'
<1> USE DEF Answers
<1>1. /\ pc[t] \in {"run", "wait", "reap"} /\ pc'[t] \in {"run", "wait", "reap"}
      /\ \A v \in Threads \ {t} : pc'[v] = pc[v]
      /\ UNCHANGED <<arg, proc, mail, kid>>
  BY DEF PollChild, WaitFound, WaitReap, WaitRecursive, Wait4, WaitNone, WaitPoll,
         SetPgid, Typed, TypeOK
<1>2. \A s \in Pids : "PPWAIT" \notin tasks'[s].Flags
  <2>1. CASE PollChild(t)
    BY <2>1 DEF PollChild, NoVfork
  <2>2. CASE WaitFound(t)
    BY <2>2, FreeFields DEF WaitFound, NoVfork
  <2>3. CASE WaitReap(t)
    BY <2>3, TypedAt, CloseEffect DEF WaitReap, NoVfork
  <2>4. CASE WaitRecursive(t)
    <3>1. PICK z \in Zombies(taskv_ANY(cur[t])) : tasks' = proc_close(z)
      BY <2>4 DEF WaitRecursive
    <3>2. z \in Pids
      BY DEF Zombies, taskv_ANY
    <3> QED BY <3>1, <3>2, CloseEffect DEF NoVfork
  <2>5. CASE \E k \in WaitKinds, p \in Pids \ {0} : Wait4(t, k, p)
    BY <2>5 DEF Wait4, NoVfork
  <2>6. ASSUME NEW b \in BOOLEAN, WaitNone(t, b) \/ WaitPoll(t, b)
        PROVE  \A s \in Pids : "PPWAIT" \notin tasks'[s].Flags
    BY <2>6, FreeFields DEF WaitNone, WaitPoll, NoVfork
  <2>7. ASSUME NEW a \in PgidArgs, SetPgid(t, a[1], a[2])
        PROVE  \A s \in Pids : "PPWAIT" \notin tasks'[s].Flags
    <3> DEFINE p == IF a[1] = 0 THEN cur[t] ELSE a[1]
               g == IF a[2] # 0 THEN a[2]
                    ELSE IF tasks[p].Flags = {} THEN 0 ELSE p
    <3>1. p \in Pids /\ g \in Pids
      BY TypedAt, ProcAssumption, PidFacts DEF Pids
    <3>2. tasks' = [tasks EXCEPT ![p].GroupId = g]
      BY <2>7 DEF SetPgid
    <3> HIDE DEF p, g
    <3> QED BY <3>1, <3>2, GroupEffect DEF NoVfork
  <2> QED BY <2>1, <2>2, <2>3, <2>4, <2>5, <2>6, <2>7
<1> QED BY <1>1, <1>2, QuietAnswers DEF Exits

-----------------------------------------------------------------------------
LEMMA AnswersStep == ASSUME ~Vfork PROVE Answers /\ [Next]_vars => Answers'
<1> SUFFICES ASSUME Answers, [Next]_vars PROVE Answers'
  OBVIOUS
<1>1. Typed' /\ Ends'
  BY TypedStep, EndsStep DEF Answers
<1>2. CASE UNCHANGED vars
  BY <1>1, <1>2 DEF vars, Answers, Typed, TypeOK, ClaimInRange, ForkAnswer, ParentWaits,
              OneChild, ArgsFreed, NoVfork, Asks
<1>3. CASE Start
  BY <1>1, <1>3, StartAnswers
<1>4. ASSUME NEW t \in Threads, ThreadStep(t) PROVE Answers'
  <2>1. CASE \E f \in ForkFlags : Fork(t, f)
    BY <1>1, <2>1, ForkAnswers
  <2>2. CASE Scan(t) \/ TableFull(t)
    BY <1>1, <2>2, ScanAnswers
  <2>3. CASE Claim(t) \/ ForkReturn(t) \/ Exec(t)
    BY <1>1, <2>3, ClaimAnswers, ReturnAnswers, ExecAnswers
  <2>4. CASE \E c \in ExitCodes : Exit(t, c)
    BY <1>1, <2>4, ExitAnswers
  <2>5. CASE PollUser(t)
    BY <2>5 DEF PollUser, Answers, ForkAnswer
  <2>6. CASE Detach(t) \/ Notify(t)
    BY <1>1, <2>6, DetachAnswers
  <2> QED BY <1>1, <1>4, <2>1, <2>2, <2>3, <2>4, <2>5, <2>6, WaitAnswers
          DEF ThreadStep
<1> QED BY <1>2, <1>3, <1>4, NextCases

\* WM_USER is sent to a thread only while it waits in proc_fork(), and carries
\* the slot of the child that this very fork() created: for every table size
\* and every number of threads, also when forks overlap, as long as no program
\* calls vfork().
THEOREM ForkAnswered == ASSUME ~Vfork PROVE Spec => []ForkAnswer
<1>1. Spec => []Answers
  BY AnswersInit, AnswersStep, PTL DEF Spec
<1>2. Answers => ForkAnswer
  BY DEF Answers
<1> QED BY <1>1, <1>2, PTL
=============================================================================
