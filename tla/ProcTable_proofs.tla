--------------------------- MODULE ProcTable_proofs ---------------------------
(***************************************************************************)
(* Theorems about the process table, for every number of slots, threads    *)
(* and Win32 processes.                                                    *)
(*                                                                         *)
(* Type correctness holds whatever programs call.  That a running slot has *)
(* one thread, and that wait4() collects the zombie it saw, is proved for  *)
(* orderly programs (Orderly below): the configurations ProcOverlap and    *)
(* ProcStale show how restrictions that are lifted break the two.          *)
(***************************************************************************)
EXTENDS ProcTable, TLAPS

\* A slot about to be claimed is a slot of the table.
ClaimInRange == \A u \in Threads : pc[u] = "claim" => at[u] \in Pids

Typed == TypeOK /\ ClaimInRange

\* Slot numbers, and the scan positions of ProcCreateTask.
LEMMA PidFacts ==
  /\ 0 \in Pids /\ WIN_PID_INIT \in Pids /\ 0 # WIN_PID_INIT
  /\ \A n \in 0 .. CHILD_MAX :
       n # CHILD_MAX => n \in Pids /\ n + 1 \in 0 .. CHILD_MAX
  /\ \A n \in Pids : n \in 0 .. CHILD_MAX /\ n # CHILD_MAX
  /\ 0 \in 0 .. CHILD_MAX
  BY ProcAssumption DEF Pids, WIN_PID_INIT

\* A cleared slot (ZeroMemory).
LEMMA FreeFields ==
  /\ FreeTask \in Task
  /\ FreeTask.Flags = {} /\ FreeTask.ParentId = 0 /\ ~FreeTask.Handle
  BY PidFacts DEF FreeTask, Task, ThreadId

\* The fields of a slot.
LEMMA TaskFields ==
  ASSUME NEW k \in Task
  PROVE  /\ k.Flags \in SUBSET Flag /\ k.ThreadId \in ThreadId
         /\ k.ParentId \in Pids /\ k.GroupId \in Pids
         /\ k.Handle \in BOOLEAN /\ k.Status \in Nat
  BY DEF Task

\* Clearing the slots of S, as ProcCreateTask and WaitNoHang() do.
LEMMA ClearEffect ==
  ASSUME Typed, NEW S,
         tasks' = [s \in Pids |-> IF s \in S THEN FreeTask ELSE tasks[s]]
  PROVE  /\ tasks' \in [Pids -> Task]
         /\ \A s \in Pids : s \in S =>
              tasks'[s].Flags = {} /\ tasks'[s].ParentId = 0
         /\ \A s \in Pids : s \notin S => tasks'[s] = tasks[s]
<1>1. tasks \in [Pids -> Task]
  BY DEF Typed, TypeOK
<1> QED BY <1>1, FreeFields

\* __exit() on slot p.
LEMMA ExitEffect ==
  ASSUME Typed, NEW p \in Pids, NEW n \in Nat,
         tasks' = [tasks EXCEPT ![p].Status = n,
                                ![p].Flags = @ \cup {"EXITING"}]
  PROVE  /\ tasks' \in [Pids -> Task]
         /\ tasks'[p].ThreadId = tasks[p].ThreadId
         /\ tasks'[p].ParentId = tasks[p].ParentId
         /\ tasks'[p].Flags = tasks[p].Flags \cup {"EXITING"}
         /\ \A s \in Pids : s # p => tasks'[s] = tasks[s]
<1>1. tasks \in [Pids -> Task] /\ tasks[p] \in Task
  BY DEF Typed, TypeOK
<1>2. tasks[p].Flags \cup {"EXITING"} \in SUBSET Flag
  BY <1>1, TaskFields DEF Flag
<1> DEFINE k == [[tasks[p] EXCEPT !.Status = n] EXCEPT
                  !.Flags = tasks[p].Flags \cup {"EXITING"}]
<1>3. /\ k \in Task /\ k.ThreadId = tasks[p].ThreadId
      /\ k.ParentId = tasks[p].ParentId
      /\ k.Flags = tasks[p].Flags \cup {"EXITING"}
  BY <1>1, <1>2 DEF Task
<1>4. tasks' = [tasks EXCEPT ![p] = k]
  BY <1>1 DEF Task
<1> HIDE DEF k
<1> QED BY <1>1, <1>3, <1>4

\* Setting one more flag of slot p.
LEMMA FlagEffect ==
  ASSUME Typed, NEW p \in Pids, NEW f \in Flag,
         tasks' = [tasks EXCEPT ![p].Flags = @ \cup {f}]
  PROVE  /\ tasks' \in [Pids -> Task]
         /\ tasks'[p].ThreadId = tasks[p].ThreadId
         /\ tasks'[p].ParentId = tasks[p].ParentId
         /\ tasks'[p].Status = tasks[p].Status
         /\ tasks'[p].Flags = tasks[p].Flags \cup {f}
         /\ \A s \in Pids : s # p => tasks'[s] = tasks[s]
<1>1. tasks \in [Pids -> Task] /\ tasks[p] \in Task
  BY DEF Typed, TypeOK
<1>2. tasks[p].Flags \cup {f} \in SUBSET Flag
  BY <1>1, TaskFields
<1> DEFINE k == [tasks[p] EXCEPT !.Flags = tasks[p].Flags \cup {f}]
<1>3. /\ k \in Task /\ k.ThreadId = tasks[p].ThreadId
      /\ k.ParentId = tasks[p].ParentId /\ k.Status = tasks[p].Status
      /\ k.Flags = tasks[p].Flags \cup {f}
  BY <1>1, <1>2 DEF Task
<1>4. tasks' = [tasks EXCEPT ![p] = k]
  BY <1>1 DEF Task
<1> HIDE DEF k
<1> QED BY <1>1, <1>3, <1>4

\* proc_close() of slot p.
LEMMA CloseEffect ==
  ASSUME Typed, NEW p \in Pids, tasks' = proc_close(p)
  PROVE  /\ tasks' \in [Pids -> Task]
         /\ tasks'[p].ThreadId = tasks[p].ThreadId
         /\ tasks'[p].ParentId = 0
         /\ tasks'[p].Flags = tasks[p].Flags \cup {"NOZOMBIE"}
         /\ \A s \in Pids : s # p => tasks'[s] = tasks[s]
<1>1. tasks \in [Pids -> Task] /\ tasks[p] \in Task
  BY DEF Typed, TypeOK
<1>2. tasks[p].Flags \cup {"NOZOMBIE"} \in SUBSET Flag
  BY <1>1, TaskFields DEF Flag
<1> DEFINE k == [[tasks[p] EXCEPT !.ParentId = 0] EXCEPT
                  !.Flags = tasks[p].Flags \cup {"NOZOMBIE"}]
<1>3. /\ k \in Task /\ k.ThreadId = tasks[p].ThreadId
      /\ k.ParentId = 0
      /\ k.Flags = tasks[p].Flags \cup {"NOZOMBIE"}
  BY <1>1, <1>2, PidFacts DEF Task
<1>4. tasks' = [tasks EXCEPT ![p] = k]
  BY <1>1 DEF Task, proc_close
<1> HIDE DEF k
<1> QED BY <1>1, <1>3, <1>4

\* proc_execve() hands slot p to thread u.
LEMMA ExecEffect ==
  ASSUME Typed, NEW p \in Pids, NEW u \in Threads,
         tasks' = [tasks EXCEPT ![p].ThreadId = u, ![p].Handle = TRUE]
  PROVE  /\ tasks' \in [Pids -> Task]
         /\ tasks'[p].ThreadId = u
         /\ tasks'[p].ParentId = tasks[p].ParentId
         /\ tasks'[p].Status = tasks[p].Status
         /\ tasks'[p].Flags = tasks[p].Flags
         /\ \A s \in Pids : s # p => tasks'[s] = tasks[s]
<1>1. tasks \in [Pids -> Task] /\ tasks[p] \in Task
  BY DEF Typed, TypeOK
<1> DEFINE k == [[tasks[p] EXCEPT !.ThreadId = u] EXCEPT !.Handle = TRUE]
<1>3. /\ k \in Task /\ k.ThreadId = u
      /\ k.ParentId = tasks[p].ParentId /\ k.Status = tasks[p].Status
      /\ k.Flags = tasks[p].Flags
  BY <1>1 DEF Task, ThreadId
<1>4. tasks' = [tasks EXCEPT ![p] = k]
  BY <1>1 DEF Task
<1> HIDE DEF k
<1> QED BY <1>1, <1>3, <1>4

\* proc_orphanize() of slot p.
LEMMA OrphanEffect ==
  ASSUME Typed, NEW p \in Pids, NEW h \in BOOLEAN,
         tasks' = [tasks EXCEPT ![p].ParentId = WIN_PID_INIT, ![p].Handle = h]
  PROVE  /\ tasks' \in [Pids -> Task]
         /\ tasks'[p].ThreadId = tasks[p].ThreadId
         /\ tasks'[p].ParentId = WIN_PID_INIT
         /\ tasks'[p].Status = tasks[p].Status
         /\ tasks'[p].Flags = tasks[p].Flags
         /\ \A s \in Pids : s # p => tasks'[s] = tasks[s]
<1>1. tasks \in [Pids -> Task] /\ tasks[p] \in Task
  BY DEF Typed, TypeOK
<1> DEFINE k == [[tasks[p] EXCEPT !.ParentId = WIN_PID_INIT] EXCEPT !.Handle = h]
<1>3. /\ k \in Task /\ k.ThreadId = tasks[p].ThreadId
      /\ k.ParentId = WIN_PID_INIT /\ k.Status = tasks[p].Status
      /\ k.Flags = tasks[p].Flags
  BY <1>1, PidFacts DEF Task
<1>4. tasks' = [tasks EXCEPT ![p] = k]
  BY <1>1 DEF Task
<1> HIDE DEF k
<1> QED BY <1>1, <1>3, <1>4

\* setpgid() on slot p.
LEMMA GroupEffect ==
  ASSUME Typed, NEW p \in Pids, NEW g \in Pids,
         tasks' = [tasks EXCEPT ![p].GroupId = g]
  PROVE  /\ tasks' \in [Pids -> Task]
         /\ \A s \in Pids : /\ tasks'[s].ThreadId = tasks[s].ThreadId
                            /\ tasks'[s].ParentId = tasks[s].ParentId
                            /\ tasks'[s].Status = tasks[s].Status
                            /\ tasks'[s].Flags = tasks[s].Flags
<1>1. tasks \in [Pids -> Task] /\ tasks[p] \in Task
  BY DEF Typed, TypeOK
<1> DEFINE k == [tasks[p] EXCEPT !.GroupId = g]
<1>3. /\ k \in Task /\ k.ThreadId = tasks[p].ThreadId
      /\ k.ParentId = tasks[p].ParentId /\ k.Status = tasks[p].Status
      /\ k.Flags = tasks[p].Flags
  BY <1>1, PidFacts DEF Task
<1>4. tasks' = [tasks EXCEPT ![p] = k]
  BY <1>1 DEF Task
<1> HIDE DEF k
<1> QED BY <1>1, <1>3, <1>4

\* ProcCreateTask and proc_dup() fill the slot the scan stopped at.
LEMMA ClaimEffect ==
  ASSUME Typed, NEW u \in Threads, at[u] \in Pids, NEW h \in BOOLEAN,
         tasks' = [tasks EXCEPT ![at[u]] = ClaimedTask(u, h)]
  PROVE  /\ tasks' \in [Pids -> Task]
         /\ tasks'[at[u]].ThreadId = u
         /\ "EMBRYO" \in tasks'[at[u]].Flags
         /\ tasks'[at[u]].Flags \subseteq {"EMBRYO", "PPWAIT"}
         /\ \A s \in Pids : s # at[u] => tasks'[s] = tasks[s]
<1> DEFINE old == tasks[at[u]]
           k == ClaimedTask(u, h)
<1>1. tasks \in [Pids -> Task] /\ old \in Task
  BY DEF Typed, TypeOK
<1>2. /\ arg[u].TaskId \in Pids /\ arg[u].Flags \subseteq {"PPWAIT"}
      /\ tasks[arg[u].TaskId].GroupId \in Pids
  <2>1. arg[u] \in ThreadStruct
    BY DEF Typed, TypeOK
  <2>2. arg[u].TaskId \in Pids /\ arg[u].Flags \subseteq {"PPWAIT"}
    BY <2>1 DEF ThreadStruct
  <2> QED BY <1>1, <2>2, TaskFields
<1>3. CASE arg[u].ThreadId = NoThread
  <2>1. k = [old EXCEPT !.Flags = {"EMBRYO"}, !.ThreadId = u]
    BY <1>3 DEF ClaimedTask
  <2>2. /\ k \in Task /\ k.ThreadId = u /\ k.Flags = {"EMBRYO"}
    BY <1>1, <2>1 DEF Task, Flag, ThreadId
  <2> HIDE DEF k
  <2> QED BY <1>1, <2>2 DEF k
<1>4. CASE arg[u].ThreadId # NoThread
  <2> DEFINE f == {"EMBRYO"} \cup arg[u].Flags
             d == arg[u].TaskId
             g == tasks[arg[u].TaskId].GroupId
  <2>1. k = [old EXCEPT !.Flags = f, !.ThreadId = u, !.Handle = h,
                        !.ParentId = d, !.GroupId = g]
    BY <1>4 DEF ClaimedTask
  <2>2. f \in SUBSET Flag
    BY <1>2 DEF Flag
  <2>3. d \in Pids /\ g \in Pids /\ u \in ThreadId
    BY <1>2 DEF ThreadId
  <2> HIDE DEF f, d, g, old
  <2>4. /\ k \in Task /\ k.ThreadId = u /\ k.Flags = f
    BY <1>1, <2>1, <2>2, <2>3 DEF Task
  <2>5. "EMBRYO" \in f /\ f \subseteq {"EMBRYO", "PPWAIT"}
    BY <1>2 DEF f
  <2> HIDE DEF k
  <2> QED BY <1>1, <2>4, <2>5 DEF k
<1> QED BY <1>3, <1>4

-----------------------------------------------------------------------------
\* The constants of the types.
LEMMA ConstTyped ==
  /\ PC = {"none", "scan", "claim", "run", "fork", "wait", "reap",
           "xthread", "xproc", "xnotify"}
  /\ NoStruct \in ThreadStruct
  /\ NoRes \in [TaskId : Pids, Status : Nat]
  /\ Threads \subseteq ThreadId
  BY PidFacts DEF PC, NoStruct, ThreadStruct, NoRes, ThreadId

\* What TypeOK says of one thread and one slot.
LEMMA TypedAt ==
  ASSUME Typed, NEW t \in Threads
  PROVE  /\ cur[t] \in Pids /\ tasks[cur[t]] \in Task
         /\ vec[t] \in SUBSET (Pids \ {0})
         /\ res[t].TaskId \in Pids
         /\ arg[t].TaskId \in Pids /\ tasks[arg[t].TaskId] \in Task
         /\ arg[t].ThreadId \in Threads \cup {NoThread}
         /\ arg[t].Flags \in SUBSET {"PPWAIT"}
         /\ mail[t] \in Seq(Pids)
<1>1. arg[t] \in ThreadStruct /\ res[t] \in [TaskId : Pids, Status : Nat]
  BY DEF Typed, TypeOK
<1>2. /\ arg[t].TaskId \in Pids /\ arg[t].ThreadId \in Threads \cup {NoThread}
      /\ arg[t].Flags \in SUBSET {"PPWAIT"} /\ res[t].TaskId \in Pids
  BY <1>1 DEF ThreadStruct
<1> QED BY <1>2 DEF Typed, TypeOK

\* The table bsd.exe leaves is typed.
LEMMA TypedInit == Init => Typed
<1> SUFFICES ASSUME Init PROVE Typed
  OBVIOUS
<1>1. PICK i \in Threads, q \in Procs :
        /\ tasks = [p \in Pids |->
             CASE p = 0 -> [FreeTask EXCEPT !.Flags = {"EMBRYO"}, !.ThreadId = BootThread]
               [] p = WIN_PID_INIT -> [FreeTask EXCEPT !.Flags = {"EMBRYO"},
                                                 !.ThreadId = i, !.Handle = TRUE]
               [] OTHER -> FreeTask]
        /\ pc = [t \in Threads |-> IF t = i THEN "run" ELSE "none"]
        /\ cur = [t \in Threads |-> IF t = i THEN WIN_PID_INIT ELSE 0]
        /\ proc = [t \in Threads |-> IF t = i THEN q ELSE NoProc]
        /\ arg = [t \in Threads |-> NoStruct]
        /\ at = [t \in Threads |-> 0]
        /\ vec = [t \in Threads |-> {}]
        /\ res = [t \in Threads |-> NoRes]
        /\ mail = [t \in Threads |-> <<>>]
        /\ chld = [t \in Threads |-> FALSE]
        /\ kid = [t \in Threads |-> 0]
        /\ forker = [p \in Pids |-> 0]
  BY DEF Init
<1>2. /\ [FreeTask EXCEPT !.Flags = {"EMBRYO"}, !.ThreadId = BootThread] \in Task
      /\ [FreeTask EXCEPT !.Flags = {"EMBRYO"}, !.ThreadId = i, !.Handle = TRUE] \in Task
  BY FreeFields DEF Task, Flag, ThreadId
<1>3. tasks \in [Pids -> Task]
  BY <1>1, <1>2, FreeFields, PidFacts
<1>4. /\ pc \in [Threads -> PC] /\ cur \in [Threads -> Pids]
      /\ proc \in [Threads -> Procs \cup {NoProc}]
      /\ arg \in [Threads -> ThreadStruct]
      /\ at \in [Threads -> 0 .. CHILD_MAX]
  BY <1>1, ConstTyped, PidFacts
<1>5. /\ vec \in [Threads -> SUBSET (Pids \ {0})]
      /\ res \in [Threads -> [TaskId : Pids, Status : Nat]]
      /\ mail \in [Threads -> Seq(Pids)] /\ chld \in [Threads -> BOOLEAN]
      /\ kid \in [Threads -> 0 .. CHILD_MAX] /\ forker \in [Pids -> Pids]
  BY <1>1, ConstTyped, PidFacts
<1>6. ClaimInRange
  BY <1>1 DEF ClaimInRange
<1> QED BY <1>3, <1>4, <1>5, <1>6 DEF Typed, TypeOK

\* The actions of one thread.
ThreadStep(t) ==
  \/ \E f \in ForkFlags : Fork(t, f)
  \/ Scan(t) \/ TableFull(t) \/ Claim(t) \/ ForkReturn(t)
  \/ Exec(t)
  \/ \E c \in ExitCodes : Exit(t, c)
  \/ PollUser(t) \/ PollChild(t) \/ Detach(t) \/ Notify(t)
  \/ \E k \in WaitKinds, p \in Pids \ {0} : Wait4(t, k, p)
  \/ WaitFound(t) \/ WaitReap(t) \/ WaitRecursive(t)
  \/ \E b \in BOOLEAN : WaitNone(t, b) \/ WaitPoll(t, b)
  \/ \E a \in PgidArgs : SetPgid(t, a[1], a[2])

\* A step is one of Windows' program starts, or one of a thread.
LEMMA NextCases ==
  [Next]_vars => Start \/ (\E t \in Threads : ThreadStep(t)) \/ UNCHANGED vars
  BY DEF Next, ThreadStep

\* The end of threads keeps the types.
LEMMA GoneTyped ==
  ASSUME Typed, NEW S, NEW newpc \in [Threads -> PC],
         NEW newmail \in [Threads -> Seq(Pids)],
         NEW newchld \in [Threads -> BOOLEAN],
         \A t \in Threads : newpc[t] = "claim" => pc[t] = "claim",
         tasks' \in [Pids -> Task], Gone(S, newpc, newmail, newchld)
  PROVE  Typed'
<1>1. pc' \in [Threads -> PC] /\ cur' \in [Threads -> Pids]
  BY ConstTyped, PidFacts DEF Gone, Typed, TypeOK
<1>2. proc' \in [Threads -> Procs \cup {NoProc}]
  BY DEF Gone, Typed, TypeOK
<1>3. mail' \in [Threads -> Seq(Pids)]
  <2>1. <<>> \in Seq(Pids)
    OBVIOUS
  <2> QED BY <2>1 DEF Gone
<1>4. chld' \in [Threads -> BOOLEAN]
  BY DEF Gone
<1>5. ClaimInRange'
  BY DEF Gone, Typed, ClaimInRange
<1> QED BY <1>1, <1>2, <1>3, <1>4, <1>5 DEF Gone, Typed, TypeOK

\* Every step keeps the types.
LEMMA TypedStep == Typed /\ [Next]_vars => Typed'
<1> SUFFICES ASSUME Typed, [Next]_vars PROVE Typed'
  OBVIOUS
<1> USE DEF Typed, TypeOK, ClaimInRange
<1>1. CASE Start
  BY <1>1, ConstTyped DEF Start, Fresh, FreshProcs
<1>2. CASE UNCHANGED vars
  BY <1>2 DEF vars
<1>3. ASSUME NEW t \in Threads, ThreadStep(t) PROVE Typed'
  <2>1. ASSUME NEW f \in ForkFlags, Fork(t, f) PROVE Typed'
    <3>1. PICK u \in Fresh :
            /\ pc' = [pc EXCEPT ![t] = "fork", ![u] = "scan"]
            /\ proc' = [proc EXCEPT ![u] = proc[t]]
            /\ arg' = [arg EXCEPT ![u] = [TaskId |-> cur[t], ThreadId |-> t,
                                          Flags |-> f]]
            /\ at' = [at EXCEPT ![u] = tasks[cur[t]].GroupId]
      BY <2>1 DEF Fork
    <3>2. f \in SUBSET {"PPWAIT"} /\ cur[t] \in Pids
      BY DEF ForkFlags
    <3>3. [TaskId |-> cur[t], ThreadId |-> t, Flags |-> f] \in ThreadStruct
      BY <3>2 DEF ThreadStruct
    <3>4. tasks[cur[t]].GroupId \in 0 .. CHILD_MAX
      BY <3>2, TaskFields, PidFacts
    <3>5. arg' \in [Threads -> ThreadStruct] /\ at' \in [Threads -> 0 .. CHILD_MAX]
      BY <3>1, <3>3, <3>4
    <3>6. /\ pc' \in [Threads -> PC] /\ proc' \in [Threads -> Procs \cup {NoProc}]
      BY <3>1, ConstTyped
    <3>7. ClaimInRange'
      BY <3>1 DEF Fresh
    <3> QED BY <2>1, <3>5, <3>6, <3>7 DEF Fork
  <2>2. CASE Scan(t)
    <3>1. at[t] \in Pids /\ at[t] + 1 \in 0 .. CHILD_MAX
      <4>1. at[t] \in 0 .. CHILD_MAX /\ at[t] < CHILD_MAX
        BY <2>2 DEF Scan
      <4>2. at[t] # CHILD_MAX
        BY <4>1, ProcAssumption
      <4> QED BY <4>1, <4>2, PidFacts
    <3>2. CASE tasks[at[t]].Flags = {}
      BY <2>2, <3>1, <3>2, ConstTyped DEF Scan
    <3>3. CASE tasks[at[t]].Flags # {}
      <4>1. tasks' \in [Pids -> Task]
        BY <2>2, <3>3, ClearEffect DEF Scan
      <4>2. at' = [at EXCEPT ![t] = at[t] + 1]
        BY <2>2, <3>3 DEF Scan
      <4> QED BY <2>2, <3>1, <3>3, <4>1, <4>2 DEF Scan
    <3> QED BY <3>2, <3>3
  <2>3. CASE TableFull(t)
    <3>1. tasks' \in [Pids -> Task]
      <4>1. 127 * 256 \in Nat
        OBVIOUS
      <4> QED BY <2>3, <4>1, PidFacts, ExitEffect DEF TableFull
    <3>2. /\ pc' \in [Threads -> PC] /\ arg' \in [Threads -> ThreadStruct]
          /\ at' \in [Threads -> 0 .. CHILD_MAX]
      BY <2>3, ConstTyped, PidFacts DEF TableFull, proc_exit
    <3>3. ClaimInRange'
      BY <2>3 DEF TableFull, proc_exit
    <3>4. kid' \in [Threads -> 0 .. CHILD_MAX]
      BY <2>3, ProcAssumption DEF TableFull
    <3> QED BY <2>3, <3>1, <3>2, <3>3, <3>4 DEF TableFull
  <2>4. CASE Claim(t)
    <3>1. at[t] \in Pids
      BY <2>4 DEF Claim
    <3>2. tasks' \in [Pids -> Task]
      BY <2>4, <3>1, ClaimEffect DEF Claim
    <3>3. mail' \in [Threads -> Seq(Pids)]
      BY <2>4, <3>1 DEF Claim, proc_fork_leave, Running
    <3>4. kid' \in [Threads -> 0 .. CHILD_MAX] /\ forker' \in [Pids -> Pids]
      <4>1. at[t] \in 0 .. CHILD_MAX /\ arg[t].TaskId \in Pids
        BY <3>1, PidFacts, TypedAt
      <4>2. kid' \in [Threads -> 0 .. CHILD_MAX]
        BY <2>4, <4>1 DEF Claim
      <4>3. forker' \in [Pids -> Pids]
        BY <2>4, <4>1, PidFacts DEF Claim
      <4> QED BY <4>2, <4>3
    <3>5. /\ cur' \in [Threads -> Pids] /\ pc' \in [Threads -> PC]
          /\ arg' \in [Threads -> ThreadStruct]
          /\ at' \in [Threads -> 0 .. CHILD_MAX]
      BY <2>4, <3>1, ConstTyped, PidFacts DEF Claim
    <3>6. ClaimInRange'
      BY <2>4 DEF Claim
    <3> QED BY <2>4, <3>2, <3>3, <3>4, <3>5, <3>6 DEF Claim
  <2>5. CASE ForkReturn(t)
    <3>1. mail' \in [Threads -> Seq(Pids)]
      BY <2>5 DEF ForkReturn
    <3> QED BY <2>5, <3>1, ConstTyped, PidFacts DEF ForkReturn
  <2>6. CASE Exec(t)
    <3>1. PICK u \in Fresh, q \in FreshProcs :
            /\ pc' = [pc EXCEPT ![t] = proc_exit(t), ![u] = "run"]
            /\ proc' = [proc EXCEPT ![u] = q]
            /\ cur' = [cur EXCEPT ![u] = cur[t]]
            /\ tasks' = [tasks EXCEPT ![cur[t]].ThreadId = u,
                                      ![cur[t]].Handle = TRUE]
      BY <2>6 DEF Exec
    <3>2. u \in Threads /\ q \in Procs /\ proc_exit(t) \in {"xproc", "xthread"}
      BY DEF Fresh, FreshProcs, proc_exit
    <3>3. tasks' \in [Pids -> Task]
      BY <3>1, <3>2, ExecEffect
    <3>4. /\ pc' \in [Threads -> PC] /\ cur' \in [Threads -> Pids]
          /\ proc' \in [Threads -> Procs \cup {NoProc}]
      BY <3>1, <3>2, ConstTyped
    <3>5. ClaimInRange'
      BY <2>6, <3>1, <3>2 DEF Exec
    <3> QED BY <2>6, <3>3, <3>4, <3>5 DEF Exec
  <2>7. ASSUME NEW c \in ExitCodes, Exit(t, c) PROVE Typed'
    <3>1. c * 256 \in Nat
      BY ProcAssumption
    <3>2. tasks' \in [Pids -> Task]
      BY <2>7, <3>1, ExitEffect DEF Exit, __exit
    <3>3. forker' \in [Pids -> Pids]
      BY <2>7, PidFacts DEF Exit, __exit
    <3> QED BY <2>7, <3>2, <3>3, ConstTyped DEF Exit, __exit, proc_exit
  <2>8. CASE PollUser(t)
    <3>1. 127 * 256 \in Nat
      OBVIOUS
    <3>2. tasks' \in [Pids -> Task]
      BY <2>8, <3>1, ExitEffect DEF PollUser, __exit
    <3>3. mail' \in [Threads -> Seq(Pids)]
      BY <2>8 DEF PollUser
    <3>4. vec' \in [Threads -> SUBSET (Pids \ {0})] /\ forker' \in [Pids -> Pids]
      BY <2>8, PidFacts DEF PollUser, __exit
    <3> QED BY <2>8, <3>2, <3>3, <3>4, ConstTyped DEF PollUser, __exit, proc_exit
  <2>9. CASE PollChild(t)
    BY <2>9 DEF PollChild
  <2>10. CASE Detach(t)
    <3> DEFINE p == cur[t]
               release == pc[t] = "xthread" /\ "PPWAIT" \in tasks[p].Flags
               newmail == IF release /\ Running(Dad(p))
                          THEN [mail EXCEPT ![Dad(p)] = Append(@, p)] ELSE mail
    <3>1. tasks' \in [Pids -> Task]
      BY <2>10, FlagEffect DEF Detach, Flag
    <3>2. newmail \in [Threads -> Seq(Pids)]
      BY DEF Running
    <3>3. [pc EXCEPT ![t] = "xnotify"] \in [Threads -> PC]
      BY ConstTyped
    <3>4. \E S : Gone(S, [pc EXCEPT ![t] = "xnotify"], newmail, chld)
      BY <2>10 DEF Detach
    <3> HIDE DEF newmail, Typed, TypeOK
    <3>5. \A u \in Threads :
            [pc EXCEPT ![t] = "xnotify"][u] = "claim" => pc[u] = "claim"
      BY DEF Typed, TypeOK
    <3>6. chld \in [Threads -> BOOLEAN]
      BY DEF Typed, TypeOK
    <3> QED BY <3>1, <3>2, <3>3, <3>4, <3>5, <3>6, GoneTyped
  <2>11. CASE Notify(t)
    <3> DEFINE p == cur[t]
               rcpt == IF Alive(Dad(p)) THEN Dad(p) ELSE tasks[WIN_PID_INIT].ThreadId
               newchld == IF Running(rcpt) THEN [chld EXCEPT ![rcpt] = TRUE] ELSE chld
    <3>1. tasks' \in [Pids -> Task]
      <4>1. p \in Pids /\ tasks[p].Handle \in BOOLEAN
        BY TaskFields
      <4> QED BY <2>11, <4>1, OrphanEffect DEF Notify
    <3>2. newchld \in [Threads -> BOOLEAN]
      BY DEF Running
    <3>3. Gone({t}, pc, mail, newchld)
      BY <2>11 DEF Notify
    <3> HIDE DEF newchld, Typed, TypeOK
    <3>4. pc \in [Threads -> PC] /\ mail \in [Threads -> Seq(Pids)]
      BY DEF Typed, TypeOK
    <3> QED BY <3>1, <3>2, <3>3, <3>4, GoneTyped
  <2>12. ASSUME NEW k \in WaitKinds, NEW p \in Pids \ {0}, Wait4(t, k, p)
         PROVE Typed'
    <3>1. taskv_win(t, k, p) \in SUBSET (Pids \ {0})
      BY ProcAssumption DEF taskv_win, taskv_ANY, taskv_GRP, taskv_PID, WaitKind
    <3> QED BY <2>12, <3>1, ConstTyped DEF Wait4
  <2>13. CASE WaitFound(t)
    <3>1. PICK z \in Zombies(vec[t]) :
            /\ tasks' = [s \in Pids |-> IF s < z /\ s \in Reaped(vec[t])
                                        THEN FreeTask ELSE tasks[s]]
            /\ res' = [res EXCEPT ![t] = [TaskId |-> z, Status |-> tasks[z].Status]]
      BY <2>13 DEF WaitFound
    <3>2. z \in Pids /\ tasks[z].Status \in Nat
      BY TaskFields DEF Zombies
    <3>3. tasks' \in [Pids -> Task]
      BY <3>1, FreeFields
    <3>4. res' \in [Threads -> [TaskId : Pids, Status : Nat]]
      BY <3>1, <3>2
    <3> QED BY <2>13, <3>3, <3>4, ConstTyped DEF WaitFound
  <2>14. CASE WaitReap(t)
    <3>1. tasks' \in [Pids -> Task]
      BY <2>14, TypedAt, CloseEffect DEF WaitReap
    <3>2. forker' \in [Pids -> Pids]
      BY <2>14, PidFacts DEF WaitReap
    <3> QED BY <2>14, <3>1, <3>2, ConstTyped DEF WaitReap
  <2>15. CASE WaitRecursive(t)
    <3>1. tasks' \in [Pids -> Task]
      BY <2>15, CloseEffect DEF WaitRecursive, Zombies, taskv_ANY
    <3>2. forker' \in [Pids -> Pids]
      BY <2>15, PidFacts DEF WaitRecursive
    <3> QED BY <2>15, <3>1, <3>2 DEF WaitRecursive
  <2>16. ASSUME NEW b \in BOOLEAN, WaitNone(t, b) PROVE Typed'
    <3>1. tasks' \in [Pids -> Task]
      BY <2>16, ClearEffect DEF WaitNone
    <3> QED BY <2>16, <3>1, ConstTyped DEF WaitNone
  <2>17. ASSUME NEW b \in BOOLEAN, WaitPoll(t, b) PROVE Typed'
    BY <2>17, ConstTyped DEF WaitPoll
  <2>18. ASSUME NEW a \in PgidArgs, SetPgid(t, a[1], a[2]) PROVE Typed'
    <3> DEFINE p == IF a[1] = 0 THEN cur[t] ELSE a[1]
               g == IF a[2] # 0 THEN a[2]
                    ELSE IF tasks[p].Flags = {} THEN 0 ELSE p
    <3>1. p \in Pids /\ g \in Pids
      BY ProcAssumption, PidFacts DEF Pids
    <3>2. tasks' \in [Pids -> Task]
      <4>1. tasks' = [tasks EXCEPT ![p].GroupId = g]
        BY <2>18 DEF SetPgid
      <4> HIDE DEF p, g
      <4> QED BY <3>1, <4>1, GroupEffect
    <3> QED BY <2>18, <3>2 DEF SetPgid
  <2> QED BY <1>3, <2>1, <2>2, <2>3, <2>4, <2>5, <2>6, <2>7, <2>8, <2>9, <2>10,
             <2>11, <2>12, <2>13, <2>14, <2>15, <2>16, <2>17, <2>18
          DEF ThreadStep
<1> QED BY <1>1, <1>2, <1>3, NextCases

\* The table and the threads keep their types whatever programs call, however
\* their forks overlap: ProcCreateTask never leaves the table.
THEOREM TypeCorrect == Spec => []TypeOK
<1>1. Spec => []Typed
  BY TypedInit, TypedStep, PTL DEF Spec
<1>2. Typed => TypeOK
  BY DEF Typed
<1> QED BY <1>1, <1>2, PTL

-----------------------------------------------------------------------------
\* At most one thread is between the start of ProcCreateTask and its claim,
\* and the slot it saw free still is.
Claimant ==
  /\ \A t, u \in Threads :
       pc[t] \in {"scan", "claim"} /\ pc[u] \in {"scan", "claim"} => t = u
  /\ \A t \in Threads : pc[t] = "claim" => tasks[at[t]].Flags = {}

\* Only a slot in use that has not been collected names a parent.
ParentUsed ==
  \A s \in Pids : tasks[s].ParentId # 0 =>
    tasks[s].Flags # {} /\ "NOZOMBIE" \notin tasks[s].Flags

\* The vector of wait4() stays a set of children of the caller, and the slot
\* WaitNoHang() saw dead stays dead.
VectorOwned ==
  \A t \in Threads :
    /\ pc[t] \in {"wait", "reap"} =>
         \A s \in vec[t] : tasks[s].ParentId = cur[t]
    /\ pc[t] = "reap" =>
         /\ res[t].TaskId \in vec[t]
         /\ "ZOMBIE" \in tasks[res[t].TaskId].Flags
         /\ tasks[res[t].TaskId].Status = res[t].Status

\* Slot 0 belongs to bsd.exe for good.
BootSlot ==
  /\ tasks[0].ThreadId = BootThread /\ tasks[0].ParentId = 0
  /\ tasks[0].Flags # {} /\ "NOZOMBIE" \notin tasks[0].Flags

Owned == Typed /\ Claimant /\ SlotOwned /\ ParentUsed /\ VectorOwned /\ BootSlot

\* The zombie WaitNoHang() saw names the caller as its parent and was not
\* collected.
LEMMA OwnedReaps ==
  ASSUME Owned, NEW t \in Threads, pc[t] = "reap"
  PROVE  LET s == res[t].TaskId IN
         /\ s \in Pids /\ tasks[s].ParentId = cur[t]
         /\ "ZOMBIE" \in tasks[s].Flags /\ "NOZOMBIE" \notin tasks[s].Flags
         /\ tasks[s].Status = res[t].Status
  BY TypedAt DEF Owned, VectorOwned, ParentUsed, SlotOwned, Active

\* The invariant holds when bsd.exe has started init.
LEMMA OwnedInit == Init => Owned
<1> SUFFICES ASSUME Init PROVE Owned
  OBVIOUS
<1>1. Typed
  BY TypedInit
<1>2. PICK i \in Threads :
        /\ tasks = [p \in Pids |->
             CASE p = 0 -> [FreeTask EXCEPT !.Flags = {"EMBRYO"}, !.ThreadId = BootThread]
               [] p = WIN_PID_INIT -> [FreeTask EXCEPT !.Flags = {"EMBRYO"},
                                                 !.ThreadId = i, !.Handle = TRUE]
               [] OTHER -> FreeTask]
        /\ pc = [t \in Threads |-> IF t = i THEN "run" ELSE "none"]
        /\ cur = [t \in Threads |-> IF t = i THEN WIN_PID_INIT ELSE 0]
  BY DEF Init
<1>3. /\ tasks[0].Flags = {"EMBRYO"} /\ tasks[0].ThreadId = BootThread
      /\ tasks[0].ParentId = 0
      /\ tasks[WIN_PID_INIT].Flags = {"EMBRYO"} /\ tasks[WIN_PID_INIT].ThreadId = i
      /\ \A s \in Pids : tasks[s].ParentId = 0
  BY <1>2, PidFacts DEF FreeTask
<1>4. SlotOwned
  BY <1>2, <1>3, PidFacts DEF SlotOwned, Active
<1>5. Claimant /\ VectorOwned
  BY <1>2 DEF Claimant, VectorOwned
<1> QED BY <1>1, <1>3, <1>4, <1>5 DEF Owned, ParentUsed, BootSlot

\* The programs the invariant is proved for: one slot is claimed at a time,
\* wait4() is called for any child, and not from a SIGCHLD handler.
Orderly == SerialForks /\ WaitKinds \subseteq {"any"} /\ ~Handlers

ActivePC == {"run", "fork", "wait", "reap"}
WaitPC == {"wait", "reap"}

\* The loop condition of ProcCreateTask keeps the scan in the table.
LEMMA ScanInRange ==
  ASSUME Typed, NEW t \in Threads, at[t] < CHILD_MAX
  PROVE  at[t] \in Pids
<1>1. at[t] \in 0 .. CHILD_MAX
  BY DEF Typed, TypeOK
<1>2. at[t] # CHILD_MAX
  BY <1>1, ProcAssumption
<1> QED BY <1>1, <1>2, PidFacts

\* A step that changes at most slot p, which no thread runs afterwards.
LEMMA SlotsKept ==
  ASSUME Owned, NEW p \in Pids,
         \A s \in Pids : s # p => tasks'[s] = tasks[s],
         \A u \in Threads : pc'[u] \in ActivePC =>
           pc[u] \in ActivePC /\ cur'[u] = cur[u] /\ cur[u] # p
  PROVE  SlotOwned'
<1> SUFFICES ASSUME NEW u \in Threads, pc'[u] \in ActivePC
             PROVE  /\ cur'[u] # 0 /\ tasks'[cur'[u]].ThreadId = u
                    /\ "EMBRYO" \in tasks'[cur'[u]].Flags
                    /\ tasks'[cur'[u]].Flags \cap {"EXITING", "ZOMBIE", "NOZOMBIE"} = {}
  BY DEF SlotOwned, Active, ActivePC
<1>1. cur[u] \in Pids
  BY TypedAt DEF Owned
<1>2. cur'[u] = cur[u] /\ tasks'[cur[u]] = tasks[cur[u]]
  BY <1>1
<1> QED BY <1>2 DEF Owned, SlotOwned, Active, ActivePC

\* A step that changes at most slot p, which no thread is waiting for
\* afterwards, or which keeps its parent and, if it is dead, its status.
LEMMA VectorsKept ==
  ASSUME Owned, NEW p \in Pids,
         \A s \in Pids : s # p => tasks'[s] = tasks[s],
         \A u \in Threads : pc'[u] \in WaitPC =>
           /\ pc[u] \in WaitPC /\ cur'[u] = cur[u] /\ vec'[u] = vec[u]
           /\ \/ p \notin vec[u]
              \/ /\ tasks'[p].ParentId = tasks[p].ParentId
                 /\ "ZOMBIE" \in tasks[p].Flags =>
                      /\ "ZOMBIE" \in tasks'[p].Flags
                      /\ tasks'[p].Status = tasks[p].Status,
         \A u \in Threads : pc'[u] = "reap" => pc[u] = "reap" /\ res'[u] = res[u]
  PROVE  VectorOwned'
<1> SUFFICES ASSUME NEW u \in Threads, pc'[u] \in WaitPC
             PROVE  /\ \A s \in vec'[u] : tasks'[s].ParentId = cur'[u]
                    /\ pc'[u] = "reap" =>
                         /\ res'[u].TaskId \in vec'[u]
                         /\ "ZOMBIE" \in tasks'[res'[u].TaskId].Flags
                         /\ tasks'[res'[u].TaskId].Status = res'[u].Status
  BY DEF VectorOwned, WaitPC
<1>1. /\ vec[u] \subseteq Pids /\ vec'[u] = vec[u] /\ cur'[u] = cur[u]
      /\ \A s \in vec[u] : tasks[s].ParentId = cur[u]
      /\ pc'[u] = "reap" => /\ pc[u] = "reap" /\ res'[u] = res[u]
                            /\ res[u].TaskId \in vec[u]
                            /\ "ZOMBIE" \in tasks[res[u].TaskId].Flags
                            /\ tasks[res[u].TaskId].Status = res[u].Status
  BY TypedAt DEF Owned, VectorOwned, WaitPC
<1>2. \A s \in vec[u] : tasks'[s].ParentId = tasks[s].ParentId
  BY <1>1
<1>3. \A s \in vec[u] : "ZOMBIE" \in tasks[s].Flags =>
        "ZOMBIE" \in tasks'[s].Flags /\ tasks'[s].Status = tasks[s].Status
  BY <1>1
<1> QED BY <1>1, <1>2, <1>3

\* A step that leaves alone what the invariant says of slots and takes no
\* thread into the program or into wait4().
LEMMA QuietKeeps ==
  ASSUME Owned,
         \A s \in Pids : /\ tasks'[s].Flags = tasks[s].Flags
                         /\ tasks'[s].ThreadId = tasks[s].ThreadId
                         /\ tasks'[s].ParentId = tasks[s].ParentId
                         /\ tasks'[s].Status = tasks[s].Status,
         \A u \in Threads : pc'[u] \in ActivePC =>
           pc[u] \in ActivePC /\ cur'[u] = cur[u],
         \A u \in Threads : pc'[u] \in WaitPC =>
           pc[u] \in WaitPC /\ vec'[u] = vec[u],
         \A u \in Threads : pc'[u] = "reap" => pc[u] = "reap" /\ res'[u] = res[u]
  PROVE  SlotOwned' /\ VectorOwned' /\ ParentUsed' /\ BootSlot'
<1>1. ParentUsed' /\ BootSlot'
  BY PidFacts DEF Owned, ParentUsed, BootSlot
<1>2. SlotOwned'
  <2> SUFFICES ASSUME NEW u \in Threads, pc'[u] \in ActivePC
               PROVE  /\ cur'[u] # 0 /\ tasks'[cur'[u]].ThreadId = u
                      /\ "EMBRYO" \in tasks'[cur'[u]].Flags
                      /\ tasks'[cur'[u]].Flags
                           \cap {"EXITING", "ZOMBIE", "NOZOMBIE"} = {}
    BY DEF SlotOwned, Active, ActivePC
  <2>1. cur[u] \in Pids /\ cur'[u] = cur[u]
    BY TypedAt DEF Owned
  <2> QED BY <2>1 DEF Owned, SlotOwned, Active, ActivePC
<1>3. VectorOwned'
  <2> SUFFICES ASSUME NEW u \in Threads, pc'[u] \in WaitPC
               PROVE  /\ \A s \in vec'[u] : tasks'[s].ParentId = cur'[u]
                      /\ pc'[u] = "reap" =>
                           /\ res'[u].TaskId \in vec'[u]
                           /\ "ZOMBIE" \in tasks'[res'[u].TaskId].Flags
                           /\ tasks'[res'[u].TaskId].Status = res'[u].Status
    BY DEF VectorOwned, WaitPC
  <2>1. vec[u] \subseteq Pids /\ vec'[u] = vec[u] /\ cur'[u] = cur[u]
    BY TypedAt DEF Owned, WaitPC, ActivePC
  <2> QED BY <2>1 DEF Owned, VectorOwned, WaitPC
<1> QED BY <1>1, <1>2, <1>3

\* Clearing collected slots takes nothing from anybody.
LEMMA ClearKeeps ==
  ASSUME Owned, NEW S, S \subseteq Reaped(Pids),
         tasks' = [s \in Pids |-> IF s \in S THEN FreeTask ELSE tasks[s]]
  PROVE  /\ ParentUsed' /\ BootSlot'
         /\ \A u \in Threads : pc[u] \in ActivePC => tasks'[cur[u]] = tasks[cur[u]]
         /\ \A u \in Threads : pc[u] \in WaitPC =>
              \A s \in vec[u] : tasks'[s] = tasks[s]
         /\ \A s \in Pids : tasks[s].Flags = {} => tasks'[s] = tasks[s]
<1>1. Typed
  BY DEF Owned
<1>2. /\ \A s \in S : s \in Pids /\ "NOZOMBIE" \in tasks[s].Flags
                      /\ tasks[s].ParentId = 0
  BY DEF Owned, ParentUsed, Reaped
<1>3. /\ \A s \in Pids : s \in S => tasks'[s].Flags = {} /\ tasks'[s].ParentId = 0
      /\ \A s \in Pids : s \notin S => tasks'[s] = tasks[s]
  BY <1>1, ClearEffect
<1>4. ParentUsed' /\ BootSlot'
  BY <1>2, <1>3, PidFacts DEF Owned, ParentUsed, BootSlot
<1>5. \A u \in Threads : pc[u] \in ActivePC => tasks'[cur[u]] = tasks[cur[u]]
  BY <1>1, <1>2, <1>3, TypedAt DEF Owned, SlotOwned, Active, ActivePC
<1>6. \A u \in Threads : pc[u] \in WaitPC => \A s \in vec[u] : tasks'[s] = tasks[s]
  <2> SUFFICES ASSUME NEW u \in Threads, pc[u] \in WaitPC, NEW s \in vec[u]
               PROVE  tasks'[s] = tasks[s]
    OBVIOUS
  <2>1. tasks[s].ParentId = cur[u] /\ cur[u] # 0 /\ s \in Pids
    BY <1>1, TypedAt DEF Owned, VectorOwned, SlotOwned, Active, WaitPC
  <2> QED BY <1>2, <1>3, <2>1
<1> QED BY <1>2, <1>3, <1>4, <1>5, <1>6

\* Clearing collected slots keeps the invariant.
LEMMA ClearedOwned ==
  ASSUME Owned, NEW S, S \subseteq Reaped(Pids),
         tasks' = [s \in Pids |-> IF s \in S THEN FreeTask ELSE tasks[s]],
         UNCHANGED <<pc, cur, vec, res>>
  PROVE  SlotOwned' /\ VectorOwned' /\ ParentUsed' /\ BootSlot'
<1>0. \A u \in Threads : pc[u] \in ActivePC => tasks'[cur[u]] = tasks[cur[u]]
  BY ClearKeeps
<1>1. SlotOwned'
  BY <1>0 DEF Owned, SlotOwned, Active, ActivePC
<1>2. VectorOwned'
  BY ClearKeeps DEF Owned, VectorOwned, WaitPC
<1> QED BY <1>1, <1>2, ClearKeeps

\* Every step of orderly programs keeps the invariant.
LEMMA OwnedStep == ASSUME Orderly PROVE Owned /\ [Next]_vars => Owned'
<1> SUFFICES ASSUME Owned, [Next]_vars PROVE Owned'
  OBVIOUS
<1>1. Typed /\ Typed' /\ pc \in [Threads -> PC]
  BY TypedStep DEF Owned, Typed, TypeOK
<1>2. ASSUME UNCHANGED vars PROVE Owned'
  <2>1. SlotOwned' /\ VectorOwned' /\ ParentUsed' /\ BootSlot'
    BY <1>2, QuietKeeps DEF vars
  <2>2. Claimant'
    BY <1>2 DEF vars, Owned, Claimant
  <2> QED BY <1>1, <2>1, <2>2 DEF Owned
<1>3. ASSUME Start PROVE Owned'
  <2>1. PICK u \in Fresh : pc' = [pc EXCEPT ![u] = "scan"]
    BY <1>3 DEF Start
  <2>2. /\ UNCHANGED <<tasks, cur, at, vec, res>> /\ NoScanner
        /\ u \in Threads /\ pc[u] = "none"
    BY <1>3 DEF Start, Orderly, Fresh
  <2>3. Claimant'
    BY <1>1, <2>1, <2>2 DEF Owned, Claimant, NoScanner
  <2>4. SlotOwned' /\ VectorOwned' /\ ParentUsed' /\ BootSlot'
    BY <1>1, <2>1, <2>2, QuietKeeps DEF ActivePC, WaitPC
  <2> QED BY <1>1, <2>3, <2>4 DEF Owned
<1>4. ASSUME NEW t \in Threads, ThreadStep(t) PROVE Owned'
  <2>1. ASSUME NEW f \in ForkFlags, Fork(t, f) PROVE Owned'
    <3>1. PICK u \in Fresh : pc' = [pc EXCEPT ![t] = "fork", ![u] = "scan"]
      BY <2>1 DEF Fork
    <3>2. /\ UNCHANGED <<tasks, cur, vec, res>> /\ NoScanner /\ pc[t] = "run"
          /\ u \in Threads /\ pc[u] = "none"
      BY <2>1 DEF Fork, Orderly, Fresh
    <3>3. Claimant'
      BY <1>1, <3>1, <3>2 DEF Owned, Claimant, NoScanner
    <3>4. SlotOwned' /\ VectorOwned' /\ ParentUsed' /\ BootSlot'
      BY <1>1, <3>1, <3>2, QuietKeeps DEF ActivePC, WaitPC
    <3> QED BY <1>1, <3>3, <3>4 DEF Owned
  <2>2. CASE Scan(t)
    <3>1. at[t] \in Pids /\ at \in [Threads -> 0 .. CHILD_MAX]
      BY <1>1, <2>2, ScanInRange DEF Scan, Typed, TypeOK
    <3>2. CASE tasks[at[t]].Flags = {}
      <4>1. /\ UNCHANGED <<tasks, cur, at, vec, res>> /\ pc[t] = "scan"
            /\ pc' = [pc EXCEPT ![t] = "claim"]
        BY <2>2, <3>2 DEF Scan
      <4>2. Claimant'
        BY <1>1, <3>1, <3>2, <4>1 DEF Owned, Claimant
      <4>3. SlotOwned' /\ VectorOwned' /\ ParentUsed' /\ BootSlot'
        BY <1>1, <4>1, QuietKeeps DEF ActivePC, WaitPC
      <4> QED BY <1>1, <4>2, <4>3 DEF Owned
    <3>3. CASE tasks[at[t]].Flags # {}
      <4> DEFINE S == Reaped({at[t]})
      <4>1. /\ UNCHANGED <<pc, cur, vec, res>> /\ pc[t] = "scan"
            /\ at' = [at EXCEPT ![t] = @ + 1]
            /\ tasks' = [s \in Pids |-> IF s \in S THEN FreeTask ELSE tasks[s]]
        BY <2>2, <3>3 DEF Scan
      <4>2. S \subseteq Reaped(Pids)
        BY <3>1 DEF Reaped
      <4> HIDE DEF S
      <4>3. SlotOwned' /\ VectorOwned' /\ ParentUsed' /\ BootSlot'
        BY <4>1, <4>2, ClearedOwned
      <4>4. Claimant'
        BY <4>1 DEF Owned, Claimant
      <4> QED BY <1>1, <4>3, <4>4 DEF Owned
    <3> QED BY <3>2, <3>3
  <2>3. CASE TableFull(t)
    <3>1. /\ tasks'[0].ThreadId = tasks[0].ThreadId
          /\ tasks'[0].ParentId = tasks[0].ParentId
          /\ tasks'[0].Flags = tasks[0].Flags \cup {"EXITING"}
          /\ \A s \in Pids : s # 0 => tasks'[s] = tasks[s]
      <4> DEFINE n == 127 * 256
      <4>1. n \in Nat
        OBVIOUS
      <4>2. tasks' = [tasks EXCEPT ![0].Status = n,
                                   ![0].Flags = @ \cup {"EXITING"}]
        BY <2>3 DEF TableFull
      <4>3. 0 \in Pids
        BY PidFacts
      <4> HIDE DEF n
      <4> QED BY <1>1, <4>1, <4>2, <4>3, ExitEffect
    <3>2. /\ pc[t] = "scan" /\ pc' = [pc EXCEPT ![t] = proc_exit(t)]
          /\ proc_exit(t) \in {"xthread", "xproc"} /\ UNCHANGED <<cur, vec, res>>
          /\ at' = [at EXCEPT ![t] = 0] /\ at \in [Threads -> 0 .. CHILD_MAX]
      BY <1>1, <2>3 DEF TableFull, proc_exit, Typed, TypeOK
    <3>3. ParentUsed' /\ BootSlot'
      BY <3>1, PidFacts DEF Owned, ParentUsed, BootSlot
    <3>4. SlotOwned'
      <4>1. \A u \in Threads : pc'[u] \in ActivePC =>
              pc[u] \in ActivePC /\ cur'[u] = cur[u] /\ cur[u] # 0
        BY <1>1, <3>2 DEF Owned, SlotOwned, Active, ActivePC
      <4> QED BY <3>1, <4>1, PidFacts, SlotsKept
    <3>5. VectorOwned'
      BY <1>1, <3>1, <3>2, PidFacts, TypedAt, VectorsKept DEF WaitPC
    <3>6. Claimant'
      BY <1>1, <3>1, <3>2 DEF Owned, Claimant
    <3> QED BY <1>1, <3>3, <3>4, <3>5, <3>6 DEF Owned
  <2>4. CASE Claim(t)
    <3>1. at[t] \in Pids /\ tasks[at[t]].Flags = {} /\ pc[t] = "claim"
      BY <1>1, <2>4 DEF Claim, Typed, ClaimInRange, Owned, Claimant
    <3>2. /\ tasks'[at[t]].ThreadId = t
          /\ "EMBRYO" \in tasks'[at[t]].Flags
          /\ tasks'[at[t]].Flags \subseteq {"EMBRYO", "PPWAIT"}
          /\ \A s \in Pids : s # at[t] => tasks'[s] = tasks[s]
      BY <1>1, <2>4, <3>1, ClaimEffect DEF Claim
    <3>3. /\ pc' = [pc EXCEPT ![t] = "run"] /\ cur' = [cur EXCEPT ![t] = at[t]]
          /\ UNCHANGED <<vec, res>> /\ cur \in [Threads -> Pids]
      BY <1>1, <2>4 DEF Claim, Typed, TypeOK
    <3>4. at[t] # 0
      BY <3>1 DEF Owned, BootSlot
    <3>5. ParentUsed' /\ BootSlot'
      BY <3>2, <3>4, PidFacts DEF Owned, ParentUsed, BootSlot
    <3>6. SlotOwned'
      <4> SUFFICES ASSUME NEW u \in Threads, pc'[u] \in ActivePC
                   PROVE  /\ cur'[u] # 0 /\ tasks'[cur'[u]].ThreadId = u
                          /\ "EMBRYO" \in tasks'[cur'[u]].Flags
                          /\ tasks'[cur'[u]].Flags
                               \cap {"EXITING", "ZOMBIE", "NOZOMBIE"} = {}
        BY DEF SlotOwned, Active, ActivePC
      <4>1. CASE u = t
        BY <3>2, <3>3, <3>4, <4>1
      <4>2. CASE u # t
        <5>1. pc'[u] = pc[u] /\ cur'[u] = cur[u] /\ cur[u] \in Pids
          BY <1>1, <3>3, <4>2
        <5>2. cur[u] # at[t]
          BY <3>1, <5>1 DEF Owned, SlotOwned, Active, ActivePC
        <5> QED BY <3>2, <5>1, <5>2 DEF Owned, SlotOwned, Active, ActivePC
      <4> QED BY <4>1, <4>2
    <3>7. VectorOwned'
      <4>1. \A u \in Threads : pc[u] \in WaitPC => at[t] \notin vec[u]
        BY <3>1 DEF Owned, VectorOwned, ParentUsed, SlotOwned, Active, WaitPC
      <4> QED BY <1>1, <3>1, <3>2, <3>3, <4>1, VectorsKept DEF WaitPC
    <3>8. Claimant'
      BY <1>1, <3>1, <3>3 DEF Owned, Claimant
    <3> QED BY <1>1, <3>5, <3>6, <3>7, <3>8 DEF Owned
  <2>5. CASE ForkReturn(t)
    <3>1. /\ pc[t] = "fork" /\ pc' = [pc EXCEPT ![t] = "run"]
          /\ UNCHANGED <<tasks, cur, vec, res, at>>
      BY <2>5 DEF ForkReturn
    <3>2. SlotOwned' /\ VectorOwned' /\ ParentUsed' /\ BootSlot'
      BY <1>1, <3>1, QuietKeeps DEF ActivePC, WaitPC
    <3>3. Claimant'
      BY <1>1, <3>1 DEF Owned, Claimant
    <3> QED BY <1>1, <3>2, <3>3 DEF Owned
  <2>6. CASE Exec(t)
    <3>1. PICK u \in Fresh :
            /\ pc' = [pc EXCEPT ![t] = proc_exit(t), ![u] = "run"]
            /\ cur' = [cur EXCEPT ![u] = cur[t]]
            /\ tasks' = [tasks EXCEPT ![cur[t]].ThreadId = u,
                                      ![cur[t]].Handle = TRUE]
      BY <2>6 DEF Exec
    <3>2. /\ u \in Threads /\ pc[u] = "none" /\ pc[t] = "run"
          /\ proc_exit(t) \in {"xthread", "xproc"}
          /\ UNCHANGED <<vec, res, at>> /\ cur \in [Threads -> Pids]
          /\ cur[t] \in Pids
      BY <1>1, <2>6 DEF Exec, Fresh, proc_exit, Typed, TypeOK
    <3>3. /\ tasks'[cur[t]].ThreadId = u
          /\ tasks'[cur[t]].ParentId = tasks[cur[t]].ParentId
          /\ tasks'[cur[t]].Status = tasks[cur[t]].Status
          /\ tasks'[cur[t]].Flags = tasks[cur[t]].Flags
          /\ \A s \in Pids : s # cur[t] => tasks'[s] = tasks[s]
      BY <1>1, <3>1, <3>2, ExecEffect
    <3>4. cur[t] # 0
      BY <3>2 DEF Owned, SlotOwned, Active
    <3>5. ParentUsed' /\ BootSlot'
      BY <3>3, <3>4, PidFacts DEF Owned, ParentUsed, BootSlot
    <3>6. SlotOwned'
      <4> SUFFICES ASSUME NEW v \in Threads, pc'[v] \in ActivePC
                   PROVE  /\ cur'[v] # 0 /\ tasks'[cur'[v]].ThreadId = v
                          /\ "EMBRYO" \in tasks'[cur'[v]].Flags
                          /\ tasks'[cur'[v]].Flags
                               \cap {"EXITING", "ZOMBIE", "NOZOMBIE"} = {}
        BY DEF SlotOwned, Active, ActivePC
      <4>1. CASE v = u
        BY <3>1, <3>2, <3>3, <4>1 DEF Owned, SlotOwned, Active
      <4>2. CASE v # u
        <5>1. v # t /\ pc'[v] = pc[v] /\ cur'[v] = cur[v] /\ cur[v] \in Pids
          BY <1>1, <3>1, <3>2, <4>2 DEF ActivePC
        <5>2. cur[v] # cur[t]
          BY <3>2, <5>1 DEF Owned, SlotOwned, Active, ActivePC
        <5> QED BY <3>3, <5>1, <5>2 DEF Owned, SlotOwned, Active, ActivePC
      <4> QED BY <4>1, <4>2
    <3>7. VectorOwned'
      BY <1>1, <3>1, <3>2, <3>3, VectorsKept DEF WaitPC
    <3>8. Claimant'
      <4>1. \A s \in Pids : tasks'[s].Flags = tasks[s].Flags
        BY <3>3
      <4> QED BY <1>1, <3>1, <3>2, <4>1 DEF Owned, Claimant, Typed, ClaimInRange
    <3> QED BY <1>1, <3>5, <3>6, <3>7, <3>8 DEF Owned
  <2>7. ASSUME pc[t] \in {"run", "wait"}, NEW n \in Nat,
               tasks' = [tasks EXCEPT ![cur[t]].Status = n,
                                      ![cur[t]].Flags = @ \cup {"EXITING"}],
               pc' = [pc EXCEPT ![t] = proc_exit(t)],
               \A u \in Threads \ {t} : vec'[u] = vec[u],
               UNCHANGED <<cur, res, at>>
        PROVE  Owned'
    <3>1. cur[t] \in Pids /\ proc_exit(t) \in {"xthread", "xproc"}
      BY <1>1, TypedAt DEF proc_exit
    <3>2. /\ tasks'[cur[t]].ThreadId = tasks[cur[t]].ThreadId
          /\ tasks'[cur[t]].ParentId = tasks[cur[t]].ParentId
          /\ tasks'[cur[t]].Flags = tasks[cur[t]].Flags \cup {"EXITING"}
          /\ \A s \in Pids : s # cur[t] => tasks'[s] = tasks[s]
      BY <1>1, <2>7, <3>1, ExitEffect
    <3>3. /\ cur[t] # 0 /\ tasks[cur[t]].Flags # {}
          /\ "ZOMBIE" \notin tasks[cur[t]].Flags
      BY <2>7 DEF Owned, SlotOwned, Active
    <3>4. ParentUsed' /\ BootSlot'
      BY <3>2, <3>3, PidFacts DEF Owned, ParentUsed, BootSlot
    <3>5. SlotOwned'
      <4>1. \A u \in Threads : pc'[u] \in ActivePC =>
              pc[u] \in ActivePC /\ cur'[u] = cur[u] /\ cur[u] # cur[t]
        BY <1>1, <2>7, <3>1 DEF Owned, SlotOwned, Active, ActivePC
      <4> QED BY <3>1, <3>2, <4>1, SlotsKept
    <3>6. VectorOwned'
      BY <1>1, <2>7, <3>1, <3>2, <3>3, VectorsKept DEF WaitPC
    <3>7. Claimant'
      <4>1. \A s \in Pids : tasks[s].Flags = {} => tasks'[s].Flags = {}
        BY <3>2, <3>3
      <4> QED BY <1>1, <2>7, <3>1, <4>1 DEF Owned, Claimant, Typed, ClaimInRange
    <3> QED BY <1>1, <3>4, <3>5, <3>6, <3>7 DEF Owned
  <2>8. ASSUME NEW c \in ExitCodes, Exit(t, c) PROVE Owned'
    <3>1. c * 256 \in Nat
      BY ProcAssumption
    <3> QED BY <2>7, <2>8, <3>1 DEF Exit, __exit
  <2>9. CASE PollUser(t)
    <3>1. 127 * 256 \in Nat
      OBVIOUS
    <3>2. \A u \in Threads \ {t} : vec'[u] = vec[u]
      BY <2>9 DEF PollUser
    <3> QED BY <2>7, <2>9, <3>1, <3>2 DEF PollUser, __exit
  <2>10. CASE PollChild(t)
    <3>1. UNCHANGED <<tasks, pc, cur, vec, res, at>>
      BY <2>10 DEF PollChild
    <3>2. SlotOwned' /\ VectorOwned' /\ ParentUsed' /\ BootSlot'
      BY <3>1, QuietKeeps
    <3>3. Claimant'
      BY <3>1 DEF Owned, Claimant
    <3> QED BY <1>1, <3>2, <3>3 DEF Owned
  <2>11. CASE Detach(t)
    <3>1. /\ pc[t] \in {"xthread", "xproc"} /\ UNCHANGED <<vec, res, at>>
          /\ cur \in [Threads -> Pids] /\ cur[t] \in Pids
      BY <1>1, <2>11 DEF Detach, Gone, Typed, TypeOK
    <3>2. \A u \in Threads :
            \/ pc'[u] \in {"none", "xnotify"}
            \/ pc'[u] = pc[u] /\ cur'[u] = cur[u]
      BY <1>1, <2>11 DEF Detach, Gone
    <3>3. \A s \in Pids : tasks[s].Flags = {} => tasks'[s].Flags = {}
      BY <1>1, <2>11, <3>1, FlagEffect DEF Detach, Exiting, Flag
    <3>4. Claimant'
      BY <1>1, <3>1, <3>2, <3>3 DEF Owned, Claimant, Typed, ClaimInRange
    <3>5. CASE ~Exiting(cur[t])
      <4>1. tasks' = tasks
        BY <2>11, <3>5 DEF Detach
      <4>2. SlotOwned' /\ VectorOwned' /\ ParentUsed' /\ BootSlot'
        BY <3>1, <3>2, <4>1, QuietKeeps DEF ActivePC, WaitPC
      <4> QED BY <1>1, <3>4, <4>2 DEF Owned
    <3>6. CASE Exiting(cur[t])
      <4>1. tasks' = [tasks EXCEPT ![cur[t]].Flags = @ \cup {"ZOMBIE"}]
        BY <2>11, <3>6 DEF Detach
      <4>2. /\ tasks'[cur[t]].ThreadId = tasks[cur[t]].ThreadId
            /\ tasks'[cur[t]].ParentId = tasks[cur[t]].ParentId
            /\ tasks'[cur[t]].Status = tasks[cur[t]].Status
            /\ tasks'[cur[t]].Flags = tasks[cur[t]].Flags \cup {"ZOMBIE"}
            /\ \A s \in Pids : s # cur[t] => tasks'[s] = tasks[s]
        <5>1. "ZOMBIE" \in Flag
          BY DEF Flag
        <5> QED BY <1>1, <3>1, <4>1, <5>1, FlagEffect
      <4>3. ParentUsed' /\ BootSlot'
        BY <3>1, <4>2, PidFacts DEF Owned, ParentUsed, BootSlot
      <4>4. SlotOwned'
        <5>1. \A u \in Threads : pc'[u] \in ActivePC =>
                pc[u] \in ActivePC /\ cur'[u] = cur[u] /\ cur[u] # cur[t]
          BY <3>2, <3>6 DEF Owned, SlotOwned, Active, ActivePC, Exiting
        <5> QED BY <3>1, <4>2, <5>1, SlotsKept
      <4>5. VectorOwned'
        BY <3>1, <3>2, <4>2, VectorsKept DEF WaitPC
      <4> QED BY <1>1, <3>4, <4>3, <4>4, <4>5 DEF Owned
    <3> QED BY <3>5, <3>6
  <2>12. CASE Notify(t)
    <3>1. /\ pc[t] = "xnotify" /\ UNCHANGED <<vec, res, at>>
          /\ cur \in [Threads -> Pids] /\ cur[t] \in Pids
      BY <1>1, <2>12 DEF Notify, Gone, Typed, TypeOK
    <3>2. \A u \in Threads :
            \/ pc'[u] = "none"
            \/ pc'[u] = pc[u] /\ cur'[u] = cur[u]
      BY <1>1, <2>12 DEF Notify, Gone
    <3>3. CASE Alive(Dad(cur[t]))
      <4>1. tasks' = tasks
        BY <2>12, <3>3 DEF Notify
      <4>2. SlotOwned' /\ VectorOwned' /\ ParentUsed' /\ BootSlot'
        BY <3>1, <3>2, <4>1, QuietKeeps DEF ActivePC, WaitPC
      <4>3. Claimant'
        BY <3>1, <3>2, <4>1 DEF Owned, Claimant
      <4> QED BY <1>1, <4>2, <4>3 DEF Owned
    <3>4. CASE ~Alive(Dad(cur[t]))
      <4> DEFINE p == cur[t]
      <4>1. /\ tasks'[p].ThreadId = tasks[p].ThreadId
            /\ tasks'[p].ParentId = WIN_PID_INIT
            /\ tasks'[p].Status = tasks[p].Status
            /\ tasks'[p].Flags = tasks[p].Flags
            /\ \A s \in Pids : s # p => tasks'[s] = tasks[s]
        <5>1. tasks[p].Handle \in BOOLEAN
          BY <1>1, <3>1, TaskFields DEF Typed, TypeOK
        <5>2. PICK h \in BOOLEAN :
                tasks' = [tasks EXCEPT ![p].ParentId = WIN_PID_INIT, ![p].Handle = h]
          BY <2>12, <3>4, <5>1 DEF Notify
        <5> QED BY <1>1, <3>1, <5>2, OrphanEffect
      <4>2. tasks[p].ParentId # 0 /\ p # 0
        BY <3>4, PidFacts DEF Alive, Dad, Owned, BootSlot
      <4>3. \A u \in Threads : pc[u] \in WaitPC => p \notin vec[u]
        BY <3>4 DEF Owned, VectorOwned, SlotOwned, Active, WaitPC, Alive, Running, Dad
      <4>4. ParentUsed' /\ BootSlot'
        BY <3>1, <4>1, <4>2, PidFacts DEF Owned, ParentUsed, BootSlot
      <4>5. SlotOwned'
        <5> SUFFICES ASSUME NEW u \in Threads, pc'[u] \in ActivePC
                     PROVE  /\ cur'[u] # 0 /\ tasks'[cur'[u]].ThreadId = u
                            /\ "EMBRYO" \in tasks'[cur'[u]].Flags
                            /\ tasks'[cur'[u]].Flags
                                 \cap {"EXITING", "ZOMBIE", "NOZOMBIE"} = {}
          BY DEF SlotOwned, Active, ActivePC
        <5>1. cur[u] \in Pids /\ cur'[u] = cur[u] /\ pc[u] \in ActivePC
          BY <3>1, <3>2 DEF ActivePC
        <5>2. /\ tasks'[cur[u]].Flags = tasks[cur[u]].Flags
              /\ tasks'[cur[u]].ThreadId = tasks[cur[u]].ThreadId
          BY <4>1, <5>1
        <5> QED BY <5>1, <5>2 DEF Owned, SlotOwned, Active, ActivePC
      <4>6. VectorOwned'
        BY <3>1, <3>2, <4>1, <4>3, VectorsKept DEF WaitPC
      <4>7. Claimant'
        <5>1. \A s \in Pids : tasks'[s].Flags = tasks[s].Flags
          BY <4>1
        <5> QED BY <3>1, <3>2, <5>1 DEF Owned, Claimant, Typed, ClaimInRange
      <4> QED BY <1>1, <4>4, <4>5, <4>6, <4>7 DEF Owned
    <3> QED BY <3>3, <3>4
  <2>13. ASSUME NEW k \in WaitKinds, NEW p \in Pids \ {0}, Wait4(t, k, p)
         PROVE  Owned'
    <3>1. /\ UNCHANGED <<tasks, cur, res, at>> /\ pc[t] = "run"
          /\ pc' = [pc EXCEPT ![t] = "wait"]
          /\ vec' = [vec EXCEPT ![t] = taskv_win(t, k, p)]
          /\ vec \in [Threads -> SUBSET (Pids \ {0})]
      BY <1>1, <2>13 DEF Wait4, Typed, TypeOK
    <3>2. \A s \in vec'[t] : tasks[s].ParentId = cur[t]
      BY <3>1 DEF Orderly, taskv_win, taskv_ANY
    <3>3. SlotOwned' /\ ParentUsed' /\ BootSlot'
      BY <1>1, <3>1 DEF Owned, SlotOwned, Active, ParentUsed, BootSlot
    <3>4. VectorOwned'
      BY <1>1, <3>1, <3>2 DEF Owned, VectorOwned
    <3>5. Claimant'
      BY <1>1, <3>1 DEF Owned, Claimant
    <3> QED BY <1>1, <3>3, <3>4, <3>5 DEF Owned
  <2>14. CASE WaitFound(t)
    <3>1. PICK z \in Zombies(vec[t]) :
            /\ tasks' = [s \in Pids |-> IF s < z /\ s \in Reaped(vec[t])
                                        THEN FreeTask ELSE tasks[s]]
            /\ res' = [res EXCEPT ![t] = [TaskId |-> z, Status |-> tasks[z].Status]]
      BY <2>14 DEF WaitFound
    <3> DEFINE S == {s \in Pids : s < z /\ s \in Reaped(vec[t])}
    <3>2. S \subseteq Reaped(Pids)
      BY DEF Reaped
    <3>3. tasks' = [s \in Pids |-> IF s \in S THEN FreeTask ELSE tasks[s]]
      BY <3>1
    <3> HIDE DEF S
    <3>4. /\ UNCHANGED <<cur, vec, at>> /\ pc[t] = "wait"
          /\ pc' = [pc EXCEPT ![t] = "reap"]
          /\ res \in [Threads -> [TaskId : Pids, Status : Nat]]
      BY <1>1, <2>14 DEF WaitFound, Typed, TypeOK
    <3>5. /\ ParentUsed' /\ BootSlot'
          /\ \A u \in Threads : pc[u] \in ActivePC => tasks'[cur[u]] = tasks[cur[u]]
          /\ \A u \in Threads : pc[u] \in WaitPC =>
               \A s \in vec[u] : tasks'[s] = tasks[s]
          /\ \A s \in Pids : tasks[s].Flags = {} => tasks'[s] = tasks[s]
      BY <3>2, <3>3, ClearKeeps
    <3>6. SlotOwned'
      BY <1>1, <3>4, <3>5 DEF Owned, SlotOwned, Active, ActivePC
    <3>7. VectorOwned'
      <4>1. z \in vec[t] /\ "ZOMBIE" \in tasks[z].Flags /\ tasks'[z] = tasks[z]
        BY <3>4, <3>5 DEF Zombies, WaitPC
      <4>2. res'[t].TaskId = z /\ res'[t].Status = tasks[z].Status
        BY <3>1, <3>4
      <4>3. \A u \in Threads : u # t => pc'[u] = pc[u] /\ res'[u] = res[u]
        BY <1>1, <3>1, <3>4
      <4>4. \A u \in Threads : pc'[u] \in WaitPC => pc[u] \in WaitPC
        BY <1>1, <3>4 DEF WaitPC
      <4> SUFFICES ASSUME NEW u \in Threads, pc'[u] \in WaitPC
                   PROVE  /\ \A s \in vec[u] : tasks'[s].ParentId = cur[u]
                          /\ pc'[u] = "reap" =>
                               /\ res'[u].TaskId \in vec[u]
                               /\ "ZOMBIE" \in tasks'[res'[u].TaskId].Flags
                               /\ tasks'[res'[u].TaskId].Status = res'[u].Status
        BY <3>4 DEF VectorOwned, WaitPC
      <4>5. \A s \in vec[u] : tasks'[s] = tasks[s] /\ tasks[s].ParentId = cur[u]
        BY <3>5, <4>4 DEF Owned, VectorOwned, WaitPC
      <4>6. CASE u = t
        BY <4>1, <4>2, <4>5, <4>6
      <4>7. CASE u # t
        <5>1. pc'[u] = "reap" =>
                /\ res[u].TaskId \in vec[u]
                /\ "ZOMBIE" \in tasks[res[u].TaskId].Flags
                /\ tasks[res[u].TaskId].Status = res[u].Status
          BY <4>3, <4>7 DEF Owned, VectorOwned
        <5> QED BY <4>3, <4>5, <4>7, <5>1
      <4> QED BY <4>6, <4>7
    <3>8. Claimant'
      BY <1>1, <3>4, <3>5 DEF Owned, Claimant, Typed, ClaimInRange
    <3> QED BY <1>1, <3>5, <3>6, <3>7, <3>8 DEF Owned
  <2>15. CASE WaitReap(t)
    <3> DEFINE z == res[t].TaskId
    <3>1. /\ UNCHANGED <<cur, at>> /\ pc[t] = "reap" /\ pc' = [pc EXCEPT ![t] = "run"]
          /\ vec' = [vec EXCEPT ![t] = {}] /\ res' = [res EXCEPT ![t] = NoRes]
          /\ vec \in [Threads -> SUBSET (Pids \ {0})]
          /\ res \in [Threads -> [TaskId : Pids, Status : Nat]]
      BY <1>1, <2>15 DEF WaitReap, Typed, TypeOK
    <3>2. z \in Pids /\ z # 0 /\ z \in vec[t] /\ "ZOMBIE" \in tasks[z].Flags
      BY <1>1, <3>1, TypedAt DEF Owned, VectorOwned
    <3>3. /\ tasks'[z].ThreadId = tasks[z].ThreadId
          /\ tasks'[z].ParentId = 0
          /\ tasks'[z].Flags = tasks[z].Flags \cup {"NOZOMBIE"}
          /\ \A s \in Pids : s # z => tasks'[s] = tasks[s]
      BY <1>1, <2>15, <3>2, CloseEffect DEF WaitReap
    <3>4. ParentUsed' /\ BootSlot'
      BY <3>2, <3>3, PidFacts DEF Owned, ParentUsed, BootSlot
    <3>5. SlotOwned'
      <4>1. \A u \in Threads : pc'[u] \in ActivePC =>
              pc[u] \in ActivePC /\ cur'[u] = cur[u] /\ cur[u] # z
        BY <1>1, <3>1, <3>2 DEF Owned, SlotOwned, Active, ActivePC
      <4> QED BY <3>2, <3>3, <4>1, SlotsKept
    <3>6. VectorOwned'
      <4>1. \A u \in Threads : u # t /\ pc[u] \in WaitPC => z \notin vec[u]
        <5>1. tasks[z].ParentId = cur[t]
          BY <3>1, <3>2 DEF Owned, VectorOwned
        <5>2. \A u \in Threads : pc[u] \in WaitPC /\ z \in vec[u] => cur[u] = cur[t]
          BY <5>1 DEF Owned, VectorOwned, WaitPC
        <5> QED BY <3>1, <5>2 DEF Owned, SlotOwned, Active, WaitPC
      <4>2. \A u \in Threads : pc'[u] \in WaitPC =>
              u # t /\ pc[u] \in WaitPC /\ cur'[u] = cur[u] /\ vec'[u] = vec[u]
        BY <1>1, <3>1 DEF WaitPC
      <4>3. \A u \in Threads : pc'[u] = "reap" => pc[u] = "reap" /\ res'[u] = res[u]
        BY <1>1, <3>1
      <4> HIDE DEF z
      <4> QED BY <3>2, <3>3, <4>1, <4>2, <4>3, VectorsKept
    <3>7. Claimant'
      <4>1. \A s \in Pids : tasks[s].Flags = {} => tasks'[s].Flags = {}
        BY <3>2, <3>3
      <4> QED BY <1>1, <3>1, <4>1 DEF Owned, Claimant, Typed, ClaimInRange
    <3> QED BY <1>1, <3>4, <3>5, <3>6, <3>7 DEF Owned
  <2>16. CASE WaitRecursive(t)
    BY <2>16 DEF WaitRecursive, Orderly
  <2>17. ASSUME NEW b \in BOOLEAN, WaitNone(t, b) PROVE Owned'
    <3> DEFINE S == Reaped(vec[t])
    <3>1. /\ tasks' = [s \in Pids |-> IF s \in S THEN FreeTask ELSE tasks[s]]
          /\ UNCHANGED <<cur, res, at>> /\ pc[t] = "wait"
      BY <2>17 DEF WaitNone
    <3>2. S \subseteq Reaped(Pids)
      BY <1>1, TypedAt DEF Reaped
    <3> HIDE DEF S
    <3>3. \/ UNCHANGED <<pc, vec>>
          \/ /\ pc' = [pc EXCEPT ![t] = "run"] /\ vec' = [vec EXCEPT ![t] = {}]
      BY <2>17 DEF WaitNone
    <3>4. /\ ParentUsed' /\ BootSlot'
          /\ \A u \in Threads : pc[u] \in ActivePC => tasks'[cur[u]] = tasks[cur[u]]
          /\ \A u \in Threads : pc[u] \in WaitPC =>
               \A s \in vec[u] : tasks'[s] = tasks[s]
          /\ \A s \in Pids : tasks[s].Flags = {} => tasks'[s] = tasks[s]
      BY <3>1, <3>2, ClearKeeps
    <3>5. SlotOwned'
      BY <1>1, <3>1, <3>3, <3>4 DEF Owned, SlotOwned, Active, ActivePC
    <3>6. VectorOwned'
      <4>1. \A u \in Threads : pc'[u] \in WaitPC => pc'[u] = pc[u] /\ vec'[u] = vec[u]
        BY <1>1, <3>1, <3>3 DEF WaitPC, Typed, TypeOK
      <4> QED BY <3>1, <3>4, <4>1 DEF Owned, VectorOwned, WaitPC
    <3>7. Claimant'
      BY <1>1, <3>1, <3>3, <3>4 DEF Owned, Claimant, Typed, ClaimInRange
    <3> QED BY <1>1, <3>4, <3>5, <3>6, <3>7 DEF Owned
  <2>18. ASSUME NEW b \in BOOLEAN, WaitPoll(t, b) PROVE Owned'
    <3>1. /\ UNCHANGED <<tasks, cur, res, at>> /\ pc[t] = "wait"
          /\ vec \in [Threads -> SUBSET (Pids \ {0})]
          /\ \/ UNCHANGED <<pc, vec>>
             \/ /\ pc' = [pc EXCEPT ![t] = "run"] /\ vec' = [vec EXCEPT ![t] = {}]
      BY <1>1, <2>18 DEF WaitPoll, Typed, TypeOK
    <3>2. SlotOwned' /\ VectorOwned' /\ ParentUsed' /\ BootSlot'
      BY <1>1, <3>1, QuietKeeps DEF ActivePC, WaitPC
    <3>3. Claimant'
      BY <1>1, <3>1 DEF Owned, Claimant
    <3> QED BY <1>1, <3>2, <3>3 DEF Owned
  <2>19. ASSUME NEW a \in PgidArgs, SetPgid(t, a[1], a[2]) PROVE Owned'
    <3> DEFINE p == IF a[1] = 0 THEN cur[t] ELSE a[1]
               g == IF a[2] # 0 THEN a[2]
                    ELSE IF tasks[p].Flags = {} THEN 0 ELSE p
    <3>1. p \in Pids /\ g \in Pids
      BY <1>1, TypedAt, ProcAssumption, PidFacts DEF Pids
    <3>2. /\ tasks' = [tasks EXCEPT ![p].GroupId = g]
          /\ UNCHANGED <<pc, cur, vec, res, at>>
      BY <2>19 DEF SetPgid
    <3> HIDE DEF p, g
    <3>3. \A s \in Pids : /\ tasks'[s].ThreadId = tasks[s].ThreadId
                          /\ tasks'[s].ParentId = tasks[s].ParentId
                          /\ tasks'[s].Status = tasks[s].Status
                          /\ tasks'[s].Flags = tasks[s].Flags
      BY <1>1, <3>1, <3>2, GroupEffect
    <3>4. SlotOwned' /\ VectorOwned' /\ ParentUsed' /\ BootSlot'
      BY <3>2, <3>3, QuietKeeps
    <3>5. Claimant'
      BY <1>1, <3>2, <3>3 DEF Owned, Claimant, Typed, ClaimInRange
    <3> QED BY <1>1, <3>4, <3>5 DEF Owned
  <2> QED BY <1>4, <2>1, <2>2, <2>3, <2>4, <2>5, <2>6, <2>8, <2>9, <2>10, <2>11,
             <2>12, <2>13, <2>14, <2>15, <2>16, <2>17, <2>18, <2>19
          DEF ThreadStep
<1> QED BY <1>2, <1>3, <1>4, NextCases

\* A running slot of the table has one thread, its own, and is not marked as
\* exiting, dead or reclaimable: no slot is given out while it is in use.
THEOREM Ownership == ASSUME Orderly PROVE Spec => []SlotOwned
<1>1. Spec => []Owned
  BY OwnedInit, OwnedStep, PTL DEF Spec
<1>2. Owned => SlotOwned
  BY DEF Owned
<1> QED BY <1>1, <1>2, PTL

-----------------------------------------------------------------------------
\* A thread on its way out.
Exits == {"xthread", "xproc", "xnotify"}

\* ExitProcess() is called by the last thread of a process.
LastOne ==
  \A t, u \in Threads : pc[t] = "xproc" /\ proc[u] = proc[t] => pc[u] \in Exits
InProcess == \A t \in Threads : IF pc[t] = "none" THEN proc[t] = NoProc ELSE proc[t] \in Procs
Ends == LastOne /\ InProcess

\* Init is alone when it starts.
LEMMA EndsInit == Init => Ends
  BY DEF Init, Ends, LastOne, InProcess

\* A step of one thread that goes on or leaves, in the process it is in.
LEMMA EndsKept ==
  ASSUME Typed, Ends, NEW t \in Threads, pc[t] # "none", pc'[t] # "none",
         \A u \in Threads \ {t} : pc'[u] = pc[u],
         pc[t] \in Exits => pc'[t] \in Exits,
         pc'[t] = "xproc" => pc[t] = "xproc" \/ LastThread(t),
         UNCHANGED proc
  PROVE  Ends'
<1>1. LastOne'
  BY DEF Ends, LastOne, LastThread, Exits
<1>2. InProcess'
  BY DEF Ends, InProcess
<1> QED BY <1>1, <1>2 DEF Ends

\* A new thread u, which is not on its way out, while t goes on or leaves.
LEMMA EndsCreated ==
  ASSUME Typed, Ends, NEW t \in Threads, NEW u \in Threads, u # t,
         pc[t] \notin Exits \cup {"none"}, pc[u] = "none", NEW q \in Procs,
         pc'[u] \notin Exits \cup {"none"}, pc'[t] # "none",
         \A v \in Threads \ {t, u} : pc'[v] = pc[v],
         proc' = [proc EXCEPT ![u] = q],
         \/ q = proc[t] /\ pc'[t] # "xproc"
         \/ /\ \A v \in Threads : proc[v] # q
            /\ pc'[t] = "xproc" => LastThread(t)
  PROVE  Ends'
<1>1. proc'[u] = q /\ \A v \in Threads \ {u} : proc'[v] = proc[v]
  BY DEF Typed, TypeOK
<1>2. InProcess'
  BY <1>1 DEF Ends, InProcess
<1>3. ASSUME NEW x \in Threads, NEW v \in Threads, pc'[x] = "xproc", proc'[v] = proc'[x]
      PROVE  pc'[v] \in Exits
  <2>1. x # u /\ proc'[x] = proc[x]
    BY <1>1, <1>3 DEF Exits
  <2>2. CASE x = t
    <3>1. v # u /\ LastThread(t)
      BY <1>1, <1>3, <2>1, <2>2
    <3> QED BY <1>1, <1>3, <2>1, <2>2, <3>1 DEF LastThread, Exits
  <2>3. CASE x # t
    <3>1. pc[x] = "xproc" /\ proc[t] # proc[x]
      BY <1>3, <2>1, <2>3 DEF Ends, LastOne
    <3>2. v \notin {t, u}
      BY <1>1, <1>3, <2>1, <3>1
    <3> QED BY <1>1, <1>3, <2>1, <3>1, <3>2 DEF Ends, LastOne
  <2> QED BY <2>2, <2>3
<1> QED BY <1>2, <1>3 DEF Ends, LastOne

\* The end of threads.
LEMMA EndsGone ==
  ASSUME Typed, Ends, NEW t \in Threads, pc[t] \in Exits, NEW S,
         NEW newpc, \A u \in Threads : newpc[u] = pc[u] \/ (u = t /\ newpc[u] = "xnotify"),
         NEW newmail, NEW newchld, Gone(S, newpc, newmail, newchld)
  PROVE  Ends'
<1>1. /\ \A u \in Threads : pc'[u] = IF u \in S THEN "none" ELSE newpc[u]
      /\ \A u \in Threads : proc'[u] = IF u \in S THEN NoProc ELSE proc[u]
  BY DEF Gone
<1>2. InProcess'
  BY <1>1 DEF Ends, InProcess, Exits
<1>3. ASSUME NEW x \in Threads, NEW u \in Threads, pc'[x] = "xproc", proc'[u] = proc'[x]
      PROVE  pc'[u] \in Exits
  <2>1. pc[x] = "xproc" /\ x \notin S /\ proc'[x] = proc[x] /\ proc[x] \in Procs
    BY <1>1, <1>3 DEF Ends, InProcess
  <2>2. u \notin S /\ proc[u] = proc[x]
    BY <2>1, <1>1, <1>3, ProcAssumption
  <2>3. pc[u] \in Exits
    BY <2>1, <2>2 DEF Ends, LastOne
  <2> QED BY <2>2, <2>3, <1>1 DEF Exits
<1> QED BY <1>2, <1>3 DEF Ends, LastOne

\* The notification of a thread ends no thread that is not on its way out.
LEMMA DetachGone ==
  ASSUME Typed, Ends, NEW t \in Threads, Detach(t) \/ Notify(t)
  PROVE  \E S, newpc, newmail, newchld :
           /\ Gone(S, newpc, newmail, newchld)
           /\ pc[t] \in Exits /\ \A u \in Threads : u \in S => pc[u] \in Exits
           /\ \A u \in Threads : newpc[u] = pc[u] \/ (u = t /\ newpc[u] = "xnotify")
<1>1. CASE Detach(t)
  <2> DEFINE lost == (IF pc[t] = "xproc" THEN Mates(t) ELSE {})
                     \cup (IF Exiting(cur[t]) THEN {} ELSE {t})
             new == [pc EXCEPT ![t] = "xnotify"]
  <2>1. pc[t] \in Exits /\ \E m : Gone(lost, new, m, chld)
    BY <1>1 DEF Detach, Exits
  <2>2. \A u \in Threads : u \in lost => pc[u] \in Exits
    BY <2>1 DEF Ends, LastOne, Mates
  <2>3. \A u \in Threads : new[u] = pc[u] \/ (u = t /\ new[u] = "xnotify")
    BY DEF Typed, TypeOK
  <2> HIDE DEF lost, new
  <2> QED BY <2>1, <2>2, <2>3
<1>2. CASE Notify(t)
  <2>1. \E c : Gone({t}, pc, mail, c)
    BY <1>2 DEF Notify
  <2>2. pc[t] \in Exits
    BY <1>2 DEF Notify, Exits
  <2> QED BY <2>1, <2>2
<1> QED BY <1>1, <1>2

\* Every step, whatever programs call, leaves ExitProcess() to the last thread.
LEMMA EndsStep == Typed /\ Ends /\ [Next]_vars => Ends'
<1> SUFFICES ASSUME Typed, Ends, [Next]_vars PROVE Ends'
  OBVIOUS
<1>1. pc \in [Threads -> PC]
  BY DEF Typed, TypeOK
<1>2. CASE UNCHANGED vars
  BY <1>2 DEF vars, Ends, LastOne, InProcess
<1>3. CASE Start
  <2>1. PICK u \in Fresh, q \in FreshProcs :
          pc' = [pc EXCEPT ![u] = "scan"] /\ proc' = [proc EXCEPT ![u] = q]
    BY <1>3 DEF Start
  <2>2. /\ u \in Threads /\ pc[u] = "none" /\ pc'[u] = "scan" /\ q \in Procs
        /\ proc'[u] = q /\ \A v \in Threads : proc[v] # q
        /\ \A v \in Threads \ {u} : pc'[v] = pc[v] /\ proc'[v] = proc[v]
    BY <1>1, <2>1 DEF Fresh, FreshProcs, Typed, TypeOK
  <2>3. InProcess'
    BY <2>2 DEF Ends, InProcess
  <2>4. LastOne'
    BY <2>2 DEF Ends, LastOne
  <2> QED BY <2>3, <2>4 DEF Ends
<1>4. ASSUME NEW t \in Threads, ThreadStep(t) PROVE Ends'
  <2>1. ASSUME NEW f \in ForkFlags, Fork(t, f) PROVE Ends'
    <3>1. PICK u \in Fresh : /\ pc' = [pc EXCEPT ![t] = "fork", ![u] = "scan"]
                             /\ proc' = [proc EXCEPT ![u] = proc[t]]
      BY <2>1 DEF Fork
    <3>2. pc[t] = "run" /\ u \in Threads /\ pc[u] = "none" /\ u # t
      BY <2>1 DEF Fork, Fresh
    <3>3. /\ pc'[t] = "fork" /\ pc'[u] = "scan"
          /\ \A v \in Threads \ {t, u} : pc'[v] = pc[v]
      BY <1>1, <3>1, <3>2
    <3>4. proc[t] \in Procs
      BY <3>2 DEF Ends, InProcess
    <3> QED BY <3>1, <3>2, <3>3, <3>4, EndsCreated DEF Exits
  <2>2. CASE Exec(t)
    <3>1. PICK u \in Fresh, q \in FreshProcs :
            /\ pc' = [pc EXCEPT ![t] = proc_exit(t), ![u] = "run"]
            /\ proc' = [proc EXCEPT ![u] = q]
      BY <2>2 DEF Exec
    <3>2. /\ pc[t] = "run" /\ u \in Threads /\ pc[u] = "none" /\ u # t
          /\ q \in Procs /\ \A v \in Threads : proc[v] # q
      BY <2>2 DEF Exec, Fresh, FreshProcs
    <3>3. /\ pc'[t] \in {"xproc", "xthread"} /\ pc'[u] = "run"
          /\ pc'[t] = "xproc" => LastThread(t)
          /\ \A v \in Threads \ {t, u} : pc'[v] = pc[v]
      BY <1>1, <3>1, <3>2 DEF proc_exit
    <3> QED BY <3>1, <3>2, <3>3, EndsCreated DEF Exits
  <2>3. CASE Detach(t) \/ Notify(t)
    <3>1. PICK S, newpc, newmail, newchld :
            /\ Gone(S, newpc, newmail, newchld) /\ pc[t] \in Exits
            /\ \A u \in Threads : newpc[u] = pc[u] \/ (u = t /\ newpc[u] = "xnotify")
      BY <2>3, DetachGone
    <3> QED BY <3>1, EndsGone
  <2>4. ASSUME \/ Scan(t) \/ TableFull(t) \/ Claim(t) \/ ForkReturn(t)
               \/ \E c \in ExitCodes : Exit(t, c)
               \/ PollUser(t) \/ PollChild(t)
               \/ \E k \in WaitKinds, p \in Pids \ {0} : Wait4(t, k, p)
               \/ WaitFound(t) \/ WaitReap(t) \/ WaitRecursive(t)
               \/ \E b \in BOOLEAN : WaitNone(t, b) \/ WaitPoll(t, b)
               \/ \E a \in PgidArgs : SetPgid(t, a[1], a[2])
        PROVE  Ends'
    <3>1. /\ pc[t] \notin Exits \cup {"none"} /\ pc'[t] # "none"
          /\ pc'[t] = "xproc" => LastThread(t)
          /\ \A u \in Threads \ {t} : pc'[u] = pc[u]
          /\ UNCHANGED proc
      BY <1>1, <2>4 DEF Scan, TableFull, Claim, ForkReturn, Exit, PollUser, PollChild,
         Wait4, WaitFound, WaitReap, WaitRecursive, WaitNone, WaitPoll, SetPgid,
         __exit, proc_exit, Exits
    <3> QED BY <3>1, EndsKept
  <2> QED BY <1>4, <2>1, <2>2, <2>3, <2>4 DEF ThreadStep
<1> QED BY <1>2, <1>3, <1>4, NextCases

-----------------------------------------------------------------------------
\* A process whose forker still runs names the forker's slot as its parent:
\* only a process that has exited leaves its slot to another.
Parented ==
  \A s \in Pids : forker[s] # 0 =>
    tasks[s].ParentId = forker[s] /\ Runs(forker[s])

Related == Owned /\ Ends /\ Parented

\* A step that makes nobody the child of another, and ends no process whose
\* children are known.
LEMMA ParentedKept ==
  ASSUME Parented,
         \A s \in Pids : forker'[s] # 0 =>
           forker'[s] = forker[s] /\ tasks'[s].ParentId = tasks[s].ParentId,
         \A u \in Threads : pc[u] \in ActivePC =>
           \/ pc'[u] \in ActivePC /\ cur'[u] = cur[u]
           \/ \A s \in Pids : forker'[s] # cur[u]
  PROVE  Parented'
<1> SUFFICES ASSUME NEW s \in Pids, forker'[s] # 0
             PROVE  tasks'[s].ParentId = forker'[s]
                    /\ \E u \in Threads : pc'[u] \in ActivePC /\ cur'[u] = forker'[s]
  BY DEF Parented, Runs, Active, ActivePC
<1>1. PICK u \in Threads : pc[u] \in ActivePC /\ cur[u] = forker[s]
  BY DEF Parented, Runs, Active, ActivePC
<1> QED BY <1>1 DEF Parented

\* Clearing collected slots takes no child from a process that runs.
LEMMA ParentedCleared ==
  ASSUME Related, NEW S, S \subseteq Reaped(Pids),
         tasks' = [s \in Pids |-> IF s \in S THEN FreeTask ELSE tasks[s]],
         UNCHANGED <<cur, forker>>,
         \A u \in Threads : pc[u] \in ActivePC => pc'[u] \in ActivePC
  PROVE  Parented'
<1>1. \A s \in Pids : forker[s] # 0 => s \notin S
  BY DEF Related, Owned, Parented, ParentUsed, Reaped
<1>2. \A s \in Pids : s \notin S => tasks'[s] = tasks[s]
  BY ClearEffect DEF Related, Owned
<1> QED BY <1>1, <1>2, ParentedKept DEF Related

\* Every step of orderly programs keeps children with the one that forked them.
LEMMA ParentedStep == ASSUME Orderly PROVE Related /\ [Next]_vars => Parented'
<1> SUFFICES ASSUME Related, [Next]_vars PROVE Parented'
  OBVIOUS
<1>1. /\ Typed /\ pc \in [Threads -> PC] /\ cur \in [Threads -> Pids]
      /\ forker \in [Pids -> Pids]
  BY DEF Related, Owned, Typed, TypeOK
<1>2. ASSUME UNCHANGED <<tasks, forker, cur>>,
             \A u \in Threads : pc[u] \in ActivePC => pc'[u] \in ActivePC
      PROVE  Parented'
  BY <1>2, ParentedKept DEF Related
<1>3. CASE UNCHANGED vars
  BY <1>2, <1>3 DEF vars
<1>4. CASE Start
  BY <1>1, <1>2, <1>4 DEF Start, Fresh, ActivePC
<1>5. ASSUME NEW t \in Threads, ThreadStep(t) PROVE Parented'
  <2>1. CASE \/ \E f \in ForkFlags : Fork(t, f)
             \/ ForkReturn(t) \/ PollChild(t)
             \/ \E k \in WaitKinds, p \in Pids \ {0} : Wait4(t, k, p)
             \/ \E b \in BOOLEAN : WaitPoll(t, b)
    <3>1. UNCHANGED <<tasks, forker, cur>>
      BY <2>1 DEF Fork, ForkReturn, PollChild, Wait4, WaitPoll
    <3>2. \A u \in Threads : pc[u] \in ActivePC => pc'[u] \in ActivePC
      BY <1>1, <2>1 DEF Fork, Fresh, ForkReturn, PollChild, Wait4, WaitPoll, ActivePC
    <3> QED BY <1>2, <3>1, <3>2
  <2>2. CASE Scan(t)
    <3>1. \A u \in Threads : pc[u] \in ActivePC => pc'[u] \in ActivePC
      BY <1>1, <2>2 DEF Scan, ActivePC
    <3>2. CASE tasks[at[t]].Flags = {}
      BY <1>2, <2>2, <3>1, <3>2 DEF Scan
    <3>3. CASE tasks[at[t]].Flags # {}
      <4>1. at[t] \in Pids
        BY <1>1, <2>2, ScanInRange DEF Scan
      <4> DEFINE S == Reaped({at[t]})
      <4>2. S \subseteq Reaped(Pids)
        BY <4>1 DEF Reaped
      <4>3. /\ tasks' = [s \in Pids |-> IF s \in S THEN FreeTask ELSE tasks[s]]
            /\ UNCHANGED <<cur, forker>>
        BY <2>2, <3>3 DEF Scan
      <4> HIDE DEF S
      <4> QED BY <3>1, <4>2, <4>3, ParentedCleared
    <3> QED BY <3>2, <3>3
  <2>3. CASE TableFull(t)
    <3> DEFINE n == 127 * 256
    <3>1. n \in Nat /\ 0 \in Pids
      BY PidFacts
    <3>2. tasks' = [tasks EXCEPT ![0].Status = n, ![0].Flags = @ \cup {"EXITING"}]
      BY <2>3 DEF TableFull
    <3> HIDE DEF n
    <3>3. \A s \in Pids : tasks'[s].ParentId = tasks[s].ParentId
      BY <1>1, <3>1, <3>2, ExitEffect
    <3>4. /\ UNCHANGED <<forker, cur>>
          /\ \A u \in Threads : pc[u] \in ActivePC => pc'[u] \in ActivePC
      BY <1>1, <2>3 DEF TableFull, ActivePC
    <3> QED BY <3>3, <3>4, ParentedKept DEF Related
  <2>4. CASE Claim(t)
    <3> DEFINE d == arg[t].TaskId
    <3>1. /\ at[t] \in Pids /\ pc[t] = "claim" /\ d \in Pids
          /\ pc' = [pc EXCEPT ![t] = "run"] /\ cur' = [cur EXCEPT ![t] = at[t]]
          /\ forker'[at[t]] = IF arg[t].ThreadId # NoThread /\ Runs(d) THEN d ELSE 0
          /\ \A s \in Pids : s # at[t] => forker'[s] = forker[s]
      BY <1>1, <2>4, TypedAt DEF Claim, Typed, ClaimInRange
    <3>2. \A u \in Threads : pc[u] \in ActivePC => pc'[u] \in ActivePC /\ cur'[u] = cur[u]
      BY <1>1, <3>1 DEF ActivePC
    <3>3. \A s \in Pids : s # at[t] => tasks'[s] = tasks[s]
      BY <1>1, <2>4, <3>1, ClaimEffect DEF Claim
    <3>4. ASSUME NEW s \in Pids, forker'[s] # 0
          PROVE  tasks'[s].ParentId = forker'[s] /\ Runs(forker'[s])
      <4>1. CASE s # at[t]
        BY <3>1, <3>3, <3>4, <4>1 DEF Related, Parented
      <4>2. CASE s = at[t]
        <5>1. forker'[s] = d /\ arg[t].ThreadId # NoThread /\ Runs(d)
          BY <3>1, <3>4, <4>2
        <5>2. PICK h \in BOOLEAN : tasks' = [tasks EXCEPT ![at[t]] = ClaimedTask(t, h)]
          BY <2>4 DEF Claim
        <5>3. tasks[at[t]] \in Task /\ tasks \in [Pids -> Task]
          BY <1>1, <3>1 DEF Typed, TypeOK
        <5>4. ClaimedTask(t, h).ParentId = d
          BY <5>1, <5>3 DEF ClaimedTask, Task
        <5>5. tasks'[at[t]].ParentId = d
          BY <3>1, <5>2, <5>3, <5>4
        <5> QED BY <4>2, <5>1, <5>5
      <4> QED BY <4>1, <4>2
    <3>5. ASSUME NEW q \in Pids, Runs(q)
          PROVE  \E u \in Threads : pc'[u] \in ActivePC /\ cur'[u] = q
      BY <3>2, <3>5 DEF Runs, Active, ActivePC
    <3>6. forker' \in [Pids -> Pids]
      BY <1>1, <2>4, <3>1, PidFacts DEF Claim
    <3>7. \A s \in Pids : forker'[s] # 0 =>
            \E u \in Threads : pc'[u] \in ActivePC /\ cur'[u] = forker'[s]
      BY <3>4, <3>5, <3>6
    <3> QED BY <3>4, <3>7 DEF Parented, Runs, Active, ActivePC
  <2>5. CASE Exec(t)
    <3>1. PICK u \in Fresh :
            /\ pc' = [pc EXCEPT ![t] = proc_exit(t), ![u] = "run"]
            /\ cur' = [cur EXCEPT ![u] = cur[t]]
            /\ tasks' = [tasks EXCEPT ![cur[t]].ThreadId = u, ![cur[t]].Handle = TRUE]
            /\ UNCHANGED forker
      BY <2>5 DEF Exec
    <3>2. /\ pc[t] = "run" /\ u \in Threads /\ pc[u] = "none" /\ cur[t] \in Pids
          /\ pc'[u] = "run" /\ cur'[u] = cur[t]
          /\ \A v \in Threads \ {t, u} : pc'[v] = pc[v] /\ cur'[v] = cur[v]
      BY <1>1, <2>5, <3>1 DEF Exec, Fresh
    <3>3. \A s \in Pids : tasks'[s].ParentId = tasks[s].ParentId
      BY <1>1, <3>1, <3>2, ExecEffect
    <3>4. ASSUME NEW q, Runs(q)
          PROVE  \E v \in Threads : pc'[v] \in ActivePC /\ cur'[v] = q
      <4>1. PICK v \in Threads : pc[v] \in ActivePC /\ cur[v] = q
        BY <3>4 DEF Runs, Active, ActivePC
      <4>2. CASE v = t
        BY <3>2, <4>1, <4>2 DEF ActivePC
      <4>3. CASE v # t
        BY <3>2, <4>1, <4>3 DEF ActivePC
      <4> QED BY <4>2, <4>3
    <3> QED BY <3>1, <3>3, <3>4 DEF Related, Parented, Runs, Active, ActivePC
  <2>6. ASSUME pc[t] \in {"run", "wait"}, NEW n \in Nat,
               tasks' = [tasks EXCEPT ![cur[t]].Status = n,
                                      ![cur[t]].Flags = @ \cup {"EXITING"}],
               pc' = [pc EXCEPT ![t] = proc_exit(t)], UNCHANGED cur,
               forker' = [s \in Pids |-> IF forker[s] = cur[t] THEN 0 ELSE forker[s]]
        PROVE  Parented'
    <3>1. \A s \in Pids : tasks'[s].ParentId = tasks[s].ParentId
      BY <1>1, <2>6, ExitEffect
    <3>2. cur[t] # 0
      BY <2>6 DEF Related, Owned, SlotOwned, Active
    <3>3. \A u \in Threads : pc[u] \in ActivePC =>
            \/ pc'[u] \in ActivePC /\ cur'[u] = cur[u]
            \/ \A s \in Pids : forker'[s] # cur[u]
      BY <1>1, <2>6, <3>2
    <3> QED BY <2>6, <3>1, <3>3, ParentedKept DEF Related
  <2>7. ASSUME NEW c \in ExitCodes, Exit(t, c) PROVE Parented'
    <3>1. c * 256 \in Nat
      BY ProcAssumption
    <3> QED BY <2>6, <2>7, <3>1 DEF Exit, __exit
  <2>8. CASE PollUser(t)
    <3>1. 127 * 256 \in Nat
      OBVIOUS
    <3> QED BY <2>6, <2>8, <3>1 DEF PollUser, __exit
  <2>9. CASE Detach(t) \/ Notify(t)
    <3>1. PICK S, newpc, newmail, newchld :
            /\ Gone(S, newpc, newmail, newchld) /\ pc[t] \in Exits
            /\ \A u \in Threads : u \in S => pc[u] \in Exits
            /\ \A u \in Threads : newpc[u] = pc[u] \/ (u = t /\ newpc[u] = "xnotify")
      BY <1>1, <2>9, DetachGone DEF Related
    <3>2. \A u \in Threads : pc[u] \in ActivePC => pc'[u] \in ActivePC /\ cur'[u] = cur[u]
      BY <3>1 DEF Gone, ActivePC, Exits
    <3>3. UNCHANGED forker /\ cur[t] \in Pids
      BY <1>1, <3>1 DEF Gone
    <3>4. \A s \in Pids : forker[s] # 0 => tasks'[s].ParentId = tasks[s].ParentId
      <4>1. CASE Detach(t)
        BY <1>1, <3>3, <4>1, FlagEffect DEF Detach, Flag
      <4>2. CASE Notify(t) /\ Alive(Dad(cur[t]))
        BY <4>2 DEF Notify
      <4>3. CASE Notify(t) /\ ~Alive(Dad(cur[t]))
        <5>1. forker[cur[t]] = 0
          <6>1. SUFFICES ASSUME forker[cur[t]] # 0 PROVE FALSE
            OBVIOUS
          <6>2. PICK u \in Threads : Active(u) /\ cur[u] = tasks[cur[t]].ParentId
            BY <3>3, <6>1 DEF Related, Parented, Runs
          <6>3. Dad(cur[t]) = u
            BY <6>2 DEF Related, Owned, SlotOwned, Dad
          <6> QED BY <4>3, <6>2, <6>3 DEF Alive, Running, Active
        <5>2. tasks[cur[t]].Handle \in BOOLEAN
          BY <1>1, TypedAt, TaskFields
        <5>3. PICK h \in BOOLEAN : tasks' = [tasks EXCEPT ![cur[t]].ParentId = WIN_PID_INIT,
                                                          ![cur[t]].Handle = h]
          BY <4>3, <5>2 DEF Notify
        <5> QED BY <1>1, <3>3, <5>1, <5>3, OrphanEffect
      <4> QED BY <2>9, <4>1, <4>2, <4>3
    <3> QED BY <3>2, <3>3, <3>4, ParentedKept DEF Related
  <2>10. CASE WaitFound(t) \/ \E b \in BOOLEAN : WaitNone(t, b)
    <3>1. /\ \A u \in Threads : pc[u] \in ActivePC => pc'[u] \in ActivePC
          /\ UNCHANGED <<cur, forker>>
      BY <1>1, <2>10 DEF WaitFound, WaitNone, ActivePC
    <3>2. PICK S : /\ S \subseteq Reaped(Pids)
                   /\ tasks' = [s \in Pids |-> IF s \in S THEN FreeTask ELSE tasks[s]]
      <4>1. CASE WaitFound(t)
        <5>1. PICK z \in Zombies(vec[t]) :
                tasks' = [s \in Pids |-> IF s < z /\ s \in Reaped(vec[t])
                                         THEN FreeTask ELSE tasks[s]]
          BY <4>1 DEF WaitFound
        <5> DEFINE R == {s \in Pids : s < z /\ s \in Reaped(vec[t])}
        <5>2. /\ R \subseteq Reaped(Pids)
              /\ tasks' = [s \in Pids |-> IF s \in R THEN FreeTask ELSE tasks[s]]
          BY <5>1 DEF Reaped
        <5> HIDE DEF R
        <5> QED BY <5>2
      <4>2. CASE \E b \in BOOLEAN : WaitNone(t, b)
        <5>1. tasks' = [s \in Pids |-> IF s \in Reaped(vec[t]) THEN FreeTask ELSE tasks[s]]
          BY <4>2 DEF WaitNone
        <5>2. Reaped(vec[t]) \subseteq Reaped(Pids)
          BY <1>1, TypedAt DEF Reaped
        <5> QED BY <5>1, <5>2
      <4> QED BY <2>10, <4>1, <4>2
    <3> QED BY <3>1, <3>2, ParentedCleared
  <2>11. CASE WaitReap(t)
    <3>1. PICK z \in Pids : z = res[t].TaskId
      BY <1>1, TypedAt
    <3>2. /\ tasks' = proc_close(z) /\ forker' = [forker EXCEPT ![z] = 0]
          /\ UNCHANGED cur
          /\ \A u \in Threads : pc[u] \in ActivePC => pc'[u] \in ActivePC
      BY <1>1, <2>11, <3>1 DEF WaitReap, ActivePC
    <3>3. \A s \in Pids : s # z => tasks'[s] = tasks[s]
      BY <1>1, <3>2, CloseEffect
    <3> QED BY <1>1, <3>2, <3>3, ParentedKept DEF Related
  <2>12. ASSUME NEW a \in PgidArgs, SetPgid(t, a[1], a[2]) PROVE Parented'
    <3> DEFINE p == IF a[1] = 0 THEN cur[t] ELSE a[1]
               g == IF a[2] # 0 THEN a[2]
                    ELSE IF tasks[p].Flags = {} THEN 0 ELSE p
    <3>1. p \in Pids /\ g \in Pids
      BY <1>1, TypedAt, ProcAssumption, PidFacts DEF Pids
    <3>2. tasks' = [tasks EXCEPT ![p].GroupId = g] /\ UNCHANGED <<pc, cur, forker>>
      BY <2>12 DEF SetPgid
    <3> HIDE DEF p, g
    <3>3. \A s \in Pids : tasks'[s].ParentId = tasks[s].ParentId
      BY <1>1, <3>1, <3>2, GroupEffect
    <3> QED BY <3>2, <3>3, ParentedKept DEF Related
  <2>13. ~WaitRecursive(t)
    BY DEF WaitRecursive, Orderly
  <2> QED BY <1>5, <2>1, <2>2, <2>3, <2>4, <2>5, <2>7, <2>8, <2>9, <2>10, <2>11,
             <2>12, <2>13 DEF ThreadStep
<1> QED BY <1>3, <1>4, <1>5, NextCases

\* wait4() collects a child once, with the status it exited with, and never the
\* child of another process that still runs: no interleaving with exits, forks,
\* exec and other waits comes between WaitNoHang() seeing the zombie and
\* proc_close() marking its slot, and no reuse of a slot gives a process the
\* children of one that has not exited.
THEOREM CollectsNoOthersChild == ASSUME Orderly PROVE Spec => []ReapsNoOthersChild
<1>1. Init => Related
  <2>1. Init => Parented
    BY DEF Init, Parented
  <2> QED BY <2>1, OwnedInit, EndsInit DEF Related
<1>2. Related /\ [Next]_vars => Related'
  <2>1. Related /\ [Next]_vars => Ends'
    BY EndsStep DEF Related, Owned
  <2> QED BY <2>1, OwnedStep, ParentedStep DEF Related
<1>3. Related => ReapsNoOthersChild
  BY OwnedReaps DEF Related, Parented, ReapsNoOthersChild
<1> QED BY <1>1, <1>2, <1>3, PTL DEF Spec
-----------------------------------------------------------------------------
\* The slots that stand for processes, and their stages.
Ids == Pids \ {0}
Stages == [p \in Ids |-> StageOf(p)]

\* The stages a set of flags stands for.
LEMMA StageFacts ==
  ASSUME NEW p \in Pids
  PROVE  /\ tasks[p].Flags = {} => StageOf(p) = "free"
         /\ "NOZOMBIE" \in tasks[p].Flags => StageOf(p) = "reaped"
         /\ "ZOMBIE" \in tasks[p].Flags /\ "NOZOMBIE" \notin tasks[p].Flags
              => StageOf(p) = "zombie"
         /\ "EXITING" \in tasks[p].Flags
              /\ "ZOMBIE" \notin tasks[p].Flags /\ "NOZOMBIE" \notin tasks[p].Flags
              => StageOf(p) = "exiting"
         /\ tasks[p].Flags # {} /\ "EXITING" \notin tasks[p].Flags
              /\ "ZOMBIE" \notin tasks[p].Flags /\ "NOZOMBIE" \notin tasks[p].Flags
              => StageOf(p) = "live"
  BY DEF StageOf

\* The same of the next state.
LEMMA StageFactsNext ==
  ASSUME NEW p \in Pids
  PROVE  /\ tasks'[p].Flags = {} => StageOf(p)' = "free"
         /\ "NOZOMBIE" \in tasks'[p].Flags => StageOf(p)' = "reaped"
         /\ "ZOMBIE" \in tasks'[p].Flags /\ "NOZOMBIE" \notin tasks'[p].Flags
              => StageOf(p)' = "zombie"
         /\ "EXITING" \in tasks'[p].Flags
              /\ "ZOMBIE" \notin tasks'[p].Flags /\ "NOZOMBIE" \notin tasks'[p].Flags
              => StageOf(p)' = "exiting"
         /\ tasks'[p].Flags # {} /\ "EXITING" \notin tasks'[p].Flags
              /\ "ZOMBIE" \notin tasks'[p].Flags /\ "NOZOMBIE" \notin tasks'[p].Flags
              => StageOf(p)' = "live"
  BY DEF StageOf

\* A step that keeps all flags keeps all stages.
LEMMA StagesKept ==
  ASSUME \A s \in Pids : tasks'[s].Flags = tasks[s].Flags
  PROVE  UNCHANGED Stages
<1>1. ASSUME NEW s \in Ids PROVE StageOf(s)' = StageOf(s)
  BY DEF StageOf, Ids
<1> QED BY <1>1 DEF Stages

\* A step that changes the flags of one slot moves it along its life.
LEMMA StageMoved ==
  ASSUME NEW p \in Ids,
         \A s \in Pids : s # p => tasks'[s].Flags = tasks[s].Flags,
         <<StageOf(p), StageOf(p)'>> \in {<<"free", "live">>, <<"live", "exiting">>,
                                          <<"exiting", "zombie">>, <<"zombie", "reaped">>}
  PROVE  Life!LNext
<1>1. ASSUME NEW s \in Ids, s # p PROVE StageOf(s)' = StageOf(s)
  BY <1>1 DEF StageOf, Ids
<1>2. Stages' = [Stages EXCEPT ![p] = StageOf(p)'] /\ Stages[p] = StageOf(p)
  BY <1>1 DEF Stages
<1>3. \/ Life!Create(p) \/ Life!Leave(p) \/ Life!Die(p) \/ Life!Collect(p)
  BY <1>2 DEF Life!Create, Life!Leave, Life!Die, Life!Collect, Life!Step, Stages, Ids
<1> QED BY <1>3 DEF Life!LNext, Ids

\* Clearing collected slots makes their ids free again.
LEMMA StagesReclaimed ==
  ASSUME Typed, NEW S, S \subseteq Reaped(Pids),
         tasks' = [s \in Pids |-> IF s \in S THEN FreeTask ELSE tasks[s]]
  PROVE  Life!LNext
<1> DEFINE R == S \cap Ids
<1>1. ASSUME NEW s \in Ids
      PROVE  StageOf(s)' = IF s \in R THEN "free" ELSE StageOf(s)
  <2>1. s \in Pids
    BY DEF Ids
  <2>2. CASE s \in S
    BY <2>1, <2>2, ClearEffect, StageFactsNext
  <2>3. CASE s \notin S
    <3>1. tasks'[s] = tasks[s]
      BY <2>1, <2>3, ClearEffect
    <3> QED BY <2>3, <3>1 DEF StageOf
  <2> QED BY <2>2, <2>3
<1>2. ASSUME NEW s \in R PROVE StageOf(s) = "reaped"
  BY StageFacts DEF Reaped, Ids
<1>3. /\ Stages' = [s \in Ids |-> IF s \in R THEN "free" ELSE Stages[s]]
      /\ \A s \in R : Stages[s] = "reaped"
  BY <1>1, <1>2 DEF Stages
<1>4. R \in SUBSET Ids
  OBVIOUS
<1> HIDE DEF R
<1>5. Life!Reclaim(R)
  BY <1>3 DEF Life!Reclaim, Stages, Ids
<1> QED BY <1>4, <1>5 DEF Life!LNext, Ids

\* Marking a slot that runs as exiting is the exit of its process.
LEMMA StageLeft ==
  ASSUME Owned, NEW t \in Threads, pc[t] \in {"run", "wait"}, NEW n \in Nat,
         tasks' = [tasks EXCEPT ![cur[t]].Status = n,
                                ![cur[t]].Flags = @ \cup {"EXITING"}]
  PROVE  Life!LNext
<1>1. Typed
  BY DEF Owned
<1>0. PICK p \in Pids : p = cur[t]
  BY <1>1, TypedAt
<1>2. /\ p # 0 /\ tasks[p].Flags # {}
      /\ tasks[p].Flags \cap {"EXITING", "ZOMBIE", "NOZOMBIE"} = {}
  BY <1>0 DEF Owned, SlotOwned, Active
<1>3. /\ tasks'[p].Flags = tasks[p].Flags \cup {"EXITING"}
      /\ \A s \in Pids : s # p => tasks'[s] = tasks[s]
  BY <1>0, <1>1, ExitEffect
<1>4. StageOf(p) = "live" /\ StageOf(p)' = "exiting"
  BY <1>2, <1>3, StageFacts, StageFactsNext
<1>5. p \in Ids /\ \A s \in Pids : s # p => tasks'[s].Flags = tasks[s].Flags
  BY <1>2, <1>3 DEF Ids
<1> QED BY <1>4, <1>5, StageMoved

\* Every step of orderly programs is a stage in the life of one process, the
\* return of collected ids, or none of the two.
LEMMA LifeStep ==
  ASSUME Orderly, Owned, [Next]_vars
  PROVE  Life!LNext \/ UNCHANGED Stages
<1>1. Typed /\ pc \in [Threads -> PC]
  BY DEF Owned, Typed, TypeOK
<1>2. ASSUME UNCHANGED tasks PROVE UNCHANGED Stages
  BY <1>2, StagesKept
<1>3. CASE UNCHANGED vars
  BY <1>2, <1>3 DEF vars
<1>4. CASE Start
  BY <1>2, <1>4 DEF Start
<1>5. ASSUME NEW t \in Threads, ThreadStep(t)
      PROVE  Life!LNext \/ UNCHANGED Stages
  <2>1. CASE /\ ~Scan(t) /\ ~TableFull(t) /\ ~Claim(t) /\ ~Exec(t)
             /\ ~PollUser(t) /\ ~Detach(t) /\ ~Notify(t)
             /\ ~WaitFound(t) /\ ~WaitReap(t)
             /\ ~(\E c \in ExitCodes : Exit(t, c))
             /\ ~(\E b \in BOOLEAN : WaitNone(t, b))
             /\ ~(\E a \in PgidArgs : SetPgid(t, a[1], a[2]))
    <3>1. \/ \E f \in ForkFlags : Fork(t, f)
          \/ ForkReturn(t) \/ PollChild(t)
          \/ \E k \in WaitKinds, p \in Pids \ {0} : Wait4(t, k, p)
          \/ WaitRecursive(t) \/ \E b \in BOOLEAN : WaitPoll(t, b)
      BY <1>5, <2>1 DEF ThreadStep
    <3> QED BY <1>2, <3>1
            DEF Fork, ForkReturn, PollChild, Wait4, WaitRecursive, WaitPoll, Orderly
  <2>2. CASE Scan(t)
    <3>1. at[t] \in Pids
      BY <1>1, <2>2, ScanInRange DEF Scan
    <3>2. CASE tasks[at[t]].Flags = {}
      BY <1>2, <2>2, <3>2 DEF Scan
    <3>3. CASE tasks[at[t]].Flags # {}
      <4> DEFINE S == Reaped({at[t]})
      <4>1. tasks' = [s \in Pids |-> IF s \in S THEN FreeTask ELSE tasks[s]]
        BY <2>2, <3>3 DEF Scan
      <4>2. S \subseteq Reaped(Pids)
        BY <3>1 DEF Reaped
      <4> HIDE DEF S
      <4> QED BY <1>1, <4>1, <4>2, StagesReclaimed
    <3> QED BY <3>2, <3>3
  <2>3. CASE TableFull(t)
    <3> DEFINE n == 127 * 256
    <3>1. n \in Nat
      OBVIOUS
    <3>2. tasks' = [tasks EXCEPT ![0].Status = n,
                                 ![0].Flags = @ \cup {"EXITING"}]
      BY <2>3 DEF TableFull
    <3> HIDE DEF n
    <3>3. \A s \in Ids : tasks'[s] = tasks[s]
      BY <1>1, <3>1, <3>2, PidFacts, ExitEffect DEF Ids
    <3>4. \A s \in Ids : StageOf(s)' = StageOf(s)
      BY <3>3 DEF StageOf
    <3> QED BY <3>4 DEF Stages
  <2>4. CASE Claim(t)
    <3>0. PICK p \in Pids : p = at[t]
      BY <1>1, <2>4 DEF Claim, Typed, ClaimInRange
    <3>1. tasks[p].Flags = {} /\ p # 0
      BY <2>4, <3>0 DEF Claim, Owned, Claimant, BootSlot
    <3>2. /\ "EMBRYO" \in tasks'[p].Flags
          /\ tasks'[p].Flags \subseteq {"EMBRYO", "PPWAIT"}
          /\ \A s \in Pids : s # p => tasks'[s] = tasks[s]
      BY <1>1, <2>4, <3>0, ClaimEffect DEF Claim
    <3>3. StageOf(p) = "free" /\ StageOf(p)' = "live"
      BY <3>1, <3>2, StageFacts, StageFactsNext
    <3> QED BY <3>1, <3>2, <3>3, StageMoved DEF Ids
  <2>5. CASE Exec(t)
    <3>1. PICK u \in Threads :
            tasks' = [tasks EXCEPT ![cur[t]].ThreadId = u, ![cur[t]].Handle = TRUE]
      BY <2>5 DEF Exec, Fresh
    <3>2. \A s \in Pids : tasks'[s].Flags = tasks[s].Flags
      BY <1>1, <3>1, TypedAt, ExecEffect
    <3> QED BY <3>2, StagesKept
  <2>6. ASSUME NEW c \in ExitCodes, Exit(t, c) PROVE Life!LNext
    <3>1. c * 256 \in Nat
      BY ProcAssumption
    <3> QED BY <2>6, <3>1, StageLeft DEF Exit, __exit
  <2>7. CASE PollUser(t)
    <3>1. 127 * 256 \in Nat
      OBVIOUS
    <3> QED BY <2>7, <3>1, StageLeft DEF PollUser, __exit
  <2>8. CASE Detach(t)
    <3>1. PICK p \in Pids : p = cur[t]
      BY <1>1, TypedAt
    <3>2. CASE ~Exiting(p)
      BY <1>2, <2>8, <3>1, <3>2 DEF Detach
    <3>3. CASE Exiting(p)
      <4>1. tasks' = [tasks EXCEPT ![p].Flags = @ \cup {"ZOMBIE"}]
        BY <2>8, <3>1, <3>3 DEF Detach
      <4>2. /\ tasks'[p].Flags = tasks[p].Flags \cup {"ZOMBIE"}
            /\ \A s \in Pids : s # p => tasks'[s] = tasks[s]
        <5>1. "ZOMBIE" \in Flag
          BY DEF Flag
        <5> QED BY <1>1, <4>1, <5>1, FlagEffect
      <4>3. "EXITING" \in tasks[p].Flags
        BY <3>3 DEF Exiting
      <4>4. CASE "ZOMBIE" \in tasks[p].Flags
        <5>1. \A s \in Pids : tasks'[s].Flags = tasks[s].Flags
          BY <4>2, <4>4
        <5> QED BY <5>1, StagesKept
      <4>5. CASE "ZOMBIE" \notin tasks[p].Flags /\ "NOZOMBIE" \notin tasks[p].Flags
        <5>1. StageOf(p) = "exiting" /\ StageOf(p)' = "zombie"
          BY <4>2, <4>3, <4>5, StageFacts, StageFactsNext
        <5>2. CASE p = 0
          <6>1. \A s \in Ids : tasks'[s] = tasks[s]
            BY <4>2, <5>2 DEF Ids
          <6>2. \A s \in Ids : StageOf(s)' = StageOf(s)
            BY <6>1 DEF StageOf
          <6> QED BY <6>2 DEF Stages
        <5>3. CASE p # 0
          BY <4>2, <5>1, <5>3, StageMoved DEF Ids
        <5> QED BY <5>2, <5>3
      <4>6. CASE "ZOMBIE" \notin tasks[p].Flags /\ "NOZOMBIE" \in tasks[p].Flags
        <5>1. StageOf(p) = "reaped" /\ StageOf(p)' = "reaped"
          BY <4>2, <4>6, StageFacts, StageFactsNext
        <5>2. \A s \in Ids : StageOf(s)' = StageOf(s)
          BY <4>2, <5>1 DEF StageOf, Ids
        <5> QED BY <5>2 DEF Stages
      <4> QED BY <4>4, <4>5, <4>6
    <3> QED BY <3>2, <3>3
  <2>9. CASE Notify(t)
    <3> DEFINE p == cur[t]
    <3>1. CASE Alive(Dad(p))
      BY <1>2, <2>9, <3>1 DEF Notify
    <3>2. CASE ~Alive(Dad(p))
      <4>1. p \in Pids /\ tasks[p].Handle \in BOOLEAN
        BY <1>1, TypedAt, TaskFields
      <4>2. PICK h \in BOOLEAN :
              tasks' = [tasks EXCEPT ![p].ParentId = WIN_PID_INIT, ![p].Handle = h]
        BY <2>9, <3>2, <4>1 DEF Notify
      <4>3. \A s \in Pids : tasks'[s].Flags = tasks[s].Flags
        BY <1>1, <4>1, <4>2, OrphanEffect
      <4> QED BY <4>3, StagesKept
    <3> QED BY <3>1, <3>2
  <2>10. CASE WaitFound(t)
    <3>1. PICK z \in Zombies(vec[t]) :
            tasks' = [s \in Pids |-> IF s < z /\ s \in Reaped(vec[t])
                                     THEN FreeTask ELSE tasks[s]]
      BY <2>10 DEF WaitFound
    <3> DEFINE S == {s \in Pids : s < z /\ s \in Reaped(vec[t])}
    <3>2. S \subseteq Reaped(Pids)
      BY DEF Reaped
    <3>3. tasks' = [s \in Pids |-> IF s \in S THEN FreeTask ELSE tasks[s]]
      BY <3>1
    <3> HIDE DEF S
    <3> QED BY <1>1, <3>2, <3>3, StagesReclaimed
  <2>11. CASE WaitReap(t)
    <3>0. PICK z \in Ids : z = res[t].TaskId
      BY <1>1, <2>11, TypedAt DEF WaitReap, Owned, VectorOwned, Ids
    <3>1. pc[t] = "reap" /\ tasks' = proc_close(z)
      BY <2>11, <3>0 DEF WaitReap
    <3>2. "ZOMBIE" \in tasks[z].Flags /\ "NOZOMBIE" \notin tasks[z].Flags
      BY <3>0, <3>1, OwnedReaps
    <3>3. /\ tasks'[z].Flags = tasks[z].Flags \cup {"NOZOMBIE"}
          /\ \A s \in Pids : s # z => tasks'[s] = tasks[s]
      BY <1>1, <3>1, CloseEffect DEF Ids
    <3>4. StageOf(z) = "zombie" /\ StageOf(z)' = "reaped"
      BY <3>2, <3>3, StageFacts, StageFactsNext DEF Ids
    <3> QED BY <3>2, <3>3, <3>4, StageMoved
  <2>12. ASSUME NEW b \in BOOLEAN, WaitNone(t, b) PROVE Life!LNext
    <3>1. tasks' = [s \in Pids |-> IF s \in Reaped(vec[t]) THEN FreeTask ELSE tasks[s]]
      BY <2>12 DEF WaitNone
    <3>2. Reaped(vec[t]) \subseteq Reaped(Pids)
      BY <1>1, TypedAt DEF Reaped
    <3> QED BY <1>1, <3>1, <3>2, StagesReclaimed
  <2>13. ASSUME NEW a \in PgidArgs, SetPgid(t, a[1], a[2])
         PROVE  UNCHANGED Stages
    <3> DEFINE p == IF a[1] = 0 THEN cur[t] ELSE a[1]
               g == IF a[2] # 0 THEN a[2]
                    ELSE IF tasks[p].Flags = {} THEN 0 ELSE p
    <3>1. p \in Pids /\ g \in Pids
      BY <1>1, TypedAt, ProcAssumption, PidFacts DEF Pids
    <3>2. tasks' = [tasks EXCEPT ![p].GroupId = g]
      BY <2>13 DEF SetPgid
    <3> HIDE DEF p, g
    <3>3. \A s \in Pids : tasks'[s].Flags = tasks[s].Flags
      BY <1>1, <3>1, <3>2, GroupEffect
    <3> QED BY <3>3, StagesKept
  <2> QED BY <2>1, <2>2, <2>3, <2>4, <2>5, <2>6, <2>7, <2>8, <2>9, <2>10,
             <2>11, <2>12, <2>13
<1> QED BY <1>3, <1>4, <1>5, NextCases

\* The process table implements ProcLife for orderly programs: every slot but
\* bsd.exe's is given out only when it is free, and its process runs, exits,
\* becomes a zombie and is collected once, in this order, before the id is
\* given out again.
THEOREM LifeCycle == ASSUME Orderly PROVE Spec => ImplementsLife
<1>1. Init => Life!LInit
  <2> SUFFICES ASSUME Init PROVE Stages \in [Ids -> {"free", "live"}]
    BY DEF Life!LInit, Stages, Ids
  <2>1. \A p \in Pids : tasks[p].Flags \in {{}, {"EMBRYO"}}
    BY PidFacts, FreeFields DEF Init, FreeTask
  <2>2. \A p \in Ids : StageOf(p) \in {"free", "live"}
    BY <2>1, StageFacts DEF Ids
  <2> QED BY <2>2 DEF Stages
<1>2. Owned /\ [Next]_vars => [Life!LNext]_Stages
  BY LifeStep
<1>3. Spec => []Owned
  BY OwnedInit, OwnedStep, PTL DEF Spec
<1> QED BY <1>1, <1>2, <1>3, PTL DEF Spec, ImplementsLife, Life!LSpec, Stages, Ids
===============================================================================
