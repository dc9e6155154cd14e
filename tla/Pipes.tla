-------------------------------- MODULE Pipes --------------------------------
(***************************************************************************)
(* poll(), select(), and the pipes and local sockets they are made for.    *)
(* Every descriptor has an event of Windows, auto-reset; a call that finds *)
(* nothing sleeps on the events of its descriptors and on __Interrupt, and *)
(* looks again when one of them woke it.  All pipes of the session and all *)
(* sockets with a name share one event, __PipeEvent, and the two ends of a *)
(* socketpair() share one.  Whoever writes or closes sets the event of its *)
(* own end, afterwards.                                                    *)
(*                                                                         *)
(* Data is counted in units; a unit is what one write() writes.            *)
(***************************************************************************)
EXTENDS Naturals, FiniteSets

CONSTANTS
  Procs,      \* the processes
  Mains,      \* those that are not forked threads of another's Win32 process
  Ends,       \* the ends of pipes and sockets
  Kind,       \* "fifo" (pipe), "pair" (socketpair) or "local" (bind, connect)
  Peer,       \* the other end
  Server,     \* of the two ends the one CreateNamedPipe() made
  EventOf,    \* Node->Event of each end
  Events,     \* the events
  Held,       \* which processes may hold which ends at first
  Cap,        \* bound: units a pipe takes
  Watches,    \* the sets of ends programs poll
  Readers,    \* the processes that read() sockets, which sleeps
  Parts,      \* how many buffers readv() is given at each end
  Calls,      \* the calls the program of each process makes
  Times,      \* the time limits given to poll()
  FullWrites, \* whether programs write to a pipe that is full
  MaxSig      \* bound: signals that are sent

Call == {"poll", "select", "read", "readv", "write", "close", "connect", "exit"}
PipeEvent == "PipeEvent"
Interrupt == "Interrupt"

ASSUME PipesAssumption ==
  /\ Mains \subseteq Procs /\ Readers \subseteq Procs
  /\ Kind \in [Ends -> {"fifo", "pair", "local"}]
  /\ Peer \in [Ends -> Ends] /\ Server \in [Ends -> Ends]
  /\ \A e \in Ends : /\ Peer[e] # e /\ Peer[Peer[e]] = e
                     /\ Server[e] \in {e, Peer[e]}
                     /\ Server[e] = Server[Peer[e]] /\ Kind[e] = Kind[Peer[e]]
  /\ PipeEvent \in Events /\ Interrupt \notin Events
  /\ EventOf \in [Ends -> Events] /\ Held \subseteq [Ends -> SUBSET Procs]
  \* Only connect() makes the handle of a client.
  /\ \A h \in Held, e \in Ends : Kind[e] = "local" /\ e # Server[e] => h[e] = {}
  /\ Cap \in Nat \ {0} /\ Watches \subseteq SUBSET Ends
  /\ Parts \in [Ends -> Nat \ {0}] /\ Calls \in [Procs -> SUBSET Call] /\ MaxSig \in Nat
  /\ FullWrites \in BOOLEAN
  /\ Times \subseteq {"zero", "some", "inf"}

VARIABLES
  buf,      \* units each end can read
  holders,  \* the processes with a handle of each end
  link,     \* the named pipe of each server end, see Link
  event,    \* the events that are signalled
  mail,     \* messages with signals in the queue of each process
  sent,     \* how many signals were sent
  pc,       \* where each process is in its call, with the locals
  ret       \* history: what its last call returned

vars == <<buf, holders, link, event, mail, sent, pc, ret>>

Link == {"new",     \* created
         "listen",  \* ConnectNamedPipe() is pending
         "open",    \* a client has connected
         "off"}     \* DisconnectNamedPipe()

At == {"none", "scan", "disc", "conn", "wait", "sleep", "woke", "peek", "rfile",
       "write", "wset", "cset", "exit", "xset", "dead"}
None == "none"

\* e is the end at hand, watch and time the arguments of poll(), todo and res
\* those of PollNoWait(), parts, cnt and sum those of vfs_readv(); took counts
\* the units the call has taken out of the pipe.
Found == {"in", "hup", "band"}
Context == [at : At, call : Call \cup {None}, e : Ends \cup {None},
            watch : SUBSET Ends, todo : SUBSET Ends, res : SUBSET (Ends \X Found),
            time : {"zero", "some", "inf"},
            parts : Nat, cnt : Nat, sum : Nat, took : Nat]
Idle == [at |-> "none", call |-> None, e |-> None, watch |-> {}, todo |-> {},
         res |-> {}, time |-> "inf", parts |-> 0, cnt |-> 0, sum |-> 0, took |-> 0]

Answer == [call : Call \cup {None}, e : Ends \cup {None}, err : BOOLEAN,
           n : Nat, took : Nat, res : SUBSET (Ends \X Found)]
NoAnswer == [call |-> None, e |-> None, err |-> FALSE, n |-> 0, took |-> 0, res |-> {}]

TypeOK ==
  /\ buf \in [Ends -> 0 .. Cap]
  /\ holders \in [Ends -> SUBSET Procs]
  /\ link \in [Ends -> Link]
  /\ event \subseteq Events \cup {Interrupt}
  /\ mail \in [Procs -> 0 .. MaxSig] /\ sent \in 0 .. MaxSig
  /\ ret \in [Procs -> Answer] /\ pc \in [Procs -> Context]
  /\ \A p \in Procs : /\ pc[p].todo \subseteq pc[p].watch
                       /\ pc[p].res \subseteq pc[p].watch \X Found

-----------------------------------------------------------------------------
(* The pipes of Windows *)

\* Whether the named pipe of e connects two ends; else it is in no state to
\* be read, written or peeked.
Linked(e) == link[Server[e]] = "open"
Broken(e) == Linked(e) /\ holders[Peer[e]] = {} /\ buf[e] = 0

\* PeekNamedPipe().
Peek(e) == IF ~Linked(e) THEN "bad"
           ELSE IF buf[e] > 0 THEN "avail"
           ELSE IF Broken(e) THEN "broken" ELSE "empty"

\* A process lets go of the ends S; the last handle takes the data with it.
Drop(p, S) ==
  /\ holders' = [e \in Ends |-> IF e \in S THEN holders[e] \ {p} ELSE holders[e]]
  /\ buf' = [e \in Ends |-> IF e \in S /\ holders[e] \subseteq {p} THEN 0 ELSE buf[e]]

\* What a sleeping process waits for.
Watched(c) == IF c.call \in {"poll", "select"} THEN c.watch ELSE {c.e}
Objects(c) == {Interrupt} \cup {EventOf[e] : e \in Watched(c)}

\* SetEvent(ev), by a process that goes on as pc1 says: an auto-reset event
\* releases one of those that wait, or stays set for the next.
SetEvent(ev, pc1) ==
  LET waiting == {q \in Procs : pc1[q].at = "sleep" /\ ev \in Objects(pc1[q])}
  IN IF waiting = {}
     THEN event' = event \cup {ev} /\ pc' = pc1
     ELSE /\ \E q \in waiting : pc' = [pc1 EXCEPT ![q].at = "woke"]
          /\ UNCHANGED event

-----------------------------------------------------------------------------
(* System calls: entry and return *)

\* The call of p returns a.
Return(p, a) == /\ pc' = [pc EXCEPT ![p] = Idle]
                /\ ret' = [ret EXCEPT ![p] = a]
Fails(p) == Return(p, [NoAnswer EXCEPT !.call = pc[p].call, !.e = pc[p].e,
                                       !.err = TRUE, !.took = pc[p].took])

\* syscall_enter() takes a message, if there is one, whose signal is ignored.
Enter(p, call) == /\ pc[p].at = "none" /\ call \in Calls[p]
                  /\ mail' = [mail EXCEPT ![p] = IF @ > 0 THEN @ - 1 ELSE 0]
                  /\ ret' = [ret EXCEPT ![p] = NoAnswer]
                  /\ UNCHANGED sent

\* The signal is handled, and the call is not made: sys_interrupt().
sys_interrupt(p) ==
  /\ pc[p].at = "none" /\ mail[p] > 0
  /\ mail' = [mail EXCEPT ![p] = @ - 1]
  /\ ret' = [ret EXCEPT ![p] = [NoAnswer EXCEPT !.err = TRUE]]
  /\ UNCHANGED <<buf, holders, link, event, sent, pc>>

\* Mutant: the message is posted to the thread, and once more for the task.
Signal_twice(p) ==
  /\ pc[p].at # "dead" /\ sent < MaxSig
  /\ sent' = sent + 1
  /\ mail' = [mail EXCEPT ![p] = @ + 2]
  /\ SetEvent(Interrupt, pc)
  /\ UNCHANGED <<buf, holders, link, ret>>

\* kill(): the message, then the event.
Signal(p) ==
  /\ pc[p].at # "dead" /\ sent < MaxSig
  /\ sent' = sent + 1
  /\ mail' = [mail EXCEPT ![p] = @ + 1]
  /\ SetEvent(Interrupt, pc)
  /\ UNCHANGED <<buf, holders, link, ret>>

-----------------------------------------------------------------------------
(* poll() and select() *)

Poll(p) ==
  \E call \in {"poll", "select"}, W \in Watches, t \in Times :
    /\ Enter(p, call)
    /\ \A e \in W : p \in holders[e]
    /\ pc' = [pc EXCEPT ![p] = [Idle EXCEPT !.at = "scan", !.call = call,
                                  !.watch = W, !.todo = W, !.time = t]]
    /\ UNCHANGED <<buf, holders, link, event>>

\* e has been looked at with result S.
Looked(c, e, S) == [c EXCEPT !.at = "scan", !.e = None, !.todo = @ \ {e},
                             !.res = @ \cup {<<e, s>> : s \in S}]

\* Mutant: a hang-up is looked for before data.
PollNode_hup(p) ==
  \E e \in pc[p].todo :
    /\ pc[p].at = "scan"
    /\ \/ /\ Peek(e) = "avail" /\ holders[Peer[e]] # {}
          /\ pc' = [pc EXCEPT ![p] = Looked(@, e, {"in"})] /\ UNCHANGED <<link, event>>
       \/ /\ Peek(e) = "empty"
          /\ pc' = [pc EXCEPT ![p] = Looked(@, e, {})] /\ UNCHANGED <<link, event>>
       \/ /\ Peek(e) \in {"avail", "broken"} /\ holders[Peer[e]] = {}
          /\ pc' = [pc EXCEPT ![p] = IF Kind[e] = "fifo" THEN Looked(@, e, {"hup"})
                                     ELSE [@ EXCEPT !.at = "disc", !.e = e]]
          /\ UNCHANGED <<link, event>>
       \/ /\ Peek(e) = "bad"
          /\ pc' = [pc EXCEPT ![p] = Looked(@, e, {})] /\ UNCHANGED <<link, event>>
    /\ UNCHANGED <<buf, holders, mail, sent, ret>>

\* PollNode() of a descriptor that is polled for input: fifo_poll(), sock_poll().
\* The handles of a socketpair are not overlapped: there ConnectNamedPipe() waits
\* for a client, which never comes.
PollNode(p) ==
  \E e \in pc[p].todo :
    /\ pc[p].at = "scan"
    /\ \/ /\ Peek(e) = "avail"
          /\ pc' = [pc EXCEPT ![p] = Looked(@, e, {"in"})]
          /\ UNCHANGED <<link, event>>
       \/ /\ Peek(e) = "empty"            \* POLLOUT, which nobody asked for
          /\ pc' = [pc EXCEPT ![p] = Looked(@, e, {})]
          /\ UNCHANGED <<link, event>>
       \/ /\ Peek(e) = "broken"
          /\ pc' = [pc EXCEPT ![p] = IF Kind[e] = "fifo" THEN Looked(@, e, {"hup"})
                                     ELSE [@ EXCEPT !.at = "disc", !.e = e]]
          /\ UNCHANGED <<link, event>>
       \/ /\ Peek(e) = "bad"
          /\ IF e # Server[e]             \* ConnectNamedPipe() fails
             THEN UNCHANGED <<link, event>>
             ELSE /\ link' = [link EXCEPT ![e] = "listen"]
                  /\ event' = event \ {EventOf[e]}
          /\ pc' = [pc EXCEPT ![p] = IF e = Server[e] /\ Kind[e] = "pair"
                                     THEN [@ EXCEPT !.at = "conn", !.e = e]
                                     ELSE Looked(@, e, IF @.call = "select"
                                                       THEN {"band"} ELSE {})]
    /\ UNCHANGED <<buf, holders, mail, sent, ret>>

\* SockPollError() of a broken pipe: DisconnectNamedPipe(), which discards what
\* is in the pipe and fails on the client's end.
SockPollError(p) ==
  LET e == pc[p].e
  IN /\ pc[p].at = "disc"
     /\ IF e = Server[e]
        THEN /\ link' = [link EXCEPT ![e] = "off"]
             /\ buf' = [buf EXCEPT ![e] = 0, ![Peer[e]] = 0]
        ELSE UNCHANGED <<link, buf>>
     /\ pc' = [pc EXCEPT ![p] = Looked(@, e, {"hup"})]
     /\ UNCHANGED <<holders, event, mail, sent, ret>>

\* vfs_poll() after the scan.
PollDone(p) ==
  /\ pc[p].at = "scan" /\ pc[p].todo = {}
  /\ IF pc[p].res # {} \/ pc[p].time = "zero"
     THEN Return(p, [NoAnswer EXCEPT !.call = pc[p].call, !.res = pc[p].res])
     ELSE pc' = [pc EXCEPT ![p].at = "wait"] /\ UNCHANGED ret
  /\ UNCHANGED <<buf, holders, link, event, mail, sent>>

\* Mutant: the wait does not look at events that are set already.
Wait_blind(p) ==
  /\ pc[p].at = "wait"
  /\ pc' = [pc EXCEPT ![p].at = "sleep"]
  /\ event' = event \ Objects(pc[p])
  /\ UNCHANGED <<buf, holders, link, mail, sent, ret>>

\* The wait of PollWait() and sock_select(): __Interrupt comes first.
Wait(p) ==
  LET ready == event \cap Objects(pc[p])
  IN /\ pc[p].at = "wait"
     /\ IF ready = {}
        THEN pc' = [pc EXCEPT ![p].at = "sleep"] /\ UNCHANGED event
        ELSE /\ \E ev \in ready : /\ Interrupt \in ready => ev = Interrupt
                                  /\ event' = event \ {ev}
             /\ pc' = [pc EXCEPT ![p].at = "woke"]
     /\ UNCHANGED <<buf, holders, link, mail, sent, ret>>

\* The time of a sleeping poll() is over.
TimeOut(p) ==
  /\ pc[p].at = "sleep" /\ pc[p].time = "some"
  /\ pc' = [pc EXCEPT ![p].at = "woke", ![p].time = "zero"]
  /\ UNCHANGED <<buf, holders, link, event, mail, sent, ret>>

\* Looks again; what is left of the time may be nothing by now.
Again(p) ==
  LET c == pc[p]
  IN \E t \in IF c.time = "some" THEN {"some", "zero"} ELSE {c.time} :
       pc' = [pc EXCEPT ![p] =
                IF c.call \in {"poll", "select"}
                THEN [c EXCEPT !.at = "scan", !.todo = c.watch, !.res = {}, !.time = t]
                ELSE [c EXCEPT !.at = "peek"]]

\* proc_poll() after the wait: no message, or one that is ignored, or EINTR.
proc_poll(p) ==
  /\ pc[p].at = "woke"
  /\ \/ mail[p] = 0 /\ Again(p) /\ UNCHANGED <<mail, ret>>
     \/ /\ mail[p] > 0 /\ mail' = [mail EXCEPT ![p] = @ - 1]
        /\ \/ Again(p) /\ UNCHANGED ret
           \/ Fails(p)
  /\ UNCHANGED <<buf, holders, link, event, sent>>

-----------------------------------------------------------------------------
(* read(), readv(), write() *)

Read(p) ==
  \E call \in {"read", "readv"}, e \in Ends :
    /\ Enter(p, call)
    /\ p \in holders[e] /\ (Kind[e] = "fifo" => e = Server[e])
    /\ Kind[e] # "fifo" => p \in Readers
    /\ pc' = [pc EXCEPT ![p] =
                [Idle EXCEPT !.at = IF Kind[e] = "fifo" THEN "rfile" ELSE "peek",
                             !.call = call, !.e = e,
                             !.parts = IF call = "readv" THEN Parts[e] ELSE 1]]
    /\ UNCHANGED <<buf, holders, link, event>>

\* Mutant: the count of the last buffer is the result.
NextPart_last(p, c) ==
  IF c.parts = 1
  THEN Return(p, [NoAnswer EXCEPT !.call = c.call, !.e = c.e, !.n = c.cnt,
                                  !.took = c.took])
  ELSE /\ pc' = [pc EXCEPT ![p] =
                   [c EXCEPT !.at = IF Kind[c.e] = "fifo" THEN "rfile" ELSE "peek",
                             !.parts = @ - 1, !.sum = @ + c.cnt]]
       /\ UNCHANGED ret

\* The next buffer of readv(), or the result: dwCount of each call is added.
\* An error forgets the sum.
NextPart(p, c) ==
  IF c.parts = 1
  THEN Return(p, [NoAnswer EXCEPT !.call = c.call, !.e = c.e, !.n = c.sum + c.cnt,
                                  !.took = c.took])
  ELSE /\ pc' = [pc EXCEPT ![p] =
                   [c EXCEPT !.at = IF Kind[c.e] = "fifo" THEN "rfile" ELSE "peek",
                             !.parts = @ - 1, !.sum = @ + c.cnt]]
       /\ UNCHANGED ret

\* sock_read() looks whether there is something to read.  That there is no pipe
\* any more counts as the end of the file, and leaves dwCount as it is.
sock_read(p) ==
  LET c == pc[p]
  IN /\ c.at = "peek"
     /\ \/ Peek(c.e) \in {"bad", "broken"} /\ NextPart(p, c)
        \/ /\ Peek(c.e) = "avail"
           /\ pc' = [pc EXCEPT ![p].at = "rfile"] /\ UNCHANGED ret
        \/ /\ Peek(c.e) = "empty"
           /\ pc' = [pc EXCEPT ![p].at = "wait"] /\ UNCHANGED ret
     /\ UNCHANGED <<buf, holders, link, event, mail, sent>>

\* Mutant: a pipe without data is at its end.
fifo_read_empty(p) ==
  LET c == pc[p]
  IN /\ c.at = "rfile"
     /\ \/ /\ Peek(c.e) = "avail"
           /\ \E n \in 1 .. buf[c.e] :
                /\ buf' = [buf EXCEPT ![c.e] = @ - n]
                /\ NextPart(p, [c EXCEPT !.cnt = n, !.took = @ + n])
        \/ /\ Peek(c.e) \in {"empty", "broken"}
           /\ NextPart(p, [c EXCEPT !.cnt = 0]) /\ UNCHANGED buf
        \/ Peek(c.e) = "bad" /\ Fails(p) /\ UNCHANGED buf
     /\ UNCHANGED <<holders, link, event, mail, sent>>

\* fifo_read(): ReadFile() sleeps until there is data, for buffers of any size,
\* or the last writer is gone.
fifo_read(p) ==
  LET c == pc[p]
  IN /\ c.at = "rfile"
     /\ \/ /\ Peek(c.e) = "avail"
           /\ \E n \in 1 .. buf[c.e] :
                /\ buf' = [buf EXCEPT ![c.e] = @ - n]
                /\ NextPart(p, [c EXCEPT !.cnt = n, !.took = @ + n])
        \/ /\ Peek(c.e) = "broken"
           /\ NextPart(p, [c EXCEPT !.cnt = 0]) /\ UNCHANGED buf
        \/ Peek(c.e) = "bad" /\ Fails(p) /\ UNCHANGED buf
     /\ UNCHANGED <<holders, link, event, mail, sent>>

\* WriteFile() with an OVERLAPPED structure resets its event first.
Write(p) ==
  \E e \in Ends :
    /\ Enter(p, "write")
    /\ p \in holders[e] /\ (Kind[e] = "fifo" => e # Server[e])
    /\ FullWrites \/ buf[Peer[e]] < Cap
    /\ event' = event \ {EventOf[e]}
    /\ pc' = [pc EXCEPT ![p] = [Idle EXCEPT !.at = "write", !.call = "write", !.e = e]]
    /\ UNCHANGED <<buf, holders, link>>

\* The write waits for room, or fails.
WriteFile(p) ==
  LET e == pc[p].e
  IN /\ pc[p].at = "write"
     /\ IF ~Linked(e) \/ holders[Peer[e]] = {}
        THEN Fails(p) /\ UNCHANGED buf
        ELSE /\ buf[Peer[e]] < Cap
             /\ buf' = [buf EXCEPT ![Peer[e]] = @ + 1]
             /\ pc' = [pc EXCEPT ![p].at = "wset"]
             /\ UNCHANGED ret
     /\ UNCHANGED <<holders, link, event, mail, sent>>

\* It signals the event when it is done.
WriteDone(p) ==
  /\ pc[p].at = "wset"
  /\ SetEvent(EventOf[pc[p].e], [pc EXCEPT ![p] = Idle])
  /\ UNCHANGED <<buf, holders, link, mail, sent, ret>>

-----------------------------------------------------------------------------
(* close(), exit(), connect() *)

\* Mutant: the pipe is disconnected before the handle is closed.
pipe_close_disc(p) ==
  \E e \in Ends :
    /\ Enter(p, "close") /\ p \in holders[e]
    /\ holders' = [holders EXCEPT ![e] = @ \ {p}]
    /\ buf' = [buf EXCEPT ![e] = 0, ![Peer[e]] = 0]
    /\ pc' = [pc EXCEPT ![p] = [Idle EXCEPT !.at = "cset", !.call = "close", !.e = e]]
    /\ UNCHANGED <<link, event>>

\* pipe_close(): CloseHandle(), and then SetEvent().
pipe_close(p) ==
  \E e \in Ends :
    /\ Enter(p, "close") /\ p \in holders[e]
    /\ Drop(p, {e})
    /\ pc' = [pc EXCEPT ![p] = [Idle EXCEPT !.at = "cset", !.call = "close", !.e = e]]
    /\ UNCHANGED <<link, event>>

\* exit() of a forked process closes all it has (__closefrom); that of any
\* other only its sockets (vfs_closefrom).
Exit(p) ==
  /\ Enter(p, "exit")
  /\ pc' = [pc EXCEPT ![p] = [Idle EXCEPT !.at = "exit", !.call = "exit"]]
  /\ UNCHANGED <<buf, holders, link, event>>

ToClose(p) == {e \in Ends : p \in holders[e] /\ (p \in Mains => Kind[e] # "fifo")}

ExitClose(p) ==
  \E e \in ToClose(p) :
    /\ pc[p].at = "exit"
    /\ Drop(p, {e})
    /\ pc' = [pc EXCEPT ![p].at = "xset", ![p].e = e]
    /\ UNCHANGED <<link, event, mail, sent, ret>>

CloseDone(p) ==
  /\ pc[p].at \in {"cset", "xset"}
  /\ SetEvent(EventOf[pc[p].e],
              [pc EXCEPT ![p] = IF @.at = "cset" THEN Idle
                                ELSE [@ EXCEPT !.at = "exit", !.e = None]])
  /\ UNCHANGED <<buf, holders, link, mail, sent, ret>>

\* Windows closes the rest, and tells nobody.
ExitProcess(p) ==
  /\ pc[p].at = "exit" /\ ToClose(p) = {}
  /\ Drop(p, Ends)
  /\ pc' = [pc EXCEPT ![p] = [Idle EXCEPT !.at = "dead"]]
  /\ UNCHANGED <<link, event, mail, sent, ret>>

\* connect() to a socket with a name: the one instance of its pipe is free, and
\* a pending ConnectNamedPipe() completes, or it is busy.  pipe_connect() then
\* sets no event, but sys_connect() has errno_posix() translate the error, which
\* does on ERROR_PIPE_BUSY (sys/errno.c:176).
Connect(p) ==
  \E c \in Ends :
    LET s == Server[c]
        busy == link[s] \in {"open", "off"}
    IN /\ Enter(p, "connect")
       /\ Kind[c] = "local" /\ c # s /\ holders[s] # {} /\ p \notin holders[s]
       /\ p \notin holders[c]
       /\ IF busy
          THEN UNCHANGED <<holders, link>>
          ELSE /\ holders' = [holders EXCEPT ![c] = {p}]
               /\ link' = [link EXCEPT ![s] = "open"]
       /\ IF link[s] = "new" THEN UNCHANGED <<event, pc>> ELSE SetEvent(PipeEvent, pc)
       /\ UNCHANGED buf

-----------------------------------------------------------------------------
Init ==
  /\ buf = [e \in Ends |-> 0]
  /\ holders \in Held
  /\ link = [e \in Ends |-> IF Kind[e] = "local" THEN "new" ELSE "open"]
  /\ event = {}
  /\ mail = [p \in Procs |-> 0] /\ sent = 0
  /\ pc = [p \in Procs |-> Idle]
  /\ ret = [p \in Procs |-> NoAnswer]

\* What a process does by itself once it is in a call.
Goes(p) ==
  \/ PollNode(p) \/ SockPollError(p) \/ PollDone(p)
  \/ Wait(p) \/ proc_poll(p)
  \/ sock_read(p) \/ fifo_read(p) \/ WriteFile(p) \/ WriteDone(p)
  \/ ExitClose(p) \/ CloseDone(p) \/ ExitProcess(p)

Program(p) == \/ Poll(p) \/ Read(p) \/ Write(p) \/ pipe_close(p) \/ Exit(p)
              \/ Connect(p) \/ sys_interrupt(p)

Next == \E p \in Procs : Goes(p) \/ Program(p) \/ TimeOut(p) \/ Signal(p)

Spec == Init /\ [][Next]_vars

\* Windows runs every thread that can go on.  TimeOut is left out: ReadyEnds is
\* about wake-ups, and no call may need its time limit to notice what is ready.
Fairness == \A p \in Procs : WF_vars(Goes(p))
FairSpec == Spec /\ Fairness

-----------------------------------------------------------------------------
(* Properties *)

\* The process that alone holds e.
Alone(p, e) == holders[e] = {p}

\* What poll() and select() said of a descriptor that nobody else holds is still
\* so when the program acts on it: it can read without sleeping, and a hang-up is
\* for good (PollNode, SockPollError).
PollTrue ==
  \A p \in Procs : pc[p].at = "none" /\ ret[p].call \in {"poll", "select"} =>
    \A e \in Ends : Alone(p, e) =>
      /\ <<e, "in">> \in ret[p].res => buf[e] > 0
      /\ <<e, "hup">> \in ret[p].res /\ Kind[e] # "local" =>
           buf[e] = 0 /\ holders[Peer[e]] = {}

\* read() and readv() return what they took out of the pipe; a call that fails
\* has taken nothing (vfs_readv, sock_read, fifo_read).
ReadHonest ==
  \A p \in Procs : ret[p].call \in {"read", "readv"} =>
    ret[p].took = IF ret[p].err THEN 0 ELSE ret[p].n

\* read() returns 0 only at the end of the file: nothing is left and nobody is
\* there to write (fifo_read, and sock_read's "POSIX result for read()").
EndIsFinal ==
  \A p \in Procs : LET a == ret[p] IN
    a.call \in {"read", "readv"} /\ ~a.err /\ a.n = 0 /\ Kind[a.e] # "local" =>
      buf[a.e] = 0 /\ holders[Peer[a.e]] = {}

\* Data stays in a pipe until it is read, or nobody can read it any more;
\* neither polling nor closing the other end discards it.
KeptUntilRead ==
  [][\A e \in Ends : buf'[e] < buf[e] =>
       \/ holders'[e] = {}
       \/ \E p \in holders[e] : pc[p].at = "rfile" /\ pc[p].e = e]_vars

\* A call that sleeps on descriptors of which one has data, or has lost its
\* other end, does not go on sleeping (vfs_poll, sock_read, and every SetEvent()).
Ready(e) == buf[e] > 0 \/ (holders[Peer[e]] = {} /\ Kind[e] # "local")
ReadyAsleep(p) ==
  /\ pc[p].at \in {"scan", "disc", "conn", "wait", "sleep", "woke", "peek"}
  /\ \E e \in Watched(pc[p]) : Ready(e)
ReadyEnds == \A p \in Readers : ReadyAsleep(p) ~> ~ReadyAsleep(p)
=============================================================================
