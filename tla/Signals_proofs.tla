---------------------------- MODULE Signals_proofs ----------------------------
(***************************************************************************)
(* Theorems about signals, for any processes, signals, masks and numbers   *)
(* of signals sent.                                                        *)
(***************************************************************************)
EXTENDS Signals, TLAPS

Waiters == {"suspend", "stop"}
Pollers == {"begin", "sleep", "wait"} \cup Waiters
OnTop == {"catch", "restart", "ret", "stop"}

\* What proc_poll() or vfs_sigsuspend() has raised lies on the call that did.
Nested(stk) ==
  \A i \in 1 .. Len(stk) :
    /\ stk[i].f \in OnTop => i < Len(stk) /\ stk[i + 1].f \in Pollers
    /\ stk[i].f = "send" => stk[i].sig \in Sigs \cup {0}

\* The program's mask w is the mask m of the process, or the one the outermost
\* suspension is to restore.
Saved(stk, m, w) ==
  /\ (\A i \in 1 .. Len(stk) : stk[i].f \notin Waiters) => m = w
  /\ \A i \in 1 .. Len(stk) :
       /\ stk[i].f \in Waiters
       /\ \A j \in i + 1 .. Len(stk) : stk[j].f \notin Waiters
       => stk[i].mask = w

Good(stk, m, w) == stk \in Seq(Frame) /\ Nested(stk) /\ Saved(stk, m, w)
AllGood == \A p \in Procs : stack[p] # <<>> => Good(stack[p], mask[p], want[p])
\* Timers run for the processes that set them.
TimersSet == \A p \in Procs : timer[p] => p \in Timers
IInv == TypeOK /\ AllGood /\ TimersSet

-----------------------------------------------------------------------------
(* Signal numbers *)

\* __SIG_POSIX[] undoes __SIG_WIN[].
LEMMA Translated == \A s \in 1 .. NSIG - 1 : Posted(s) = s
  BY DEF Posted, SIG_WIN, SIG_POSIX, NSIG

LEMMA SigNumbers == Sigs \subseteq Nat /\ SIGCHLD \in Sigs /\ 0 \in Nat
<1>1. 1 .. NSIG - 1 \subseteq Nat
  BY DEF NSIG
<1> QED BY <1>1, SignalsAssumption

LEMMA PostedTyped == \A s \in Sigs \cup {0} : Posted(s) \in Sigs
<1>1. Posted(0) = SIGINT
  BY DEF Posted, SIG_WIN, SIG_POSIX, SIGINT
<1> QED BY <1>1, Translated, SignalsAssumption

-----------------------------------------------------------------------------
(* Frames and stacks *)

LEMMA FrameFields ==
  /\ \A e \in Frame : /\ e.f \in FrameKind
                      /\ e.f # "send" => e.mask \in SUBSET Sigs
                      /\ e.f = "send" => e.sig \in 0 .. NSIG - 1 /\ e.to \in SUBSET Procs
  /\ \A k \in FrameKind \ {"send"} : Fr(k) \in Frame /\ Fr(k).f = k
  BY DEF Frame, FrameKind, Fr

LEMMA PushFacts ==
  ASSUME NEW S, NEW s \in Seq(S), NEW e \in S
  PROVE  /\ <<e>> \o s \in Seq(S)
         /\ <<e>> \o s # <<>>
         /\ Len(<<e>> \o s) = Len(s) + 1
         /\ (<<e>> \o s)[1] = e
         /\ \A i \in 1 .. Len(s) : (<<e>> \o s)[i + 1] = s[i]
         /\ \A i \in 2 .. Len(s) + 1 : (<<e>> \o s)[i] = s[i - 1]
  OBVIOUS

LEMMA PopFacts ==
  ASSUME NEW S, NEW s \in Seq(S), s # <<>>
  PROVE  /\ Tail(s) \in Seq(S)
         /\ Len(s) \in Nat /\ Len(s) > 0
         /\ Len(Tail(s)) = Len(s) - 1
         /\ Head(s) = s[1] /\ s[1] \in S
         /\ \A i \in 1 .. Len(s) - 1 : Tail(s)[i] = s[i + 1]
  OBVIOUS

\* A frame that saves no mask goes on the stack.
LEMMA PushPlain ==
  ASSUME NEW stk, NEW m, NEW w, Good(stk, m, w), NEW e \in Frame,
         e.f \notin Waiters, e.f = "send" => e.sig \in Sigs \cup {0},
         e.f \in OnTop => stk # <<>> /\ Head(stk).f \in Pollers
  PROVE  Good(<<e>> \o stk, m, w)
<1> DEFINE new == <<e>> \o stk
<1>1. /\ new \in Seq(Frame) /\ Len(new) = Len(stk) + 1 /\ new[1] = e /\ Len(stk) \in Nat
      /\ \A i \in 1 .. Len(stk) : new[i + 1] = stk[i]
      /\ \A i \in 2 .. Len(stk) + 1 : new[i] = stk[i - 1]
  BY PushFacts DEF Good
<1>2. e.f \in OnTop => Len(stk) > 0 /\ new[2].f \in Pollers
  BY <1>1, PopFacts DEF Good
<1> HIDE DEF new
<1>3. Nested(new)
  <2> SUFFICES ASSUME NEW i \in 1 .. Len(new)
               PROVE  /\ new[i].f \in OnTop => i < Len(new) /\ new[i + 1].f \in Pollers
                      /\ new[i].f = "send" => new[i].sig \in Sigs \cup {0}
    BY DEF Nested
  <2>1. CASE i = 1
    BY <2>1, <1>1, <1>2
  <2>2. CASE i # 1
    <3>1. i - 1 \in 1 .. Len(stk) /\ new[i] = stk[i - 1]
      BY <2>2, <1>1
    <3>2. i < Len(new) => new[i + 1] = stk[i]
      BY <1>1
    <3> QED BY <3>1, <3>2, <1>1 DEF Good, Nested
  <2> QED BY <2>1, <2>2
<1>4. (\A i \in 1 .. Len(new) : new[i].f \notin Waiters) => m = w
  <2> SUFFICES ASSUME \A i \in 1 .. Len(new) : new[i].f \notin Waiters PROVE m = w
    OBVIOUS
  <2>1. \A i \in 1 .. Len(stk) : i + 1 \in 1 .. Len(new)
    BY <1>1
  <2>2. \A i \in 1 .. Len(stk) : stk[i].f \notin Waiters
    BY <1>1, <2>1
  <2> QED BY <2>2 DEF Good, Saved
<1>5. ASSUME NEW i \in 1 .. Len(new), new[i].f \in Waiters,
             \A j \in i + 1 .. Len(new) : new[j].f \notin Waiters
      PROVE  new[i].mask = w
  <2>1. i # 1 /\ i - 1 \in 1 .. Len(stk) /\ new[i] = stk[i - 1]
    BY <1>1, <1>5
  <2>2. ASSUME NEW j \in i - 1 + 1 .. Len(stk) PROVE stk[j].f \notin Waiters
    <3>1. j + 1 \in i + 1 .. Len(new) /\ j \in 1 .. Len(stk)
      BY <2>1, <1>1
    <3> QED BY <3>1, <1>1, <1>5
  <2> QED BY <2>1, <2>2, <1>5 DEF Good, Saved
<1>6. Saved(new, m, w)
  BY <1>4, <1>5 DEF Saved
<1>7. Good(new, m, w)
  BY <1>1, <1>3, <1>6 DEF Good
<1> QED BY <1>7 DEF new

\* A suspension goes on the stack, whatever the mask becomes.
LEMMA PushWaiter ==
  ASSUME NEW stk, NEW m, NEW n, NEW w, Good(stk, m, w), NEW e \in Frame,
         e.f \in Waiters, e.mask = m,
         e.f \in OnTop => stk # <<>> /\ Head(stk).f \in Pollers
  PROVE  Good(<<e>> \o stk, n, w)
<1> DEFINE new == <<e>> \o stk
<1>1. /\ new \in Seq(Frame) /\ Len(new) = Len(stk) + 1 /\ new[1] = e /\ Len(stk) \in Nat
      /\ \A i \in 1 .. Len(stk) : new[i + 1] = stk[i]
      /\ \A i \in 2 .. Len(stk) + 1 : new[i] = stk[i - 1]
  BY PushFacts DEF Good
<1>2. e.f \in OnTop => Len(stk) > 0 /\ new[2].f \in Pollers
  BY <1>1, PopFacts DEF Good
<1> HIDE DEF new
<1>3. Nested(new)
  <2> SUFFICES ASSUME NEW i \in 1 .. Len(new)
               PROVE  /\ new[i].f \in OnTop => i < Len(new) /\ new[i + 1].f \in Pollers
                      /\ new[i].f = "send" => new[i].sig \in Sigs \cup {0}
    BY DEF Nested
  <2>1. CASE i = 1
    BY <2>1, <1>1, <1>2 DEF Waiters
  <2>2. CASE i # 1
    <3>1. i - 1 \in 1 .. Len(stk) /\ new[i] = stk[i - 1]
      BY <2>2, <1>1
    <3>2. i < Len(new) => new[i + 1] = stk[i]
      BY <1>1
    <3> QED BY <3>1, <3>2, <1>1 DEF Good, Nested
  <2> QED BY <2>1, <2>2
<1>4. 1 \in 1 .. Len(new)
  BY <1>1
<1>5. ASSUME NEW i \in 1 .. Len(new), new[i].f \in Waiters,
             \A j \in i + 1 .. Len(new) : new[j].f \notin Waiters
      PROVE  new[i].mask = w
  <2>1. ASSUME NEW j \in i .. Len(stk) PROVE stk[j].f \notin Waiters
    <3>1. j + 1 \in i + 1 .. Len(new) /\ j \in 1 .. Len(stk)
      BY <1>1
    <3> QED BY <3>1, <1>1, <1>5
  <2>2. CASE i = 1
    <3>1. \A j \in 1 .. Len(stk) : stk[j].f \notin Waiters
      BY <2>1, <2>2
    <3>2. m = w
      BY <3>1 DEF Good, Saved
    <3> QED BY <3>2, <2>2, <1>1
  <2>3. CASE i # 1
    <3>1. i - 1 \in 1 .. Len(stk) /\ new[i] = stk[i - 1]
      BY <1>1, <2>3
    <3>2. \A j \in i - 1 + 1 .. Len(stk) : stk[j].f \notin Waiters
      BY <2>1
    <3> QED BY <3>1, <3>2, <1>5 DEF Good, Saved
  <2> QED BY <2>2, <2>3
<1>6. Saved(new, n, w)
  BY <1>1, <1>4, <1>5 DEF Saved
<1>7. Good(new, n, w)
  BY <1>1, <1>3, <1>6 DEF Good
<1> QED BY <1>7 DEF new

\* The innermost frame ends.  A suspension gives the mask it saved back.
LEMMA Popped ==
  ASSUME NEW stk, NEW m, NEW w, Good(stk, m, w), stk # <<>>
  PROVE  Good(Tail(stk), IF Head(stk).f \in Waiters THEN Head(stk).mask ELSE m, w)
<1> DEFINE new == Tail(stk)
           n == IF Head(stk).f \in Waiters THEN Head(stk).mask ELSE m
<1>1. /\ new \in Seq(Frame) /\ Len(stk) \in Nat /\ Len(stk) > 0
      /\ Len(new) = Len(stk) - 1 /\ Head(stk) = stk[1]
      /\ \A i \in 1 .. Len(stk) - 1 : new[i] = stk[i + 1]
  BY PopFacts DEF Good
<1> HIDE DEF new
<1>2. Nested(new)
  <2> SUFFICES ASSUME NEW i \in 1 .. Len(new)
               PROVE  /\ new[i].f \in OnTop => i < Len(new) /\ new[i + 1].f \in Pollers
                      /\ new[i].f = "send" => new[i].sig \in Sigs \cup {0}
    BY DEF Nested
  <2>1. i + 1 \in 1 .. Len(stk) /\ new[i] = stk[i + 1]
    BY <1>1
  <2>2. i < Len(new) => new[i + 1] = stk[i + 1 + 1]
    BY <1>1
  <2>3. i + 1 < Len(stk) => i < Len(new)
    BY <1>1
  <2> QED BY <2>1, <2>2, <2>3 DEF Good, Nested
<1>3. (\A i \in 1 .. Len(new) : new[i].f \notin Waiters) => n = w
  <2> SUFFICES ASSUME \A i \in 1 .. Len(new) : new[i].f \notin Waiters PROVE n = w
    OBVIOUS
  <2>1. ASSUME NEW j \in 2 .. Len(stk) PROVE stk[j].f \notin Waiters
    <3>1. j - 1 \in 1 .. Len(new) /\ j - 1 \in 1 .. Len(stk) - 1 /\ stk[j - 1 + 1] = stk[j]
      BY <1>1
    <3> QED BY <3>1, <1>1
  <2>2. CASE Head(stk).f \in Waiters
    <3>1. 1 \in 1 .. Len(stk) /\ stk[1].f \in Waiters
      BY <1>1, <2>2
    <3>2. \A j \in 1 + 1 .. Len(stk) : stk[j].f \notin Waiters
      BY <2>1
    <3> QED BY <3>1, <3>2, <1>1, <2>2 DEF Good, Saved
  <2>3. CASE Head(stk).f \notin Waiters
    <3>1. \A j \in 1 .. Len(stk) : stk[j].f \notin Waiters
      BY <2>1, <2>3, <1>1
    <3> QED BY <3>1, <2>3 DEF Good, Saved
  <2> QED BY <2>2, <2>3
<1>4. ASSUME NEW i \in 1 .. Len(new), new[i].f \in Waiters,
             \A j \in i + 1 .. Len(new) : new[j].f \notin Waiters
      PROVE  new[i].mask = w
  <2>1. i + 1 \in 1 .. Len(stk) /\ new[i] = stk[i + 1]
    BY <1>1
  <2>2. ASSUME NEW j \in i + 1 + 1 .. Len(stk) PROVE stk[j].f \notin Waiters
    <3>1. j - 1 \in i + 1 .. Len(new) /\ j - 1 \in 1 .. Len(stk) - 1 /\ j - 1 + 1 = j
      BY <1>1
    <3> QED BY <3>1, <1>1, <1>4
  <2> QED BY <2>1, <2>2, <1>4 DEF Good, Saved
<1>5. Saved(new, n, w)
  BY <1>3, <1>4 DEF Saved
<1> QED BY <1>1, <1>2, <1>5 DEF Good, new

\* Below what was raised is the call that polled.
LEMMA Below ==
  ASSUME NEW stk, NEW m, NEW w, Good(stk, m, w), stk # <<>>, Head(stk).f \in OnTop
  PROVE  Tail(stk) # <<>> /\ Head(Tail(stk)).f \in Pollers
<1>1. /\ Len(stk) \in Nat /\ Len(stk) > 0 /\ Head(stk) = stk[1]
      /\ Tail(stk) \in Seq(Frame) /\ Len(Tail(stk)) = Len(stk) - 1
      /\ \A i \in 1 .. Len(stk) - 1 : Tail(stk)[i] = stk[i + 1]
  BY PopFacts DEF Good
<1>2. 1 < Len(stk) /\ stk[1 + 1].f \in Pollers
  BY <1>1 DEF Good, Nested
<1>3. Tail(stk) # <<>> /\ Tail(stk)[1] = stk[1 + 1]
  <2>1. 1 \in 1 .. Len(stk) - 1 /\ Len(Tail(stk)) # 0
    BY <1>1, <1>2
  <2>2. Len(<<>>) = 0
    OBVIOUS
  <2> QED BY <2>1, <2>2, <1>1, Zenon
<1>4. Head(Tail(stk)) = Tail(stk)[1]
  BY <1>1, <1>3, PopFacts
<1> QED BY <1>2, <1>3, <1>4

\* What becomes of a call that polled.
LEMMA ResumedGood ==
  ASSUME NEW stk, NEW m, NEW w, Good(stk, m, w), stk # <<>>,
         Head(stk).f \in Pollers, NEW h \in BOOLEAN
  PROVE  Good(Resumed(stk, h), IF Head(stk).f \in Waiters THEN Head(stk).mask ELSE m, w)
<1> DEFINE n == IF Head(stk).f \in Waiters THEN Head(stk).mask ELSE m
<1>1. Good(Tail(stk), n, w)
  BY Popped
<1>2. \A k \in {"enter", "look"} : Good(<<Fr(k)>> \o Tail(stk), n, w)
  <2> SUFFICES ASSUME NEW k \in {"enter", "look"}
               PROVE  Good(<<Fr(k)>> \o Tail(stk), n, w)
    OBVIOUS
  <2>1. Fr(k) \in Frame /\ Fr(k).f = k
    BY FrameFields DEF FrameKind
  <2> QED BY <1>1, <2>1, PushPlain DEF Waiters, OnTop
<1>3. CASE Head(stk).f = "begin"
  BY <1>1, <1>2, <1>3 DEF Resumed
<1>4. CASE Head(stk).f = "sleep"
  BY <1>1, <1>4 DEF Resumed, Waiters
<1>5. CASE Head(stk).f = "wait"
  BY <1>1, <1>2, <1>5 DEF Resumed
<1>6. CASE Head(stk).f = "suspend"
  BY <1>1, <1>6 DEF Resumed
<1>7. CASE Head(stk).f = "stop"
  <2>1. Fr("ret") \in Frame /\ Fr("ret").f = "ret"
    BY FrameFields DEF FrameKind
  <2>2. Tail(stk) # <<>> /\ Head(Tail(stk)).f \in Pollers
    BY <1>7, Below DEF OnTop
  <2>3. Good(<<Fr("ret")>> \o Tail(stk), n, w)
    BY <1>1, <2>1, <2>2, PushPlain DEF Waiters, OnTop
  <2> QED BY <2>3, <1>7 DEF Resumed
<1> QED BY <1>3, <1>4, <1>5, <1>6, <1>7 DEF Pollers, Waiters

-----------------------------------------------------------------------------
(* Steps of one process *)

LEMMA TopFacts ==
  ASSUME IInv, NEW p \in Procs, Top(p) # "none"
  PROVE  /\ stack[p] # <<>> /\ stack[p] \in Seq(Frame) /\ Head(stack[p]) \in Frame
         /\ Head(stack[p]).f = Top(p) /\ Good(stack[p], mask[p], want[p])
<1>1. stack[p] # <<>> /\ stack[p] \in Seq(Frame) /\ Head(stack[p]).f = Top(p)
  BY DEF IInv, TypeOK, Top, Alive
<1>2. Head(stack[p]) \in Frame
  BY <1>1, PopFacts
<1> QED BY <1>1, <1>2 DEF IInv, AllGood

LEMMA OneStack ==
  ASSUME IInv, NEW p \in Procs,
         \A q \in Procs \ {p} : /\ stack'[q] = stack[q] /\ mask'[q] = mask[q]
                                /\ want'[q] = want[q],
         stack'[p] # <<>> => Good(stack'[p], mask'[p], want'[p])
  PROVE  AllGood'
  BY DEF IInv, AllGood

\* __exit() of p.
LEMMA ExitTyped ==
  ASSUME IInv, NEW p \in Procs, NEW c \in Nat, NEW ev \in BOOLEAN, __exit(p, c, ev),
         UNCHANGED want
  PROVE  /\ stack' \in [Procs -> Seq(Frame)] /\ queue' \in [Procs -> Seq(Sigs)]
         /\ mask' \in [Procs -> SUBSET Sigs] /\ status' \in [Procs -> Nat]
         /\ interrupt' \in BOOLEAN /\ AllGood'
<1> USE DEF IInv, TypeOK
<1>1. /\ stack' \in [Procs -> Seq(Frame)] /\ stack'[p] = <<>>
      /\ \A q \in Procs \ {p} : stack'[q] = stack[q]
  BY DEF __exit
<1>2. queue' \in [Procs -> Seq(Sigs)]
  <2>1. SIGCHLD \in Sigs
    BY SignalsAssumption
  <2>2. \A r \in Procs : Append(queue[r], SIGCHLD) \in Seq(Sigs)
    BY <2>1
  <2> DEFINE dad == {d \in Procs : d = parent[p] /\ Alive(d)}
  <2>3. \A r \in Procs : (CASE r = p -> <<>> [] r \in dad -> Append(queue[r], SIGCHLD)
                            [] OTHER -> queue[r]) \in Seq(Sigs)
    BY <2>2
  <2> QED BY <2>3 DEF __exit
<1>3. status' \in [Procs -> Nat] /\ interrupt' \in BOOLEAN /\ mask' = mask
  BY DEF __exit, ExitStatus
<1>4. AllGood'
  BY <1>1, <1>3, OneStack
<1> QED BY <1>1, <1>2, <1>3, <1>4

LEMMA Raised ==
  ASSUME IInv, NEW p \in Procs, NEW q \in Seq(Sigs), q # <<>>, NEW ev \in BOOLEAN,
         Top(p) \in Pollers, Raise(p, q, ev), UNCHANGED want
  PROVE  /\ stack' \in [Procs -> Seq(Frame)] /\ queue' \in [Procs -> Seq(Sigs)]
         /\ mask' \in [Procs -> SUBSET Sigs] /\ status' \in [Procs -> Nat]
         /\ interrupt' \in BOOLEAN /\ cause' \in [Procs -> Sigs \cup {0}] /\ AllGood'
<1> DEFINE stk == stack[p]
           m == mask[p]
           w == want[p]
           s == Head(q)
           d == act[p][s]
<1>1. /\ stk # <<>> /\ stk \in Seq(Frame) /\ Head(stk) \in Frame
      /\ Head(stk).f = Top(p) /\ Good(stk, m, w)
  BY TopFacts DEF Pollers, Waiters
<1>2. s \in Sigs /\ Tail(q) \in Seq(Sigs)
  BY PopFacts
<1>3. /\ stack \in [Procs -> Seq(Frame)] /\ queue \in [Procs -> Seq(Sigs)]
      /\ mask \in [Procs -> SUBSET Sigs] /\ status \in [Procs -> Nat]
      /\ cause \in [Procs -> Sigs \cup {0}]
  BY DEF IInv, TypeOK
<1>4. CASE d = "dfl" /\ s \in SIGMASK_STOP /\ Stops(p, q, ev)
  <2> DEFINE e == [f |-> "stop", mask |-> m]
  <2>1. e \in Frame /\ e.f = "stop" /\ e.mask = m
    BY <1>3 DEF Frame, FrameKind
  <2>2. Good(<<e>> \o stk, {}, w)
    BY <2>1, <1>1, PushWaiter DEF OnTop, Waiters
  <2>3. /\ stack' = [stack EXCEPT ![p] = <<e>> \o stk] /\ mask' = [mask EXCEPT ![p] = {}]
        /\ queue' = [queue EXCEPT ![p] = Tail(q)]
        /\ status' = [status EXCEPT ![p] = 127] /\ interrupt' = TRUE /\ cause' = cause
    BY <1>4 DEF Stops, _WSTOPPED
  <2>4. <<e>> \o stk \in Seq(Frame)
    BY <2>2 DEF Good
  <2> HIDE DEF e
  <2>5. AllGood'
    BY <2>2, <2>3, <1>3, OneStack
  <2> QED BY <2>3, <2>4, <2>5, <1>2, <1>3
<1>5. CASE /\ d = "dfl" /\ s \notin SIGMASK_STOP \cup SIGMASK_IGNORE
           /\ __exit(p, 127, ev)
           /\ cause' = [cause EXCEPT ![p] = s]
  BY <1>5, <1>2, <1>3, ExitTyped
<1>6. CASE /\ d \in {"catch", "restart"}
           /\ stack' = [stack EXCEPT ![p] = <<Fr(d)>> \o @]
           /\ queue' = [queue EXCEPT ![p] = Tail(q)]
           /\ interrupt' = ev
           /\ UNCHANGED <<mask, status, cause>>
  <2>1. Fr(d) \in Frame /\ Fr(d).f = d
    BY <1>6, FrameFields DEF FrameKind
  <2>2. Good(<<Fr(d)>> \o stk, m, w)
    BY <2>1, <1>1, <1>6, PushPlain DEF OnTop, Waiters
  <2>3. <<Fr(d)>> \o stk \in Seq(Frame)
    BY <2>2 DEF Good
  <2>4. AllGood'
    BY <2>2, <1>6, <1>3, OneStack
  <2> QED BY <2>3, <2>4, <1>6, <1>2, <1>3
<1>7. CASE /\ d \in {"ign", "err"} \/ (d = "dfl" /\ s \in SIGMASK_IGNORE)
           /\ stack' = [stack EXCEPT ![p] = Resumed(@, d = "err")]
           /\ mask' = [mask EXCEPT ![p] = Restored(p, stack[p])]
           /\ status' = IF d = "err" THEN [status EXCEPT ![p] = s] ELSE status
           /\ queue' = [queue EXCEPT ![p] = Tail(q)]
           /\ interrupt' = ev
           /\ UNCHANGED cause
  <2> DEFINE h == d = "err"
  <2>1. Good(Resumed(stk, h), Restored(p, stk), w)
    BY <1>1, ResumedGood DEF Restored, Waiters
  <2>2. Restored(p, stk) \in SUBSET Sigs
    BY <1>1, <1>3, FrameFields DEF Restored
  <2>3. Resumed(stk, h) \in Seq(Frame)
    BY <2>1 DEF Good
  <2>4. s \in Nat
    BY <1>2, SigNumbers
  <2>5. AllGood'
    BY <2>1, <1>7, <1>3, OneStack
  <2> QED BY <2>2, <2>3, <2>4, <2>5, <1>7, <1>2, <1>3
<1> QED BY <1>4, <1>5, <1>6, <1>7 DEF Raise
-----------------------------------------------------------------------------
(* The steps *)

\* A call ends, or becomes another frame.
LEMMA CallEnds ==
  ASSUME IInv, NEW p \in Procs, Top(p) \in FrameKind \ Waiters
  PROVE  Tail(stack[p]) \in Seq(Frame) /\ Good(Tail(stack[p]), mask[p], want[p])
<1>1. /\ stack[p] # <<>> /\ Head(stack[p]).f = Top(p) /\ Good(stack[p], mask[p], want[p])
  BY TopFacts DEF FrameKind
<1>2. Good(Tail(stack[p]), mask[p], want[p])
  BY <1>1, Popped
<1> QED BY <1>2 DEF Good

LEMMA CallBecomes ==
  ASSUME IInv, NEW p \in Procs, Top(p) \in FrameKind \ Waiters, NEW e \in Frame,
         e.f \notin Waiters \cup OnTop, e.f = "send" => e.sig \in Sigs \cup {0}
  PROVE  /\ <<e>> \o Tail(stack[p]) \in Seq(Frame)
         /\ Good(<<e>> \o Tail(stack[p]), mask[p], want[p])
<1>1. Good(<<e>> \o Tail(stack[p]), mask[p], want[p])
  BY CallEnds, PushPlain
<1> QED BY <1>1 DEF Good

LEMMA KindFacts ==
  /\ "none" \notin FrameKind
  /\ {"begin", "enter", "send", "sleep", "look", "wait"} \subseteq FrameKind \ Waiters
  /\ {"prog", "catch", "restart", "ret"} \subseteq FrameKind \ Waiters
  BY DEF FrameKind, Waiters

LEMMA PostTyped ==
  ASSUME IInv, NEW q, NEW s \in Sigs \cup {0}, Post(q, s)
  PROVE  queue' \in [Procs -> Seq(Sigs)] /\ interrupt' \in BOOLEAN
<1>1. Posted(s) \in Sigs /\ queue \in [Procs -> Seq(Sigs)] /\ interrupt \in BOOLEAN
  BY PostedTyped DEF IInv, TypeOK
<1>2. CASE Alive(q) /\ q \in Procs
  BY <1>1, <1>2 DEF Post
<1>3. CASE ~(Alive(q) /\ q \in Procs)
  <2>1. Alive(q) /\ q \notin Procs => [queue EXCEPT ![q] = Append(@, Posted(s))] = queue
    BY <1>1
  <2>2. queue' = queue
    BY <2>1, <1>3 DEF Post
  <2>3. interrupt' \in BOOLEAN
    BY <1>1 DEF Post, Alive
  <2> QED BY <2>2, <2>3, <1>1
<1> QED BY <1>2, <1>3

LEMMA EnterStep == ASSUME IInv, NEW p \in Procs, Enter(p) PROVE IInv'
<1>1. Top(p) \in FrameKind /\ Top(p) # "none"
  BY KindFacts DEF Enter, InProgram
<1>2. /\ stack[p] # <<>> /\ stack[p] \in Seq(Frame) /\ Good(stack[p], mask[p], want[p])
  BY <1>1, TopFacts
<1>3. Fr("begin") \in Frame /\ Fr("begin").f = "begin"
  BY FrameFields DEF FrameKind
<1>4. Good(<<Fr("begin")>> \o stack[p], mask[p], want[p])
  BY <1>2, <1>3, PushPlain DEF OnTop, Waiters
<1>5. <<Fr("begin")>> \o stack[p] \in Seq(Frame)
  BY <1>4 DEF Good
<1>6. stack' = [stack EXCEPT ![p] = <<Fr("begin")>> \o @] /\ UNCHANGED <<mask, want>>
  BY DEF Enter
<1>7. AllGood'
  BY <1>4, <1>6, OneStack DEF IInv, TypeOK
<1>8. queue' \in [Procs -> Seq(Sigs)] /\ sent' \in 0 .. MaxSent
  <2>1. timer[p] => SIGALRM \in Sigs
    BY SignalsAssumption DEF IInv, TimersSet
  <2>2. sent < MaxSent => sent + 1 \in 0 .. MaxSent
    BY SignalsAssumption DEF IInv, TypeOK
  <2>3. queue[p] \in Seq(Sigs) /\ queue \in [Procs -> Seq(Sigs)] /\ sent \in 0 .. MaxSent
    BY DEF IInv, TypeOK
  <2>4. timer[p] => Append(queue[p], SIGALRM) \in Seq(Sigs)
    BY <2>1, <2>3
  <2>5. CASE UNCHANGED <<queue, sent, timer>>
    BY <2>3, <2>5
  <2>6. CASE /\ timer[p] /\ ~interrupt /\ sent < MaxSent
             /\ queue' = [queue EXCEPT ![p] = Append(@, SIGALRM)]
             /\ sent' = sent + 1
    BY <2>2, <2>3, <2>4, <2>6
  <2> QED BY <2>5, <2>6 DEF Enter
<1> QED BY <1>5, <1>6, <1>7, <1>8 DEF Enter, IInv, TypeOK, TimersSet
\* A call that ends without a message raised.
LEMMA EndStep ==
  ASSUME IInv, NEW p \in Procs, Top(p) \in FrameKind \ Waiters,
         stack' = [stack EXCEPT ![p] = Tail(@)], UNCHANGED <<mask, want>>
  PROVE  stack' \in [Procs -> Seq(Frame)] /\ AllGood'
<1>1. Tail(stack[p]) \in Seq(Frame) /\ Good(Tail(stack[p]), mask[p], want[p])
  BY CallEnds
<1>2. stack \in [Procs -> Seq(Frame)]
  BY DEF IInv, TypeOK
<1>3. AllGood'
  BY <1>1, <1>2, OneStack
<1> QED BY <1>1, <1>2, <1>3

\* A call that becomes another one.
LEMMA BecomesStep ==
  ASSUME IInv, NEW p \in Procs, Top(p) \in FrameKind \ Waiters, NEW e \in Frame,
         e.f \notin Waiters \cup OnTop, e.f = "send" => e.sig \in Sigs \cup {0},
         stack' = [stack EXCEPT ![p] = <<e>> \o Tail(@)], UNCHANGED <<mask, want>>
  PROVE  stack' \in [Procs -> Seq(Frame)] /\ AllGood'
<1>1. /\ <<e>> \o Tail(stack[p]) \in Seq(Frame)
      /\ Good(<<e>> \o Tail(stack[p]), mask[p], want[p])
  BY CallBecomes
<1>2. stack \in [Procs -> Seq(Frame)]
  BY DEF IInv, TypeOK
<1>3. AllGood'
  BY <1>1, <1>2, OneStack
<1> QED BY <1>1, <1>2, <1>3

LEMMA SentTyped == ASSUME IInv, Sending PROVE sent' \in 0 .. MaxSent
  BY SignalsAssumption DEF IInv, TypeOK, Sending

\* A poll without a message: the call goes on.
LEMMA QuietStep ==
  ASSUME IInv, NEW p \in Procs, Top(p) \in {"begin", "sleep", "wait"},
         stack' = [stack EXCEPT ![p] = Resumed(@, FALSE)], UNCHANGED <<mask, want>>
  PROVE  stack' \in [Procs -> Seq(Frame)] /\ AllGood'
<1>1. /\ stack[p] # <<>> /\ Head(stack[p]).f = Top(p) /\ Good(stack[p], mask[p], want[p])
  BY TopFacts
<1>2. Good(Resumed(stack[p], FALSE), mask[p], want[p])
  BY <1>1, ResumedGood DEF Pollers, Waiters
<1>3. Resumed(stack[p], FALSE) \in Seq(Frame)
  BY <1>2 DEF Good
<1>4. stack \in [Procs -> Seq(Frame)]
  BY DEF IInv, TypeOK
<1>5. AllGood'
  BY <1>2, <1>4, OneStack
<1> QED BY <1>3, <1>4, <1>5

LEMMA PollStep == ASSUME IInv, NEW p \in Procs, Poll(p) PROVE IInv'
<1>1. CASE queue[p] # <<>> /\ Raise(p, queue[p], interrupt)
  <2>1. queue[p] \in Seq(Sigs) /\ interrupt \in BOOLEAN /\ Top(p) \in Pollers
    BY DEF Poll, IInv, TypeOK, Pollers
  <2> QED BY <1>1, <2>1, Raised DEF Poll, IInv, TypeOK, TimersSet
<1>2. CASE /\ queue[p] = <<>>
           /\ stack' = [stack EXCEPT ![p] = Resumed(@, FALSE)]
           /\ UNCHANGED <<queue, mask, status, interrupt, cause>>
  <2>1. stack' \in [Procs -> Seq(Frame)] /\ AllGood'
    BY <1>2, QuietStep DEF Poll
  <2> QED BY <1>2, <2>1 DEF Poll, IInv, TypeOK, TimersSet
<1> QED BY <1>1, <1>2 DEF Poll

LEMMA WokenStep ==
  ASSUME IInv, NEW p \in Procs, Asleep(p), NEW ev \in BOOLEAN, Woken(p, ev),
         UNCHANGED <<act, sent, want, parent, timer>>
  PROVE  IInv'
<1>1. Top(p) \in Pollers /\ Top(p) \in {"begin", "sleep", "wait"}
  BY DEF Asleep, Pollers
<1>2. CASE queue[p] # <<>> /\ Raise(p, queue[p], ev)
  <2>1. queue[p] \in Seq(Sigs)
    BY DEF IInv, TypeOK
  <2> QED BY <1>1, <1>2, <2>1, Raised DEF IInv, TypeOK, TimersSet
<1>3. CASE /\ queue[p] = <<>>
           /\ stack' = [stack EXCEPT ![p] = Resumed(@, FALSE)]
           /\ interrupt' = ev
           /\ UNCHANGED <<queue, mask, status, cause>>
  <2>1. stack' \in [Procs -> Seq(Frame)] /\ AllGood'
    BY <1>1, <1>3, QuietStep
  <2> QED BY <1>3, <2>1 DEF IInv, TypeOK, TimersSet
<1> QED BY <1>2, <1>3 DEF Woken

LEMMA WakeTimerStep == ASSUME IInv, NEW p \in Procs, WakeTimer(p) PROVE IInv'
<1>1. Top(p) \in Pollers /\ timer[p] /\ SIGALRM \in Sigs
  BY SignalsAssumption DEF WakeTimer, Asleep, Pollers, IInv, TimersSet
<1>2. /\ Append(queue[p], SIGALRM) \in Seq(Sigs) /\ Append(queue[p], SIGALRM) # <<>>
      /\ interrupt \in BOOLEAN
  <2>1. queue[p] \in Seq(Sigs) /\ interrupt \in BOOLEAN
    BY DEF IInv, TypeOK
  <2> QED BY <1>1, <2>1
<1>3. sent' \in 0 .. MaxSent
  BY SignalsAssumption DEF WakeTimer, IInv, TypeOK
<1>4. Raise(p, Append(queue[p], SIGALRM), interrupt) /\ UNCHANGED <<act, want, parent, timer>>
  BY DEF WakeTimer
<1> QED BY <1>1, <1>2, <1>3, <1>4, Raised DEF IInv, TypeOK, TimersSet

LEMMA GetMessageStep == ASSUME IInv, NEW p \in Procs, GetMessage(p) PROVE IInv'
<1>1. Top(p) \in Pollers /\ queue[p] \in Seq(Sigs) /\ interrupt \in BOOLEAN
  BY DEF GetMessage, Suspended, Pollers, Waiters, IInv, TypeOK
<1> QED BY <1>1, Raised DEF GetMessage, IInv, TypeOK, TimersSet

LEMMA ReturnStep == ASSUME IInv, NEW p \in Procs, Return(p) PROVE IInv'
<1> DEFINE stk == Tail(stack[p])
           h == Top(p) = "catch"
<1>1. Top(p) \in FrameKind \ Waiters /\ Top(p) \in OnTop
  BY KindFacts DEF Return, OnTop
<1>2. /\ stack[p] # <<>> /\ Head(stack[p]).f = Top(p) /\ Good(stack[p], mask[p], want[p])
  BY <1>1, TopFacts, KindFacts
<1>3. Good(stk, mask[p], want[p]) /\ stk # <<>> /\ Head(stk).f \in Pollers
  BY <1>1, <1>2, CallEnds, Below
<1>4. Good(Resumed(stk, h), Restored(p, stk), want[p])
  BY <1>3, ResumedGood DEF Restored, Waiters
<1>5. Head(stk) \in Frame
  BY <1>3, PopFacts DEF Good
<1>6. Restored(p, stk) \in SUBSET Sigs
  BY <1>3, <1>5, FrameFields DEF Restored, IInv, TypeOK
<1>7. Resumed(stk, h) \in Seq(Frame)
  BY <1>4 DEF Good
<1>8. /\ stack' = [stack EXCEPT ![p] = Resumed(stk, h)]
      /\ mask' = [mask EXCEPT ![p] = Restored(p, stk)] /\ want' = want
  BY DEF Return
<1>9. AllGood'
  BY <1>4, <1>8, OneStack DEF IInv, TypeOK
<1> QED BY <1>6, <1>7, <1>8, <1>9 DEF Return, IInv, TypeOK, TimersSet
LEMMA SendNextStep == ASSUME IInv, NEW p \in Procs, SendNext(p) PROVE IInv'
<1> DEFINE stk == stack[p]
           to == Head(stk).to
<1>1. /\ Top(p) = "send" /\ Top(p) \in FrameKind \ Waiters
  BY KindFacts DEF SendNext
<1>2. /\ stk # <<>> /\ stk \in Seq(Frame) /\ Head(stk) \in Frame
      /\ Head(stk).f = "send" /\ Good(stk, mask[p], want[p])
  BY <1>1, TopFacts
<1>3. Head(stk) = stk[1] /\ Len(stk) \in Nat /\ Len(stk) > 0
  BY <1>2, PopFacts
<1>4. stk[1].f = "send" /\ stk[1].sig \in Sigs \cup {0} /\ to \in SUBSET Procs
  BY <1>2, <1>3, FrameFields DEF Good, Nested
<1>5. CASE /\ to # {}
           /\ Post(Max(to), Head(stack[p]).sig)
           /\ stack' = [stack EXCEPT ![p][1].to = to \ {Max(to)}]
  <2> DEFINE rest == to \ {Max(to)}
             e == [stk[1] EXCEPT !.to = rest]
             new == [stk EXCEPT ![1] = e]
  <2>1. stk[1] \in [f : {"send"}, sig : 0 .. NSIG - 1, to : SUBSET Procs]
    BY <1>2, <1>3, <1>4 DEF Frame
  <2>2. rest \in SUBSET Procs
    BY <1>4
  <2> HIDE DEF rest
  <2>3. e \in Frame /\ e.f = "send" /\ e.sig = stk[1].sig
    BY <2>1, <2>2 DEF Frame
  <2> HIDE DEF e
  <2>4. /\ new \in Seq(Frame) /\ Len(new) = Len(stk) /\ new[1] = e
        /\ \A i \in 1 .. Len(stk) : i # 1 => new[i] = stk[i]
    BY <1>2, <1>3, <2>3
  <2>5. Nested(new)
    <3> SUFFICES ASSUME NEW i \in 1 .. Len(new)
                 PROVE  /\ new[i].f \in OnTop => i < Len(new) /\ new[i + 1].f \in Pollers
                        /\ new[i].f = "send" => new[i].sig \in Sigs \cup {0}
      BY DEF Nested
    <3>1. CASE i = 1
      BY <3>1, <1>4, <2>3, <2>4 DEF OnTop
    <3>2. CASE i # 1
      <4>1. new[i] = stk[i] /\ (i < Len(new) => new[i + 1] = stk[i + 1])
        BY <3>2, <2>4, <1>3
      <4> QED BY <4>1, <2>4, <1>2 DEF Good, Nested
    <3> QED BY <3>1, <3>2
  <2>6. \A i \in 1 .. Len(stk) : /\ new[i].f = stk[i].f
                                 /\ stk[i].f \in Waiters => new[i].mask = stk[i].mask
    BY <2>3, <2>4, <1>4 DEF Waiters
  <2> HIDE DEF new
  <2>7. Saved(new, mask[p], want[p])
    BY <2>4, <2>6, <1>2, <1>3 DEF Good, Saved
  <2>8. Good(new, mask[p], want[p])
    BY <2>4, <2>5, <2>7 DEF Good
  <2>9. stack' = [stack EXCEPT ![p] = new]
    BY <1>5, <1>2 DEF new, e, rest, IInv, TypeOK
  <2>10. AllGood'
    BY <2>8, <2>9, OneStack DEF SendNext, IInv, TypeOK
  <2>11. queue' \in [Procs -> Seq(Sigs)] /\ interrupt' \in BOOLEAN
    BY <1>3, <1>4, <1>5, PostTyped
  <2> QED BY <2>4, <2>9, <2>10, <2>11 DEF SendNext, IInv, TypeOK, TimersSet
<1>6. CASE /\ to = {}
           /\ stack' = [stack EXCEPT ![p] = Tail(@)]
           /\ UNCHANGED <<queue, interrupt>>
  <2>1. stack' \in [Procs -> Seq(Frame)] /\ AllGood'
    BY <1>1, <1>6, EndStep DEF SendNext
  <2> QED BY <1>6, <2>1 DEF SendNext, IInv, TypeOK, TimersSet
<1> QED BY <1>5, <1>6 DEF SendNext

LEMMA ReturnsStep ==
  ASSUME IInv, NEW p \in Procs, Returns(p), UNCHANGED <<mask, want>>
  PROVE  stack' \in [Procs -> Seq(Frame)] /\ AllGood'
  BY EndStep, KindFacts DEF Returns

LEMMA OtherStep == ASSUME IInv, NEW p \in Procs, Other(p) PROVE IInv'
  BY ReturnsStep DEF Other, IInv, TypeOK, TimersSet

LEMMA KillStep ==
  ASSUME IInv, NEW p \in Procs, NEW q \in Procs, NEW s \in Kills, Kill(p, q, s)
  PROVE  IInv'
<1>1. s \in Sigs \cup {0}
  BY SignalsAssumption
<1>2. queue' \in [Procs -> Seq(Sigs)] /\ interrupt' \in BOOLEAN
  BY <1>1, PostTyped DEF Kill
<1>3. sent' \in 0 .. MaxSent
  BY SentTyped DEF Kill
<1>4. stack' \in [Procs -> Seq(Frame)] /\ AllGood'
  BY ReturnsStep DEF Kill
<1> QED BY <1>2, <1>3, <1>4 DEF Kill, IInv, TypeOK, TimersSet

\* kill(-pgid) and kill(-1) enter their loop.
LEMMA LoopStep ==
  ASSUME IInv, NEW p \in Procs, NEW s \in Kills \cup {0}, NEW to \in SUBSET Procs,
         Becomes(p, [f |-> "send", sig |-> s, to |-> to]), Sending,
         UNCHANGED <<queue, act, mask, status, interrupt, want, parent, cause, timer>>
  PROVE  IInv'
<1> DEFINE e == [f |-> "send", sig |-> s, to |-> to]
<1>1. s \in Sigs \cup {0} /\ s \in 0 .. NSIG - 1
  BY SignalsAssumption DEF NSIG
<1>2. e \in Frame /\ e.f = "send" /\ e.sig \in Sigs \cup {0}
  BY <1>1 DEF Frame
<1>3. Top(p) \in FrameKind \ Waiters /\ stack' = [stack EXCEPT ![p] = <<e>> \o Tail(@)]
  BY KindFacts DEF Becomes
<1> HIDE DEF e
<1>4. stack' \in [Procs -> Seq(Frame)] /\ AllGood'
  BY <1>2, <1>3, BecomesStep DEF Waiters, OnTop
<1>5. sent' \in 0 .. MaxSent
  BY SentTyped
<1> QED BY <1>4, <1>5 DEF IInv, TypeOK, TimersSet

LEMMA SigActionStep ==
  ASSUME IInv, NEW p \in Procs, NEW s \in Sigs, NEW d \in Disps, SigAction(p, s, d)
  PROVE  IInv'
<1>1. d \in Disp
  BY SignalsAssumption
<1>2. act' \in [Procs -> [Sigs -> Disp]]
  BY <1>1 DEF SigAction, IInv, TypeOK
<1>3. stack' \in [Procs -> Seq(Frame)] /\ AllGood'
  BY ReturnsStep DEF SigAction
<1> QED BY <1>2, <1>3 DEF SigAction, IInv, TypeOK, TimersSet
LEMMA SigProcMaskStep ==
  ASSUME IInv, NEW p \in Procs, NEW how \in {"block", "unblock", "set"}, NEW k \in Masks,
         SigProcMask(p, how, k)
  PROVE  IInv'
<1> DEFINE set == k \ {SIGKILL, SIGSTOP}
           new == CASE how = "block" -> mask[p] \cup set
                    [] how = "unblock" -> mask[p] \ set
                    [] how = "set" -> set
           rest == Tail(stack[p])
<1>1. k \in SUBSET Sigs /\ mask[p] \in SUBSET Sigs
  BY SignalsAssumption DEF IInv, TypeOK
<1>2. new \in SUBSET Sigs
  BY <1>1
<1> HIDE DEF new
<1>3. /\ mask' = [mask EXCEPT ![p] = new]
      /\ want' = IF Holds(p, {"suspend", "stop"}) THEN want ELSE [want EXCEPT ![p] = new]
      /\ stack' = [stack EXCEPT ![p] = rest] /\ Top(p) = "enter"
  BY DEF SigProcMask, Returns, new
<1>4. rest \in Seq(Frame) /\ Good(rest, mask[p], want[p]) /\ Good(stack[p], mask[p], want[p])
      /\ stack[p] # <<>> /\ Head(stack[p]).f = "enter"
  BY <1>3, CallEnds, TopFacts, KindFacts
<1>5. mask' \in [Procs -> SUBSET Sigs] /\ want' \in [Procs -> SUBSET Sigs]
  BY <1>2, <1>3 DEF IInv, TypeOK
<1>6. Good(rest, mask'[p], want'[p])
  <2>1. CASE ~Holds(p, {"suspend", "stop"})
    <3>1. \A i \in 1 .. Len(stack[p]) : stack[p][i].f \notin Waiters
      BY <2>1 DEF Holds, Waiters
    <3>2. /\ Len(stack[p]) \in Nat /\ Len(rest) = Len(stack[p]) - 1
          /\ \A i \in 1 .. Len(stack[p]) - 1 : rest[i] = stack[p][i + 1]
      BY <1>4, PopFacts DEF Good
    <3>3. \A i \in 1 .. Len(rest) : rest[i].f \notin Waiters
      <4> SUFFICES ASSUME NEW i \in 1 .. Len(rest) PROVE rest[i].f \notin Waiters
        OBVIOUS
      <4>1. i + 1 \in 1 .. Len(stack[p]) /\ rest[i] = stack[p][i + 1]
        BY <3>2
      <4> QED BY <4>1, <3>1
    <3>4. mask'[p] = want'[p]
      BY <2>1, <1>3 DEF IInv, TypeOK
    <3>5. Saved(rest, mask'[p], want'[p])
      BY <3>3, <3>4 DEF Saved
    <3> QED BY <3>5, <1>4 DEF Good
  <2>2. CASE Holds(p, {"suspend", "stop"})
    <3>1. PICK i \in 1 .. Len(stack[p]) : stack[p][i].f \in Waiters
      BY <2>2 DEF Holds, Waiters
    <3>2. /\ Len(stack[p]) \in Nat /\ Len(rest) = Len(stack[p]) - 1
          /\ Head(stack[p]) = stack[p][1]
          /\ \A j \in 1 .. Len(stack[p]) - 1 : rest[j] = stack[p][j + 1]
      BY <1>4, PopFacts DEF Good
    <3>3. i # 1
      BY <3>1, <3>2, <1>4 DEF Waiters
    <3>4. i - 1 \in 1 .. Len(rest) /\ rest[i - 1].f \in Waiters
      <4>1. i - 1 \in 1 .. Len(stack[p]) - 1 /\ i - 1 + 1 = i
        BY <3>2, <3>3
      <4> QED BY <4>1, <3>1, <3>2
    <3>5. want' = want
      BY <2>2, <1>3
    <3>6. Saved(rest, mask'[p], want'[p])
      BY <3>4, <3>5, <1>4 DEF Good, Saved
    <3> QED BY <3>6, <1>4 DEF Good
  <2> QED BY <2>1, <2>2
<1>7. stack' \in [Procs -> Seq(Frame)] /\ stack'[p] = rest
  BY <1>3, <1>4 DEF IInv, TypeOK
<1>8. \A q \in Procs \ {p} : /\ stack'[q] = stack[q] /\ mask'[q] = mask[q]
                             /\ want'[q] = want[q]
  BY <1>3 DEF IInv, TypeOK
<1>9. AllGood'
  BY <1>6, <1>7, <1>8, OneStack
<1> QED BY <1>5, <1>7, <1>9 DEF SigProcMask, IInv, TypeOK, TimersSet

LEMMA SigSuspendStep ==
  ASSUME IInv, NEW p \in Procs, NEW k \in Masks, SigSuspend(p, k)
  PROVE  IInv'
<1> DEFINE e == [f |-> "suspend", mask |-> mask[p]]
           rest == Tail(stack[p])
<1>1. Top(p) \in FrameKind \ Waiters /\ k \in SUBSET Sigs
  BY KindFacts, SignalsAssumption DEF SigSuspend, Becomes
<1>2. rest \in Seq(Frame) /\ Good(rest, mask[p], want[p])
  BY <1>1, CallEnds
<1>3. e \in Frame /\ e.f = "suspend" /\ e.mask = mask[p]
  BY DEF Frame, FrameKind, IInv, TypeOK
<1>4. /\ stack' = [stack EXCEPT ![p] = <<e>> \o rest]
      /\ mask' = [mask EXCEPT ![p] = k] /\ want' = want
  BY DEF SigSuspend, Becomes
<1> HIDE DEF e
<1>5. Good(<<e>> \o rest, k, want[p])
  BY <1>2, <1>3, PushWaiter DEF Waiters, OnTop
<1>6. <<e>> \o rest \in Seq(Frame)
  BY <1>5 DEF Good
<1>7. AllGood'
  BY <1>4, <1>5, OneStack DEF IInv, TypeOK
<1> QED BY <1>1, <1>4, <1>6, <1>7 DEF SigSuspend, IInv, TypeOK, TimersSet

LEMMA SetITimerStep == ASSUME IInv, NEW p \in Procs, SetITimer(p) PROVE IInv'
<1>1. stack' \in [Procs -> Seq(Frame)] /\ AllGood'
  BY ReturnsStep DEF SetITimer
<1> QED BY <1>1 DEF SetITimer, IInv, TypeOK, TimersSet

LEMMA SleepStep ==
  ASSUME IInv, NEW p \in Procs, NEW f \in {"sleep", "look"}, Sleep(p, f) PROVE IInv'
<1>1. Fr(f) \in Frame /\ Fr(f).f = f
  BY FrameFields DEF FrameKind
<1>2. Top(p) \in FrameKind \ Waiters /\ stack' = [stack EXCEPT ![p] = <<Fr(f)>> \o Tail(@)]
  BY KindFacts DEF Sleep, Becomes
<1>3. stack' \in [Procs -> Seq(Frame)] /\ AllGood'
  BY <1>1, <1>2, BecomesStep DEF Sleep, Waiters, OnTop
<1> QED BY <1>3 DEF Sleep, IInv, TypeOK, TimersSet

LEMMA LookStep == ASSUME IInv, NEW p \in Procs, Look(p) PROVE IInv'
<1>1. parent' \in [Procs -> Procs \cup {0}]
  BY DEF Look, IInv, TypeOK
<1>2. Top(p) \in FrameKind \ Waiters /\ UNCHANGED <<mask, want>>
  BY KindFacts DEF Look
<1>3. Fr("wait") \in Frame /\ Fr("wait").f = "wait"
  BY FrameFields DEF FrameKind
<1>4. \/ stack' = [stack EXCEPT ![p] = Tail(@)]
      \/ stack' = [stack EXCEPT ![p] = <<Fr("wait")>> \o Tail(@)]
  BY DEF Look
<1>5. stack' \in [Procs -> Seq(Frame)] /\ AllGood'
  <2>1. CASE stack' = [stack EXCEPT ![p] = Tail(@)]
    BY <2>1, <1>2, EndStep
  <2>2. CASE stack' = [stack EXCEPT ![p] = <<Fr("wait")>> \o Tail(@)]
    BY <2>2, <1>2, <1>3, BecomesStep DEF Waiters, OnTop
  <2> QED BY <2>1, <2>2, <1>4
<1> QED BY <1>1, <1>5 DEF Look, IInv, TypeOK, TimersSet

LEMMA ReadyStep == ASSUME IInv, NEW p \in Procs, Ready(p) PROVE IInv'
<1>1. stack' \in [Procs -> Seq(Frame)] /\ AllGood'
  BY EndStep, KindFacts DEF Ready
<1> QED BY <1>1 DEF Ready, IInv, TypeOK, TimersSet

LEMMA ExecStep == ASSUME IInv, NEW p \in Procs, Exec(p) PROVE IInv'
<1> DEFINE new == <<Fr("prog")>>
<1>1. Fr("prog") \in Frame /\ Fr("prog").f = "prog"
  BY FrameFields DEF FrameKind
<1>2. new \in Seq(Frame) /\ Len(new) = 1 /\ new[1] = Fr("prog")
  BY <1>1
<1>3. stack' = [stack EXCEPT ![p] = new] /\ want' = [want EXCEPT ![p] = mask[p]] /\ mask' = mask
  BY DEF Exec
<1> HIDE DEF new
<1>4. \A i \in 1 .. Len(new) : new[i].f = "prog"
  BY <1>1, <1>2
<1>5. Good(new, mask[p], mask[p])
  BY <1>2, <1>4 DEF Good, Nested, Saved, Waiters, OnTop
<1>6. AllGood'
  BY <1>3, <1>5, OneStack DEF IInv, TypeOK
<1>7. act' \in [Procs -> [Sigs -> Disp]]
  BY DEF Exec, IInv, TypeOK, Disp
<1>8. queue' \in [Procs -> Seq(Sigs)]
  <2>1. <<>> \in Seq(Sigs)
    OBVIOUS
  <2> QED BY <2>1 DEF Exec, IInv, TypeOK
<1>9. timer' \in [Procs -> BOOLEAN] /\ TimersSet'
  BY DEF Exec, IInv, TypeOK, TimersSet
<1>10. stack' \in [Procs -> Seq(Frame)] /\ want' \in [Procs -> SUBSET Sigs]
  BY <1>2, <1>3 DEF IInv, TypeOK
<1> QED BY <1>6, <1>7, <1>8, <1>9, <1>10 DEF Exec, IInv, TypeOK

LEMMA ExitStep == ASSUME IInv, NEW p \in Procs, Exit(p) PROVE IInv'
<1>1. interrupt \in BOOLEAN /\ 0 \in Nat
  BY DEF IInv, TypeOK
<1>2. __exit(p, 0, interrupt) /\ UNCHANGED <<act, sent, want, parent, cause, timer>>
  BY DEF Exit
<1>3. /\ stack' \in [Procs -> Seq(Frame)] /\ queue' \in [Procs -> Seq(Sigs)]
      /\ mask' \in [Procs -> SUBSET Sigs] /\ status' \in [Procs -> Nat]
      /\ interrupt' \in BOOLEAN /\ AllGood'
  BY <1>1, <1>2, ExitTyped
<1> QED BY <1>2, <1>3 DEF IInv, TypeOK, TimersSet

LEMMA IInvInit == Init => IInv
<1> SUFFICES ASSUME Init PROVE IInv
  OBVIOUS
<1>1. Fr("prog") \in Frame /\ Fr("prog").f = "prog"
  BY FrameFields DEF FrameKind
<1> DEFINE new == <<Fr("prog")>>
<1>2. new \in Seq(Frame) /\ Len(new) = 1 /\ new[1] = Fr("prog")
  BY <1>1
<1>3. stack = [p \in Procs |-> new]
  BY DEF Init
<1> HIDE DEF new
<1>4. \A i \in 1 .. Len(new) : new[i].f = "prog"
  BY <1>1, <1>2
<1>5. Good(new, {}, {})
  BY <1>2, <1>4 DEF Good, Nested, Saved, Waiters, OnTop
<1>6. AllGood
  BY <1>3, <1>5 DEF Init, AllGood
<1>7. TypeOK
  <2>1. 0 \in 0 .. MaxSent
    BY SignalsAssumption
  <2>2. <<>> \in Seq(Sigs) /\ {} \in SUBSET Sigs /\ "dfl" \in Disp
    BY DEF Disp
  <2>3. Parent \in [Procs -> Procs \cup {0}]
    BY SignalsAssumption
  <2> QED BY <1>2, <1>3, <2>1, <2>2, <2>3 DEF Init, TypeOK
<1> QED BY <1>6, <1>7 DEF Init, IInv, TimersSet

LEMMA IInvStep == IInv /\ [Next]_vars => IInv'
<1> SUFFICES ASSUME IInv, [Next]_vars PROVE IInv'
  OBVIOUS
<1>1. CASE UNCHANGED vars
  BY <1>1 DEF vars, IInv, TypeOK, AllGood, TimersSet
<1>2. ASSUME NEW p \in Procs,
             \/ Enter(p) \/ Poll(p) \/ Return(p) \/ Other(p) \/ SendNext(p)
             \/ GetMessage(p) \/ SetITimer(p) \/ Look(p)
             \/ WakeTimer(p) \/ Ready(p) \/ Exec(p) \/ Exit(p)
      PROVE  IInv'
  BY <1>2, EnterStep, PollStep, ReturnStep, OtherStep, SendNextStep, GetMessageStep,
     SetITimerStep, LookStep, WakeTimerStep, ReadyStep, ExecStep, ExitStep
<1>3. ASSUME NEW p \in Procs, NEW q \in Procs, NEW s \in Kills, Kill(p, q, s) PROVE IInv'
  BY <1>3, KillStep
<1>4. ASSUME NEW p \in Procs, NEW g, NEW s \in Kills \cup {0}, KillGrp(p, g, s) PROVE IInv'
  <2>1. {q \in Procs : GroupId[q] = g /\ q > WIN_PID_INIT} \in SUBSET Procs
    OBVIOUS
  <2> QED BY <1>4, <2>1, LoopStep DEF KillGrp
<1>5. ASSUME NEW p \in Procs, NEW s \in Kills \cup {0}, KillSys(p, s) PROVE IInv'
  <2>1. Procs \ {p} \in SUBSET Procs
    OBVIOUS
  <2> QED BY <1>5, <2>1, LoopStep DEF KillSys
<1>6. ASSUME NEW p \in Procs, NEW s \in Sigs, NEW d \in Disps, SigAction(p, s, d) PROVE IInv'
  BY <1>6, SigActionStep
<1>7. ASSUME NEW p \in Procs, NEW how \in {"block", "unblock", "set"}, NEW m \in Masks,
             SigProcMask(p, how, m)
      PROVE  IInv'
  BY <1>7, SigProcMaskStep
<1>8. ASSUME NEW p \in Procs, NEW m \in Masks, SigSuspend(p, m) PROVE IInv'
  BY <1>8, SigSuspendStep
<1>9. ASSUME NEW p \in Procs, Sleep(p, "sleep") \/ Sleep(p, "look") PROVE IInv'
  BY <1>9, SleepStep
<1>10. ASSUME NEW p \in Procs, WakeInterrupt(p) \/ WakeOther(p) PROVE IInv'
  <2>1. interrupt \in BOOLEAN /\ FALSE \in BOOLEAN
    BY DEF IInv, TypeOK
  <2> QED BY <1>10, <2>1, WokenStep DEF WakeInterrupt, WakeOther
<1> QED BY <1>1, <1>2, <1>3, <1>4, <1>5, <1>6, <1>7, <1>8, <1>9, <1>10 DEF Next

\* The variables keep their types: no stack loses the call that a handler or
\* a stop interrupts, and every message has the number of a signal.
THEOREM TypeCorrect == Spec => []TypeOK
<1>1. Spec => []IInv
  BY IInvInit, IInvStep, PTL DEF Spec
<1>2. IInv => TypeOK
  BY DEF IInv
<1> QED BY <1>1, <1>2, PTL

\* sigsuspend(), handlers that call it, and stops in between, to any depth:
\* once all are over the mask is what the program last set.
THEOREM MasksRestored == Spec => []MaskRestored
<1>1. Spec => []IInv
  BY IInvInit, IInvStep, PTL DEF Spec
<1>2. IInv => MaskRestored
  BY DEF IInv, AllGood, MaskRestored, Alive, Good, Saved, Holds, Waiters
<1> QED BY <1>1, <1>2, PTL

\* kill() delivers the signal that it was given, whatever the translation to
\* console events and back.
THEOREM Arrival == Spec => SignalArrives
<1> DEFINE A == \A p, q \in Procs, s \in Kills :
                  Kill(p, q, s) /\ Alive(q) => queue'[q] = Append(queue[q], s)
<1>1. IInv => A
  <2> SUFFICES ASSUME IInv, NEW p \in Procs, NEW q \in Procs, NEW s \in Kills,
                      Kill(p, q, s), Alive(q)
               PROVE  queue'[q] = Append(queue[q], s)
    OBVIOUS
  <2>1. s \in 1 .. NSIG - 1
    BY SignalsAssumption
  <2>2. Posted(s) = s
    BY <2>1, Translated
  <2> QED BY <2>2 DEF Kill, Post, IInv, TypeOK
<1>2. Spec => []IInv
  BY IInvInit, IInvStep, PTL DEF Spec
<1> QED BY <1>1, <1>2, PTL DEF SignalArrives
=============================================================================
