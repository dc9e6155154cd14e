----------------------------- MODULE Pipes_proofs -----------------------------
(***************************************************************************)
(* Theorems about pipes, local sockets and poll(), for any processes, ends, *)
(* kinds of pipes, sizes and programs.                                     *)
(***************************************************************************)
EXTENDS Pipes, TLAPS

Polls == {"poll", "select"}
Reads == {"read", "readv"}

\* The ends the call in progress has for its arguments.
Uses(c) == IF c.call \in Polls THEN c.watch
           ELSE IF c.call \in Reads \cup {"write"} THEN {c.e} ELSE {}

\* Where a call can be, and what it has set by then.
Shape(c) ==
  /\ c.todo \subseteq c.watch /\ c.res \subseteq c.watch \X Found
  /\ c.at \in {"scan", "disc", "conn"} => c.call \in Polls
  /\ c.at \in {"disc", "conn"} => c.e \in c.watch
  /\ c.at \in {"peek", "rfile"} => c.call \in Reads
  /\ c.at \in {"wait", "sleep", "woke"} => c.call \in Polls \cup Reads
  /\ c.at \in {"write", "wset"} => c.call = "write"
  /\ c.at \in {"cset", "xset"} => c.e \in Ends
  /\ c.at \in {"none", "cset", "exit", "xset", "dead"}
       => c.call \notin Polls \cup Reads \cup {"write"}
  /\ c.call \in Reads => c.e \in Ends /\ c.parts # 0
  /\ c.call = "write" => c.e \in Ends

Shapes == \A p \in Procs : Shape(pc[p])

\* A call in progress has returned nothing yet.
NoneYet == \A p \in Procs : pc[p].at # "none" => ret[p] = NoAnswer

\* No process has got more signals than were sent.
Posted == \A p \in Procs : mail[p] <= sent

Typed == TypeOK /\ Shapes /\ NoneYet /\ Posted

-----------------------------------------------------------------------------
(* Contexts *)

\* The fields of a context.
LEMMA ContextFields ==
  ASSUME NEW c \in Context
  PROVE  /\ c.at \in At /\ c.call \in Call \cup {None} /\ c.e \in Ends \cup {None}
         /\ c.watch \in SUBSET Ends /\ c.todo \in SUBSET Ends
         /\ c.res \in SUBSET (Ends \X Found) /\ c.time \in {"zero", "some", "inf"}
         /\ c.parts \in Nat /\ c.cnt \in Nat /\ c.sum \in Nat /\ c.took \in Nat
  BY DEF Context

\* A process outside system calls.
LEMMA IdleFacts ==
  Idle \in Context /\ Shape(Idle) /\ Uses(Idle) = {} /\ Idle.call = None
<1>1. Idle \in Context
  BY DEF Idle, Context, At
<1>2. /\ Idle.at = "none" /\ Idle.call = "none" /\ Idle.watch = {} /\ Idle.todo = {}
      /\ Idle.res = {}
  BY DEF Idle, None
<1> QED BY <1>1, <1>2 DEF Shape, Uses, Polls, Reads, None

\* A process that goes on somewhere else in the same call.
LEMMA AtFacts ==
  ASSUME NEW c \in Context, Shape(c), NEW x \in At,
         x \in {"scan", "disc", "conn"} => c.call \in Polls,
         x \in {"disc", "conn"} => c.e \in c.watch,
         x \in {"peek", "rfile"} => c.call \in Reads,
         x \in {"wait", "sleep", "woke"} => c.call \in Polls \cup Reads,
         x \in {"write", "wset"} => c.call = "write",
         x \notin {"none", "cset", "exit", "xset", "dead"}
  PROVE  /\ [c EXCEPT !.at = x] \in Context /\ Shape([c EXCEPT !.at = x])
         /\ Uses([c EXCEPT !.at = x]) = Uses(c)
         /\ [c EXCEPT !.at = x].at = x
         /\ [c EXCEPT !.at = x].call = c.call
         /\ [c EXCEPT !.at = x].e = c.e
         /\ [c EXCEPT !.at = x].res = c.res
         /\ [c EXCEPT !.at = x].parts = c.parts
         /\ [c EXCEPT !.at = x].cnt = c.cnt
         /\ [c EXCEPT !.at = x].sum = c.sum
         /\ [c EXCEPT !.at = x].took = c.took
<1> DEFINE d == [c EXCEPT !.at = x]
<1>1. /\ d \in Context /\ d.at = x /\ d.call = c.call /\ d.e = c.e
      /\ d.watch = c.watch /\ d.todo = c.todo /\ d.res = c.res
      /\ d.parts = c.parts /\ d.cnt = c.cnt /\ d.sum = c.sum /\ d.took = c.took
  BY DEF Context
<1> HIDE DEF d
<1>2. Uses(d) = Uses(c)
  BY <1>1 DEF Uses
<1>3. Shape(d)
  BY <1>1, <1>2 DEF Shape
<1> QED BY <1>1, <1>2, <1>3 DEF d

\* A descriptor has been looked at.
LEMMA LookedFacts ==
  ASSUME NEW c \in Context, Shape(c), c.at \in {"scan", "disc"},
         NEW e \in c.watch, NEW S \in SUBSET Found
  PROVE  /\ Looked(c, e, S) \in Context /\ Shape(Looked(c, e, S))
         /\ Uses(Looked(c, e, S)) = Uses(c)
         /\ Looked(c, e, S).call = c.call /\ Looked(c, e, S).at = "scan"
         /\ Looked(c, e, S).res = c.res \cup {<<e, s>> : s \in S}
         /\ c.call \in Polls /\ e \in Ends
<1> DEFINE d == Looked(c, e, S)
           R == c.res \cup {<<e, s>> : s \in S}
           T == c.todo \ {e}
<1>1. /\ c.call \in Polls /\ c.watch \subseteq Ends
  BY ContextFields DEF Shape
<1>2. R \in SUBSET (Ends \X Found) /\ R \subseteq c.watch \X Found
  BY <1>1, ContextFields DEF Shape
<1>3. T \in SUBSET Ends /\ T \subseteq c.watch
  BY ContextFields DEF Shape
<1>4. d = [c EXCEPT !.at = "scan", !.e = None, !.todo = T, !.res = R]
  BY DEF Looked
<1> HIDE DEF R, T, d
<1>5. /\ d \in Context /\ d.at = "scan" /\ d.call = c.call /\ d.watch = c.watch
      /\ d.todo = T /\ d.res = R
  BY <1>2, <1>3, <1>4 DEF Context, At
<1>6. Uses(d) = Uses(c)
  BY <1>1, <1>5 DEF Uses
<1>7. Shape(d)
  BY <1>1, <1>2, <1>3, <1>5, <1>6 DEF Shape, Polls, Reads
<1> QED BY <1>1, <1>5, <1>6, <1>7 DEF d, R

-----------------------------------------------------------------------------
(* What a step does to the processes *)

\* A call goes on: what it was called for and what it has found stay.
GoesOn(c, d) ==
  /\ d.call = c.call /\ Uses(d) = Uses(c) /\ d.res \subseteq c.res
  /\ c.call \in Reads \cup {"write"} => d.e = c.e
  /\ d.parts = c.parts /\ d.cnt = c.cnt /\ d.sum = c.sum /\ d.took = c.took
  /\ d.at = "disc" => c.at = "disc" /\ d.e = c.e
  /\ d.at = "none" <=> c.at = "none"
  /\ c.at = "rfile" => d.at = "rfile"

LEMMA GoesOnSame == ASSUME NEW c PROVE GoesOn(c, c)
  BY DEF GoesOn

\* A sleeping process is woken.
LEMMA WokenGoesOn ==
  ASSUME NEW c \in Context, Shape(c), c.at = "sleep"
  PROVE  /\ [c EXCEPT !.at = "woke"] \in Context /\ Shape([c EXCEPT !.at = "woke"])
         /\ GoesOn(c, [c EXCEPT !.at = "woke"])
<1>1. "woke" \in At /\ c.call \in Polls \cup Reads
  BY DEF At, Shape
<1> QED BY <1>1, AtFacts DEF GoesOn

\* What a step of p leaves of the contexts.
Others(p) == /\ pc' \in [Procs -> Context] /\ \A q \in Procs : Shape(pc'[q])
             /\ \A q \in Procs : q # p => GoesOn(pc[q], pc'[q])

LEMMA OneMoves ==
  ASSUME Typed, NEW p \in Procs, NEW d \in Context, Shape(d),
         pc' = [pc EXCEPT ![p] = d]
  PROVE  Others(p) /\ pc'[p] = d
<1>1. pc \in [Procs -> Context] /\ \A q \in Procs : Shape(pc[q])
  BY DEF Typed, TypeOK, Shapes
<1> QED BY <1>1, GoesOnSame DEF Others

\* SetEvent() wakes one of those that wait, if there is one.
LEMMA EventMoves ==
  ASSUME Typed, NEW p \in Procs, NEW d \in Context, Shape(d), d.at # "sleep",
         NEW ev \in Events \cup {Interrupt}, SetEvent(ev, [pc EXCEPT ![p] = d])
  PROVE  Others(p) /\ pc'[p] = d /\ event' \in SUBSET (Events \cup {Interrupt})
<1> DEFINE pc1 == [pc EXCEPT ![p] = d]
<1>1. /\ pc1 \in [Procs -> Context] /\ \A q \in Procs : Shape(pc1[q])
      /\ \A q \in Procs : q # p => pc1[q] = pc[q]
      /\ pc1[p] = d /\ event \subseteq Events \cup {Interrupt}
  BY DEF Typed, TypeOK, Shapes
<1>2. \/ event' = event \cup {ev} /\ pc' = pc1
      \/ \E q \in Procs : /\ pc1[q].at = "sleep" /\ event' = event
                          /\ pc' = [pc1 EXCEPT ![q].at = "woke"]
  BY DEF SetEvent
<1> HIDE DEF pc1
<1>3. CASE event' = event \cup {ev} /\ pc' = pc1
  BY <1>1, <1>3, GoesOnSame DEF Others
<1>4. ASSUME NEW q \in Procs, pc1[q].at = "sleep", event' = event,
             pc' = [pc1 EXCEPT ![q].at = "woke"]
      PROVE  Others(p) /\ pc'[p] = d /\ event' \in SUBSET (Events \cup {Interrupt})
  <2> DEFINE w == [pc1[q] EXCEPT !.at = "woke"]
  <2>1. q # p /\ pc1[q] = pc[q]
    BY <1>1, <1>4
  <2>2. w \in Context /\ Shape(w) /\ GoesOn(pc[q], w)
    BY <1>1, <1>4, <2>1, WokenGoesOn
  <2>3. pc' = [pc1 EXCEPT ![q] = w]
    BY <1>1, <1>4
  <2> HIDE DEF w
  <2> QED BY <1>1, <1>4, <2>1, <2>2, <2>3, GoesOnSame DEF Others
<1> QED BY <1>2, <1>3, <1>4

\* The same when the caller's own context stays.
LEMMA EventOnly ==
  ASSUME Typed, NEW ev \in Events \cup {Interrupt}, SetEvent(ev, pc)
  PROVE  /\ pc' \in [Procs -> Context] /\ \A q \in Procs : Shape(pc'[q])
         /\ \A q \in Procs : GoesOn(pc[q], pc'[q])
         /\ event' \in SUBSET (Events \cup {Interrupt})
<1>1. /\ pc \in [Procs -> Context] /\ \A q \in Procs : Shape(pc[q])
      /\ event \subseteq Events \cup {Interrupt}
  BY DEF Typed, TypeOK, Shapes
<1>2. \/ event' = event \cup {ev} /\ pc' = pc
      \/ \E q \in Procs : /\ pc[q].at = "sleep" /\ event' = event
                          /\ pc' = [pc EXCEPT ![q].at = "woke"]
  BY DEF SetEvent
<1>3. CASE event' = event \cup {ev} /\ pc' = pc
  BY <1>1, <1>3, GoesOnSame
<1>4. ASSUME NEW q \in Procs, pc[q].at = "sleep", event' = event,
             pc' = [pc EXCEPT ![q].at = "woke"]
      PROVE  /\ pc' \in [Procs -> Context] /\ \A r \in Procs : Shape(pc'[r])
             /\ \A r \in Procs : GoesOn(pc[r], pc'[r])
             /\ event' \in SUBSET (Events \cup {Interrupt})
  <2> DEFINE w == [pc[q] EXCEPT !.at = "woke"]
  <2>2. w \in Context /\ Shape(w) /\ GoesOn(pc[q], w)
    BY <1>1, <1>4, WokenGoesOn
  <2>3. pc' = [pc EXCEPT ![q] = w]
    BY <1>1, <1>4
  <2> HIDE DEF w
  <2> QED BY <1>1, <1>4, <2>2, <2>3, GoesOnSame
<1> QED BY <1>2, <1>3, <1>4

-----------------------------------------------------------------------------
(* What a step does to the pipes and to the answers *)

Quiet == UNCHANGED <<buf, holders, link>>

\* A unit is written, ends are let go, the server listens, or disconnects, a
\* client connects.
Puts(p) == /\ pc[p].at = "write" /\ Linked(pc[p].e) /\ holders[Peer[pc[p].e]] # {}
           /\ buf[Peer[pc[p].e]] < Cap
           /\ buf' = [buf EXCEPT ![Peer[pc[p].e]] = @ + 1]
           /\ UNCHANGED <<holders, link>>
Drops(p) == (\E S \in SUBSET Ends : Drop(p, S)) /\ UNCHANGED link
Listens(e) == /\ e = Server[e] /\ ~Linked(e)
              /\ link' = [link EXCEPT ![e] = "listen"] /\ UNCHANGED <<buf, holders>>
Disconnects(e) == /\ e = Server[e] /\ link' = [link EXCEPT ![e] = "off"]
                  /\ buf' = [buf EXCEPT ![e] = 0, ![Peer[e]] = 0]
                  /\ UNCHANGED holders
Connects(p) == \E c \in Ends :
                 /\ Kind[c] = "local" /\ c # Server[c]
                 /\ holders[Server[c]] # {} /\ p \notin holders[Server[c]]
                 /\ ~Linked(c)
                 /\ holders' = [holders EXCEPT ![c] = {p}]
                 /\ link' = [link EXCEPT ![Server[c]] = "open"]
                 /\ UNCHANGED buf

\* A call begins.
Asks(p) ==
  LET d == pc'[p] IN
  /\ pc[p].at = "none" /\ ret'[p] = NoAnswer /\ Quiet
  /\ \A e \in Uses(d) : p \in holders[e]
  /\ d.res = {} /\ d.took = 0 /\ d.sum = 0 /\ d.cnt = 0 /\ d.at # "disc"
  /\ d.call \in Reads => IF Kind[d.e] = "fifo" THEN d.at = "rfile"
                         ELSE d.parts \in {1, Parts[d.e]}

\* The process has no more to do with the ends it had for arguments.
Rests(p) ==
  /\ Uses(pc'[p]) = {} /\ pc'[p].call \notin Polls \cup Reads \cup {"write"}
  /\ pc'[p].at # "disc" /\ ret'[p].call \notin Polls \cup Reads
  /\ Quiet \/ Drops(p) \/ Connects(p)

\* poll() goes on to the next descriptor, or finds the pipe of one broken.
Finds(p) ==
  LET c == pc[p] IN
  /\ c.call \in Polls /\ ret'[p] = ret[p]
  /\ \E e \in c.watch, S \in SUBSET Found :
       /\ pc'[p] = Looked(c, e, S)
       /\ \/ S = {"in"} /\ Peek(e) = "avail" /\ Quiet
          \/ S = {"hup"} /\ Peek(e) = "broken" /\ Quiet
          \/ S \subseteq {"band"} /\ (Quiet \/ Listens(e))
          \/ S = {"hup"} /\ c.at = "disc" /\ c.e = e /\ (Quiet \/ Disconnects(e))

Breaks(p) ==
  LET c == pc[p] d == pc'[p] IN
  /\ c.call \in Polls /\ d.call = c.call /\ Uses(d) = Uses(c) /\ d.res = c.res
  /\ d.at = "disc" /\ d.e \in c.watch /\ Peek(d.e) = "broken" /\ Kind[d.e] # "fifo"
  /\ ret'[p] = ret[p] /\ Quiet

PollEnds(p) == /\ pc[p].call \in Polls /\ pc'[p] = Idle
               /\ ret'[p].call \notin Reads /\ ret'[p].res \subseteq pc[p].res
               /\ Quiet

ReadFails(p) ==
  LET c == pc[p] a == ret'[p] IN
  /\ c.call \in Reads /\ c.at \in {"woke", "rfile"} /\ pc'[p] = Idle
  /\ a.call = c.call /\ a.e = c.e /\ a.err /\ a.took = c.took
  /\ c.at = "rfile" => ~Linked(c.e)
  /\ Quiet

\* The next buffer, or the result, with k units in the last one and t in all.
Next0(p, k, t) ==
  LET c == pc[p] d == pc'[p] a == ret'[p] IN
  \/ /\ c.parts = 1 /\ d = Idle
     /\ a.call = c.call /\ a.e = c.e /\ ~a.err /\ a.n = c.sum + k /\ a.took = t
  \/ /\ c.parts # 1 /\ d.call = c.call /\ d.e = c.e /\ a = ret[p]
     /\ d.at = IF Kind[c.e] = "fifo" THEN "rfile" ELSE "peek"
     /\ d.parts = c.parts - 1 /\ d.sum = c.sum + k /\ d.cnt = k /\ d.took = t

ReadNext(p) ==
  LET c == pc[p] IN
  /\ c.call \in Reads
  /\ \/ c.at = "peek" /\ Peek(c.e) \in {"bad", "broken"} /\ Quiet /\ Next0(p, c.cnt, c.took)
     \/ c.at = "rfile" /\ Peek(c.e) = "broken" /\ Quiet /\ Next0(p, 0, c.took)
     \/ /\ c.at = "rfile" /\ Peek(c.e) = "avail"
        /\ \E n \in 1 .. buf[c.e] :
             /\ buf' = [buf EXCEPT ![c.e] = @ - n] /\ UNCHANGED <<holders, link>>
             /\ Next0(p, n, c.took + n)

\* A step of p.
Effect(p) ==
  /\ Others(p) /\ \A q \in Procs : q # p => ret'[q] = ret[q]
  /\ \/ /\ GoesOn(pc[p], pc'[p]) /\ ret'[p] = ret[p]
        /\ Quiet \/ Puts(p) \/ (pc[p].call \in Polls /\ \E e \in pc[p].watch : Listens(e))
     \/ Asks(p) \/ Rests(p) \/ Finds(p) \/ Breaks(p) \/ PollEnds(p)
     \/ ReadFails(p) \/ ReadNext(p)

LEMMA AnswerFacts ==
  /\ NoAnswer \in Answer /\ NoAnswer.call = None /\ NoAnswer.res = {}
  /\ None \notin Polls \cup Reads
  BY DEF NoAnswer, Answer, None, Polls, Reads

\* The rest of the types, for a step of p.
LEMMA TypedNext ==
  ASSUME Typed, NEW p \in Procs, Others(p),
         buf' \in [Ends -> 0 .. Cap], holders' \in [Ends -> SUBSET Procs],
         link' \in [Ends -> Link], event' \in SUBSET (Events \cup {Interrupt}),
         mail' \in [Procs -> 0 .. MaxSig], sent' \in 0 .. MaxSig, Posted',
         ret' \in [Procs -> Answer], \A q \in Procs : q # p => ret'[q] = ret[q],
         pc'[p].at # "none" => ret'[p] = NoAnswer
  PROVE  Typed'
<1>1. NoneYet'
  BY DEF Typed, NoneYet, Others, GoesOn
<1>2. Shapes'
  BY DEF Shapes, Others
<1>3. TypeOK'
  BY <1>2 DEF TypeOK, Others, Shapes, Shape
<1> QED BY <1>1, <1>2, <1>3 DEF Typed

LEMMA EnterFacts ==
  ASSUME Typed, NEW p \in Procs, NEW call, Enter(p, call)
  PROVE  /\ pc[p].at = "none" /\ Uses(pc[p]) = {}
         /\ mail' \in [Procs -> 0 .. MaxSig] /\ sent' \in 0 .. MaxSig /\ Posted'
         /\ ret' \in [Procs -> Answer] /\ ret'[p] = NoAnswer
         /\ \A q \in Procs : q # p => ret'[q] = ret[q]
<1>1. /\ mail \in [Procs -> 0 .. MaxSig] /\ sent \in 0 .. MaxSig /\ MaxSig \in Nat
      /\ ret \in [Procs -> Answer] /\ Shape(pc[p])
      /\ \A q \in Procs : mail[q] <= sent
  BY PipesAssumption DEF Typed, TypeOK, Posted, Shapes
<1>2. mail' = [mail EXCEPT ![p] = IF mail[p] > 0 THEN mail[p] - 1 ELSE 0]
  BY <1>1 DEF Enter
<1>3. mail' \in [Procs -> 0 .. MaxSig] /\ Posted'
  BY <1>1, <1>2 DEF Enter, Posted
<1> QED BY <1>1, <1>3, AnswerFacts DEF Enter, Shape, Uses

LEMMA ReturnFacts ==
  ASSUME Typed, NEW p \in Procs, NEW a \in Answer, Return(p, a)
  PROVE  /\ Others(p) /\ pc'[p] = Idle /\ ret'[p] = a
         /\ ret' \in [Procs -> Answer] /\ \A q \in Procs : q # p => ret'[q] = ret[q]
<1>1. ret \in [Procs -> Answer]
  BY DEF Typed, TypeOK
<1> QED BY <1>1, IdleFacts, OneMoves DEF Return

LEMMA FailFacts ==
  ASSUME Typed, NEW p \in Procs, Fails(p)
  PROVE  /\ Others(p) /\ pc'[p] = Idle /\ ret' \in [Procs -> Answer]
         /\ \A q \in Procs : q # p => ret'[q] = ret[q]
         /\ ret'[p].call = pc[p].call /\ ret'[p].e = pc[p].e /\ ret'[p].err
         /\ ret'[p].took = pc[p].took /\ ret'[p].res = {}
<1>1. pc[p] \in Context
  BY DEF Typed, TypeOK
<1> DEFINE a == [NoAnswer EXCEPT !.call = pc[p].call, !.e = pc[p].e,
                                 !.err = TRUE, !.took = pc[p].took]
<1>2. /\ a \in Answer /\ a.call = pc[p].call /\ a.e = pc[p].e /\ a.err
      /\ a.took = pc[p].took /\ a.res = {}
  BY <1>1, ContextFields DEF NoAnswer, Answer
<1>3. Return(p, a)
  BY DEF Fails
<1> HIDE DEF a
<1> QED BY <1>2, <1>3, ReturnFacts

\* What the types say of a process and of its call.
LEMMA TypedAt ==
  ASSUME Typed, NEW p \in Procs
  PROVE  /\ pc[p] \in Context /\ Shape(pc[p]) /\ ret[p] \in Answer
         /\ pc[p].at # "none" => ret[p] = NoAnswer
         /\ buf \in [Ends -> 0 .. Cap] /\ holders \in [Ends -> SUBSET Procs]
         /\ link \in [Ends -> Link] /\ event \in SUBSET (Events \cup {Interrupt})
         /\ mail \in [Procs -> 0 .. MaxSig] /\ sent \in 0 .. MaxSig
         /\ ret \in [Procs -> Answer] /\ Posted
  BY DEF Typed, TypeOK, Shapes, NoneYet

\* Letting go of ends.
LEMMA DropFacts ==
  ASSUME Typed, NEW p \in Procs, NEW S \in SUBSET Ends, Drop(p, S)
  PROVE  buf' \in [Ends -> 0 .. Cap] /\ holders' \in [Ends -> SUBSET Procs]
<1>1. buf \in [Ends -> 0 .. Cap] /\ holders \in [Ends -> SUBSET Procs] /\ 0 \in 0 .. Cap
  BY PipesAssumption DEF Typed, TypeOK
<1> QED BY <1>1 DEF Drop

\* Poll, Read, Write.
LEMMA AskEffect ==
  ASSUME Typed, NEW p \in Procs, Poll(p) \/ Read(p) \/ Write(p)
  PROVE  Typed' /\ Effect(p)
<1>0. "scan" \in At /\ "rfile" \in At /\ "peek" \in At /\ "write" \in At
  BY DEF At
<1>1. CASE Poll(p)
  <2>1. PICK call \in {"poll", "select"}, W \in Watches, t \in Times :
          /\ Enter(p, call) /\ \A e \in W : p \in holders[e]
          /\ pc' = [pc EXCEPT ![p] = [Idle EXCEPT !.at = "scan", !.call = call,
                                        !.watch = W, !.todo = W, !.time = t]]
          /\ UNCHANGED <<buf, holders, link, event>>
    BY <1>1 DEF Poll
  <2> DEFINE d == [Idle EXCEPT !.at = "scan", !.call = call,
                               !.watch = W, !.todo = W, !.time = t]
  <2>2. W \in SUBSET Ends /\ t \in {"zero", "some", "inf"}
    BY PipesAssumption
  <2>3. /\ d \in Context /\ d.at = "scan" /\ d.call = call /\ d.watch = W /\ d.todo = W
        /\ d.res = {} /\ d.took = 0 /\ d.sum = 0 /\ d.cnt = 0
    BY <1>0, <2>2 DEF Idle, Context, Call, None
  <2> HIDE DEF d
  <2>4. Shape(d) /\ Uses(d) = W /\ d.call \notin Reads
    BY <2>3 DEF Shape, Uses, Polls, Reads
  <2>5. Others(p) /\ pc'[p] = d
    BY <2>1, <2>3, <2>4, OneMoves DEF d
  <2>6. Typed'
    BY <2>1, <2>5, TypedAt, EnterFacts, TypedNext
  <2>7. Asks(p)
    BY <2>1, <2>3, <2>4, <2>5, EnterFacts DEF Asks, Quiet
  <2> QED BY <2>1, <2>5, <2>6, <2>7, EnterFacts DEF Effect
<1>2. CASE Read(p)
  <2>1. PICK call \in {"read", "readv"}, e \in Ends :
          /\ Enter(p, call) /\ p \in holders[e]
          /\ pc' = [pc EXCEPT ![p] =
                [Idle EXCEPT !.at = IF Kind[e] = "fifo" THEN "rfile" ELSE "peek",
                             !.call = call, !.e = e,
                             !.parts = IF call = "readv" THEN Parts[e] ELSE 1]]
          /\ UNCHANGED <<buf, holders, link, event>>
    BY <1>2 DEF Read
  <2> DEFINE x == IF Kind[e] = "fifo" THEN "rfile" ELSE "peek"
             k == IF call = "readv" THEN Parts[e] ELSE 1
             d == [Idle EXCEPT !.at = x, !.call = call, !.e = e, !.parts = k]
  <2>2. /\ x \in At /\ x \in {"rfile", "peek"} /\ k \in Nat /\ k # 0
        /\ k \in {1, Parts[e]} /\ (Kind[e] = "fifo" => x = "rfile")
    BY <1>0, PipesAssumption
  <2> HIDE DEF x, k
  <2>3. /\ d \in Context /\ d.at = x /\ d.call = call /\ d.watch = {} /\ d.todo = {}
        /\ d.e = e /\ d.parts = k /\ d.res = {} /\ d.took = 0 /\ d.sum = 0 /\ d.cnt = 0
    BY <2>2 DEF Idle, Context, Call, None
  <2>4. pc' = [pc EXCEPT ![p] = d]
    BY <2>1 DEF x, k
  <2> HIDE DEF d
  <2>5. Shape(d) /\ Uses(d) = {e} /\ d.call \in Reads
    BY <2>2, <2>3 DEF Shape, Uses, Polls, Reads
  <2>6. Others(p) /\ pc'[p] = d
    BY <2>3, <2>4, <2>5, OneMoves
  <2>7. Typed'
    BY <2>1, <2>6, TypedAt, EnterFacts, TypedNext
  <2>8. Asks(p)
    BY <2>1, <2>2, <2>3, <2>5, <2>6, EnterFacts DEF Asks, Quiet
  <2> QED BY <2>1, <2>6, <2>7, <2>8, EnterFacts DEF Effect
<1>3. CASE Write(p)
  <2>1. PICK e \in Ends :
          /\ Enter(p, "write") /\ p \in holders[e] /\ event' = event \ {EventOf[e]}
          /\ pc' = [pc EXCEPT ![p] = [Idle EXCEPT !.at = "write", !.call = "write", !.e = e]]
          /\ UNCHANGED <<buf, holders, link>>
    BY <1>3 DEF Write
  <2> DEFINE d == [Idle EXCEPT !.at = "write", !.call = "write", !.e = e]
  <2>3. /\ d \in Context /\ d.at = "write" /\ d.call = "write" /\ d.watch = {} /\ d.todo = {}
        /\ d.e = e /\ d.res = {} /\ d.took = 0 /\ d.sum = 0 /\ d.cnt = 0
    BY <1>0 DEF Idle, Context, Call, None
  <2> HIDE DEF d
  <2>5. Shape(d) /\ Uses(d) = {e} /\ d.call \notin Reads
    BY <2>3 DEF Shape, Uses, Polls, Reads
  <2>6. Others(p) /\ pc'[p] = d
    BY <2>1, <2>3, <2>5, OneMoves DEF d
  <2>7. Typed'
    BY <2>1, <2>6, TypedAt, EnterFacts, TypedNext
  <2>8. Asks(p)
    BY <2>1, <2>3, <2>5, <2>6, EnterFacts DEF Asks, Quiet
  <2> QED BY <2>1, <2>6, <2>7, <2>8, EnterFacts DEF Effect
<1> QED BY <1>1, <1>2, <1>3

\* pipe_close, Exit, ExitClose, CloseDone, ExitProcess, WriteDone, Connect and
\* sys_interrupt.
LEMMA RestEffect ==
  ASSUME Typed, NEW p \in Procs,
         \/ pipe_close(p) \/ Exit(p) \/ ExitClose(p) \/ CloseDone(p) \/ ExitProcess(p)
         \/ WriteDone(p) \/ Connect(p) \/ sys_interrupt(p)
  PROVE  Typed' /\ Effect(p)
<1>0. "cset" \in At /\ "xset" \in At /\ "exit" \in At /\ "dead" \in At
  BY DEF At
<1> DEFINE Rest(d) == Uses(d) = {} /\ d.call \notin Polls \cup Reads \cup {"write"}
                      /\ d.at # "disc"
<1>1. ASSUME NEW S \in SUBSET Ends, Drop(p, S), UNCHANGED link, Rest(pc'[p]),
             ret'[p].call \notin Polls \cup Reads
      PROVE  Rests(p)
  BY <1>1 DEF Rests, Drops
<1>2. CASE pipe_close(p)
  <2>1. PICK e \in Ends :
          /\ Enter(p, "close") /\ Drop(p, {e})
          /\ pc' = [pc EXCEPT ![p] = [Idle EXCEPT !.at = "cset", !.call = "close", !.e = e]]
          /\ UNCHANGED <<link, event>>
    BY <1>2 DEF pipe_close
  <2> DEFINE d == [Idle EXCEPT !.at = "cset", !.call = "close", !.e = e]
  <2>2. /\ d \in Context /\ d.at = "cset" /\ d.call = "close" /\ d.watch = {}
        /\ d.todo = {} /\ d.e = e /\ d.res = {}
    BY <1>0 DEF Idle, Context, Call, None
  <2> HIDE DEF d
  <2>3. Shape(d) /\ Rest(d)
    BY <2>2 DEF Shape, Uses, Polls, Reads
  <2>4. Others(p) /\ pc'[p] = d
    BY <2>1, <2>2, <2>3, OneMoves DEF d
  <2>5. Typed'
    BY <2>1, <2>4, TypedAt, EnterFacts, TypedNext, DropFacts
  <2>6. Rests(p)
    BY <1>1, <2>1, <2>3, <2>4, EnterFacts, AnswerFacts
  <2> QED BY <2>1, <2>4, <2>5, <2>6, EnterFacts DEF Effect
<1>3. CASE Exit(p)
  <2>1. /\ Enter(p, "exit")
        /\ pc' = [pc EXCEPT ![p] = [Idle EXCEPT !.at = "exit", !.call = "exit"]]
        /\ UNCHANGED <<buf, holders, link, event>>
    BY <1>3 DEF Exit
  <2> DEFINE d == [Idle EXCEPT !.at = "exit", !.call = "exit"]
  <2>2. /\ d \in Context /\ d.at = "exit" /\ d.call = "exit" /\ d.watch = {}
        /\ d.todo = {} /\ d.res = {}
    BY <1>0 DEF Idle, Context, Call, None
  <2> HIDE DEF d
  <2>3. Shape(d) /\ Rest(d)
    BY <2>2 DEF Shape, Uses, Polls, Reads
  <2>4. Others(p) /\ pc'[p] = d
    BY <2>1, <2>2, <2>3, OneMoves DEF d
  <2>5. Typed'
    BY <2>1, <2>4, TypedAt, EnterFacts, TypedNext
  <2>6. Rests(p)
    BY <2>1, <2>3, <2>4, EnterFacts, AnswerFacts DEF Rests, Quiet
  <2> QED BY <2>1, <2>4, <2>5, <2>6, EnterFacts DEF Effect
<1>4. CASE ExitClose(p)
  <2>1. PICK e \in Ends :
          /\ pc[p].at = "exit" /\ Drop(p, {e})
          /\ pc' = [pc EXCEPT ![p].at = "xset", ![p].e = e]
          /\ UNCHANGED <<link, event, mail, sent, ret>>
    BY <1>4 DEF ExitClose, ToClose
  <2> DEFINE c == pc[p]
             d == [[c EXCEPT !.at = "xset"] EXCEPT !.e = e]
  <2>2. c \in Context /\ Shape(c) /\ pc \in [Procs -> Context] /\ ret[p] = NoAnswer
    BY <2>1, TypedAt DEF Typed, TypeOK
  <2>3. /\ d \in Context /\ d.at = "xset" /\ d.call = c.call /\ d.watch = c.watch
        /\ d.todo = c.todo /\ d.e = e /\ d.res = c.res
    BY <1>0, <2>2 DEF Context
  <2>4. pc' = [pc EXCEPT ![p] = d]
    BY <2>1, <2>2 DEF Context
  <2> HIDE DEF d
  <2>5. Shape(d) /\ Rest(d)
    BY <2>1, <2>2, <2>3 DEF Shape, Uses
  <2>6. Others(p) /\ pc'[p] = d
    BY <2>3, <2>4, <2>5, OneMoves
  <2>7. Typed'
    BY <2>1, <2>2, <2>6, TypedAt, TypedNext, DropFacts DEF Posted
  <2>8. Rests(p)
    BY <1>1, <2>1, <2>2, <2>5, <2>6, AnswerFacts
  <2> QED BY <2>1, <2>6, <2>7, <2>8 DEF Effect
<1>5. CASE CloseDone(p)
  <2> DEFINE c == pc[p]
             d == IF c.at = "cset" THEN Idle ELSE [c EXCEPT !.at = "exit", !.e = None]
  <2>1. /\ c.at \in {"cset", "xset"} /\ SetEvent(EventOf[c.e], [pc EXCEPT ![p] = d])
        /\ UNCHANGED <<buf, holders, link, mail, sent, ret>>
    BY <1>5 DEF CloseDone
  <2>2. c \in Context /\ Shape(c) /\ ret[p] = NoAnswer
    BY <2>1, TypedAt
  <2>3. EventOf[c.e] \in Events \cup {Interrupt}
    BY <2>1, <2>2, PipesAssumption DEF Shape
  <2>4. d \in Context /\ Shape(d) /\ Rest(d) /\ d.at # "sleep"
    <3>1. CASE c.at = "cset"
      BY <3>1, IdleFacts DEF Idle, None, Polls, Reads
    <3>2. CASE c.at = "xset"
      <4>1. /\ d \in Context /\ d.at = "exit" /\ d.call = c.call /\ d.watch = c.watch
            /\ d.todo = c.todo /\ d.res = c.res
        BY <1>0, <2>2, <3>2 DEF Context
      <4> HIDE DEF d
      <4> QED BY <2>2, <3>2, <4>1 DEF Shape, Uses
    <3> QED BY <2>1, <3>1, <3>2
  <2> HIDE DEF d
  <2>5. Others(p) /\ pc'[p] = d /\ event' \in SUBSET (Events \cup {Interrupt})
    BY <2>1, <2>3, <2>4, EventMoves
  <2>6. Typed'
    BY <2>1, <2>2, <2>5, TypedAt, TypedNext DEF Posted
  <2>7. Rests(p)
    BY <2>1, <2>2, <2>4, <2>5, AnswerFacts DEF Rests, Quiet
  <2> QED BY <2>1, <2>5, <2>6, <2>7 DEF Effect
<1>6. CASE ExitProcess(p)
  <2>1. /\ pc[p].at = "exit" /\ Drop(p, Ends)
        /\ pc' = [pc EXCEPT ![p] = [Idle EXCEPT !.at = "dead"]]
        /\ UNCHANGED <<link, event, mail, sent, ret>>
    BY <1>6 DEF ExitProcess
  <2> DEFINE d == [Idle EXCEPT !.at = "dead"]
  <2>2. /\ d \in Context /\ d.at = "dead" /\ d.call = None /\ d.watch = {}
        /\ d.todo = {} /\ d.res = {}
    BY <1>0 DEF Idle, Context, Call, None
  <2> HIDE DEF d
  <2>3. Shape(d) /\ Rest(d)
    BY <2>2 DEF Shape, Uses, Polls, Reads, None
  <2>4. Others(p) /\ pc'[p] = d /\ ret[p] = NoAnswer
    BY <2>1, <2>2, <2>3, OneMoves, TypedAt DEF d
  <2>5. Typed'
    BY <2>1, <2>4, TypedAt, TypedNext, DropFacts DEF Posted
  <2>6. Rests(p)
    BY <1>1, <2>1, <2>3, <2>4, AnswerFacts
  <2> QED BY <2>1, <2>4, <2>5, <2>6 DEF Effect
<1>7. CASE WriteDone(p)
  <2>1. /\ pc[p].at = "wset" /\ SetEvent(EventOf[pc[p].e], [pc EXCEPT ![p] = Idle])
        /\ UNCHANGED <<buf, holders, link, mail, sent, ret>>
    BY <1>7 DEF WriteDone
  <2>2. EventOf[pc[p].e] \in Events \cup {Interrupt} /\ ret[p] = NoAnswer
    BY <2>1, TypedAt, PipesAssumption DEF Shape
  <2>3. Idle.at # "sleep" /\ Rest(Idle)
    BY IdleFacts DEF Idle, None, Polls, Reads
  <2>4. Others(p) /\ pc'[p] = Idle /\ event' \in SUBSET (Events \cup {Interrupt})
    BY <2>1, <2>2, <2>3, IdleFacts, EventMoves
  <2>5. Typed'
    BY <2>1, <2>2, <2>4, TypedAt, TypedNext DEF Posted
  <2>6. Rests(p)
    BY <2>1, <2>2, <2>3, <2>4, AnswerFacts DEF Rests, Quiet
  <2> QED BY <2>1, <2>4, <2>5, <2>6 DEF Effect
<1>8. CASE Connect(p)
  <2>1. PICK c \in Ends :
          /\ Enter(p, "connect")
          /\ Kind[c] = "local" /\ c # Server[c]
          /\ holders[Server[c]] # {} /\ p \notin holders[Server[c]]
          /\ IF link[Server[c]] \in {"open", "off"}
             THEN UNCHANGED <<holders, link>>
             ELSE /\ holders' = [holders EXCEPT ![c] = {p}]
                  /\ link' = [link EXCEPT ![Server[c]] = "open"]
          /\ \/ UNCHANGED <<event, pc>>
             \/ SetEvent(PipeEvent, pc)
          /\ UNCHANGED buf
    BY <1>8 DEF Connect
  <2>2. /\ pc' \in [Procs -> Context] /\ \A q \in Procs : Shape(pc'[q])
        /\ \A q \in Procs : GoesOn(pc[q], pc'[q])
        /\ event' \in SUBSET (Events \cup {Interrupt})
    <3>1. CASE UNCHANGED <<event, pc>>
      BY <3>1, TypedAt, GoesOnSame DEF Typed, TypeOK, Shapes
    <3>2. CASE SetEvent(PipeEvent, pc)
      BY <3>2, EventOnly, PipesAssumption
    <3> QED BY <2>1, <3>1, <3>2
  <2>3. Others(p)
    BY <2>2 DEF Others
  <2>4. Server[c] \in Ends
    BY PipesAssumption
  <2>5. holders' \in [Ends -> SUBSET Procs] /\ link' \in [Ends -> Link]
    <3>1. "open" \in Link
      BY DEF Link
    <3> QED BY <2>1, <2>4, <3>1, TypedAt
  <2>6. Typed'
    BY <2>1, <2>2, <2>3, <2>5, TypedAt, EnterFacts, TypedNext
  <2>7. Rest(pc'[p])
    BY <2>1, <2>2, EnterFacts DEF GoesOn, Shape, Uses
  <2>8. Quiet \/ Connects(p)
    BY <2>1 DEF Quiet, Connects, Linked
  <2>9. Rests(p)
    BY <2>1, <2>7, <2>8, EnterFacts, AnswerFacts DEF Rests
  <2> QED BY <2>1, <2>3, <2>6, <2>9, EnterFacts DEF Effect
<1>9. CASE sys_interrupt(p)
  <2> DEFINE a == [NoAnswer EXCEPT !.err = TRUE]
  <2>1. /\ pc[p].at = "none" /\ mail[p] > 0
        /\ mail' = [mail EXCEPT ![p] = @ - 1] /\ ret' = [ret EXCEPT ![p] = a]
        /\ UNCHANGED <<buf, holders, link, event, sent, pc>>
    BY <1>9 DEF sys_interrupt
  <2>2. a \in Answer /\ a.call = None
    BY DEF NoAnswer, Answer
  <2> HIDE DEF a
  <2>3. Others(p)
    BY <2>1, GoesOnSame DEF Others, Typed, TypeOK, Shapes
  <2>4. /\ ret' \in [Procs -> Answer] /\ ret'[p] = a
        /\ \A q \in Procs : q # p => ret'[q] = ret[q]
    BY <2>1, <2>2, TypedAt
  <2>5. mail' \in [Procs -> 0 .. MaxSig] /\ Posted'
    BY <2>1, TypedAt, PipesAssumption DEF Posted
  <2>6. Typed'
    BY <2>1, <2>3, <2>4, <2>5, TypedAt, TypedNext
  <2>7. Rest(pc'[p])
    BY <2>1, TypedAt DEF Shape, Uses
  <2>8. Rests(p)
    BY <2>1, <2>2, <2>4, <2>7, AnswerFacts DEF Rests, Quiet
  <2> QED BY <2>3, <2>4, <2>6, <2>8 DEF Effect
<1> QED BY <1>2, <1>3, <1>4, <1>5, <1>6, <1>7, <1>8, <1>9

\* The process goes on at another place.
LEMMA StayEffect ==
  ASSUME Typed, NEW p \in Procs, NEW x \in At,
         x \in {"scan", "conn"} => pc[p].call \in Polls,
         x = "conn" => pc[p].e \in pc[p].watch,
         x \in {"peek", "rfile"} => pc[p].call \in Reads,
         x \in {"wait", "sleep", "woke"} => pc[p].call \in Polls \cup Reads,
         x \in {"write", "wset"} => pc[p].call = "write",
         x \notin {"none", "disc", "cset", "exit", "xset", "dead"},
         pc[p].at \notin {"none", "rfile"}, pc' = [pc EXCEPT ![p].at = x],
         event' \in SUBSET (Events \cup {Interrupt}),
         UNCHANGED <<mail, sent, ret>>, Quiet \/ Puts(p)
  PROVE  Typed' /\ Effect(p)
<1> DEFINE c == pc[p]
           d == [c EXCEPT !.at = x]
<1>1. c \in Context /\ Shape(c) /\ ret[p] = NoAnswer
  BY TypedAt
<1>2. d \in Context /\ Shape(d) /\ GoesOn(c, d)
  BY <1>1, AtFacts DEF GoesOn
<1>3. pc' = [pc EXCEPT ![p] = d]
  OBVIOUS
<1> HIDE DEF d
<1>4. Others(p) /\ pc'[p] = d
  BY <1>2, <1>3, OneMoves
<1>5. /\ buf' \in [Ends -> 0 .. Cap] /\ holders' \in [Ends -> SUBSET Procs]
      /\ link' \in [Ends -> Link]
  <2>1. CASE Quiet
    BY <2>1, TypedAt DEF Quiet
  <2>2. CASE Puts(p)
    <3>1. Peer[c.e] \in Ends
      BY <1>1, <2>2, PipesAssumption DEF Puts, Shape
    <3> QED BY <2>2, <3>1, TypedAt, PipesAssumption DEF Puts
  <2> QED BY <2>1, <2>2
<1>6. Typed'
  BY <1>1, <1>4, <1>5, TypedAt, TypedNext DEF Posted
<1> QED BY <1>2, <1>4, <1>6 DEF Effect

\* poll() is done with a descriptor.
LEMMA FindEffect ==
  ASSUME Typed, NEW p \in Procs, pc[p].at \in {"scan", "disc"},
         NEW e \in pc[p].watch, NEW S \in SUBSET Found,
         pc' = [pc EXCEPT ![p] = Looked(pc[p], e, S)],
         event' \in SUBSET (Events \cup {Interrupt}),
         UNCHANGED <<mail, sent, ret>>,
         \/ S = {"in"} /\ Peek(e) = "avail" /\ Quiet
         \/ S = {"hup"} /\ Peek(e) = "broken" /\ Quiet
         \/ S \subseteq {"band"} /\ (Quiet \/ Listens(e))
         \/ S = {"hup"} /\ pc[p].at = "disc" /\ pc[p].e = e /\ (Quiet \/ Disconnects(e))
  PROVE  Typed' /\ Effect(p)
<1> DEFINE c == pc[p]
           d == Looked(c, e, S)
<1>1. c \in Context /\ Shape(c) /\ ret[p] = NoAnswer
  BY TypedAt
<1>2. d \in Context /\ Shape(d) /\ c.call \in Polls /\ e \in Ends
  BY <1>1, LookedFacts
<1> HIDE DEF d
<1>3. Others(p) /\ pc'[p] = d
  BY <1>2, OneMoves DEF d
<1>4. /\ buf' \in [Ends -> 0 .. Cap] /\ holders' \in [Ends -> SUBSET Procs]
      /\ link' \in [Ends -> Link]
  <2>1. CASE Quiet
    BY <2>1, TypedAt DEF Quiet
  <2>2. CASE Listens(e)
    BY <2>2, TypedAt DEF Listens, Link
  <2>3. CASE Disconnects(e)
    <3>1. "off" \in Link /\ 0 \in 0 .. Cap
      BY PipesAssumption DEF Link
    <3> QED BY <2>3, <3>1, TypedAt DEF Disconnects
  <2> QED BY <2>1, <2>2, <2>3
<1>5. Typed'
  BY <1>1, <1>3, <1>4, TypedAt, TypedNext DEF Posted
<1>6. Finds(p)
  BY <1>2, <1>3 DEF Finds, d
<1> QED BY <1>3, <1>5, <1>6 DEF Effect

\* PollNode() has found a broken pipe, or waits for a client.
LEMMA EndFacts ==
  ASSUME NEW c \in Context, Shape(c), c.at = "scan", NEW e \in c.watch,
         NEW d, d.at \in {"disc", "conn"}, d.e = e, d.call = c.call,
         d.watch = c.watch, d.todo = c.todo, d.res = c.res
  PROVE  Shape(d) /\ Uses(d) = Uses(c) /\ d.call \in Polls
<1>1. e \in Ends /\ c.call \in Polls
  BY ContextFields DEF Shape
<1>2. Uses(d) = Uses(c)
  BY <1>1 DEF Uses
<1> QED BY <1>1, <1>2 DEF Shape, Polls, Reads

\* PollNode.
LEMMA PollNodeEffect ==
  ASSUME Typed, NEW p \in Procs, PollNode(p)
  PROVE  Typed' /\ Effect(p)
<1> DEFINE c == pc[p]
<1>1. PICK e \in c.todo :
        /\ c.at = "scan"
        /\ \/ /\ Peek(e) = "avail"
              /\ pc' = [pc EXCEPT ![p] = Looked(c, e, {"in"})]
              /\ UNCHANGED <<link, event>>
           \/ /\ Peek(e) = "empty"
              /\ pc' = [pc EXCEPT ![p] = Looked(c, e, {})]
              /\ UNCHANGED <<link, event>>
           \/ /\ Peek(e) = "broken"
              /\ pc' = [pc EXCEPT ![p] = IF Kind[e] = "fifo" THEN Looked(c, e, {"hup"})
                                         ELSE [c EXCEPT !.at = "disc", !.e = e]]
              /\ UNCHANGED <<link, event>>
           \/ /\ Peek(e) = "bad"
              /\ IF e # Server[e]
                 THEN UNCHANGED <<link, event>>
                 ELSE /\ link' = [link EXCEPT ![e] = "listen"]
                      /\ event' = event \ {EventOf[e]}
              /\ pc' = [pc EXCEPT ![p] = IF e = Server[e] /\ Kind[e] = "pair"
                                         THEN [c EXCEPT !.at = "conn", !.e = e]
                                         ELSE Looked(c, e, IF c.call = "select"
                                                           THEN {"band"} ELSE {})]
        /\ UNCHANGED <<buf, holders, mail, sent, ret>>
  BY TypedAt DEF PollNode, Typed, TypeOK
<1>2. c \in Context /\ Shape(c) /\ ret[p] = NoAnswer
  BY <1>1, TypedAt
<1>3. e \in c.watch /\ c.call \in Polls
  BY <1>1, <1>2 DEF Shape
<1>4. event \in SUBSET (Events \cup {Interrupt})
  BY TypedAt
<1>5. {"in"} \in SUBSET Found /\ {"hup"} \in SUBSET Found /\ {"band"} \in SUBSET Found
      /\ {} \in SUBSET Found
  BY DEF Found
<1>6. CASE /\ UNCHANGED <<link, event>>
           /\ \/ /\ Peek(e) = "avail"
                 /\ pc' = [pc EXCEPT ![p] = Looked(c, e, {"in"})]
              \/ /\ Peek(e) = "empty"
                 /\ pc' = [pc EXCEPT ![p] = Looked(c, e, {})]
              \/ /\ Peek(e) = "broken" /\ Kind[e] = "fifo"
                 /\ pc' = [pc EXCEPT ![p] = Looked(c, e, {"hup"})]
  <2>1. Quiet /\ event' \in SUBSET (Events \cup {Interrupt})
    BY <1>1, <1>4, <1>6 DEF Quiet
  <2> QED BY <1>1, <1>3, <1>5, <1>6, <2>1, FindEffect
<1>7. CASE /\ Peek(e) = "broken" /\ Kind[e] # "fifo"
           /\ pc' = [pc EXCEPT ![p] = [c EXCEPT !.at = "disc", !.e = e]]
           /\ UNCHANGED <<link, event>>
  <2> DEFINE d == [c EXCEPT !.at = "disc", !.e = e]
  <2>0. /\ d \in Context /\ d.at = "disc" /\ d.e = e /\ d.call = c.call /\ d.res = c.res
        /\ d.watch = c.watch /\ d.todo = c.todo
    BY <1>2, <1>3, ContextFields DEF Context, At
  <2> HIDE DEF d
  <2>1. Shape(d) /\ Uses(d) = Uses(c)
    BY <1>1, <1>2, <1>3, <2>0, EndFacts
  <2>2. Others(p) /\ pc'[p] = d
    BY <1>7, <2>0, <2>1, OneMoves DEF d
  <2>3. Typed'
    BY <1>1, <1>2, <1>7, <2>2, TypedAt, TypedNext DEF Posted
  <2>4. Breaks(p)
    BY <1>1, <1>3, <1>7, <2>0, <2>1, <2>2 DEF Breaks, Quiet
  <2> QED BY <1>1, <2>2, <2>3, <2>4 DEF Effect
<1>8. CASE /\ Peek(e) = "bad"
           /\ IF e # Server[e]
              THEN UNCHANGED <<link, event>>
              ELSE /\ link' = [link EXCEPT ![e] = "listen"]
                   /\ event' = event \ {EventOf[e]}
           /\ pc' = [pc EXCEPT ![p] = IF e = Server[e] /\ Kind[e] = "pair"
                                      THEN [c EXCEPT !.at = "conn", !.e = e]
                                      ELSE Looked(c, e, IF c.call = "select"
                                                        THEN {"band"} ELSE {})]
  <2>1. event' \in SUBSET (Events \cup {Interrupt})
    BY <1>4, <1>8
  <2>2. ~Linked(e)
    BY <1>8 DEF Peek
  <2>3. IF e # Server[e] THEN Quiet ELSE Listens(e)
    BY <1>1, <1>8, <2>2 DEF Quiet, Listens
  <2>4. CASE e = Server[e] /\ Kind[e] = "pair"
    <3> DEFINE d == [c EXCEPT !.at = "conn", !.e = e]
    <3>0. /\ d \in Context /\ d.at = "conn" /\ d.e = e /\ d.call = c.call /\ d.res = c.res
          /\ d.watch = c.watch /\ d.todo = c.todo
          /\ d.parts = c.parts /\ d.cnt = c.cnt /\ d.sum = c.sum /\ d.took = c.took
      BY <1>2, <1>3, ContextFields DEF Context, At
    <3>2. pc' = [pc EXCEPT ![p] = d]
      BY <1>8, <2>4
    <3> HIDE DEF d
    <3>1. d \in Context /\ Shape(d) /\ GoesOn(c, d) /\ d.at # "none"
      <4>1. Shape(d) /\ Uses(d) = Uses(c)
        BY <1>1, <1>2, <1>3, <3>0, EndFacts
      <4> QED BY <1>1, <1>3, <3>0, <4>1 DEF GoesOn, Polls, Reads
    <3>3. Others(p) /\ pc'[p] = d
      BY <3>1, <3>2, OneMoves
    <3>4. link' \in [Ends -> Link]
      BY <2>3, <2>4, TypedAt DEF Listens, Link
    <3>5. Typed'
      BY <1>1, <1>2, <2>1, <3>3, <3>4, TypedAt, TypedNext DEF Posted
    <3> QED BY <1>1, <1>3, <2>3, <2>4, <3>1, <3>3, <3>5 DEF Effect
  <2>5. CASE ~(e = Server[e] /\ Kind[e] = "pair")
    <3>1. PICK S \in {{"band"}, {}} : pc' = [pc EXCEPT ![p] = Looked(c, e, S)]
      BY <1>8, <2>5
    <3>2. S \in SUBSET Found /\ S \subseteq {"band"}
      BY <1>5
    <3> QED BY <1>1, <1>3, <2>1, <2>3, <3>1, <3>2, FindEffect
  <2> QED BY <2>4, <2>5
<1> QED BY <1>1, <1>6, <1>7, <1>8

\* SockPollError and PollDone.
LEMMA PollEffect ==
  ASSUME Typed, NEW p \in Procs, SockPollError(p) \/ PollDone(p)
  PROVE  Typed' /\ Effect(p)
<1> DEFINE c == pc[p]
<1>1. CASE SockPollError(p)
  <2>1. /\ c.at = "disc"
        /\ IF c.e = Server[c.e]
           THEN /\ link' = [link EXCEPT ![c.e] = "off"]
                /\ buf' = [buf EXCEPT ![c.e] = 0, ![Peer[c.e]] = 0]
           ELSE UNCHANGED <<link, buf>>
        /\ pc' = [pc EXCEPT ![p] = Looked(c, c.e, {"hup"})]
        /\ UNCHANGED <<holders, event, mail, sent, ret>>
    BY <1>1, TypedAt DEF SockPollError, Typed, TypeOK
  <2>2. c.e \in c.watch /\ {"hup"} \in SUBSET Found
    BY <2>1, TypedAt DEF Shape, Found
  <2>3. Quiet \/ Disconnects(c.e)
    BY <2>1 DEF Quiet, Disconnects
  <2>4. event' \in SUBSET (Events \cup {Interrupt})
    BY <2>1, TypedAt
  <2> QED BY <2>1, <2>2, <2>3, <2>4, FindEffect
<1>2. CASE PollDone(p)
  <2>1. /\ c.at = "scan" /\ c \in Context /\ Shape(c) /\ c.call \in Polls
        /\ UNCHANGED <<buf, holders, link, event, mail, sent>>
    BY <1>2, TypedAt DEF PollDone, Shape
  <2>2. CASE Return(p, [NoAnswer EXCEPT !.call = c.call, !.res = c.res])
    <3> DEFINE a == [NoAnswer EXCEPT !.call = c.call, !.res = c.res]
    <3>1. a \in Answer /\ a.call = c.call /\ a.res = c.res
      BY <2>1, ContextFields DEF NoAnswer, Answer
    <3>2. Return(p, a)
      BY <2>2
    <3> HIDE DEF a
    <3>3. /\ Others(p) /\ pc'[p] = Idle /\ ret'[p] = a
          /\ ret' \in [Procs -> Answer] /\ \A q \in Procs : q # p => ret'[q] = ret[q]
      BY <3>1, <3>2, ReturnFacts
    <3>4. Idle.at = "none"
      BY DEF Idle
    <3>5. Typed'
      BY <2>1, <3>3, <3>4, TypedAt, TypedNext DEF Posted
    <3>6. PollEnds(p)
      BY <2>1, <3>1, <3>3 DEF PollEnds, Quiet, Polls, Reads
    <3> QED BY <3>3, <3>5, <3>6 DEF Effect
  <2>3. CASE pc' = [pc EXCEPT ![p].at = "wait"] /\ UNCHANGED ret
    <3>1. "wait" \in At /\ Quiet /\ event' \in SUBSET (Events \cup {Interrupt})
      BY <2>1, TypedAt DEF At, Quiet
    <3> QED BY <2>1, <2>3, <3>1, StayEffect
  <2> QED BY <1>2, <2>2, <2>3 DEF PollDone
<1> QED BY <1>1, <1>2

\* Wait, TimeOut and proc_poll.
LEMMA WaitEffect ==
  ASSUME Typed, NEW p \in Procs, Wait(p) \/ TimeOut(p) \/ proc_poll(p)
  PROVE  Typed' /\ Effect(p)
<1> DEFINE c == pc[p]
<1>0. "sleep" \in At /\ "woke" \in At /\ "scan" \in At /\ "peek" \in At
  BY DEF At
<1>1. c \in Context /\ Shape(c)
  BY TypedAt
<1>2. CASE Wait(p)
  <2>1. /\ c.at = "wait" /\ c.call \in Polls \cup Reads /\ Quiet
        /\ UNCHANGED <<mail, sent, ret>>
    BY <1>1, <1>2 DEF Wait, Shape, Quiet
  <2>2. event' \in SUBSET (Events \cup {Interrupt})
    BY <1>2, TypedAt DEF Wait
  <2>3. \/ pc' = [pc EXCEPT ![p].at = "sleep"]
        \/ pc' = [pc EXCEPT ![p].at = "woke"]
    BY <1>2 DEF Wait
  <2> QED BY <1>0, <2>1, <2>2, <2>3, StayEffect
<1>3. ASSUME NEW d, d \in Context, Shape(d), GoesOn(c, d), pc' = [pc EXCEPT ![p] = d],
             c.at \in {"sleep", "woke"}, UNCHANGED <<buf, holders, link, event, sent, ret>>,
             mail' \in [Procs -> 0 .. MaxSig], Posted'
      PROVE  Typed' /\ Effect(p)
  <2>1. Others(p) /\ pc'[p] = d /\ ret[p] = NoAnswer
    BY <1>3, OneMoves, TypedAt
  <2>2. Typed'
    BY <1>3, <2>1, TypedAt, TypedNext
  <2> QED BY <1>3, <2>1, <2>2 DEF Effect, Quiet
<1>4. CASE TimeOut(p)
  <2> DEFINE d == [[c EXCEPT !.at = "woke"] EXCEPT !.time = "zero"]
  <2>1. /\ c.at = "sleep" /\ UNCHANGED <<buf, holders, link, event, mail, sent, ret>>
        /\ c.call \in Polls \cup Reads
    BY <1>1, <1>4 DEF TimeOut, Shape
  <2>2. pc' = [pc EXCEPT ![p] = d]
    BY <1>1, <1>4, TypedAt DEF TimeOut, Context, Typed, TypeOK
  <2>3. /\ d \in Context /\ d.at = "woke" /\ d.call = c.call /\ d.e = c.e /\ d.res = c.res
        /\ d.watch = c.watch /\ d.todo = c.todo
        /\ d.parts = c.parts /\ d.cnt = c.cnt /\ d.sum = c.sum /\ d.took = c.took
    BY <1>0, <1>1 DEF Context
  <2> HIDE DEF d
  <2>4. Shape(d) /\ GoesOn(c, d)
    BY <1>1, <2>1, <2>3 DEF Shape, GoesOn, Uses
  <2> QED BY <1>3, <2>1, <2>2, <2>3, <2>4, TypedAt DEF Posted
<1>5. CASE proc_poll(p)
  <2>1. /\ c.at = "woke" /\ c.call \in Polls \cup Reads /\ ret[p] = NoAnswer
        /\ UNCHANGED <<buf, holders, link, event, sent>>
    BY <1>1, <1>5, TypedAt DEF proc_poll, Shape
  <2>2. mail' \in [Procs -> 0 .. MaxSig] /\ Posted'
    <3>1. mail' = mail \/ (mail[p] > 0 /\ mail' = [mail EXCEPT ![p] = mail[p] - 1])
      BY <1>5, TypedAt DEF proc_poll
    <3> QED BY <2>1, <3>1, TypedAt, PipesAssumption DEF Posted
  <2>3. CASE Again(p) /\ UNCHANGED ret
    <3>1. PICK t \in IF c.time = "some" THEN {"some", "zero"} ELSE {c.time} :
            pc' = [pc EXCEPT ![p] =
                     IF c.call \in Polls
                     THEN [c EXCEPT !.at = "scan", !.todo = c.watch, !.res = {}, !.time = t]
                     ELSE [c EXCEPT !.at = "peek"]]
      BY <2>3 DEF Again, Polls
    <3>2. t \in {"zero", "some", "inf"}
      BY <1>1, ContextFields
    <3>3. CASE c.call \in Polls
      <4> DEFINE d == [c EXCEPT !.at = "scan", !.todo = c.watch, !.res = {}, !.time = t]
      <4>1. /\ d \in Context /\ d.at = "scan" /\ d.call = c.call /\ d.e = c.e
            /\ d.res = {} /\ d.watch = c.watch /\ d.todo = c.watch
            /\ d.parts = c.parts /\ d.cnt = c.cnt /\ d.sum = c.sum /\ d.took = c.took
        BY <1>0, <1>1, <3>2 DEF Context
      <4>2. pc' = [pc EXCEPT ![p] = d]
        BY <3>1, <3>3
      <4> HIDE DEF d
      <4>3. Shape(d) /\ GoesOn(c, d)
        BY <1>1, <2>1, <3>3, <4>1 DEF Shape, GoesOn, Uses, Polls, Reads
      <4> QED BY <1>3, <2>1, <2>2, <2>3, <4>1, <4>2, <4>3
    <3>4. CASE c.call \notin Polls
      <4> DEFINE d == [c EXCEPT !.at = "peek"]
      <4>1. d \in Context /\ Shape(d) /\ GoesOn(c, d)
        BY <1>0, <1>1, <2>1, <3>4, AtFacts DEF GoesOn
      <4>2. pc' = [pc EXCEPT ![p] = d]
        BY <3>1, <3>4
      <4> HIDE DEF d
      <4> QED BY <1>3, <2>1, <2>2, <2>3, <4>1, <4>2
    <3> QED BY <3>3, <3>4
  <2>4. CASE Fails(p)
    <3>1. /\ Others(p) /\ pc'[p] = Idle /\ ret' \in [Procs -> Answer]
          /\ \A q \in Procs : q # p => ret'[q] = ret[q]
          /\ ret'[p].call = c.call /\ ret'[p].e = c.e /\ ret'[p].err
          /\ ret'[p].took = c.took /\ ret'[p].res = {}
      BY <2>4, FailFacts
    <3>2. Idle.at = "none"
      BY DEF Idle
    <3>3. Typed'
      BY <2>1, <2>2, <3>1, <3>2, TypedAt, TypedNext
    <3>4. PollEnds(p) \/ ReadFails(p)
      BY <2>1, <3>1 DEF PollEnds, ReadFails, Quiet, Polls, Reads
    <3> QED BY <3>1, <3>3, <3>4 DEF Effect
  <2> QED BY <1>5, <2>3, <2>4 DEF proc_poll
<1> QED BY <1>2, <1>4, <1>5

\* The next buffer of readv(), or its result.
LEMMA NextPartFacts ==
  ASSUME Typed, NEW p \in Procs, pc[p].call \in Reads, pc[p].at # "none",
         NEW c \in Context, Shape(c), NextPart(p, c),
         c.call = pc[p].call, c.e = pc[p].e, c.parts = pc[p].parts, c.sum = pc[p].sum
  PROVE  /\ Others(p) /\ Next0(p, c.cnt, c.took)
         /\ ret' \in [Procs -> Answer] /\ \A q \in Procs : q # p => ret'[q] = ret[q]
         /\ pc'[p].at # "none" => ret'[p] = NoAnswer
<1>1. ret[p] = NoAnswer /\ ret \in [Procs -> Answer]
  BY TypedAt
<1>2. /\ c.call \in Call \cup {None} /\ c.e \in Ends /\ c.parts \in Nat \ {0}
      /\ c.sum \in Nat /\ c.cnt \in Nat /\ c.took \in Nat
  BY ContextFields DEF Shape
<1>3. CASE c.parts = 1
  <2> DEFINE k == c.sum + c.cnt
             a == [NoAnswer EXCEPT !.call = c.call, !.e = c.e, !.n = k, !.took = c.took]
  <2>0. k \in Nat
    BY <1>2
  <2> HIDE DEF k
  <2>1. /\ a \in Answer /\ a.call = c.call /\ a.e = c.e /\ ~a.err
        /\ a.n = k /\ a.took = c.took
    BY <1>2, <2>0 DEF NoAnswer, Answer
  <2>2. Return(p, a)
    BY <1>3 DEF NextPart, k
  <2> HIDE DEF a
  <2>3. /\ Others(p) /\ pc'[p] = Idle /\ ret'[p] = a
        /\ ret' \in [Procs -> Answer] /\ \A q \in Procs : q # p => ret'[q] = ret[q]
    BY <2>1, <2>2, ReturnFacts
  <2>4. Idle.at = "none"
    BY DEF Idle
  <2> QED BY <1>3, <2>1, <2>3, <2>4 DEF Next0, k
<1>4. CASE c.parts # 1
  <2> DEFINE x == IF Kind[c.e] = "fifo" THEN "rfile" ELSE "peek"
             k == c.parts - 1
             s == c.sum + c.cnt
             d == [c EXCEPT !.at = x, !.parts = k, !.sum = s]
  <2>1. x \in At /\ x \in {"rfile", "peek"} /\ k \in Nat \ {0} /\ s \in Nat
    BY <1>2, <1>4 DEF At
  <2>2. pc' = [pc EXCEPT ![p] = d] /\ UNCHANGED ret
    BY <1>4 DEF NextPart, Context
  <2> HIDE DEF x, k, s
  <2>3. /\ d \in Context /\ d.at = x /\ d.call = c.call /\ d.e = c.e /\ d.res = c.res
        /\ d.watch = c.watch /\ d.todo = c.todo /\ d.parts = k
        /\ d.sum = s /\ d.cnt = c.cnt /\ d.took = c.took
    BY <1>2, <1>4, <2>1 DEF Context
  <2> HIDE DEF d
  <2>4. Shape(d)
    BY <1>2, <1>4, <2>1, <2>3 DEF Shape, Polls, Reads
  <2>5. Others(p) /\ pc'[p] = d
    BY <2>2, <2>3, <2>4, OneMoves
  <2> QED BY <1>1, <1>4, <2>2, <2>3, <2>5 DEF Next0, x, k, s
<1> QED BY <1>3, <1>4

\* sock_read and fifo_read.
LEMMA ReadEffect ==
  ASSUME Typed, NEW p \in Procs, sock_read(p) \/ fifo_read(p)
  PROVE  Typed' /\ Effect(p)
<1> DEFINE c == pc[p]
<1>1. /\ c \in Context /\ Shape(c) /\ c.at \in {"peek", "rfile"} /\ c.call \in Reads
      /\ c.e \in Ends /\ ret[p] = NoAnswer /\ buf[c.e] \in 0 .. Cap
      /\ UNCHANGED <<holders, link, event, mail, sent>>
  BY TypedAt DEF Shape, sock_read, fifo_read
<1>2. ASSUME Others(p), ReadNext(p), ret' \in [Procs -> Answer],
             \A q \in Procs : q # p => ret'[q] = ret[q],
             pc'[p].at # "none" => ret'[p] = NoAnswer, buf' \in [Ends -> 0 .. Cap]
      PROVE  Typed' /\ Effect(p)
  <2>1. Typed'
    BY <1>1, <1>2, TypedAt, TypedNext DEF Posted
  <2> QED BY <1>2, <2>1 DEF Effect
<1>3. CASE sock_read(p)
  <2>1. c.at = "peek" /\ Quiet /\ UNCHANGED event
    BY <1>3 DEF sock_read, Quiet
  <2>2. CASE Peek(c.e) \in {"bad", "broken"} /\ NextPart(p, c)
    <3>1. /\ Others(p) /\ Next0(p, c.cnt, c.took)
          /\ ret' \in [Procs -> Answer] /\ \A q \in Procs : q # p => ret'[q] = ret[q]
          /\ pc'[p].at # "none" => ret'[p] = NoAnswer
      BY <1>1, <2>2, NextPartFacts
    <3>2. ReadNext(p)
      BY <1>1, <2>1, <2>2, <3>1 DEF ReadNext
    <3>3. buf' \in [Ends -> 0 .. Cap]
      BY <2>1, TypedAt DEF Quiet
    <3> QED BY <1>2, <3>1, <3>2, <3>3
  <2>3. CASE (pc' = [pc EXCEPT ![p].at = "rfile"] \/ pc' = [pc EXCEPT ![p].at = "wait"])
             /\ UNCHANGED ret
    <3>1. "rfile" \in At /\ "wait" \in At /\ event' \in SUBSET (Events \cup {Interrupt})
      BY <2>1, TypedAt DEF At
    <3> QED BY <1>1, <2>1, <2>3, <3>1, StayEffect
  <2> QED BY <1>3, <2>2, <2>3 DEF sock_read
<1>4. CASE fifo_read(p)
  <2>1. c.at = "rfile"
    BY <1>4 DEF fifo_read
  <2>2. ASSUME NEW n \in 1 .. buf[c.e], Peek(c.e) = "avail",
               buf' = [buf EXCEPT ![c.e] = @ - n],
               NextPart(p, [c EXCEPT !.cnt = n, !.took = @ + n])
        PROVE  Typed' /\ Effect(p)
    <3> DEFINE t == c.took + n
               d == [c EXCEPT !.cnt = n, !.took = t]
    <3>1. n \in Nat /\ n <= buf[c.e] /\ t \in Nat
      BY <1>1, ContextFields, PipesAssumption
    <3>3. NextPart(p, d)
      BY <1>1, <2>2 DEF Context
    <3> HIDE DEF t
    <3>2. /\ d \in Context /\ d.at = c.at /\ d.call = c.call /\ d.e = c.e /\ d.res = c.res
          /\ d.watch = c.watch /\ d.todo = c.todo /\ d.parts = c.parts
          /\ d.sum = c.sum /\ d.cnt = n /\ d.took = t
      BY <1>1, <3>1 DEF Context
    <3> HIDE DEF d
    <3>4. Shape(d)
      BY <1>1, <3>2 DEF Shape
    <3>5. /\ Others(p) /\ Next0(p, n, t)
          /\ ret' \in [Procs -> Answer] /\ \A q \in Procs : q # p => ret'[q] = ret[q]
          /\ pc'[p].at # "none" => ret'[p] = NoAnswer
      <4>1. /\ Others(p) /\ Next0(p, d.cnt, d.took)
            /\ ret' \in [Procs -> Answer] /\ \A q \in Procs : q # p => ret'[q] = ret[q]
            /\ pc'[p].at # "none" => ret'[p] = NoAnswer
        BY <1>1, <3>2, <3>3, <3>4, NextPartFacts
      <4> QED BY <3>2, <4>1
    <3>6. ReadNext(p)
      BY <1>1, <2>1, <2>2, <3>5 DEF ReadNext, t
    <3>7. buf' \in [Ends -> 0 .. Cap]
      BY <1>1, <2>2, <3>1, TypedAt, PipesAssumption
    <3> QED BY <1>2, <3>5, <3>6, <3>7
  <2>3. CASE Peek(c.e) = "broken" /\ NextPart(p, [c EXCEPT !.cnt = 0]) /\ UNCHANGED buf
    <3> DEFINE d == [c EXCEPT !.cnt = 0]
    <3>2. /\ d \in Context /\ d.at = c.at /\ d.call = c.call /\ d.e = c.e /\ d.res = c.res
          /\ d.watch = c.watch /\ d.todo = c.todo /\ d.parts = c.parts
          /\ d.sum = c.sum /\ d.cnt = 0 /\ d.took = c.took
      BY <1>1 DEF Context
    <3>3. NextPart(p, d)
      BY <2>3
    <3> HIDE DEF d
    <3>4. Shape(d)
      BY <1>1, <3>2 DEF Shape
    <3>5. /\ Others(p) /\ Next0(p, 0, c.took)
          /\ ret' \in [Procs -> Answer] /\ \A q \in Procs : q # p => ret'[q] = ret[q]
          /\ pc'[p].at # "none" => ret'[p] = NoAnswer
      <4>1. /\ Others(p) /\ Next0(p, d.cnt, d.took)
            /\ ret' \in [Procs -> Answer] /\ \A q \in Procs : q # p => ret'[q] = ret[q]
            /\ pc'[p].at # "none" => ret'[p] = NoAnswer
        BY <1>1, <3>2, <3>3, <3>4, NextPartFacts
      <4> QED BY <3>2, <4>1
    <3>6. ReadNext(p)
      BY <1>1, <2>1, <2>3, <3>5 DEF ReadNext, Quiet
    <3>7. buf' \in [Ends -> 0 .. Cap]
      BY <2>3, TypedAt
    <3> QED BY <1>2, <3>5, <3>6, <3>7
  <2>4. CASE Peek(c.e) = "bad" /\ Fails(p) /\ UNCHANGED buf
    <3>1. /\ Others(p) /\ pc'[p] = Idle /\ ret' \in [Procs -> Answer]
          /\ \A q \in Procs : q # p => ret'[q] = ret[q]
          /\ ret'[p].call = c.call /\ ret'[p].e = c.e /\ ret'[p].err
          /\ ret'[p].took = c.took /\ ret'[p].res = {}
      BY <2>4, FailFacts
    <3>2. Idle.at = "none" /\ ~Linked(c.e)
      BY <2>4 DEF Idle, Peek
    <3>3. Typed'
      BY <1>1, <2>4, <3>1, <3>2, TypedAt, TypedNext DEF Posted
    <3>4. ReadFails(p)
      BY <1>1, <2>1, <2>4, <3>1, <3>2 DEF ReadFails, Quiet
    <3> QED BY <3>1, <3>3, <3>4 DEF Effect
  <2> QED BY <1>4, <2>2, <2>3, <2>4 DEF fifo_read
<1> QED BY <1>3, <1>4

\* WriteFile and Signal.
LEMMA WriteEffect ==
  ASSUME Typed, NEW p \in Procs, WriteFile(p) \/ Signal(p)
  PROVE  Typed' /\ Effect(p)
<1> DEFINE c == pc[p]
<1>1. CASE WriteFile(p)
  <2>1. /\ c \in Context /\ Shape(c) /\ c.at = "write" /\ c.call = "write"
        /\ UNCHANGED <<holders, link, event, mail, sent>>
    BY <1>1, TypedAt DEF WriteFile, Shape
  <2>2. CASE Fails(p) /\ UNCHANGED buf
    <3>1. /\ Others(p) /\ pc'[p] = Idle /\ ret' \in [Procs -> Answer]
          /\ \A q \in Procs : q # p => ret'[q] = ret[q]
          /\ ret'[p].call = c.call
      BY <2>2, FailFacts
    <3>2. Idle.at = "none"
      BY DEF Idle
    <3>3. Typed'
      BY <2>1, <2>2, <3>1, <3>2, TypedAt, TypedNext DEF Posted
    <3>4. Rests(p)
      BY <2>1, <2>2, <3>1, <3>2, IdleFacts DEF Rests, Quiet, Polls, Reads, None
    <3> QED BY <3>1, <3>3, <3>4 DEF Effect
  <2>3. CASE /\ ~(~Linked(c.e) \/ holders[Peer[c.e]] = {})
             /\ buf[Peer[c.e]] < Cap
             /\ buf' = [buf EXCEPT ![Peer[c.e]] = @ + 1]
             /\ pc' = [pc EXCEPT ![p].at = "wset"]
             /\ UNCHANGED ret
    <3>1. "wset" \in At /\ event' \in SUBSET (Events \cup {Interrupt}) /\ Puts(p)
      BY <2>1, <2>3, TypedAt DEF At, Puts
    <3> QED BY <2>1, <2>3, <3>1, StayEffect
  <2> QED BY <1>1, <2>2, <2>3 DEF WriteFile
<1>2. CASE Signal(p)
  <2>1. /\ SetEvent(Interrupt, pc) /\ sent < MaxSig /\ sent' = sent + 1
        /\ mail' = [mail EXCEPT ![p] = mail[p] + 1]
        /\ UNCHANGED <<buf, holders, link, ret>>
    BY <1>2, TypedAt DEF Signal
  <2>2. /\ pc' \in [Procs -> Context] /\ \A q \in Procs : Shape(pc'[q])
        /\ \A q \in Procs : GoesOn(pc[q], pc'[q])
        /\ event' \in SUBSET (Events \cup {Interrupt})
    BY <2>1, EventOnly
  <2>3. Others(p)
    BY <2>2 DEF Others
  <2>4. mail' \in [Procs -> 0 .. MaxSig] /\ sent' \in 0 .. MaxSig /\ Posted'
    BY <2>1, TypedAt, PipesAssumption DEF Posted
  <2>5. pc'[p].at # "none" => ret'[p] = NoAnswer
    BY <2>1, <2>2, TypedAt DEF GoesOn
  <2>6. Typed'
    BY <2>1, <2>2, <2>3, <2>4, <2>5, TypedAt, TypedNext
  <2> QED BY <2>1, <2>2, <2>3, <2>6 DEF Effect, Quiet
<1> QED BY <1>1, <1>2

\* Whatever happens is a step of some process.
LEMMA StepEffect ==
  ASSUME Typed, Next
  PROVE  Typed' /\ \E p \in Procs : Effect(p)
<1>1. PICK p \in Procs : Goes(p) \/ Program(p) \/ TimeOut(p) \/ Signal(p)
  BY DEF Next
<1>2. CASE Goes(p)
  BY <1>2, PollNodeEffect, PollEffect, WaitEffect, ReadEffect, WriteEffect, RestEffect DEF Goes
<1>3. CASE Program(p)
  BY <1>3, AskEffect, RestEffect DEF Program
<1> QED BY <1>1, <1>2, <1>3, WaitEffect, WriteEffect

LEMMA InitTyped == Init => Typed
<1>1. Idle \in Context /\ Shape(Idle) /\ NoAnswer \in Answer /\ Idle.at = "none"
      /\ Idle.todo = {} /\ Idle.res = {}
  BY IdleFacts, AnswerFacts DEF Idle
<1>2. "new" \in Link /\ "open" \in Link
  BY DEF Link
<1> QED BY <1>1, <1>2, PipesAssumption DEF Init, Typed, TypeOK, Shapes, NoneYet, Posted

\* Every variable keeps its type, whatever the processes call (every structure
\* of the calls of poll.c, pipe.c and socket.c).
THEOREM TypeCorrect == Spec => []TypeOK
<1>1. Typed /\ [Next]_vars => Typed'
  <2> SUFFICES ASSUME Typed, [Next]_vars PROVE Typed'
    OBVIOUS
  <2>1. CASE Next
    BY <2>1, StepEffect
  <2>2. CASE UNCHANGED vars
    BY <2>2 DEF vars, Typed, TypeOK, Shapes, NoneYet, Posted
  <2> QED BY <2>1, <2>2
<1>2. Typed => TypeOK
  BY DEF Typed
<1> QED BY <1>1, <1>2, InitTyped, PTL DEF Spec

-----------------------------------------------------------------------------
(* The end of a pipe *)

\* Nothing is left to read, and nobody is there to write.
Ended(e) == buf[e] = 0 /\ holders[Peer[e]] = {}

\* Data is read.
Takes(p) == /\ pc[p].at = "rfile"
            /\ \E n \in 1 .. buf[pc[p].e] : buf' = [buf EXCEPT ![pc[p].e] = @ - n]
            /\ UNCHANGED <<holders, link>>

\* What a step of p does to the pipes.
Change(p) ==
  \/ Quiet \/ Puts(p) \/ Takes(p)
  \/ Rests(p) /\ (Drops(p) \/ Connects(p))
  \/ pc[p].call \in Polls /\ \E e \in pc[p].watch : Listens(e)
  \/ pc[p].at = "disc" /\ Disconnects(pc[p].e)

\* A pipe has no state to lose, and is never disconnected.
FifoOpen == /\ \A e \in Ends : Kind[e] = "fifo" => Linked(e)
            /\ \A p \in Procs : pc[p].at = "disc" => Kind[pc[p].e] # "fifo"

LEMMA ChangeFacts ==
  ASSUME Typed, NEW p \in Procs, Effect(p)
  PROVE  Change(p)
<1>1. CASE Finds(p)
  BY <1>1 DEF Finds, Change
<1>2. CASE ReadNext(p)
  BY <1>2 DEF ReadNext, Change, Takes
<1> QED BY <1>1, <1>2 DEF Effect, Change, Asks, Rests, Breaks, PollEnds, ReadFails

\* The two ends of a pipe.
LEMMA PeerFacts ==
  ASSUME NEW e \in Ends
  PROVE  /\ Peer[e] \in Ends /\ Peer[e] # e /\ Peer[Peer[e]] = e
         /\ Server[e] \in {e, Peer[e]} /\ Server[Peer[e]] = Server[e]
         /\ Kind[Peer[e]] = Kind[e] /\ Kind[Server[e]] = Kind[e]
         /\ Server[e] \in Ends /\ Server[Server[e]] = Server[e]
         /\ \A x \in Ends : Server[x] = Server[e] => x \in {e, Peer[e]}
  BY PipesAssumption

\* The ends a call has for its arguments.
LEMMA UsesFacts ==
  ASSUME Typed, NEW p \in Procs
  PROVE  /\ Uses(pc[p]) \subseteq Ends
         /\ pc[p].at = "disc" => pc[p].e \in Uses(pc[p]) /\ pc[p].call \in Polls
         /\ pc[p].at \in {"rfile", "peek"} => pc[p].e \in Uses(pc[p]) /\ pc[p].call \in Reads
         /\ pc[p].at \in {"write", "wset"} => pc[p].e \in Uses(pc[p])
         /\ pc[p].call \in Reads => pc[p].e \in Ends /\ Uses(pc[p]) = {pc[p].e}
         /\ pc[p].call \in Polls =>
              Uses(pc[p]) = pc[p].watch /\ pc[p].res \subseteq Uses(pc[p]) \X Found
  BY TypedAt, ContextFields DEF Shape, Uses, Polls, Reads

\* A step changes the arguments of its own call only.
LEMMA UsesNext ==
  ASSUME Typed, NEW p \in Procs, Effect(p), NEW q \in Procs
  PROVE  \/ Uses(pc'[q]) = Uses(pc[q]) \/ Uses(pc'[q]) = {}
         \/ q = p /\ Asks(p)
<1>1. CASE q # p
  BY <1>1 DEF Effect, Others, GoesOn
<1>2. CASE q = p
  <2>1. CASE Finds(p)
    <3>1. PICK e \in pc[p].watch, S \in SUBSET Found : pc'[p] = Looked(pc[p], e, S)
      BY <2>1 DEF Finds
    <3>2. Looked(pc[p], e, S).call = pc[p].call /\ Looked(pc[p], e, S).watch = pc[p].watch
      BY TypedAt DEF Looked, Context
    <3> QED BY <1>2, <2>1, <3>1, <3>2 DEF Uses, Finds
  <2>2. CASE ReadNext(p)
    <3>1. \/ pc'[p] = Idle \/ (pc'[p].call = pc[p].call /\ pc'[p].e = pc[p].e)
      BY <2>2 DEF ReadNext, Next0
    <3> QED BY <1>2, <2>2, <3>1, IdleFacts DEF Uses, ReadNext, Polls, Reads
  <2> QED BY <1>2, <2>1, <2>2, IdleFacts
         DEF Effect, Asks, Rests, Breaks, PollEnds, ReadFails, GoesOn
<1> QED BY <1>1, <1>2

\* Who is about to disconnect a pipe was so before, or has found it broken.
LEMMA DiscNext ==
  ASSUME Typed, NEW p \in Procs, Effect(p), NEW q \in Procs, pc'[q].at = "disc"
  PROVE  \/ q = p /\ Breaks(p)
         \/ /\ pc[q].at = "disc" /\ pc'[q].e = pc[q].e
            /\ q = p => Quiet \/ \E e \in Ends : Listens(e)
<1>0. Idle.at # "disc"
  BY DEF Idle
<1>1. CASE q # p
  BY <1>1 DEF Effect, Others, GoesOn
<1>2. CASE q = p
  <2>1. ~Finds(p)
    BY <1>2, TypedAt DEF Finds, Looked, Context
  <2>2. ~ReadNext(p) /\ ~PollEnds(p) /\ ~ReadFails(p) /\ ~Rests(p) /\ ~Asks(p)
    BY <1>0, <1>2 DEF ReadNext, Next0, PollEnds, ReadFails, Rests, Asks
  <2>3. CASE /\ GoesOn(pc[p], pc'[p])
             /\ Quiet \/ Puts(p) \/ (pc[p].call \in Polls /\ \E e \in pc[p].watch : Listens(e))
    BY <1>2, <2>3, UsesFacts DEF GoesOn, Puts
  <2> QED BY <1>2, <2>1, <2>2, <2>3 DEF Effect
<1> QED BY <1>1, <1>2

\* What one answers.
LEMMA AnswerNext ==
  ASSUME Typed, NEW p \in Procs, Effect(p), NEW q \in Procs, ret'[q].call \in Reads
  PROVE  \/ ret'[q] = ret[q]
         \/ q = p /\ (ReadFails(p) \/ ReadNext(p))
<1>1. NoAnswer.call \notin Reads
  BY AnswerFacts
<1> QED BY <1>1 DEF Effect, Asks, Rests, Finds, Breaks, PollEnds

\* A pipe that is at its end stays so.
LEMMA EndedStays ==
  ASSUME Typed, NEW p \in Procs, Effect(p), NEW e \in Ends, Ended(e),
         Kind[e] = "local" => Linked(e),
         pc[p].at = "write" /\ pc[p].e = Peer[e] => p \in holders[pc[p].e]
  PROVE  Ended(e)'
<1>1. Change(p) /\ buf \in [Ends -> 0 .. Cap] /\ holders \in [Ends -> SUBSET Procs]
      /\ Peer[e] \in Ends
  BY ChangeFacts, TypedAt, PeerFacts
<1>2. CASE Quiet \/ \E x \in pc[p].watch : Listens(x)
  BY <1>2 DEF Quiet, Listens, Ended
<1>3. CASE Puts(p)
  <2>1. pc[p].e \in Ends /\ pc[p].e # Peer[e]
    BY <1>3, UsesFacts DEF Puts, Ended
  <2>2. Peer[pc[p].e] # e
    BY <2>1, PeerFacts
  <2> QED BY <1>1, <1>3, <2>2 DEF Puts, Ended
<1>4. CASE Takes(p)
  <2>1. PICK n \in 1 .. buf[pc[p].e] :
          buf' = [buf EXCEPT ![pc[p].e] = buf[pc[p].e] - n] /\ UNCHANGED <<holders, link>>
    BY <1>1, <1>4, UsesFacts DEF Takes
  <2>2. pc[p].e # e
    BY <2>1, PipesAssumption DEF Ended
  <2> QED BY <1>1, <2>1, <2>2 DEF Ended
<1>5. CASE Drops(p)
  <2>1. PICK S \in SUBSET Ends : Drop(p, S)
    BY <1>5 DEF Drops
  <2> QED BY <1>1, <2>1 DEF Drop, Ended
<1>6. CASE Connects(p)
  <2>1. PICK c \in Ends : /\ Kind[c] = "local" /\ ~Linked(c)
                          /\ holders' = [holders EXCEPT ![c] = {p}] /\ UNCHANGED buf
    BY <1>6 DEF Connects
  <2>2. Peer[e] # c
    BY <2>1, PeerFacts DEF Linked
  <2> QED BY <1>1, <2>1, <2>2 DEF Ended
<1>7. CASE Disconnects(pc[p].e)
  BY <1>1, <1>7 DEF Disconnects, Ended
<1> QED BY <1>1, <1>2, <1>3, <1>4, <1>5, <1>6, <1>7 DEF Change

\* The pipes stay connected.
LEMMA FifoKept ==
  ASSUME Typed, FifoOpen, NEW p \in Procs, Effect(p)
  PROVE  FifoOpen'
<1>1. ASSUME NEW e \in Ends, Kind[e] = "fifo" PROVE Linked(e)'
  <2>1. /\ Linked(e) /\ Server[e] \in Ends /\ Kind[Server[e]] = "fifo"
        /\ Linked(Server[e]) /\ link \in [Ends -> Link]
    BY <1>1, PeerFacts, TypedAt DEF FifoOpen
  <2>2. Change(p)
    BY ChangeFacts
  <2>3. CASE UNCHANGED link
    BY <2>1, <2>3 DEF Linked
  <2>4. CASE \E x \in Ends : Listens(x)
    BY <2>1, <2>4 DEF Listens, Linked
  <2>5. CASE Connects(p)
    <3>1. PICK c \in Ends : Kind[c] = "local" /\ link' = [link EXCEPT ![Server[c]] = "open"]
      BY <2>5 DEF Connects
    <3> QED BY <2>1, <3>1 DEF Linked
  <2>6. CASE pc[p].at = "disc" /\ Disconnects(pc[p].e)
    BY <2>1, <2>6 DEF Disconnects, Linked, FifoOpen
  <2> QED BY <2>2, <2>3, <2>4, <2>5, <2>6, UsesFacts DEF Change, Quiet, Puts, Takes, Drops
<1>2. ASSUME NEW q \in Procs, pc'[q].at = "disc" PROVE Kind[pc'[q].e] # "fifo"
  BY <1>2, DiscNext DEF Breaks, FifoOpen
<1> QED BY <1>1, <1>2 DEF FifoOpen

-----------------------------------------------------------------------------
(* The ends that are no sockets with a name *)

HeldInUse == \A p \in Procs : \A e \in Uses(pc[p]) : Kind[e] # "local" => p \in holders[e]

\* A socketpair is disconnected when its client has gone.
PairDown == \A e \in Ends : Kind[e] = "pair" /\ ~Linked(e) =>
              buf[e] = 0 /\ holders[Peer[Server[e]]] = {}

DiscEnded == \A p \in Procs : pc[p].at = "disc" /\ Kind[pc[p].e] # "local" =>
               Ended(pc[p].e)

\* The answer of read() is about an end.
ReadOf == \A p \in Procs : ret[p].call \in Reads => ret[p].e \in Ends

Ends0 == Typed /\ FifoOpen /\ HeldInUse /\ PairDown /\ DiscEnded /\ ReadOf /\ EndIsFinal

LEMMA Ends0Init == Init => Ends0
<1>1. NoAnswer.call \notin Reads /\ Idle.at # "disc" /\ Uses(Idle) = {}
  BY AnswerFacts, IdleFacts DEF Idle
<1> SUFFICES ASSUME Init PROVE Ends0
  OBVIOUS
<1>2. Typed
  BY InitTyped
<1>3. FifoOpen /\ PairDown
  BY <1>1, PeerFacts DEF Init, FifoOpen, PairDown, Linked
<1>4. HeldInUse /\ DiscEnded /\ ReadOf /\ EndIsFinal
  BY <1>1 DEF Init, HeldInUse, DiscEnded, ReadOf, EndIsFinal, Reads
<1> QED BY <1>2, <1>3, <1>4 DEF Ends0

LEMMA Ends0Next ==
  ASSUME Ends0, NEW p \in Procs, Effect(p), Typed'
  PROVE  Ends0'
<1>0. Typed /\ FifoOpen /\ HeldInUse /\ PairDown /\ DiscEnded /\ ReadOf /\ EndIsFinal
  BY DEF Ends0
<1>1. Change(p) /\ buf \in [Ends -> 0 .. Cap] /\ holders \in [Ends -> SUBSET Procs]
      /\ link \in [Ends -> Link]
  BY <1>0, ChangeFacts, TypedAt
<1>2. ASSUME NEW e \in Ends, Ended(e), Kind[e] # "local" PROVE Ended(e)'
  <2>1. pc[p].at = "write" /\ pc[p].e = Peer[e] => p \in holders[pc[p].e]
    BY <1>0, <1>2, UsesFacts, PeerFacts DEF HeldInUse
  <2> QED BY <1>0, <1>2, <2>1, EndedStays
<1>3. HeldInUse'
  <2> SUFFICES ASSUME NEW q \in Procs, NEW e \in Uses(pc'[q]), Kind[e] # "local"
               PROVE  q \in holders'[e]
    BY DEF HeldInUse
  <2>1. CASE q = p /\ Asks(p)
    BY <2>1 DEF Asks, Quiet
  <2>2. CASE ~(q = p /\ Asks(p))
    <3>1. Uses(pc'[q]) = Uses(pc[q])
      BY <1>0, <2>2, UsesNext
    <3>2. q \in holders[e] /\ e \in Ends
      BY <1>0, <3>1, UsesFacts DEF HeldInUse
    <3>3. CASE UNCHANGED holders
      BY <3>2, <3>3
    <3>4. CASE Rests(p) /\ Drops(p)
      <4>1. PICK S \in SUBSET Ends : Drop(p, S)
        BY <3>4 DEF Drops
      <4>2. q # p
        BY <3>4 DEF Rests
      <4> QED BY <1>1, <3>2, <4>1, <4>2 DEF Drop
    <3>5. CASE Connects(p)
      <4>1. PICK c \in Ends : Kind[c] = "local" /\ holders' = [holders EXCEPT ![c] = {p}]
        BY <3>5 DEF Connects
      <4> QED BY <1>1, <3>2, <4>1
    <3> QED BY <1>1, <3>3, <3>4, <3>5
           DEF Change, Quiet, Puts, Takes, Listens, Disconnects
  <2> QED BY <2>1, <2>2
<1>4. PairDown'
  <2> SUFFICES ASSUME NEW e \in Ends, Kind[e] = "pair", ~Linked(e)'
               PROVE  buf'[e] = 0 /\ holders'[Peer[Server[e]]] = {}
    BY DEF PairDown
  <2>0. /\ Peer[e] \in Ends /\ Server[e] \in Ends /\ Peer[Server[e]] \in Ends
        /\ Kind[Peer[Server[e]]] = "pair" /\ Linked(Peer[e]) = Linked(e)
        /\ Server[e] \in {e, Peer[e]} /\ Peer[Peer[e]] = e
        /\ \A x \in Ends : Server[x] = Server[e] => x \in {e, Peer[e]}
    BY PeerFacts DEF Linked
  <2>1. CASE Linked(e)
    <3>1. link'[Server[e]] # link[Server[e]]
      BY <2>1 DEF Linked
    <3>2. ~Connects(p)
      <4> SUFFICES ASSUME Connects(p) PROVE FALSE
        OBVIOUS
      <4>1. PICK c \in Ends : Kind[c] = "local" /\ link' = [link EXCEPT ![Server[c]] = "open"]
        BY DEF Connects
      <4>2. Server[c] # Server[e]
        BY <4>1, PeerFacts
      <4> QED BY <1>1, <2>0, <3>1, <4>1, <4>2
    <3>3. ~ \E x \in Ends : Listens(x)
      <4> SUFFICES ASSUME NEW x \in Ends, Listens(x) PROVE FALSE
        OBVIOUS
      <4>1. x = Server[e]
        BY <1>1, <2>0, <3>1 DEF Listens
      <4>2. Linked(x)
        BY <2>1, <4>1, PeerFacts DEF Linked
      <4> QED BY <4>2 DEF Listens
    <3>4. pc[p].at = "disc" /\ Disconnects(pc[p].e)
      BY <1>0, <1>1, <3>1, <3>2, <3>3, UsesFacts DEF Change, Quiet, Puts, Takes, Drops
    <3>5. /\ pc[p].e = Server[e] /\ Ended(Server[e])
          /\ buf' = [buf EXCEPT ![Server[e]] = 0, ![Peer[Server[e]]] = 0]
          /\ UNCHANGED holders
      <4>1. pc[p].e = Server[e]
        BY <1>1, <2>0, <3>1, <3>4 DEF Disconnects
      <4>2. Kind[Server[e]] = "pair"
        BY PeerFacts
      <4> QED BY <1>0, <3>4, <4>1, <4>2 DEF Disconnects, DiscEnded
    <3> QED BY <1>1, <2>0, <3>5 DEF Ended
  <2>2. CASE ~Linked(e)
    <3>1. buf[e] = 0 /\ holders[Peer[Server[e]]] = {}
      BY <1>0, <2>2 DEF PairDown
    <3>2. CASE Puts(p)
      <4>1. pc[p].e \in Ends /\ Linked(pc[p].e)
        BY <1>0, <3>2, UsesFacts DEF Puts
      <4>2. Peer[pc[p].e] # e
        BY <2>0, <2>2, <4>1, PeerFacts DEF Linked
      <4> QED BY <1>1, <3>1, <3>2, <4>2 DEF Puts
    <3>3. CASE Takes(p)
      <4>1. PICK n \in 1 .. buf[pc[p].e] :
              buf' = [buf EXCEPT ![pc[p].e] = buf[pc[p].e] - n] /\ UNCHANGED <<holders, link>>
        BY <1>0, <1>1, <3>3, UsesFacts DEF Takes
      <4>2. pc[p].e # e
        BY <3>1, <4>1, PipesAssumption
      <4> QED BY <1>1, <3>1, <4>1, <4>2
    <3>4. CASE Drops(p)
      <4>1. PICK S \in SUBSET Ends : Drop(p, S)
        BY <3>4 DEF Drops
      <4> QED BY <1>1, <2>0, <3>1, <4>1 DEF Drop
    <3>5. CASE Connects(p)
      <4>1. PICK c \in Ends : /\ Kind[c] = "local" /\ UNCHANGED buf
                              /\ holders' = [holders EXCEPT ![c] = {p}]
        BY <3>5 DEF Connects
      <4> QED BY <1>1, <2>0, <3>1, <4>1
    <3>6. CASE Disconnects(pc[p].e)
      BY <1>1, <2>0, <3>1, <3>6 DEF Disconnects
    <3> QED BY <1>1, <3>1, <3>2, <3>3, <3>4, <3>5, <3>6 DEF Change, Quiet, Listens
  <2> QED BY <2>1, <2>2
<1>5. DiscEnded'
  <2> SUFFICES ASSUME NEW q \in Procs, pc'[q].at = "disc", Kind[pc'[q].e] # "local"
               PROVE  Ended(pc[q].e)'
    BY DEF DiscEnded
  <2>1. PICK e : e = pc'[q].e
    OBVIOUS
  <2>2. Ended(e) /\ e \in Ends
    <3>1. CASE q = p /\ Breaks(p)
      <4>1. Peek(e) = "broken" /\ e \in Ends
        BY <1>0, <2>1, <3>1, UsesFacts DEF Breaks
      <4> QED BY <4>1 DEF Peek, Broken, Ended
    <3>2. CASE pc[q].at = "disc" /\ pc'[q].e = pc[q].e
      BY <1>0, <2>1, <3>2, UsesFacts DEF DiscEnded
    <3> QED BY <1>0, <3>1, <3>2, DiscNext
  <2>3. Ended(e)'
    BY <1>2, <2>1, <2>2
  <2> QED BY <2>1, <2>3 DEF Ended
<1>6. ReadOf'
  <2> SUFFICES ASSUME NEW q \in Procs, ret'[q].call \in Reads PROVE ret'[q].e \in Ends
    BY DEF ReadOf
  <2>1. CASE ret'[q] = ret[q]
    BY <1>0, <2>1 DEF ReadOf
  <2>2. CASE q = p /\ ret'[p] # ret[p] /\ (ReadFails(p) \/ ReadNext(p))
    BY <1>0, <2>2, UsesFacts DEF ReadFails, ReadNext, Next0
  <2> QED BY <1>0, <2>1, <2>2, AnswerNext
<1>7. EndIsFinal'
  <2> SUFFICES ASSUME NEW q \in Procs, ret'[q].call \in Reads, ~ret'[q].err, ret'[q].n = 0,
                      Kind[ret'[q].e] # "local"
               PROVE  buf'[ret'[q].e] = 0 /\ holders'[Peer[ret'[q].e]] = {}
    BY DEF EndIsFinal, Reads
  <2>1. PICK e : e = ret'[q].e
    OBVIOUS
  <2>2. e \in Ends
    BY <1>6, <2>1 DEF ReadOf
  <2>3. Ended(e)
    <3>1. CASE ret'[q] = ret[q]
      BY <1>0, <2>1, <3>1 DEF EndIsFinal, Ended, Reads
    <3>2. CASE q = p /\ ret'[p] # ret[p] /\ (ReadFails(p) \/ ReadNext(p))
      <4> DEFINE c == pc[p]
      <4>1. ReadNext(p) /\ e = c.e /\ c.call \in Reads
        BY <2>1, <3>2 DEF ReadFails, ReadNext, Next0
      <4>2. /\ c.sum \in Nat /\ c.cnt \in Nat
            /\ p \in holders[e] /\ Server[e] \in {e, Peer[e]}
            /\ Peer[Peer[e]] = e /\ Server[Peer[e]] = Server[e]
        <5>1. c \in Context
          BY <1>0, TypedAt
        <5>2. c.sum \in Nat /\ c.cnt \in Nat
          BY <5>1, ContextFields
        <5>3. e \in Uses(c)
          BY <1>0, <4>1, UsesFacts
        <5>4. p \in holders[e]
          BY <1>0, <2>1, <5>3 DEF HeldInUse
        <5> QED BY <2>2, <5>2, <5>4, PeerFacts
      <4>3. CASE Peek(e) = "broken"
        BY <4>3 DEF Peek, Broken, Ended
      <4>4. CASE Peek(e) = "bad"
        <5>1. ~Linked(e)
          BY <4>4 DEF Peek
        <5>2. Kind[e] = "pair"
          BY <1>0, <2>1, <2>2, <5>1, PipesAssumption DEF FifoOpen
        <5>3. buf[e] = 0 /\ holders[Peer[Server[e]]] = {}
          BY <1>0, <2>2, <5>1, <5>2 DEF PairDown
        <5> QED BY <4>2, <5>3 DEF Ended
      <4>5. ASSUME NEW n \in 1 .. buf[e], Next0(p, n, c.took + n)
            PROVE  FALSE
        <5>1. n \in Nat \ {0}
          BY <1>1, <2>2, <4>5, PipesAssumption
        <5> QED BY <3>2, <4>2, <4>5, <5>1 DEF Next0
      <4> QED BY <4>1, <4>3, <4>4, <4>5 DEF ReadNext
    <3> QED BY <1>0, <3>1, <3>2, AnswerNext
  <2>4. Ended(e)'
    BY <1>2, <2>1, <2>2, <2>3
  <2> QED BY <2>1, <2>4 DEF Ended
<1>8. FifoOpen'
  BY <1>0, FifoKept
<1> QED BY <1>3, <1>4, <1>5, <1>6, <1>7, <1>8 DEF Ends0

\* read() returns 0 only at the end of the file, whoever shares the ends, and
\* whatever is polled meanwhile (fifo_read, sock_read).
THEOREM EndOfFile == Spec => []EndIsFinal
<1>1. Ends0 /\ [Next]_vars => Ends0'
  <2> SUFFICES ASSUME Ends0, [Next]_vars PROVE Ends0'
    OBVIOUS
  <2>0. Typed
    BY DEF Ends0
  <2>1. CASE Next
    BY <2>0, <2>1, StepEffect, Ends0Next
  <2>2. CASE UNCHANGED vars
    BY <2>2 DEF vars, Ends0, Typed, TypeOK, Shapes, NoneYet, Posted, FifoOpen, Linked,
                HeldInUse, PairDown, DiscEnded, Ended, ReadOf, EndIsFinal
  <2> QED BY <2>1, <2>2
<1>2. Ends0 => EndIsFinal
  BY DEF Ends0
<1> QED BY <1>1, <1>2, Ends0Init, PTL DEF Spec

-----------------------------------------------------------------------------
(* What read() returns *)

\* readv() of a socket counts a buffer that finds the pipe closed like the one
\* before it: sock_read() then leaves dwCount as it is.
OneBuffer == \A e \in Ends : Kind[e] # "fifo" => Parts[e] = 1

\* What a read() in progress has counted is what it has taken.
Counted ==
  \A p \in Procs : LET c == pc[p] IN c.call \in Reads =>
    /\ c.took = c.sum
    /\ Kind[c.e] # "fifo" => c.parts = 1 /\ c.cnt = 0 /\ c.sum = 0
    /\ Kind[c.e] = "fifo" => c.at = "rfile"

Honest == Typed /\ FifoOpen /\ Counted /\ ReadHonest

LEMMA HonestInit == Init => Honest
<1>1. NoAnswer.call \notin Reads /\ Idle.at # "disc" /\ Idle.call \notin Reads
  BY AnswerFacts, IdleFacts DEF Idle
<1> SUFFICES ASSUME Init PROVE Honest
  OBVIOUS
<1>2. Typed
  BY InitTyped
<1>3. FifoOpen
  BY <1>1, PeerFacts DEF Init, FifoOpen, Linked
<1>4. Counted /\ ReadHonest
  BY <1>1 DEF Init, Counted, ReadHonest, Reads
<1> QED BY <1>2, <1>3, <1>4 DEF Honest

\* The step of a read(): its count, and its answer.
LEMMA CountedNext ==
  ASSUME Honest, OneBuffer, NEW p \in Procs, Effect(p), Typed'
  PROVE  /\ pc'[p].call \in Reads =>
              /\ pc'[p].took = pc'[p].sum
              /\ Kind[pc'[p].e] # "fifo" =>
                   pc'[p].parts = 1 /\ pc'[p].cnt = 0 /\ pc'[p].sum = 0
              /\ Kind[pc'[p].e] = "fifo" => pc'[p].at = "rfile"
         /\ ReadFails(p) => ret'[p].took = 0
         /\ ReadNext(p) /\ ret'[p] # ret[p] => ret'[p].took = ret'[p].n
<1> DEFINE c == pc[p]
           d == pc'[p]
           Right(x) == /\ x.took = x.sum
                       /\ Kind[x.e] # "fifo" => x.parts = 1 /\ x.cnt = 0 /\ x.sum = 0
                       /\ Kind[x.e] = "fifo" => x.at = "rfile"
<1>0. Typed /\ FifoOpen /\ (c.call \in Reads => Right(c)) /\ c \in Context
  BY TypedAt DEF Honest, Counted
<1>1. c.sum \in Nat /\ c.cnt \in Nat /\ c.took \in Nat /\ c.parts \in Nat
  BY <1>0, ContextFields
<1>2. c.call \in Reads => c.e \in Ends
  BY <1>0, UsesFacts
<1>3. Idle.call \notin Reads
  BY IdleFacts, AnswerFacts
<1>4. CASE ReadNext(p)
  <2>1. PICK k \in Nat : Next0(p, k, c.took + k) /\ (c.at = "peek" => k = 0)
    <3>1. CASE c.at = "peek" /\ Next0(p, c.cnt, c.took)
      <4>1. c.cnt = 0 /\ c.took + 0 = c.took
        BY <1>0, <1>1, <1>4, <3>1 DEF ReadNext
      <4> QED BY <3>1, <4>1
    <3>2. CASE c.at = "rfile" /\ Next0(p, 0, c.took)
      <4>1. c.took + 0 = c.took
        BY <1>1
      <4> QED BY <3>2, <4>1
    <3>3. CASE \E n \in 1 .. buf[c.e] : c.at = "rfile" /\ Next0(p, n, c.took + n)
      <4>1. PICK n \in 1 .. buf[c.e] : c.at = "rfile" /\ Next0(p, n, c.took + n)
        BY <3>3
      <4>2. n \in Nat
        BY <1>0, <1>2, <1>4, <4>1, TypedAt, PipesAssumption DEF ReadNext
      <4> QED BY <4>1, <4>2
    <3> QED BY <1>4, <3>1, <3>2, <3>3 DEF ReadNext
  <2>2. c.call \in Reads /\ Right(c)
    BY <1>0, <1>4 DEF ReadNext
  <2>3. CASE c.parts = 1
    BY <1>1, <1>3, <1>4, <2>1, <2>2, <2>3 DEF Next0, ReadNext, ReadFails
  <2>4. CASE c.parts # 1
    <3>1. Kind[c.e] = "fifo"
      BY <2>2, <2>4
    <3>2. Kind[d.e] = "fifo" /\ d.at = "rfile" /\ d.took = d.sum /\ ret'[p] = ret[p]
      BY <1>1, <2>1, <2>2, <2>4, <3>1 DEF Next0
    <3>3. ~ReadFails(p)
      BY <1>3, <2>1, <2>2, <2>4 DEF ReadFails, Next0
    <3> QED BY <3>2, <3>3
  <2> QED BY <2>3, <2>4
<1>5. CASE ReadFails(p)
  <2>1. c.call \in Reads /\ Right(c) /\ d = Idle /\ ret'[p].took = c.took /\ ret'[p].err
    BY <1>0, <1>5 DEF ReadFails
  <2>2. Kind[c.e] # "fifo"
    BY <1>0, <1>2, <1>5, <2>1 DEF ReadFails, FifoOpen
  <2>3. c.took = 0
    BY <2>1, <2>2
  <2> QED BY <1>3, <1>4, <2>1, <2>3
<1>6. CASE ~ReadNext(p) /\ ~ReadFails(p)
  <2> SUFFICES ASSUME d.call \in Reads PROVE Right(d)
    BY <1>6
  <2>1. CASE Asks(p)
    <3>1. IF Kind[d.e] = "fifo" THEN d.at = "rfile" ELSE d.parts \in {1, Parts[d.e]}
      BY <2>1 DEF Asks
    <3>2. d.e \in Ends
      BY UsesFacts, TypedAt DEF Typed, Shapes, Shape
    <3> QED BY <2>1, <3>1, <3>2 DEF Asks, OneBuffer
  <2>2. CASE GoesOn(c, d)
    BY <1>0, <2>2 DEF GoesOn
  <2>3. ~Finds(p)
    BY TypedAt DEF Finds, Looked, Context, Polls, Reads, Honest
  <2> QED BY <1>3, <1>6, <2>1, <2>2, <2>3
         DEF Effect, Rests, Breaks, PollEnds, Polls, Reads
<1> QED BY <1>4, <1>5, <1>6

LEMMA HonestNext ==
  ASSUME Honest, OneBuffer, NEW p \in Procs, Effect(p), Typed'
  PROVE  Honest'
<1>0. Typed /\ FifoOpen /\ Counted /\ ReadHonest
  BY DEF Honest
<1>1. Counted'
  <2> SUFFICES ASSUME NEW q \in Procs, pc'[q].call \in Reads
               PROVE  /\ pc'[q].took = pc'[q].sum
                      /\ Kind[pc'[q].e] # "fifo" =>
                           pc'[q].parts = 1 /\ pc'[q].cnt = 0 /\ pc'[q].sum = 0
                      /\ Kind[pc'[q].e] = "fifo" => pc'[q].at = "rfile"
    BY DEF Counted
  <2>1. CASE q = p
    BY <2>1, CountedNext
  <2>2. CASE q # p
    BY <1>0, <2>2 DEF Effect, Others, GoesOn, Counted
  <2> QED BY <2>1, <2>2
<1>2. ReadHonest'
  <2> SUFFICES ASSUME NEW q \in Procs, ret'[q].call \in Reads
               PROVE  ret'[q].took = IF ret'[q].err THEN 0 ELSE ret'[q].n
    BY DEF ReadHonest, Reads
  <2>1. CASE ret'[q] = ret[q]
    BY <1>0, <2>1 DEF ReadHonest, Reads
  <2>2. CASE q = p /\ ret'[p] # ret[p] /\ ReadFails(p)
    BY <2>2, CountedNext DEF ReadFails
  <2>3. CASE q = p /\ ret'[p] # ret[p] /\ ReadNext(p)
    BY <2>3, CountedNext DEF ReadNext, Next0
  <2> QED BY <1>0, <2>1, <2>2, <2>3, AnswerNext
<1> QED BY <1>0, <1>1, <1>2, FifoKept DEF Honest

\* read() and readv() return what they took out of the pipe, and one that fails
\* has taken nothing, when readv() of a socket is given one buffer (vfs_readv,
\* sock_read, fifo_read).
THEOREM WhatReadReturns == ASSUME OneBuffer PROVE Spec => []ReadHonest
<1>1. Honest /\ [Next]_vars => Honest'
  <2> SUFFICES ASSUME Honest, [Next]_vars PROVE Honest'
    OBVIOUS
  <2>0. Typed
    BY DEF Honest
  <2>1. CASE Next
    BY <2>0, <2>1, StepEffect, HonestNext
  <2>2. CASE UNCHANGED vars
    BY <2>2 DEF vars, Honest, Typed, TypeOK, Shapes, NoneYet, Posted, FifoOpen, Linked,
                Counted, ReadHonest
  <2> QED BY <2>1, <2>2
<1>2. Honest => ReadHonest
  BY DEF Honest
<1> QED BY <1>1, <1>2, HonestInit, PTL DEF Spec

-----------------------------------------------------------------------------
(* Ends that are not shared *)

Sockets == {e \in Ends : Kind[e] = "local"}

\* At first no two processes hold the same end of S.
Unshared(S) == \A h \in Held, e \in S : \A p, q \in h[e] : p = q

OneHolder(S) == \A e \in S : \A p, q \in holders[e] : p = q
UserHolds == \A p \in Procs : \A e \in Uses(pc[p]) : p \in holders[e]
\* A client's handle is there only while its pipe is connected.
NoClient == \A e \in Ends : Kind[e] = "local" /\ e # Server[e] /\ ~Linked(e) =>
              holders[e] = {}
\* Between the look at a broken pipe and DisconnectNamedPipe() nobody connects.
DiscStays == \A p \in Procs : pc[p].at = "disc" =>
               Ended(pc[p].e) /\ (Kind[pc[p].e] = "local" => Linked(pc[p].e))

Kept == Typed /\ OneHolder(Sockets) /\ UserHolds /\ NoClient /\ DiscStays

LEMMA KeptInit == ASSUME Unshared(Sockets) PROVE Init => Kept
<1>1. Idle.at # "disc" /\ Uses(Idle) = {}
  BY IdleFacts DEF Idle
<1> SUFFICES ASSUME Init PROVE Kept
  OBVIOUS
<1>2. Typed /\ holders \in Held
  BY InitTyped DEF Init
<1>3. OneHolder(Sockets) /\ NoClient
  BY <1>2, PipesAssumption DEF OneHolder, Unshared, NoClient
<1>4. UserHolds /\ DiscStays
  BY <1>1 DEF Init, UserHolds, DiscStays
<1> QED BY <1>2, <1>3, <1>4 DEF Kept

\* Handles are let go, and connect() makes one that nobody has.
LEMMA HoldersNext ==
  ASSUME Kept, NEW p \in Procs, Effect(p), NEW e \in Ends
  PROVE  \/ holders'[e] = holders[e]
         \/ Rests(p) /\ holders'[e] = holders[e] \ {p}
         \/ Rests(p) /\ holders[e] = {} /\ holders'[e] = {p} /\ Kind[e] = "local"
<1>1. Change(p) /\ holders \in [Ends -> SUBSET Procs] /\ NoClient
  BY ChangeFacts, TypedAt DEF Kept
<1>2. CASE Rests(p) /\ Drops(p)
  <2>1. PICK S \in SUBSET Ends : Drop(p, S)
    BY <1>2 DEF Drops
  <2> QED BY <1>1, <1>2, <2>1 DEF Drop
<1>3. CASE Rests(p) /\ Connects(p)
  BY <1>1, <1>3 DEF Connects, NoClient
<1> QED BY <1>1, <1>2, <1>3 DEF Change, Quiet, Puts, Takes, Listens, Disconnects

LEMMA OneHolderNext ==
  ASSUME Kept, NEW p \in Procs, Effect(p), NEW S \in SUBSET Ends, OneHolder(S)
  PROVE  OneHolder(S)'
BY HoldersNext DEF OneHolder

LEMMA KeptNext ==
  ASSUME Kept, NEW p \in Procs, Effect(p), Typed'
  PROVE  Kept'
<1>0. Typed /\ OneHolder(Sockets) /\ UserHolds /\ NoClient /\ DiscStays
  BY DEF Kept
<1>1. Change(p) /\ buf \in [Ends -> 0 .. Cap] /\ holders \in [Ends -> SUBSET Procs]
      /\ link \in [Ends -> Link]
  BY <1>0, ChangeFacts, TypedAt
<1>2. OneHolder(Sockets)'
  BY <1>0, OneHolderNext DEF Sockets
<1>3. UserHolds'
  <2> SUFFICES ASSUME NEW q \in Procs, NEW e \in Uses(pc'[q]) PROVE q \in holders'[e]
    BY DEF UserHolds
  <2>1. CASE q = p /\ Asks(p)
    BY <2>1 DEF Asks, Quiet
  <2>2. CASE ~(q = p /\ Asks(p))
    <3>1. Uses(pc'[q]) = Uses(pc[q])
      BY <1>0, <2>2, UsesNext
    <3>2. q \in holders[e] /\ e \in Ends
      BY <1>0, <3>1, UsesFacts DEF UserHolds
    <3>3. ~(q = p /\ Rests(p))
      BY DEF Rests
    <3> QED BY <3>2, <3>3, HoldersNext
  <2> QED BY <2>1, <2>2
<1>4. NoClient'
  <2> SUFFICES ASSUME NEW e \in Ends, Kind[e] = "local", e # Server[e], ~Linked(e)'
               PROVE  holders'[e] = {}
    BY DEF NoClient
  <2>0. Server[e] \in Ends /\ Peer[Server[e]] = e
    BY PeerFacts
  <2>1. ~(Rests(p) /\ holders[e] = {} /\ holders'[e] = {p}) \/ holders'[e] = {}
    <3> SUFFICES ASSUME Connects(p), holders[e] = {}, holders'[e] # {} PROVE FALSE
      BY <1>1 DEF Rests, Quiet, Drops, Drop
    <3>1. PICK c \in Ends : /\ holders' = [holders EXCEPT ![c] = {p}]
                            /\ link' = [link EXCEPT ![Server[c]] = "open"]
      BY DEF Connects
    <3>2. c = e
      BY <1>1, <3>1
    <3> QED BY <1>1, <2>0, <3>1, <3>2 DEF Linked
  <2>2. holders[e] = {}
    <3>1. CASE ~Linked(e)
      BY <1>0, <3>1 DEF NoClient
    <3>2. CASE Linked(e)
      <4>1. link'[Server[e]] # link[Server[e]] /\ link'[Server[e]] # "open"
        BY <3>2 DEF Linked
      <4>2. ~Connects(p)
        BY <1>1, <2>0, <4>1, PeerFacts DEF Connects
      <4>3. ~ \E x \in Ends : Listens(x)
        <5> SUFFICES ASSUME NEW x \in Ends, Listens(x) PROVE FALSE
          OBVIOUS
        <5>1. x = Server[e]
          BY <1>1, <2>0, <4>1 DEF Listens
        <5> QED BY <3>2, <5>1, PeerFacts DEF Listens, Linked
      <4>4. pc[p].at = "disc" /\ Disconnects(pc[p].e)
        BY <1>0, <1>1, <4>1, <4>2, <4>3, UsesFacts DEF Change, Quiet, Puts, Takes, Drops
      <4>5. pc[p].e = Server[e]
        BY <1>1, <2>0, <4>1, <4>4 DEF Disconnects
      <4> QED BY <1>0, <2>0, <4>4, <4>5 DEF DiscStays, Ended
    <3> QED BY <3>1, <3>2
  <2>3. holders'[e] \subseteq holders[e]
    BY <2>1, <2>2, HoldersNext
  <2> QED BY <2>2, <2>3
<1>5. DiscStays'
  <2> SUFFICES ASSUME NEW q \in Procs, pc'[q].at = "disc"
               PROVE  Ended(pc[q].e)' /\ (Kind[pc'[q].e] = "local" => Linked(pc[q].e)')
    BY DEF DiscStays
  <2>1. PICK e : e = pc'[q].e
    OBVIOUS
  <2>2. /\ e \in Ends /\ Ended(e) /\ (Kind[e] = "local" => Linked(e)) /\ q \in holders[e]
        /\ \/ q = p /\ Quiet
           \/ pc[q].at = "disc" /\ pc[q].e = e /\ (q = p => Quiet \/ \E x \in Ends : Listens(x))
    <3>1. CASE q = p /\ Breaks(p)
      <4>1. /\ Peek(e) = "broken" /\ e \in Uses(pc[p]) /\ Quiet
        BY <1>0, <2>1, <3>1, UsesFacts DEF Breaks
      <4>2. Ended(e) /\ Linked(e)
        BY <4>1 DEF Peek, Broken, Ended
      <4> QED BY <1>0, <3>1, <4>1, <4>2, UsesFacts DEF UserHolds
    <3>2. CASE /\ pc[q].at = "disc" /\ pc'[q].e = pc[q].e
               /\ q = p => Quiet \/ \E x \in Ends : Listens(x)
      <4>1. e \in Uses(pc[q]) /\ pc[q].e = e
        BY <1>0, <2>1, <3>2, UsesFacts
      <4> QED BY <1>0, <3>2, <4>1, UsesFacts DEF DiscStays, UserHolds
    <3> QED BY <1>0, <3>1, <3>2, DiscNext
  <2>3. Ended(e)'
    <3>1. pc[p].at = "write" => p \in holders[pc[p].e]
      BY <1>0, UsesFacts DEF UserHolds
    <3> QED BY <1>0, <2>2, <3>1, EndedStays
  <2>4. ASSUME Kind[e] = "local" PROVE Linked(e)'
    <3>0. Linked(e) /\ Server[e] \in Ends
      BY <2>2, <2>4, PeerFacts
    <3>1. CASE UNCHANGED link
      BY <3>0, <3>1 DEF Linked
    <3>2. CASE \E x \in Ends : Listens(x)
      <4>1. PICK x \in Ends : Listens(x)
        BY <3>2
      <4>2. x # Server[e]
        BY <3>0, <4>1, PeerFacts DEF Listens, Linked
      <4> QED BY <1>1, <3>0, <4>1, <4>2 DEF Listens, Linked
    <3>3. CASE Connects(p)
      BY <1>1, <3>0, <3>3 DEF Connects, Linked
    <3>4. CASE pc[p].at = "disc" /\ Disconnects(pc[p].e) /\ ~Quiet
      <4>1. PICK x : x = pc[p].e
        OBVIOUS
      <4>2. /\ x \in Ends /\ x = Server[x] /\ Ended(x) /\ p \in holders[x]
            /\ link' = [link EXCEPT ![x] = "off"]
        BY <1>0, <3>4, <4>1, UsesFacts DEF Disconnects, DiscStays, UserHolds
      <4>3. q # p
        <5> SUFFICES ASSUME q = p, \E y \in Ends : Listens(y) PROVE FALSE
          BY <2>2, <3>4
        <5>1. PICK y \in Ends : Listens(y)
          OBVIOUS
        <5>2. y \in Ends /\ link' = [link EXCEPT ![y] = "listen"]
              /\ UNCHANGED <<buf, holders>>
          BY <5>1 DEF Listens
        <5>3. CASE y = x
          BY <1>1, <4>2, <5>2, <5>3
        <5>4. CASE y # x
          BY <1>1, <3>4, <4>2, <5>2, <5>4 DEF Quiet
        <5> QED BY <5>3, <5>4
      <4>4. x # Server[e]
        <5> SUFFICES ASSUME x = Server[e] PROVE FALSE
          OBVIOUS
        <5>1. x # e
          BY <1>0, <2>2, <2>4, <4>2, <4>3 DEF OneHolder, Sockets
        <5>2. e = Peer[x]
          BY <2>2, <5>1, PeerFacts
        <5> QED BY <2>2, <4>2, <5>2 DEF Ended
      <4> QED BY <1>1, <3>0, <4>2, <4>4 DEF Linked
    <3> QED BY <1>0, <1>1, <3>1, <3>2, <3>3, <3>4, UsesFacts
           DEF Change, Quiet, Puts, Takes, Drops
  <2> QED BY <2>1, <2>3, <2>4 DEF Ended, Linked
<1> QED BY <1>2, <1>3, <1>4, <1>5 DEF Kept

LEMMA KeptStep ==
  ASSUME Kept, [Next]_vars
  PROVE  Kept'
<1>0. Typed
  BY DEF Kept
<1>1. CASE Next
  BY <1>0, <1>1, StepEffect, KeptNext
<1>2. CASE UNCHANGED vars
  BY <1>2 DEF vars, Kept, Typed, TypeOK, Shapes, NoneYet, Posted, OneHolder, UserHolds,
              NoClient, DiscStays, Ended, Linked
<1> QED BY <1>1, <1>2

\* Data leaves a pipe only by a read().
LEMMA DataStays ==
  ASSUME Kept, NEW p \in Procs, Effect(p), NEW e \in Ends, buf'[e] < buf[e]
  PROVE  \/ holders'[e] = {} /\ Rests(p) /\ holders[e] \subseteq {p}
         \/ holders'[e] = {} /\ holders[e] = {}
         \/ p \in holders[e] /\ pc[p].at = "rfile" /\ pc[p].e = e
<1>1. /\ Change(p) /\ buf \in [Ends -> 0 .. Cap] /\ holders \in [Ends -> SUBSET Procs]
      /\ Typed /\ UserHolds /\ DiscStays /\ buf[e] \in Nat
  BY ChangeFacts, TypedAt, PipesAssumption DEF Kept
<1>2. CASE Puts(p)
  <2>1. pc[p].e \in Ends
    BY <1>1, <1>2, UsesFacts DEF Puts
  <2> QED BY <1>1, <1>2, <2>1, PipesAssumption DEF Puts
<1>3. CASE Takes(p)
  BY <1>1, <1>3, UsesFacts DEF Takes, UserHolds
<1>4. CASE Rests(p) /\ Drops(p)
  <2>1. PICK S \in SUBSET Ends : Drop(p, S)
    BY <1>4 DEF Drops
  <2> QED BY <1>1, <1>4, <2>1 DEF Drop
<1>5. CASE pc[p].at = "disc" /\ Disconnects(pc[p].e)
  <2>1. pc[p].e \in Ends /\ Ended(pc[p].e)
    BY <1>1, <1>5, UsesFacts DEF DiscStays
  <2>2. e # pc[p].e /\ e = Peer[pc[p].e]
    BY <1>1, <1>5, <2>1 DEF Disconnects, Ended
  <2> QED BY <1>5, <2>1, <2>2 DEF Disconnects, Ended
<1> QED BY <1>1, <1>2, <1>3, <1>4, <1>5 DEF Change, Quiet, Connects, Listens

\* Data stays in a pipe until it is read or nobody can read it any more, when no
\* two processes share a socket with a name: of two that have both found its pipe
\* broken, the second may disconnect the next client (SockPollError).
THEOREM NothingLost == ASSUME Unshared(Sockets) PROVE Spec => KeptUntilRead
<1> DEFINE Loss == \A e \in Ends : buf'[e] < buf[e] =>
                     \/ holders'[e] = {}
                     \/ \E p \in holders[e] : pc[p].at = "rfile" /\ pc[p].e = e
<1>1. Kept /\ [Next]_vars => [Loss]_vars
  <2> SUFFICES ASSUME Kept, Next PROVE Loss
    OBVIOUS
  <2>1. PICK p \in Procs : Effect(p)
    BY StepEffect DEF Kept
  <2> QED BY <2>1, DataStays
<1>2. Init => Kept
  BY KeptInit
<1>3. Kept /\ [Next]_vars => Kept'
  BY KeptStep
<1> QED BY <1>1, <1>2, <1>3, PTL DEF Spec, KeptUntilRead

-----------------------------------------------------------------------------
(* What poll() answers *)

\* What a poll() has found.
True(S) == \A e \in Ends : /\ <<e, "in">> \in S => buf[e] > 0
                           /\ <<e, "hup">> \in S /\ Kind[e] # "local" => Ended(e)
FoundTrue == \A p \in Procs : pc[p].call \in Polls => True(pc[p].res)

Single == Kept /\ OneHolder(Ends) /\ FoundTrue /\ PollTrue

LEMMA SingleInit == ASSUME Unshared(Ends) PROVE Init => Single
<1>1. Unshared(Sockets)
  BY DEF Unshared, Sockets
<1>2. Idle.call \notin Polls /\ NoAnswer.call \notin Polls
  BY IdleFacts, AnswerFacts
<1> SUFFICES ASSUME Init PROVE Single
  OBVIOUS
<1>3. Kept
  BY <1>1, KeptInit
<1>4. OneHolder(Ends)
  BY DEF Init, OneHolder, Unshared
<1>5. FoundTrue /\ PollTrue
  BY <1>2 DEF Init, FoundTrue, PollTrue, Polls
<1> QED BY <1>3, <1>4, <1>5 DEF Single

\* What was found at an end stays true while one other process at most uses it.
LEMMA StaysTrue ==
  ASSUME Kept, OneHolder(Ends), NEW p \in Procs, Effect(p), Typed', NEW e \in Ends,
         NEW q \in Procs, q \in holders[e], q = p => ~Rests(p) /\ pc[p].at # "rfile"
  PROVE  /\ buf[e] > 0 => buf'[e] > 0
         /\ Kind[e] # "local" /\ Ended(e) => Ended(e)'
<1>0. Typed /\ UserHolds
  BY DEF Kept
<1>1. ASSUME buf[e] > 0 PROVE buf'[e] > 0
  <2>1. buf[e] \in Nat /\ buf'[e] \in Nat
    BY <1>0, TypedAt, PipesAssumption DEF Typed, TypeOK
  <2>2. ~(buf'[e] < buf[e])
    <3> SUFFICES ASSUME buf'[e] < buf[e] PROVE FALSE
      OBVIOUS
    <3> QED BY DataStays DEF OneHolder
  <2> QED BY <1>1, <2>1, <2>2
<1>2. ASSUME Kind[e] # "local", Ended(e) PROVE Ended(e)'
  <2>1. pc[p].at = "write" => p \in holders[pc[p].e]
    BY <1>0, UsesFacts DEF UserHolds
  <2> QED BY <1>0, <1>2, <2>1, EndedStays
<1> QED BY <1>1, <1>2

LEMMA FoundTrueNext ==
  ASSUME Single, NEW p \in Procs, Effect(p), Typed'
  PROVE  FoundTrue'
<1>0. Kept /\ OneHolder(Ends) /\ FoundTrue /\ Typed /\ UserHolds /\ DiscStays
  BY DEF Single, Kept
<1> SUFFICES ASSUME NEW q \in Procs, pc'[q].call \in Polls, NEW e \in Ends
             PROVE  /\ <<e, "in">> \in pc'[q].res => buf'[e] > 0
                    /\ <<e, "hup">> \in pc'[q].res /\ Kind[e] # "local" => Ended(e)'
  BY DEF FoundTrue, True, Ended
\* What was found before.
<1>1. ASSUME pc[q].call \in Polls, q = p => ~Rests(p), NEW f \in Found, <<e, f>> \in pc[q].res
      PROVE  /\ f = "in" => buf'[e] > 0
             /\ f = "hup" /\ Kind[e] # "local" => Ended(e)'
  <2>1. e \in Uses(pc[q])
    BY <1>0, <1>1, UsesFacts
  <2>2. q \in holders[e]
    BY <1>0, <2>1 DEF UserHolds
  <2>3. pc[q].at # "rfile"
    BY <1>0, <1>1, UsesFacts DEF Polls, Reads
  <2>4. /\ f = "in" => buf[e] > 0
        /\ f = "hup" /\ Kind[e] # "local" => Ended(e)
    BY <1>0, <1>1 DEF FoundTrue, True
  <2>5. /\ buf[e] > 0 => buf'[e] > 0
        /\ Kind[e] # "local" /\ Ended(e) => Ended(e)'
    BY <1>0, <1>1, <2>2, <2>3, StaysTrue
  <2> QED BY <2>4, <2>5
<1>2. "in" \in Found /\ "hup" \in Found
  BY DEF Found
<1>3. CASE q # p
  <2>1. pc[q].call \in Polls /\ pc'[q].res \subseteq pc[q].res
    BY <1>3 DEF Effect, Others, GoesOn
  <2> QED BY <1>1, <1>2, <1>3, <2>1
<1>4. CASE q = p /\ Finds(p)
  <2>1. PICK x \in pc[p].watch, S \in SUBSET Found :
          /\ pc'[p] = Looked(pc[p], x, S)
          /\ \/ S = {"in"} /\ Peek(x) = "avail" /\ Quiet
             \/ S = {"hup"} /\ Peek(x) = "broken" /\ Quiet
             \/ S \subseteq {"band"} /\ (Quiet \/ Listens(x))
             \/ S = {"hup"} /\ pc[p].at = "disc" /\ pc[p].e = x /\ (Quiet \/ Disconnects(x))
    BY <1>4 DEF Finds
  <2>2. pc'[p].res = pc[p].res \cup {<<x, s>> : s \in S} /\ pc[p].call \in Polls /\ ~Rests(p)
    <3>1. /\ Looked(pc[p], x, S).res = pc[p].res \cup {<<x, s>> : s \in S}
          /\ Looked(pc[p], x, S).call = pc[p].call
      BY <1>0, TypedAt DEF Looked, Context
    <3> QED BY <1>4, <2>1, <3>1 DEF Finds, Rests
  <2>3. /\ <<e, "in">> \in {<<x, s>> : s \in S} => buf'[e] > 0
        /\ <<e, "hup">> \in {<<x, s>> : s \in S} => Ended(e)'
    <3>1. CASE S = {"in"} /\ Peek(x) = "avail" /\ Quiet
      BY <3>1 DEF Peek, Quiet
    <3>2. CASE S = {"hup"} /\ Peek(x) = "broken" /\ Quiet
      BY <3>2 DEF Peek, Broken, Ended, Quiet
    <3>3. CASE S \subseteq {"band"}
      BY <3>3
    <3>4. CASE S = {"hup"} /\ pc[p].at = "disc" /\ pc[p].e = x /\ (Quiet \/ Disconnects(x))
      <4>1. Ended(x)
        BY <1>0, <3>4 DEF DiscStays
      <4> QED BY <1>0, <3>4, <4>1, TypedAt DEF Ended, Quiet, Disconnects
    <3> QED BY <2>1, <3>1, <3>2, <3>3, <3>4
  <2> QED BY <1>1, <1>2, <1>4, <2>2, <2>3
<1>5. CASE q = p /\ ~Finds(p)
  <2>1. ~Rests(p) /\ ~PollEnds(p) /\ ~ReadFails(p) /\ ~ReadNext(p)
    BY <1>5, IdleFacts, AnswerFacts DEF Rests, PollEnds, ReadFails, ReadNext, Next0, Polls, Reads
  <2>2. CASE Asks(p)
    BY <1>5, <2>2 DEF Asks
  <2>3. CASE ~Asks(p)
    <3>1. pc[p].call \in Polls /\ pc'[p].res \subseteq pc[p].res
      BY <1>5, <2>1, <2>3 DEF Effect, GoesOn, Breaks
    <3> QED BY <1>1, <1>2, <1>5, <2>1, <3>1
  <2> QED BY <2>2, <2>3
<1> QED BY <1>3, <1>4, <1>5

LEMMA PollTrueNext ==
  ASSUME Single, NEW p \in Procs, Effect(p), Typed'
  PROVE  PollTrue'
<1>0. Kept /\ OneHolder(Ends) /\ FoundTrue /\ PollTrue /\ Typed /\ holders \in [Ends -> SUBSET Procs]
  BY TypedAt DEF Single, Kept
<1> SUFFICES ASSUME NEW q \in Procs, pc'[q].at = "none", ret'[q].call \in Polls,
                    NEW e \in Ends, holders'[e] = {q}
             PROVE  /\ <<e, "in">> \in ret'[q].res => buf'[e] > 0
                    /\ <<e, "hup">> \in ret'[q].res /\ Kind[e] # "local" =>
                         buf'[e] = 0 /\ holders'[Peer[e]] = {}
  BY DEF PollTrue, Alone, Polls
<1>1. CASE q = p /\ PollEnds(p)
  <2>1. ret'[q].res \subseteq pc[q].res /\ pc[q].call \in Polls /\ Quiet
    BY <1>1 DEF PollEnds
  <2>2. /\ <<e, "in">> \in pc[q].res => buf[e] > 0
        /\ <<e, "hup">> \in pc[q].res /\ Kind[e] # "local" => Ended(e)
    BY <1>0, <2>1 DEF FoundTrue, True
  <2> QED BY <2>1, <2>2 DEF Quiet, Ended
<1>2. CASE ~(q = p /\ PollEnds(p))
  <2>1. ret'[q] = ret[q] /\ ~(q = p /\ Rests(p))
    BY <1>2, AnswerFacts
       DEF Effect, Asks, Rests, Finds, Breaks, ReadFails, ReadNext, Next0, Polls, Reads
  <2>2. pc[q].at = "none"
    <3>1. CASE q # p
      BY <3>1 DEF Effect, Others, GoesOn
    <3>2. CASE q = p
      BY <1>0, <2>1, TypedAt, AnswerFacts
    <3> QED BY <3>1, <3>2
  <2>3. holders[e] = {q}
    BY <1>0, <2>1, HoldersNext DEF OneHolder
  <2>4. /\ <<e, "in">> \in ret[q].res => buf[e] > 0
        /\ <<e, "hup">> \in ret[q].res /\ Kind[e] # "local" => Ended(e)
    BY <1>0, <2>1, <2>2, <2>3 DEF PollTrue, Alone, Ended, Polls
  <2>5. /\ buf[e] > 0 => buf'[e] > 0
        /\ Kind[e] # "local" /\ Ended(e) => Ended(e)'
    BY <1>0, <2>1, <2>2, <2>3, StaysTrue
  <2> QED BY <2>1, <2>4, <2>5 DEF Ended
<1> QED BY <1>1, <1>2

\* What poll() and select() said of a descriptor that nobody else holds is still
\* so when the program acts on it, when no ends are shared: of two who read the
\* same end one may take what the other has polled, and close (PollNode,
\* SockPollError).
THEOREM WhatPollSaid == ASSUME Unshared(Ends) PROVE Spec => []PollTrue
<1>1. Single /\ [Next]_vars => Single'
  <2> SUFFICES ASSUME Single, [Next]_vars PROVE Single'
    OBVIOUS
  <2>0. Kept /\ Typed /\ Kept' /\ Typed'
    BY KeptStep DEF Single, Kept
  <2>1. CASE Next
    <3>1. PICK p \in Procs : Effect(p)
      BY <2>0, <2>1, StepEffect
    <3>2. OneHolder(Ends)'
      BY <2>0, <3>1, OneHolderNext DEF Single
    <3> QED BY <2>0, <3>1, <3>2, FoundTrueNext, PollTrueNext DEF Single
  <2>2. CASE UNCHANGED vars
    BY <2>0, <2>2 DEF vars, Single, OneHolder, FoundTrue, True, Ended, PollTrue, Alone
  <2> QED BY <2>1, <2>2
<1>2. Single => PollTrue
  BY DEF Single
<1>3. Init => Single
  BY SingleInit
<1> QED BY <1>1, <1>2, <1>3, PTL DEF Spec
===============================================================================
