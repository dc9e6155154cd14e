---------------------------- MODULE FdTable_proofs ----------------------------
(***************************************************************************)
(* Theorems about descriptors, for any processes, Win32 processes, handle  *)
(* values, sizes of Node[] and menus of system calls.                      *)
(*                                                                         *)
(* Each action is first shown to have one of a few effects on Node[] and   *)
(* the handle tables; the invariants are proved over these effects.        *)
(***************************************************************************)
EXTENDS FdTable, WellFoundedInduction, TLAPS

\* Which Win32 processes a process is in or creates, and whom it copies from.
Placed ==
  \A t \in Tasks :
    /\ Alive(t) <=> win[t] \in Wins
    /\ pc[t] = "exec" <=> dst[t] \in Wins
    /\ pc[t] = "child" => /\ dad[t] \in Tasks /\ pc[dad[t]] = "fork"
                          /\ win[dad[t]] = win[t]
    /\ \A u \in Tasks :
         /\ pc[t] = "child" /\ pc[u] = "child" /\ dad[t] = dad[u] => t = u
         /\ dst[t] \in Wins => dst[t] # win[u] /\ (dst[u] = dst[t] => u = t)

Typed == TypeOK /\ Placed

-----------------------------------------------------------------------------
(* Numbers, handles and entries *)

\* A set of numbers that is not empty has a least element.
LEMMA Least ==
  ASSUME NEW S \in SUBSET Nat, S # {}
  PROVE  \E x \in S : \A y \in S : x <= y
<1>1. PICK R : R = OpToRel(<, Nat)
  OBVIOUS
<1>2. IsWellFoundedOn(R, Nat)
  BY <1>1, NatLessThanWellFounded
<1>3. PICK x \in S : \A y \in S : ~(<<y, x>> \in R)
  BY <1>2, WFMin
<1>4. \A y, z \in Nat : y < z => <<y, z>> \in R
  BY <1>1 DEF OpToRel
<1>5. \A y \in S : ~(y < x)
  BY <1>3, <1>4, Zenon
<1> QED BY <1>5

LEMMA FdFacts ==
  /\ \A k \in 0 .. OPEN_MAX : k # OPEN_MAX => k \in Fds /\ k + 1 \in 0 .. OPEN_MAX
  /\ \A k \in 0 .. OPEN_MAX : k < OPEN_MAX => k \in Fds /\ k + 1 \in 0 .. OPEN_MAX
  /\ \A fd \in Fds : fd \in 0 .. OPEN_MAX /\ fd < OPEN_MAX /\ fd \in Nat
  /\ 0 \in 0 .. OPEN_MAX
  BY FdAssumption DEF Fds

\* Windows issues handles that are not in use.
LEMMA IssueFacts ==
  ASSUME NEW w
  PROVE  /\ FreeIn(w) \in SUBSET Handles /\ PipeEvent \notin FreeIn(w)
         /\ Single(w) \subseteq FreeIn(w)
         /\ \A x \in Pairs(w) : /\ x[1] \in FreeIn(w) /\ x[2] \in FreeIn(w)
                                /\ x[1] # x[2]
<1>1. FreeIn(w) \in SUBSET Handles /\ PipeEvent \notin FreeIn(w)
  BY DEF FreeIn
<1>2. Issue(FreeIn(w)) \subseteq FreeIn(w)
  BY <1>1, FdAssumption
<1>3. ASSUME NEW x \in Pairs(w)
      PROVE  x[1] \in FreeIn(w) /\ x[2] \in FreeIn(w) /\ x[1] # x[2]
  <2>1. PICK h \in Single(w) : x \in {h} \X Issue(FreeIn(w) \ {h})
    BY <1>3 DEF Pairs
  <2>2. FreeIn(w) \ {h} \in SUBSET Handles
    BY <1>1
  <2>3. Issue(FreeIn(w) \ {h}) \subseteq FreeIn(w) \ {h}
    BY <2>2, FdAssumption
  <2> QED BY <1>2, <2>1, <2>3 DEF Single
<1> QED BY <1>1, <1>2, <1>3 DEF Single

LEMMA NewFacts ==
  ASSUME NEW w, NEW n, NEW x \in NewFor(w, n)
  PROVE  /\ x[1] \in FreeIn(w) /\ x[1] \in Handles
         /\ HasEvent(n) => x[2] \in FreeIn(w) /\ x[2] \in Handles /\ x[1] # x[2]
         /\ ~HasEvent(n) => x[2] = NoHandle
<1>1. CASE HasEvent(n)
  BY <1>1, IssueFacts DEF NewFor
<1>2. CASE ~HasEvent(n)
  BY <1>2, IssueFacts DEF NewFor
<1> QED BY <1>1, <1>2

LEMMA EntryFacts ==
  /\ Unused \in Entry /\ Unused.obj = NoFile /\ ~Unused.inh
  /\ \A f \in Objects, b \in BOOLEAN : [obj |-> f, inh |-> b] \in Entry
  /\ \A f \in Files : f \in Objects
  /\ "event" \in Objects /\ NoFile \notin Objects
  /\ \A e \in Entry, b \in BOOLEAN : [e EXCEPT !.inh = b] \in Entry
  BY FdAssumption DEF Entry, Unused, Objects, Files

LEMMA NodeFacts ==
  /\ ZeroNode \in Vnode
  /\ ~ZeroNode.Access /\ ZeroNode.Handle = NoHandle /\ ZeroNode.Event = NoHandle
  /\ ZeroNode.FSType = "none" /\ ~ZeroNode.CloseExec
  BY DEF Vnode, ZeroNode

\* fcntl() on an entry.
LEMMA MarkFacts ==
  ASSUME NEW n \in Vnode, NEW c \in BOOLEAN
  PROVE  /\ [n EXCEPT !.CloseExec = c] \in Vnode
         /\ [n EXCEPT !.Access = TRUE, !.CloseExec = c] \in Vnode
  BY DEF Vnode

\* The copy of an entry with other handles.
LEMMA DupFacts ==
  ASSUME NEW w, NEW n \in Vnode, NEW c \in BOOLEAN, NEW x \in NewFor(w, n)
  PROVE  LET m == DupNode(n, c, x) IN
         /\ m \in Vnode
         /\ m.Access = n.Access /\ m.FSType = n.FSType /\ m.CloseExec = c
         /\ m.Handle = x[1]
         /\ m.Event = IF HasEvent(n) THEN x[2] ELSE n.Event
  BY NewFacts DEF DupNode, Vnode

LEMMA CloseFacts ==
  ASSUME NEW w, NEW n \in Vnode
  PROVE  /\ vfs_close(w, n) \in Vnode
         /\ vfs_close(w, n) \in {n, ZeroNode}
         /\ CloseSet(w, n) \subseteq Handles
  BY NodeFacts DEF vfs_close, CloseSet

\* fd_posix() stores at the first free entry, if there is one.
LEMMA Placing ==
  ASSUME NEW nodes \in [Fds -> Vnode], NEW n \in Vnode, NEW min \in Nat
  PROVE  \/ fd_posix(nodes, n, min) = nodes /\ EMFILE(nodes, min)
         \/ \E fd \in Fds :
              /\ fd_posix(nodes, n, min) = [nodes EXCEPT ![fd] = n]
              /\ ~EMFILE(nodes, min)
              /\ fd >= min /\ ~nodes[fd].Access
              /\ \A g \in Fds : g >= min /\ ~nodes[g].Access => fd <= g
<1> DEFINE free == {fd \in Fds : fd >= min /\ ~nodes[fd].Access}
<1>1. CASE free = {}
  <2>1. fd_posix(nodes, n, min) = [fd \in Fds |-> nodes[fd]]
    BY <1>1 DEF fd_posix
  <2> QED BY <1>1, <2>1 DEF EMFILE
<1>2. CASE free # {}
  <2>1. free \in SUBSET Nat
    BY FdFacts
  <2>2. PICK fd \in free : \A g \in free : fd <= g
    BY <1>2, <2>1, Least
  <2>3. \A g \in free : (\A h \in free : g <= h) => g = fd
    BY <2>1, <2>2
  <2>4. fd_posix(nodes, n, min) = [g \in Fds |-> IF g = fd THEN n ELSE nodes[g]]
    BY <2>2, <2>3 DEF fd_posix
  <2>5. fd_posix(nodes, n, min) = [nodes EXCEPT ![fd] = n]
    BY <2>4
  <2> QED BY <2>2, <2>5 DEF EMFILE
<1> QED BY <1>1, <1>2

LEMMA PlacingTyped ==
  ASSUME NEW nodes \in [Fds -> Vnode], NEW n \in Vnode, NEW min \in Nat
  PROVE  fd_posix(nodes, n, min) \in [Fds -> Vnode]
  BY Placing

-----------------------------------------------------------------------------
(* Handle tables *)

Tables == [Wins -> [Handles -> Entry]]

LEMMA DuplicatedTyped ==
  ASSUME ht \in Tables, NEW w \in Wins, NEW v \in Wins, NEW n \in Vnode,
         NEW x \in NewFor(v, n), NEW move \in BOOLEAN
  PROVE  Duplicated(w, v, n, move, x) \in Tables
<1> SUFFICES ASSUME NEW u \in Wins, NEW h \in Handles
             PROVE  Duplicated(w, v, n, move, x)[u][h] \in Entry
  BY DEF Tables, Duplicated
<1>1. Inheritable(n) \in BOOLEAN
  BY DEF Inheritable
<1>2. ht[u][h] \in Entry /\ (GotHandle(w, n) => ht[w][n.Handle] \in Entry)
      /\ (GotEvent(w, n) => ht[w][n.Event] \in Entry)
  BY DEF Tables, GotHandle, GotEvent, IsOpen
<1>3. LET e == Duplicated(w, v, n, move, x)[u][h] IN
      \/ e = ht[u][h] \/ e = Unused
      \/ GotHandle(w, n) /\ e = [ht[w][n.Handle] EXCEPT !.inh = Inheritable(n)]
      \/ GotEvent(w, n) /\ e = [ht[w][n.Event] EXCEPT !.inh = Inheritable(n)]
  BY DEF Duplicated
<1> QED BY <1>1, <1>2, <1>3, EntryFacts

\* DuplicateHandle() of what n names in w: the new handles in v, and in w
\* those that moved away.
LEMMA DuplicatedEffect ==
  ASSUME ht \in Tables, NEW w \in Wins, NEW v \in Wins, NEW n \in Vnode,
         NEW x \in NewFor(v, n), NEW move \in BOOLEAN,
         NEW T, T = Duplicated(w, v, n, move, x)
  PROVE  /\ T \in Tables
         /\ GotHandle(w, n) =>
              T[v][x[1]] = [ht[w][n.Handle] EXCEPT !.inh = Inheritable(n)]
         /\ GotEvent(w, n) =>
              T[v][x[2]] = [ht[w][n.Event] EXCEPT !.inh = Inheritable(n)]
         /\ \A u \in Wins, h \in Handles : T[u][h] # ht[u][h] =>
              \/ u = v /\ h \in FreeIn(v) /\ h = x[1] /\ GotHandle(w, n)
              \/ u = v /\ h \in FreeIn(v) /\ h = x[2] /\ GotEvent(w, n)
              \/ /\ u = w /\ move /\ T[u][h] = Unused
                 /\ h = n.Handle \/ (HasEvent(n) /\ h = n.Event)
         /\ w # v /\ move /\ GotHandle(w, n) => T[w][n.Handle] = Unused
<1>1. /\ x[1] \in FreeIn(v) /\ x[1] \in Handles /\ ~IsOpen(v, x[1])
      /\ GotEvent(w, n) => x[2] \in FreeIn(v) /\ x[2] \in Handles /\ x[1] # x[2]
                           /\ HasEvent(n) /\ n.Event \in Handles
                           /\ ~IsOpen(v, x[2])
      /\ GotHandle(w, n) => n.Handle \in Handles
  BY NewFacts DEF FreeIn, IsOpen, GotHandle, GotEvent
<1>2. Inheritable(n) \in BOOLEAN
  BY DEF Inheritable
<1>3. ASSUME NEW u \in Wins, NEW h \in Handles
      PROVE  T[u][h] =
        CASE u = v /\ GotHandle(w, n) /\ h = x[1] ->
               [ht[w][n.Handle] EXCEPT !.inh = Inheritable(n)]
          [] u = v /\ GotEvent(w, n) /\ h = x[2] ->
               [ht[w][n.Event] EXCEPT !.inh = Inheritable(n)]
          [] /\ u = w /\ move
             /\ \/ GotHandle(w, n) /\ h = n.Handle
                \/ GotEvent(w, n) /\ h = n.Event -> Unused
          [] OTHER -> ht[u][h]
  BY Zenon DEF Duplicated
<1>4. GotHandle(w, n) => IsOpen(w, n.Handle)
  BY DEF GotHandle
<1>5. GotEvent(w, n) => IsOpen(w, n.Event) /\ GotHandle(w, n)
  BY DEF GotEvent
<1>6. ASSUME NEW u \in Wins, NEW h \in Handles
      PROVE  \/ /\ u = v /\ GotHandle(w, n) /\ h = x[1]
                /\ T[u][h] = [ht[w][n.Handle] EXCEPT !.inh = Inheritable(n)]
             \/ /\ u = v /\ GotEvent(w, n) /\ h = x[2]
                /\ T[u][h] = [ht[w][n.Event] EXCEPT !.inh = Inheritable(n)]
             \/ /\ u = w /\ move /\ T[u][h] = Unused
                /\ \/ GotHandle(w, n) /\ h = n.Handle
                   \/ GotEvent(w, n) /\ h = n.Event
             \/ /\ T[u][h] = ht[u][h]
                /\ ~(u = w /\ move /\ GotHandle(w, n) /\ h = n.Handle)
                /\ ~(u = v /\ GotHandle(w, n) /\ h = x[1])
                /\ ~(u = v /\ GotEvent(w, n) /\ h = x[2])
  BY <1>1, <1>3
<1>8. T \in Tables
  BY DuplicatedTyped
<1>9. GotHandle(w, n) => T[v][x[1]] = [ht[w][n.Handle] EXCEPT !.inh = Inheritable(n)]
  BY <1>1, <1>4, <1>5, <1>6
<1>10. GotEvent(w, n) => T[v][x[2]] = [ht[w][n.Event] EXCEPT !.inh = Inheritable(n)]
  BY <1>1, <1>4, <1>5, <1>6
<1>11. ASSUME NEW u \in Wins, NEW h \in Handles, T[u][h] # ht[u][h]
       PROVE  \/ u = v /\ h \in FreeIn(v) /\ h = x[1] /\ GotHandle(w, n)
              \/ u = v /\ h \in FreeIn(v) /\ h = x[2] /\ GotEvent(w, n)
              \/ /\ u = w /\ move /\ T[u][h] = Unused
                 /\ h = n.Handle \/ (HasEvent(n) /\ h = n.Event)
  BY <1>1, <1>6, <1>11
<1>12. w # v /\ move /\ GotHandle(w, n) => T[w][n.Handle] = Unused
  BY <1>1, <1>6
<1> QED BY <1>8, <1>9, <1>10, <1>11, <1>12

\* CloseHandle().
LEMMA ClosedEffect ==
  ASSUME ht \in Tables, NEW w, NEW H, ht' = Closed(w, H)
  PROVE  /\ ht' \in Tables
         /\ \A u \in Wins, h \in Handles :
              ht'[u][h] = IF u = w /\ h \in H THEN Unused ELSE ht[u][h]
  BY EntryFacts DEF Tables, Closed

-----------------------------------------------------------------------------
(* Types *)

\* What the types say of the parts.
LEMMA TypedAt ==
  ASSUME Typed
  PROVE  /\ ht \in Tables /\ node \in [Tasks -> [Fds -> Vnode]]
         /\ \A t \in Tasks, fd \in Fds :
              /\ node[t][fd] \in Vnode
              /\ \A n \in Vnode : [node EXCEPT ![t][fd] = n] \in [Tasks -> [Fds -> Vnode]]
         /\ \A t \in Tasks : node[t] \in [Fds -> Vnode]
         /\ \A t \in Tasks, N \in [Fds -> Vnode] :
              [node EXCEPT ![t] = N] \in [Tasks -> [Fds -> Vnode]]
         /\ \A w \in Wins, h \in Handles :
              /\ ht[w][h] \in Entry
              /\ \A e \in Entry : [ht EXCEPT ![w][h] = e] \in Tables
         /\ \A t \in Tasks : pc[t] = "run" => win[t] \in Wins
  BY DEF Typed, TypeOK, Tables, Placed, Alive

LEMMA PlacedStays ==
  ASSUME Placed, UNCHANGED <<pc, dad, win, dst>>
  PROVE  Placed'
  BY DEF Placed, Alive

LEMMA CloseTyped ==
  ASSUME Typed, NEW t \in Tasks, NEW fd \in Fds, CloseNode(t, fd)
  PROVE  node' \in [Tasks -> [Fds -> Vnode]] /\ ht' \in Tables
<1>1. node' = [node EXCEPT ![t][fd] = vfs_close(win[t], node[t][fd])]
  BY DEF CloseNode
<1>2. ht' \in Tables
  BY TypedAt, ClosedEffect DEF CloseNode
<1> QED BY <1>1, <1>2, TypedAt, CloseFacts

\* The calls on descriptors.
LEMMA CallTyped ==
  ASSUME Typed, NEW t \in Tasks, UNCHANGED calls,
         \/ \E f \in Paths, c \in BOOLEAN : Open(t, f, c)
         \/ \E k \in Fds : OpenStd(t, k)
         \/ Pipe(t) \/ Socket(t)
         \/ \E fd, min \in Fds, c \in BOOLEAN : Dup(t, fd, c, min)
         \/ \E old, new \in Fds : Dup2(t, old, new)
         \/ \E fd \in Fds : Close(t, fd)
         \/ \E fd \in Fds, c \in BOOLEAN : SetFd(t, fd, c) \/ SetFl(t, fd, c)
  PROVE  Typed'
<1>0. /\ TypeOK /\ Placed /\ win[t] \in Wins /\ 0 \in Nat
      /\ UNCHANGED <<pc, at, dad, win, dst, main, calls>>
  <2>1. pc[t] = "run"
    BY DEF Open, OpenStd, Pipe, Socket, Dup, Dup2, Close, SetFd, SetFl
  <2>2. UNCHANGED <<pc, at, dad, win, dst, main>>
    BY DEF Open, OpenStd, Pipe, Socket, Dup, Dup2, Close, SetFd, SetFl
  <2> QED BY <2>1, <2>2, TypedAt DEF Typed
<1>1. Placed'
  BY <1>0, PlacedStays
<1>2. full' \in BOOLEAN
  BY <1>0 DEF TypeOK, Open, OpenStd, Pipe, Socket, Dup, Dup2, Close, SetFd, SetFl
<1>3. ASSUME node' \in [Tasks -> [Fds -> Vnode]], ht' \in Tables PROVE Typed'
  BY <1>0, <1>1, <1>2, <1>3 DEF Typed, TypeOK, Tables
<1> DEFINE w == win[t]
<1>4. \A h \in Single(w) : h \in Handles
  BY IssueFacts
<1>5. \A x \in Pairs(w) : x[1] \in Handles /\ x[2] \in Handles
  BY IssueFacts
<1>6. ASSUME NEW f \in Paths, NEW c \in BOOLEAN, Open(t, f, c) PROVE Typed'
  <2>1. PICK h \in Single(w) :
          /\ ht' = [ht EXCEPT ![w][h] = [obj |-> f, inh |-> FALSE]]
          /\ node' = [node EXCEPT ![t] = fd_posix(@,
               [Access |-> TRUE, Handle |-> h, Event |-> NoHandle,
                CloseExec |-> c, FSType |-> "disk"], 0)]
    BY <1>6 DEF Open
  <2>2. [Access |-> TRUE, Handle |-> h, Event |-> NoHandle,
         CloseExec |-> c, FSType |-> "disk"] \in Vnode
    BY <1>4 DEF Vnode, FSType
  <2>3. [obj |-> f, inh |-> FALSE] \in Entry
    BY EntryFacts DEF Files
  <2>4. node' \in [Tasks -> [Fds -> Vnode]]
    BY <1>0, <2>1, <2>2, TypedAt, PlacingTyped
  <2> QED BY <1>0, <1>3, <1>4, <2>1, <2>3, <2>4, TypedAt
<1>7. ASSUME NEW k \in Fds, OpenStd(t, k) PROVE Typed'
  <2>1. /\ main[w] \in Tasks /\ ht' = ht
        /\ node' = [node EXCEPT ![t] = fd_posix(@, node[main[w]][k], 0)]
    BY <1>0, <1>7 DEF OpenStd, TypeOK
  <2> QED BY <1>0, <1>3, <2>1, TypedAt, PlacingTyped
<1>8. ASSUME Pipe(t) PROVE Typed'
  <2>1. PICK x \in Pairs(w) :
          /\ ht' = [ht EXCEPT ![w][x[1]] = [obj |-> "rd", inh |-> FALSE],
                              ![w][x[2]] = [obj |-> "wr", inh |-> FALSE]]
          /\ node' = [node EXCEPT ![t] =
               fd_posix(fd_posix(node[t], PipeNode(x[1]), 0), PipeNode(x[2]), 0)]
    BY <1>8 DEF Pipe
  <2>2. PipeNode(x[1]) \in Vnode /\ PipeNode(x[2]) \in Vnode
    BY <1>5, FdAssumption DEF PipeNode, Vnode, FSType
  <2>3. [obj |-> "rd", inh |-> FALSE] \in Entry /\ [obj |-> "wr", inh |-> FALSE] \in Entry
    BY EntryFacts DEF Files
  <2>4. ht' \in Tables
    BY <1>0, <1>5, <2>1, <2>3, TypedAt DEF Tables
  <2>5. fd_posix(node[t], PipeNode(x[1]), 0) \in [Fds -> Vnode]
    BY <1>0, <2>2, TypedAt, PlacingTyped
  <2>6. fd_posix(fd_posix(node[t], PipeNode(x[1]), 0), PipeNode(x[2]), 0) \in [Fds -> Vnode]
    BY <1>0, <2>2, <2>5, PlacingTyped
  <2> QED BY <1>3, <2>1, <2>4, <2>6, TypedAt
<1>9. ASSUME Socket(t) PROVE Typed'
  <2>1. PICK x \in Pairs(w) :
          /\ ht' = [ht EXCEPT ![w][x[1]] = [obj |-> "sock", inh |-> TRUE],
                              ![w][x[2]] = [obj |-> "event", inh |-> FALSE]]
          /\ node' = [node EXCEPT ![t] = fd_posix(@,
               [Access |-> TRUE, Handle |-> x[1], Event |-> x[2],
                CloseExec |-> FALSE, FSType |-> "sock"], 0)]
    BY <1>9 DEF Socket
  <2>2. [Access |-> TRUE, Handle |-> x[1], Event |-> x[2],
         CloseExec |-> FALSE, FSType |-> "sock"] \in Vnode
    BY <1>5 DEF Vnode, FSType
  <2>3. [obj |-> "sock", inh |-> TRUE] \in Entry /\ [obj |-> "event", inh |-> FALSE] \in Entry
    BY EntryFacts DEF Files
  <2>4. ht' \in Tables
    BY <1>0, <1>5, <2>1, <2>3, TypedAt DEF Tables
  <2>5. node' \in [Tasks -> [Fds -> Vnode]]
    BY <1>0, <2>1, <2>2, TypedAt, PlacingTyped
  <2> QED BY <1>3, <2>4, <2>5
<1>10. ASSUME NEW fd \in Fds, NEW min \in Fds, NEW c \in BOOLEAN, Dup(t, fd, c, min)
       PROVE  Typed'
  <2>1. PICK x \in NewFor(w, node[t][fd]) :
          /\ ht' = Duplicated(w, w, node[t][fd], FALSE, x)
          /\ \/ node' = node
             \/ node' = [node EXCEPT ![t] = fd_posix(@, DupNode(node[t][fd], c, x), min)]
    BY <1>10 DEF Dup
  <2>2. ht' \in Tables
    BY <1>0, <2>1, TypedAt, DuplicatedTyped
  <2>3. DupNode(node[t][fd], c, x) \in Vnode /\ min \in Nat
    BY TypedAt, DupFacts, FdFacts
  <2>4. fd_posix(node[t], DupNode(node[t][fd], c, x), min) \in [Fds -> Vnode]
    BY <1>0, <2>3, TypedAt, PlacingTyped
  <2> QED BY <1>3, <2>1, <2>2, <2>4, TypedAt
<1>11. ASSUME NEW old \in Fds, NEW new \in Fds, Dup2(t, old, new) PROVE Typed'
  <2> DEFINE n == node[t][old]
  <2>1. PICK x \in NewFor(w, n) :
          \/ /\ node' = [node EXCEPT ![t][new] = DupNode(n, FALSE, x)]
             /\ ht' = [Duplicated(w, w, n, FALSE, x) EXCEPT ![w] = [h \in Handles |->
                         IF h \in CloseSet(w, node[t][new]) THEN Unused ELSE @[h]]]
          \/ /\ node' = [node EXCEPT ![t][new] = [n EXCEPT !.CloseExec = FALSE]]
             /\ ht' = Duplicated(w, w, n, FALSE, x)
    BY <1>11 DEF Dup2
  <2>2. DupNode(n, FALSE, x) \in Vnode /\ [n EXCEPT !.CloseExec = FALSE] \in Vnode
    BY TypedAt, DupFacts, MarkFacts
  <2>3. Duplicated(w, w, n, FALSE, x) \in Tables
    BY <1>0, TypedAt, DuplicatedTyped
  <2>4. ht' \in Tables
    <3> DEFINE d == Duplicated(w, w, n, FALSE, x)
               H == [h \in Handles |-> IF h \in CloseSet(w, node[t][new]) THEN Unused
                                       ELSE d[w][h]]
    <3>1. H \in [Handles -> Entry]
      BY <1>0, <2>3, EntryFacts DEF Tables
    <3>2. ht' = d \/ ht' = [d EXCEPT ![w] = H]
      BY <2>1
    <3> HIDE DEF d, H
    <3> QED BY <2>3, <3>1, <3>2 DEF Tables, d
  <2>5. node' \in [Tasks -> [Fds -> Vnode]]
    <3>1. PICK m \in Vnode : node' = [node EXCEPT ![t][new] = m]
      BY <2>1, <2>2
    <3> QED BY <3>1, TypedAt
  <2> QED BY <1>3, <2>4, <2>5
<1>12. ASSUME NEW fd \in Fds, Close(t, fd) PROVE Typed'
  BY <1>3, <1>12, TypedAt, CloseTyped DEF Close
<1>13. ASSUME NEW fd \in Fds, NEW c \in BOOLEAN, SetFd(t, fd, c) PROVE Typed'
  <2>1. node' = [node EXCEPT ![t][fd] = [node[t][fd] EXCEPT !.CloseExec = c]] /\ ht' = ht
    BY <1>13, TypedAt DEF SetFd
  <2>2. [node[t][fd] EXCEPT !.CloseExec = c] \in Vnode
    BY TypedAt, MarkFacts
  <2> QED BY <1>3, <2>1, <2>2, TypedAt
<1>14. ASSUME NEW fd \in Fds, NEW c \in BOOLEAN, SetFl(t, fd, c) PROVE Typed'
  <2>1. node' = [node EXCEPT ![t][fd] = [node[t][fd] EXCEPT !.Access = TRUE, !.CloseExec = c]]
        /\ ht' = ht
    <3>1. node' = [node EXCEPT ![t][fd].Access = TRUE, ![t][fd].CloseExec = c] /\ ht' = ht
      BY <1>14 DEF SetFl
    <3>2. PICK m : m = [node[t][fd] EXCEPT !.Access = TRUE]
      OBVIOUS
    <3>3. [node EXCEPT ![t][fd].Access = TRUE] = [node EXCEPT ![t][fd] = m]
      BY <3>2, TypedAt
    <3>4. node' = [[node EXCEPT ![t][fd] = m] EXCEPT ![t][fd].CloseExec = c]
      BY <3>1, <3>3
    <3>5. node' = [node EXCEPT ![t][fd] = [m EXCEPT !.CloseExec = c]]
      BY <3>4, TypedAt
    <3> QED BY <3>1, <3>2, <3>5
  <2>2. [node[t][fd] EXCEPT !.Access = TRUE, !.CloseExec = c] \in Vnode
    BY TypedAt, MarkFacts
  <2> QED BY <1>3, <2>1, <2>2, TypedAt
<1> QED BY <1>6, <1>7, <1>8, <1>9, <1>10, <1>11, <1>12, <1>13, <1>14

\* The steps of fork(), execve(), closefrom() and exit() on Node[].
LEMMA LoopTyped ==
  ASSUME Typed, NEW t \in Tasks, UNCHANGED calls,
         CopyChannel(t) \/ MoveChannel(t) \/ CloseNext(t)
  PROVE  Typed'
<1>0. /\ TypeOK /\ Placed /\ at[t] \in Fds /\ at[t] + 1 \in 0 .. OPEN_MAX
      /\ UNCHANGED <<pc, dad, win, dst, main, full, calls>>
      /\ at' = [at EXCEPT ![t] = @ + 1]
  <2>1. at[t] \in 0 .. OPEN_MAX /\ at[t] < OPEN_MAX
    BY DEF Typed, TypeOK, CopyChannel, MoveChannel, CloseNext
  <2> QED BY <2>1, FdFacts DEF Typed, CopyChannel, MoveChannel, CloseNext
<1>1. Placed'
  BY <1>0, PlacedStays
<1>2. ASSUME node' \in [Tasks -> [Fds -> Vnode]], ht' \in Tables PROVE Typed'
  BY <1>0, <1>1, <1>2 DEF Typed, TypeOK, Tables
<1> DEFINE k == at[t]
<1>3. CASE UNCHANGED <<node, ht>>
  BY <1>2, <1>3, TypedAt
<1>4. CASE CloseNode(t, k)
  BY <1>0, <1>2, <1>4, CloseTyped
<1>5. CASE CopyChannel(t) /\ ~UNCHANGED <<node, ht>>
  <2> DEFINE n == node[dad[t]][k]
  <2>1. PICK x \in NewFor(win[t], n) :
          /\ ht' = Duplicated(win[t], win[t], n, FALSE, x)
          /\ \/ node' = [node EXCEPT ![t][k] = DupNode(n, n.CloseExec, x)]
             \/ node' = [node EXCEPT ![t][k] = n]
    BY <1>5 DEF CopyChannel
  <2>2. n \in Vnode /\ n.CloseExec \in BOOLEAN /\ win[t] \in Wins
    BY <1>0, <1>5, TypedAt DEF Placed, Alive, CopyChannel, Vnode
  <2>3. ht' \in Tables
    BY <2>1, <2>2, TypedAt, DuplicatedTyped
  <2>4. PICK m \in Vnode : node' = [node EXCEPT ![t][k] = m]
    BY <2>1, <2>2, DupFacts
  <2> QED BY <1>0, <1>2, <2>3, <2>4, TypedAt
<1>6. CASE MoveChannel(t) /\ ~UNCHANGED <<node, ht>> /\ ~CloseNode(t, k)
  <2> DEFINE n == node[t][k]
  <2>1. PICK x \in NewFor(dst[t], n) :
          /\ ht' = Duplicated(win[t], dst[t], n, TRUE, x)
          /\ \/ node' = [node EXCEPT ![t][k] = DupNode(n, FALSE, x)]
             \/ node' = [node EXCEPT ![t][k] = n]
    BY <1>6 DEF MoveChannel
  <2>2. n \in Vnode /\ win[t] \in Wins /\ dst[t] \in Wins
    BY <1>0, <1>6, TypedAt DEF Placed, Alive, MoveChannel
  <2>3. ht' \in Tables
    BY <2>1, <2>2, TypedAt, DuplicatedTyped
  <2>4. PICK m \in Vnode : node' = [node EXCEPT ![t][k] = m]
    BY <2>1, <2>2, DupFacts
  <2> QED BY <1>0, <1>2, <2>3, <2>4, TypedAt
<1>7. CloseNext(t) => UNCHANGED <<node, ht>> \/ CloseNode(t, k)
  BY DEF CloseNext
<1> QED BY <1>3, <1>4, <1>5, <1>6, <1>7

\* A process leaves its Win32 process, or gives up its slot.
LEMMA LeaveTyped ==
  ASSUME Typed, NEW t \in Tasks, NEW v \in Wins \cup {NoWin}, Leave(t, v)
  PROVE  /\ win' \in [Tasks -> Wins \cup {NoWin}] /\ dst' \in [Tasks -> Wins \cup {NoWin}]
         /\ main' \in [Wins -> Tasks \cup {NoTask}] /\ ht' \in Tables
         /\ \A u \in Tasks : win'[u] = IF u = t THEN v ELSE win[u]
         /\ \A u \in Tasks : dst'[u] = IF u = t THEN NoWin ELSE dst[u]
<1>1. ht' \in Tables
  BY TypedAt, ClosedEffect DEF Leave
<1>2. main' \in [Wins -> Tasks \cup {NoTask}]
  <2>1. \A w \in Wins : main[w] \in Tasks \cup {NoTask}
    BY DEF Typed, TypeOK
  <2>2. main' = [w \in Wins |-> CASE w = v -> t
                               [] w # v /\ w = win[t] /\ Alone(t) -> NoTask
                               [] OTHER -> main[w]]
    BY DEF Leave
  <2>3. ASSUME NEW w \in Wins PROVE main'[w] \in Tasks \cup {NoTask}
    BY <2>1, <2>2
  <2> QED BY <2>2, <2>3
<1> QED BY <1>1, <1>2 DEF Leave, Typed, TypeOK

LEMMA DieTyped ==
  ASSUME Typed, NEW t \in Tasks, UNCHANGED calls, pc[t] \in {"run", "exit"}, Die(t)
  PROVE  Typed'
<1>0. TypeOK /\ Placed
  BY DEF Typed
<1>1. /\ win' \in [Tasks -> Wins \cup {NoWin}] /\ dst' \in [Tasks -> Wins \cup {NoWin}]
      /\ main' \in [Wins -> Tasks \cup {NoTask}] /\ ht' \in Tables
      /\ \A u \in Tasks : win'[u] = IF u = t THEN NoWin ELSE win[u]
      /\ \A u \in Tasks : dst'[u] = IF u = t THEN NoWin ELSE dst[u]
  BY LeaveTyped DEF Die
<1>2. [fd \in Fds |-> ZeroNode] \in [Fds -> Vnode]
  BY NodeFacts
<1>3. TypeOK'
  BY <1>0, <1>1, <1>2, FdFacts, TypedAt DEF Die, TypeOK, PC, Tables
<1>4. Placed'
  BY <1>0, <1>1, FdAssumption DEF Die, TypeOK, Placed, Alive
<1> QED BY <1>3, <1>4 DEF Typed

LEMMA TurnTyped ==
  ASSUME Typed, NEW t \in Tasks, UNCHANGED calls,
         \/ Fork(t) \/ ForkDone(t) \/ Exec(t) \/ ExecDone(t) \/ Exit(t)
         \/ \E fd \in Fds : CloseFrom(t, fd)
         \/ CloseDone(t)
  PROVE  Typed'
<1>0. TypeOK /\ Placed
  BY DEF Typed
<1>1. CASE Fork(t)
  <2>1. PICK c \in Tasks :
          /\ pc[t] = "run" /\ pc[c] = "none"
          /\ pc' = [pc EXCEPT ![t] = "fork", ![c] = "child"]
          /\ at' = [at EXCEPT ![c] = 0]
          /\ dad' = [dad EXCEPT ![c] = t]
          /\ win' = [win EXCEPT ![c] = win[t]]
          /\ UNCHANGED <<dst, main, node, ht, full, calls>>
    BY <1>1 DEF Fork
  <2>2. TypeOK'
    BY <1>0, <2>1, FdFacts DEF TypeOK, PC
  <2>3. Placed'
    BY <1>0, <2>1, FdAssumption DEF TypeOK, PC, Placed, Alive
  <2> QED BY <2>2, <2>3 DEF Typed
<1>2. CASE ForkDone(t)
  <2>1. dad[t] \in Tasks /\ pc[dad[t]] = "fork"
    BY <1>0, <1>2 DEF Placed, ForkDone
  <2>2. TypeOK'
    BY <1>0, <1>2, <2>1, FdFacts DEF TypeOK, PC, ForkDone
  <2>3. Placed'
    BY <1>0, <1>2, <2>1, FdAssumption DEF TypeOK, PC, Placed, Alive, ForkDone
  <2> QED BY <2>2, <2>3 DEF Typed
<1>3. CASE Exec(t)
  <2>1. PICK v \in Wins \ Used :
          /\ dst' = [dst EXCEPT ![t] = v]
          /\ ht' = [ht EXCEPT ![v] = [h \in Handles |->
                   CASE h = PipeEvent -> [obj |-> "event", inh |-> FALSE]
                     [] h # PipeEvent /\ ht[win[t]][h].inh -> ht[win[t]][h]
                     [] OTHER -> Unused]]
    BY <1>3 DEF Exec
  <2>2. /\ pc[t] = "run" /\ pc' = [pc EXCEPT ![t] = "exec"] /\ at' = [at EXCEPT ![t] = 0]
        /\ UNCHANGED <<dad, win, main, node, full, calls>>
    BY <1>3 DEF Exec
  <2>3. \A h \in Handles : ht[win[t]][h] \in Entry
    BY <2>2, TypedAt
  <2>4. ht' \in Tables
    <3> DEFINE H == [h \in Handles |->
                   CASE h = PipeEvent -> [obj |-> "event", inh |-> FALSE]
                     [] h # PipeEvent /\ ht[win[t]][h].inh -> ht[win[t]][h]
                     [] OTHER -> Unused]
    <3>1. H \in [Handles -> Entry]
      BY <2>3, EntryFacts
    <3>2. ht' = [ht EXCEPT ![v] = H]
      BY <2>1
    <3> HIDE DEF H
    <3> QED BY <3>1, <3>2, TypedAt DEF Tables
  <2>5. TypeOK'
    BY <1>0, <2>1, <2>2, <2>4, FdFacts DEF TypeOK, PC, Tables
  <2>6. Placed'
    BY <1>0, <2>1, <2>2, FdAssumption DEF TypeOK, PC, Placed, Alive, Used
  <2> QED BY <2>5, <2>6 DEF Typed
<1>4. CASE ExecDone(t)
  <2>1. /\ pc[t] = "exec" /\ dst[t] \in Wins
        /\ pc' = [pc EXCEPT ![t] = "run"] /\ at' = [at EXCEPT ![t] = 0]
        /\ UNCHANGED <<dad, node, full, calls>> /\ Leave(t, dst[t])
    BY <1>0, <1>4 DEF ExecDone, Placed
  <2>2. /\ win' \in [Tasks -> Wins \cup {NoWin}] /\ dst' \in [Tasks -> Wins \cup {NoWin}]
        /\ main' \in [Wins -> Tasks \cup {NoTask}] /\ ht' \in Tables
        /\ \A u \in Tasks : win'[u] = IF u = t THEN dst[t] ELSE win[u]
        /\ \A u \in Tasks : dst'[u] = IF u = t THEN NoWin ELSE dst[u]
    BY <2>1, LeaveTyped
  <2>3. TypeOK'
    BY <1>0, <2>1, <2>2, FdFacts DEF TypeOK, PC, Tables
  <2>4. Placed'
    BY <1>0, <2>1, <2>2, FdAssumption DEF TypeOK, PC, Placed, Alive
  <2> QED BY <2>3, <2>4 DEF Typed
<1>5. CASE /\ pc[t] = "run" /\ at' \in [Tasks -> 0 .. OPEN_MAX]
           /\ \E s \in {"exit", "closing"} : pc' = [pc EXCEPT ![t] = s]
           /\ UNCHANGED <<dad, win, dst, main, node, ht, full, calls>>
  <2>1. TypeOK'
    BY <1>0, <1>5 DEF TypeOK, PC
  <2>2. Placed'
    BY <1>0, <1>5 DEF TypeOK, Placed, Alive
  <2> QED BY <2>1, <2>2 DEF Typed
<1>6. CASE /\ pc[t] = "closing" /\ pc' = [pc EXCEPT ![t] = "run"]
           /\ at' = [at EXCEPT ![t] = 0]
           /\ UNCHANGED <<dad, win, dst, main, node, ht, full, calls>>
  <2>1. TypeOK'
    BY <1>0, <1>6, FdFacts DEF TypeOK, PC
  <2>2. Placed'
    BY <1>0, <1>6 DEF TypeOK, Placed, Alive
  <2> QED BY <2>1, <2>2 DEF Typed
<1>7. CASE Exit(t)
  <2>1. pc[t] = "run"
    BY <1>7 DEF Exit
  <2>2. \/ Die(t)
        \/ /\ pc' = [pc EXCEPT ![t] = "exit"] /\ at' = [at EXCEPT ![t] = 0]
           /\ UNCHANGED <<dad, win, dst, main, node, ht, full, calls>>
    BY <1>7 DEF Exit
  <2>3. [at EXCEPT ![t] = 0] \in [Tasks -> 0 .. OPEN_MAX]
    BY <1>0, FdFacts DEF TypeOK
  <2> QED BY <1>5, <2>1, <2>2, <2>3, DieTyped
<1>8. ASSUME NEW fd \in Fds, CloseFrom(t, fd) PROVE Typed'
  <2>1. [at EXCEPT ![t] = fd] \in [Tasks -> 0 .. OPEN_MAX]
    BY <1>0, FdFacts DEF TypeOK
  <2> QED BY <1>5, <1>8, <2>1 DEF CloseFrom
<1>9. CASE CloseDone(t)
  BY <1>6, <1>9, DieTyped DEF CloseDone
<1> QED BY <1>1, <1>2, <1>3, <1>4, <1>7, <1>8, <1>9

LEMMA TypedStep == Typed /\ [Next]_vars => Typed'
<1> SUFFICES ASSUME Typed, [Next]_vars PROVE Typed'
  OBVIOUS
<1>1. CASE UNCHANGED vars
  BY <1>1 DEF vars, Typed, TypeOK, Placed, Alive
<1>2. CASE Next
  BY <1>2, CallTyped, LoopTyped, TurnTyped DEF Next, Step
<1> QED BY <1>1, <1>2

LEMMA TypedInit == Init => Typed
<1> SUFFICES ASSUME Init PROVE Typed
  OBVIOUS
<1>1. TypeOK
  <2>1. [obj |-> "event", inh |-> FALSE] \in Entry
    BY EntryFacts
  <2>2. /\ pc \in [Tasks -> PC] /\ at \in [Tasks -> 0 .. OPEN_MAX]
        /\ dad \in [Tasks -> Tasks \cup {NoTask}]
        /\ win \in [Tasks -> Wins \cup {NoWin}] /\ dst \in [Tasks -> Wins \cup {NoWin}]
        /\ main \in [Wins -> Tasks \cup {NoTask}]
    BY FdFacts DEF Init, PC
  <2>3. node \in [Tasks -> [Fds -> Vnode]]
    BY NodeFacts DEF Init
  <2>4. ht \in [Wins -> [Handles -> Entry]]
    BY <2>1, EntryFacts DEF Init
  <2> QED BY <2>2, <2>3, <2>4 DEF TypeOK, Init
<1>2. Placed
  BY FdAssumption DEF Init, Placed, Alive
<1> QED BY <1>1, <1>2 DEF Typed

\* Every variable keeps its type, whatever programs call: Node[] holds entries,
\* and loops over it stay inside (fd_posix, __closefrom, ProcDupChannels).
THEOREM TypeCorrect == Spec => []TypeOK
<1>1. Typed => TypeOK
  BY DEF Typed
<1> QED BY <1>1, TypedInit, TypedStep, PTL DEF Spec

-----------------------------------------------------------------------------
(* The two tests for a free entry *)

Agrees(n) == n.Access <=> n.Handle # NoHandle
Agreed == Typed /\ \A t \in Tasks, fd \in Fds : Agrees(node[t][fd])

LEMMA AgreedSet ==
  ASSUME Agreed, Typed', NEW t \in Tasks, NEW fd \in Fds, NEW m \in Vnode, Agrees(m),
         node' = [node EXCEPT ![t][fd] = m]
  PROVE  Agreed'
<1>1. \A u \in Tasks, g \in Fds :
        node'[u][g] = IF u = t /\ g = fd THEN m ELSE node[u][g]
  BY TypedAt DEF Agreed
<1> QED BY <1>1 DEF Agreed, Agrees

LEMMA AgreedGet ==
  ASSUME Agreed, Typed', NEW t \in Tasks, NEW min \in Nat, NEW m \in Vnode, Agrees(m),
         node' = [node EXCEPT ![t] = fd_posix(@, m, min)]
  PROVE  Agreed'
<1>1. CASE fd_posix(node[t], m, min) = node[t]
  <2>1. node' = node
    BY <1>1, TypedAt DEF Agreed
  <2> QED BY <2>1 DEF Agreed
<1>2. CASE \E fd \in Fds : fd_posix(node[t], m, min) = [node[t] EXCEPT ![fd] = m]
  <2>1. PICK fd \in Fds : node' = [node EXCEPT ![t][fd] = m]
    BY <1>2, TypedAt DEF Agreed
  <2> QED BY <2>1, AgreedSet
<1>3. node[t] \in [Fds -> Vnode]
  BY TypedAt DEF Agreed
<1> QED BY <1>1, <1>2, <1>3, Placing

\* The entry vfs_close() leaves.
LEMMA AgreedClose ==
  ASSUME Agreed, Typed', NEW t \in Tasks, NEW fd \in Fds, CloseNode(t, fd)
  PROVE  Agreed'
<1>1. PICK m : m = vfs_close(win[t], node[t][fd])
  OBVIOUS
<1>2. node' = [node EXCEPT ![t][fd] = m]
  BY <1>1 DEF CloseNode
<1>3. m \in Vnode /\ Agrees(m)
  BY <1>1, TypedAt, CloseFacts, NodeFacts DEF Agreed, Agrees
<1> QED BY <1>2, <1>3, AgreedSet

LEMMA AgreedDup ==
  ASSUME NEW w, NEW n \in Vnode, NEW c \in BOOLEAN, NEW x \in NewFor(w, n), n.Access
  PROVE  DupNode(n, c, x) \in Vnode /\ Agrees(DupNode(n, c, x))
  BY DupFacts, NewFacts, FdAssumption DEF Agrees

\* What fcntl() stores.
LEMMA SetEffect ==
  ASSUME Typed, NEW t \in Tasks, NEW fd \in Fds, NEW c \in BOOLEAN,
         ~SetClosed, SetFd(t, fd, c) \/ SetFl(t, fd, c)
  PROVE  /\ node[t][fd].Access /\ ht' = ht
         /\ \E m \in Vnode :
              /\ node' = [node EXCEPT ![t][fd] = m]
              /\ m.Access /\ m.CloseExec = c /\ m.Handle = node[t][fd].Handle
              /\ m.Event = node[t][fd].Event /\ m.FSType = node[t][fd].FSType
<1>1. node[t][fd].Access /\ ht' = ht
  BY DEF SetFd, SetFl
<1>2. PICK n \in Vnode : n = node[t][fd]
  BY TypedAt
<1>3. PICK m : m = [n EXCEPT !.CloseExec = c]
  OBVIOUS
<1>4. /\ m \in Vnode /\ m.Access /\ m.CloseExec = c /\ m.Handle = n.Handle
      /\ m.Event = n.Event /\ m.FSType = n.FSType
  BY <1>1, <1>2, <1>3 DEF Vnode
<1>5. n = [n EXCEPT !.Access = TRUE]
  BY <1>1, <1>2 DEF Vnode
<1>6. node' = [node EXCEPT ![t][fd] = m]
  <2>1. CASE SetFd(t, fd, c)
    BY <1>2, <1>3, <2>1, TypedAt DEF SetFd
  <2>2. CASE SetFl(t, fd, c)
    <3>1. node' = [node EXCEPT ![t][fd].Access = TRUE, ![t][fd].CloseExec = c]
      BY <2>2 DEF SetFl
    <3>2. [node EXCEPT ![t][fd].Access = TRUE] = node
      <4>1. [node EXCEPT ![t][fd].Access = TRUE] = [node EXCEPT ![t][fd] = n]
        BY <1>2, <1>5, TypedAt
      <4> QED BY <1>2, <4>1, TypedAt
    <3>3. node' = [node EXCEPT ![t][fd].CloseExec = c]
      BY <3>1, <3>2
    <3> QED BY <1>2, <1>3, <3>3, TypedAt
  <2> QED BY <2>1, <2>2
<1> QED BY <1>1, <1>2, <1>4, <1>6

LEMMA AgreedStep ==
  ASSUME ~SetClosed, Agreed, [Next]_vars
  PROVE  Agreed'
<1>0. Typed /\ Typed' /\ 0 \in Nat
  BY TypedStep DEF Agreed
<1>1. CASE node' = node
  BY <1>0, <1>1 DEF Agreed
<1> SUFFICES ASSUME NEW t \in Tasks, node' # node,
                    \/ \E f \in Paths, c \in BOOLEAN : Open(t, f, c)
                    \/ \E k \in Fds : OpenStd(t, k)
                    \/ Pipe(t) \/ Socket(t)
                    \/ \E fd, min \in Fds, c \in BOOLEAN : Dup(t, fd, c, min)
                    \/ \E old, new \in Fds : Dup2(t, old, new)
                    \/ \E fd \in Fds : Close(t, fd)
                    \/ \E fd \in Fds, c \in BOOLEAN : SetFd(t, fd, c) \/ SetFl(t, fd, c)
                    \/ CopyChannel(t) \/ MoveChannel(t) \/ CloseNext(t)
                    \/ pc[t] \in {"run", "exit"} /\ Die(t)
             PROVE  Agreed'
  <2>1. \/ UNCHANGED vars
        \/ \E t \in Tasks :
             \/ \E f \in Paths, c \in BOOLEAN : Open(t, f, c)
             \/ \E k \in Fds : OpenStd(t, k)
             \/ Pipe(t) \/ Socket(t)
             \/ \E fd, min \in Fds, c \in BOOLEAN : Dup(t, fd, c, min)
             \/ \E old, new \in Fds : Dup2(t, old, new)
             \/ \E fd \in Fds : Close(t, fd)
             \/ \E fd \in Fds, c \in BOOLEAN : SetFd(t, fd, c) \/ SetFl(t, fd, c)
             \/ CopyChannel(t) \/ MoveChannel(t) \/ CloseNext(t)
             \/ Exit(t) \/ CloseDone(t)
             \/ Fork(t) \/ ForkDone(t) \/ Exec(t) \/ ExecDone(t)
             \/ \E fd \in Fds : CloseFrom(t, fd)
    BY DEF Next, Step
  <2>2. ASSUME NEW t \in Tasks,
               \/ Fork(t) \/ ForkDone(t) \/ Exec(t) \/ ExecDone(t)
               \/ \E fd \in Fds : CloseFrom(t, fd)
        PROVE  node' = node
    BY <2>2 DEF Fork, ForkDone, Exec, ExecDone, CloseFrom
  <2>3. ASSUME NEW t \in Tasks, Exit(t) \/ CloseDone(t)
        PROVE  node' = node \/ (pc[t] \in {"run", "exit"} /\ Die(t))
    BY <2>3 DEF Exit, CloseDone
  <2>4. UNCHANGED vars => node' = node
    BY DEF vars
  <2> QED BY <1>1, <2>1, <2>2, <2>3, <2>4
<1> DEFINE w == win[t]
<1>2. ASSUME NEW fd \in Fds
      PROVE  node[t][fd] \in Vnode /\ Agrees(node[t][fd])
  BY <1>0, TypedAt DEF Agreed
<1>3. ASSUME NEW m \in Vnode, Agrees(m),
             node' = [node EXCEPT ![t] = fd_posix(@, m, 0)]
      PROVE  Agreed'
  BY <1>0, <1>3, AgreedGet
<1>4. \A h \in FreeIn(w) : h \in Handles /\ h # NoHandle
  BY IssueFacts, FdAssumption
<1>5. ASSUME NEW f \in Paths, NEW c \in BOOLEAN, Open(t, f, c) PROVE Agreed'
  <2>1. PICK h \in Single(w) : node' = [node EXCEPT ![t] = fd_posix(@,
               [Access |-> TRUE, Handle |-> h, Event |-> NoHandle,
                CloseExec |-> c, FSType |-> "disk"], 0)]
    BY <1>5 DEF Open
  <2>2. PICK m : m = [Access |-> TRUE, Handle |-> h, Event |-> NoHandle,
                      CloseExec |-> c, FSType |-> "disk"]
    OBVIOUS
  <2>3. h \in Handles /\ h # NoHandle
    BY <1>4, IssueFacts
  <2>4. m \in Vnode /\ Agrees(m)
    BY <2>2, <2>3 DEF Vnode, Agrees, FSType
  <2> QED BY <1>3, <2>1, <2>2, <2>4
<1>6. ASSUME NEW k \in Fds, OpenStd(t, k) PROVE Agreed'
  <2>1. pc[t] = "run" /\ main[w] # NoTask
        /\ node' = [node EXCEPT ![t] = fd_posix(@, node[main[w]][k], 0)]
    BY <1>6 DEF OpenStd
  <2>2. main[w] \in Tasks
    BY <1>0, <2>1, TypedAt DEF Typed, TypeOK
  <2>3. PICK m \in Vnode : m = node[main[w]][k] /\ Agrees(m)
    BY <1>0, <2>2, TypedAt DEF Agreed
  <2> QED BY <1>3, <2>1, <2>3
<1>7. CASE Pipe(t)
  <2>1. PICK x \in Pairs(w) :
          node' = [node EXCEPT ![t] =
               fd_posix(fd_posix(node[t], PipeNode(x[1]), 0), PipeNode(x[2]), 0)]
    BY <1>7 DEF Pipe
  <2>2. PICK m1, m2 : m1 = PipeNode(x[1]) /\ m2 = PipeNode(x[2])
    OBVIOUS
  <2>3. m1 \in Vnode /\ m2 \in Vnode /\ Agrees(m1) /\ Agrees(m2)
    BY <1>4, <2>2, IssueFacts, FdAssumption DEF PipeNode, Vnode, FSType, Agrees
  <2>4. ASSUME NEW nodes \in [Fds -> Vnode], \A g \in Fds : Agrees(nodes[g]),
               NEW m \in Vnode, Agrees(m)
        PROVE  /\ fd_posix(nodes, m, 0) \in [Fds -> Vnode]
               /\ \A g \in Fds : Agrees(fd_posix(nodes, m, 0)[g])
    <3>1. \/ fd_posix(nodes, m, 0) = nodes
          \/ \E fd \in Fds : fd_posix(nodes, m, 0) = [nodes EXCEPT ![fd] = m]
      BY <1>0, <2>4, Placing
    <3> QED BY <2>4, <3>1
  <2>5. PICK one : one = fd_posix(node[t], m1, 0)
    OBVIOUS
  <2>6. one \in [Fds -> Vnode] /\ \A g \in Fds : Agrees(one[g])
    BY <1>0, <1>2, <2>3, <2>4, <2>5, TypedAt
  <2>7. PICK two : two = fd_posix(one, m2, 0)
    OBVIOUS
  <2>8. two \in [Fds -> Vnode] /\ \A g \in Fds : Agrees(two[g])
    BY <2>3, <2>4, <2>6, <2>7
  <2>9. node' = [node EXCEPT ![t] = two]
    BY <2>1, <2>2, <2>5, <2>7
  <2>10. \A u \in Tasks : node'[u] = IF u = t THEN two ELSE node[u]
    BY <1>0, <2>9, TypedAt
  <2> QED BY <1>0, <2>8, <2>10 DEF Agreed
<1>8. CASE Socket(t)
  <2>1. PICK x \in Pairs(w) : node' = [node EXCEPT ![t] = fd_posix(@,
               [Access |-> TRUE, Handle |-> x[1], Event |-> x[2],
                CloseExec |-> FALSE, FSType |-> "sock"], 0)]
    BY <1>8 DEF Socket
  <2>2. PICK m : m = [Access |-> TRUE, Handle |-> x[1], Event |-> x[2],
                      CloseExec |-> FALSE, FSType |-> "sock"]
    OBVIOUS
  <2>3. x[1] \in Handles /\ x[1] # NoHandle /\ x[2] \in Handles
    BY <1>4, IssueFacts
  <2>4. m \in Vnode /\ Agrees(m)
    BY <2>2, <2>3 DEF Vnode, Agrees, FSType
  <2> QED BY <1>3, <2>1, <2>2, <2>4
<1>9. ASSUME NEW fd \in Fds, NEW min \in Fds, NEW c \in BOOLEAN, Dup(t, fd, c, min)
      PROVE  Agreed'
  <2>1. node[t][fd].Access
    BY <1>2, <1>9, FdAssumption DEF Dup, GotHandle, IsOpen, Agrees
  <2>2. PICK x \in NewFor(w, node[t][fd]) :
          node' = [node EXCEPT ![t] = fd_posix(@, DupNode(node[t][fd], c, x), min)]
    BY <1>9 DEF Dup
  <2>3. PICK m : m = DupNode(node[t][fd], c, x)
    OBVIOUS
  <2>4. m \in Vnode /\ Agrees(m)
    BY <1>2, <2>1, <2>3, AgreedDup
  <2> QED BY <1>0, <2>2, <2>3, <2>4, AgreedGet, FdFacts
<1>10. ASSUME NEW old \in Fds, NEW new \in Fds, Dup2(t, old, new) PROVE Agreed'
  <2>1. node[t][old].Access
    BY <1>2, <1>10 DEF Dup2, Agrees
  <2>2. PICK x \in NewFor(w, node[t][old]) :
          \/ node' = [node EXCEPT ![t][new] = DupNode(node[t][old], FALSE, x)]
          \/ node' = [node EXCEPT ![t][new] = [node[t][old] EXCEPT !.CloseExec = FALSE]]
    BY <1>10 DEF Dup2
  <2>3. PICK m : /\ node' = [node EXCEPT ![t][new] = m]
                 /\ \/ m = DupNode(node[t][old], FALSE, x)
                    \/ m = [node[t][old] EXCEPT !.CloseExec = FALSE]
    BY <2>2
  <2>4. m \in Vnode /\ Agrees(m)
    <3>1. PICK n \in Vnode : n = node[t][old] /\ n.Access /\ Agrees(n)
      BY <1>2, <2>1
    <3>2. DupNode(n, FALSE, x) \in Vnode /\ Agrees(DupNode(n, FALSE, x))
      BY <3>1, AgreedDup
    <3>3. [n EXCEPT !.CloseExec = FALSE] \in Vnode /\ Agrees([n EXCEPT !.CloseExec = FALSE])
      BY <3>1 DEF Agrees, Vnode
    <3> QED BY <2>3, <3>1, <3>2, <3>3
  <2> QED BY <1>0, <2>3, <2>4, AgreedSet
<1>11. ASSUME NEW fd \in Fds, Close(t, fd) PROVE Agreed'
  BY <1>0, <1>11, AgreedClose DEF Close
<1>12. ASSUME NEW fd \in Fds, NEW c \in BOOLEAN, SetFd(t, fd, c) \/ SetFl(t, fd, c)
       PROVE  Agreed'
  <2>1. PICK m \in Vnode : /\ node' = [node EXCEPT ![t][fd] = m] /\ Agrees(m)
    BY <1>0, <1>2, <1>12, SetEffect DEF Agrees
  <2> QED BY <1>0, <2>1, AgreedSet
<1>13. CASE CopyChannel(t)
  <2> DEFINE k == at[t]
             n == node[dad[t]][k]
  <2>1. k \in Fds /\ dad[t] \in Tasks
    BY <1>0, <1>13, FdFacts DEF CopyChannel, Typed, TypeOK, Placed
  <2>2. n \in Vnode /\ Agrees(n) /\ n.Access
    BY <1>0, <1>13, <2>1, TypedAt DEF CopyChannel, Agreed
  <2>3. PICK x \in NewFor(w, n) : node' = [node EXCEPT ![t][k] =
                        IF DupOK(w, n) THEN DupNode(n, n.CloseExec, x) ELSE n]
    BY <1>13 DEF CopyChannel
  <2>4. PICK m : /\ node' = [node EXCEPT ![t][k] = m]
                 /\ m = DupNode(n, n.CloseExec, x) \/ m = n
    BY <2>3
  <2>5. n.CloseExec \in BOOLEAN
    BY <2>2 DEF Vnode
  <2>6. m \in Vnode /\ Agrees(m)
    BY <2>2, <2>4, <2>5, AgreedDup
  <2> QED BY <1>0, <2>1, <2>4, <2>6, AgreedSet
<1>14. CASE MoveChannel(t)
  <2> DEFINE k == at[t]
             n == node[t][k]
  <2>1. k \in Fds
    BY <1>0, <1>14, FdFacts DEF MoveChannel, Typed, TypeOK
  <2>2. CASE CloseNode(t, k)
    BY <1>0, <2>1, <2>2, AgreedClose
  <2>3. CASE n.Access /\ \E x \in NewFor(dst[t], n) : node' = [node EXCEPT ![t][k] =
                        IF DupOK(w, n) THEN DupNode(n, FALSE, x) ELSE n]
    <3>1. PICK x \in NewFor(dst[t], n) : node' = [node EXCEPT ![t][k] =
                        IF DupOK(w, n) THEN DupNode(n, FALSE, x) ELSE n]
      BY <2>3
    <3>2. PICK m : /\ node' = [node EXCEPT ![t][k] = m]
                   /\ m = DupNode(n, FALSE, x) \/ m = n
      BY <3>1
    <3>3. n \in Vnode /\ Agrees(n) /\ n.Access
      BY <1>2, <2>1, <2>3
    <3>4. DupNode(n, FALSE, x) \in Vnode /\ Agrees(DupNode(n, FALSE, x))
      BY <3>3, AgreedDup
    <3>5. m \in Vnode /\ Agrees(m)
      BY <3>2, <3>3, <3>4
    <3> QED BY <1>0, <2>1, <3>2, <3>5, AgreedSet
  <2> QED BY <1>14, <2>2, <2>3 DEF MoveChannel
<1>15. CASE CloseNext(t)
  <2>1. at[t] \in Fds
    BY <1>0, <1>15, FdFacts DEF CloseNext, Typed, TypeOK
  <2> QED BY <1>0, <1>15, <2>1, AgreedClose DEF CloseNext
<1>16. CASE Die(t)
  <2>1. \A u \in Tasks, fd \in Fds :
          node'[u][fd] = IF u = t THEN ZeroNode ELSE node[u][fd]
    BY <1>0, <1>16, TypedAt DEF Die
  <2> QED BY <1>0, <2>1, NodeFacts DEF Agreed, Agrees
<1> QED BY <1>5, <1>6, <1>7, <1>8, <1>9, <1>10, <1>11, <1>12, <1>13, <1>14, <1>15, <1>16

\* Access and Handle tell the same entries free, as long as programs do not call
\* fcntl() of descriptors that are not open: open(), fork() and execve() go by
\* the one, dup2() and close() by the other (vfs_F_SETFL).
THEOREM FreeAgreed == ASSUME ~SetClosed PROVE Spec => []InUse
<1>1. Init => Agreed
  <2>1. Init => \A t \in Tasks, fd \in Fds : node[t][fd] = ZeroNode
    BY DEF Init
  <2> QED BY <2>1, TypedInit, NodeFacts DEF Agreed, Agrees
<1>2. Agreed /\ [Next]_vars => Agreed'
  BY AgreedStep
<1>3. Agreed => InUse
  BY DEF Agreed, Agrees, InUse
<1> QED BY <1>1, <1>2, <1>3, PTL DEF Spec

-----------------------------------------------------------------------------
(* The invariant *)

\* Programs that do not open /dev/stdin and its like, and none of those that
\* FdPipeExec, FdSocketExec and FdPhantom are about.
Supported == /\ ~RawPipes /\ ~SetClosed
             /\ \A m \in Menus : ~({"socket", "exec"} \subseteq m)

\* An entry in use.
Shaped(n) == /\ n.FSType # "none" /\ n.Handle # PipeEvent
             /\ ~HasEvent(n) => n.Event = NoHandle
             /\ n.FSType = "sock" => n.Event # PipeEvent /\ "socket" \in calls

Nodes ==
  \A t \in Tasks, fd \in Fds : node[t][fd].Access =>
    /\ Alive(t) /\ Shaped(node[t][fd])
    /\ pc[t] = "exec" => node[t][fd].Event # PipeEvent

\* The handle tables of processes that exist, and of those that do not.
Clean ==
  \A w \in Wins :
    /\ w \in Used => ht[w][PipeEvent].obj = "event"
    /\ \A h \in Handles : /\ w \notin Used => ht[w][h] = Unused
                          /\ ht[w][h].inh => "socket" \in calls

Good == Agreed /\ "std" \notin calls /\ Nodes /\ Clean /\ Usable /\ Isolated /\ Referenced

\* What a descriptor means is not changed by a step.
Same(u, fd) ==
  /\ node[u][fd].Access /\ node'[u][fd].Access
  /\ node'[u][fd].Handle = node[u][fd].Handle
  /\ node'[u][fd].Event = node[u][fd].Event
  /\ node'[u][fd].FSType = node[u][fd].FSType
  /\ Where(u, fd)' = Where(u, fd)

\* The step closes the handle of a descriptor, or gives it new ones.
Closes(u, fd) == ht'[Where(u, fd)][node[u][fd].Handle] = Unused
Fresh(u, fd) ==
  LET m == node'[u][fd]
      w == Where(u, fd)'
  IN
  /\ w \in Wins /\ m.Handle \in FreeIn(w) /\ ht'[w][m.Handle].obj \in Files
  /\ m.Event \in FreeIn(w) \cup {NoHandle, PipeEvent}
  /\ HasEvent(m) => m.Event \in Handles /\ ht'[w][m.Event].obj = "event"
  /\ Shaped(m)

\* The effect of a step on what descriptors mean, when those of t at S are lost
\* or new and the others stay.
Change(t, S) ==
  /\ \A u \in Tasks, fd \in Fds :
       node'[u][fd].Access => IF u = t /\ fd \in S THEN Fresh(u, fd) ELSE Same(u, fd)
  /\ \A u \in Tasks, fd \in Fds :
       node[u][fd].Access => Same(u, fd) \/ Closes(u, fd)
  /\ \A fd, g \in S :
       fd # g /\ node'[t][fd].Access /\ node'[t][g].Access
         => HandlesOf(<<t, fd>>)' \cap HandlesOf(<<t, g>>)' = {}
  /\ \A w \in Wins, h \in Handles : ht'[w][h] # ht[w][h] =>
       \/ h \in FreeIn(w)
       \/ \E fd \in S : /\ node[t][fd].Access /\ w = Where(t, fd)
                        /\ h \in HandlesOf(<<t, fd>>)
       \/ \A u \in Tasks, fd \in Fds : node'[u][fd].Access => Where(u, fd)' # w
  /\ \A w \in Wins, h \in Handles :
       ht'[w][h] # ht[w][h] /\ ht'[w][h].obj \in Files =>
         full' \/ \E fd \in S : /\ node'[t][fd].Access /\ w = Where(t, fd)'
                                /\ h = node'[t][fd].Handle
  /\ full => full'

LEMMA ObjectFacts ==
  /\ NoFile \notin Files /\ "event" \notin Files /\ "event" # NoFile
  /\ \A w, h : h \in Handles /\ ht[w][h].obj \in Files => IsOpen(w, h)
  /\ \A w, h : h \in Handles /\ ht[w][h].obj = "event" => IsOpen(w, h)
  /\ \A w, h : h \in Handles /\ ht'[w][h].obj \in Files => IsOpen(w, h)'
  /\ \A w, h : h \in Handles /\ ht'[w][h].obj = "event" => IsOpen(w, h)'
  /\ \A w, h : h \in FreeIn(w) => h \in Handles /\ ~IsOpen(w, h) /\ h # PipeEvent
  BY FdAssumption, EntryFacts DEF Files, IsOpen, FreeIn, Unused

\* The descriptors of the properties, one by one.
LEMMA GoodAt ==
  ASSUME Good, NEW t \in Tasks, NEW fd \in Fds, node[t][fd].Access
  PROVE  LET n == node[t][fd]
             w == Where(t, fd)
         IN
         /\ Alive(t) /\ Shaped(n) /\ w \in Wins /\ w \in Used
         /\ n.Handle \in Handles /\ n.Handle # NoHandle
         /\ IsOpen(w, n.Handle) /\ ht[w][n.Handle].obj \in Files
         /\ n.Handle \in HandlesOf(<<t, fd>>)
         /\ HasEvent(n) => /\ IsOpen(w, n.Event) /\ ht[w][n.Event].obj = "event"
                           /\ n.Event \in Handles
         /\ \A h \in HandlesOf(<<t, fd>>) : h \in {n.Handle, n.Event} /\ IsOpen(w, h)
         /\ \A u \in Tasks, g \in Fds :
              node[u][g].Access /\ <<u, g>> # <<t, fd>> /\ Where(u, g) = w
                => HandlesOf(<<t, fd>>) \cap HandlesOf(<<u, g>>) = {}
<1>1. Alive(t) /\ Shaped(node[t][fd])
  BY DEF Good, Nodes
<1>2. Where(t, fd) \in Wins /\ Where(t, fd) \in Used
  BY <1>1 DEF Good, Agreed, Typed, Placed, Where, Used
<1>3. \A u \in Tasks, g \in Fds : node[u][g].Access => <<u, g>> \in Descriptors
  BY DEF Good, Nodes, Descriptors
<1>4. /\ IsOpen(Where(t, fd), node[t][fd].Handle)
      /\ ht[Where(t, fd)][node[t][fd].Handle].obj \in Files
      /\ HasEvent(node[t][fd]) => /\ IsOpen(Where(t, fd), node[t][fd].Event)
                                  /\ ht[Where(t, fd)][node[t][fd].Event].obj = "event"
  BY <1>3 DEF Good, Usable
<1>5. node[t][fd].Handle \in Handles /\ node[t][fd].Handle # NoHandle
  BY <1>4, FdAssumption DEF IsOpen
<1>6. \A u \in Tasks, g \in Fds :
        node[u][g].Access /\ <<u, g>> # <<t, fd>> /\ Where(u, g) = Where(t, fd)
          => HandlesOf(<<t, fd>>) \cap HandlesOf(<<u, g>>) = {}
  BY <1>3 DEF Good, Isolated
<1>7. node[t][fd].Handle \in HandlesOf(<<t, fd>>)
  BY <1>1, <1>5 DEF HandlesOf, Shaped
<1>8. \A h \in HandlesOf(<<t, fd>>) :
        h \in {node[t][fd].Handle, node[t][fd].Event} /\ IsOpen(Where(t, fd), h)
  BY <1>1, <1>4 DEF HandlesOf, Shaped
<1>9. HasEvent(node[t][fd]) => node[t][fd].Event \in Handles
  BY <1>4 DEF IsOpen
<1> QED BY <1>1, <1>2, <1>4, <1>5, <1>6, <1>7, <1>8, <1>9

\* Handles that a descriptor keeps refer to what they did.
LEMMA SameHandle ==
  ASSUME Good, NEW t \in Tasks, NEW S \in SUBSET Fds, Change(t, S),
         NEW u \in Tasks, NEW fd \in Fds, node'[u][fd].Access, ~(u = t /\ fd \in S)
  PROVE  LET n == node[u][fd]
             w == Where(u, fd)
         IN
         /\ Same(u, fd)
         /\ ht'[w][n.Handle] = ht[w][n.Handle]
         /\ HasEvent(n) => ht'[w][n.Event] = ht[w][n.Event]
<1>1. Same(u, fd)
  BY DEF Change
<1> DEFINE n == node[u][fd]
           w == Where(u, fd)
<1>2. n.Access /\ Where(u, fd)' = w
  BY <1>1 DEF Same
<1>3. /\ w \in Wins /\ n.Handle \in Handles /\ IsOpen(w, n.Handle)
      /\ n.Handle \in HandlesOf(<<u, fd>>)
      /\ HasEvent(n) => n.Event \in Handles /\ IsOpen(w, n.Event)
  BY <1>2, GoodAt
<1>4. ASSUME NEW h \in Handles, IsOpen(w, h), h \in HandlesOf(<<u, fd>>) \/ h = PipeEvent
      PROVE  ht'[w][h] = ht[w][h]
  <2>1. h \notin FreeIn(w)
    BY <1>4, ObjectFacts
  <2>2. ASSUME NEW g \in S, node[t][g].Access, w = Where(t, g), h \in HandlesOf(<<t, g>>)
        PROVE  FALSE
    <3>1. h # PipeEvent
      BY <2>2 DEF HandlesOf
    <3>2. <<t, g>> # <<u, fd>>
      BY <2>2
    <3>3. HandlesOf(<<u, fd>>) \cap HandlesOf(<<t, g>>) = {}
      BY <1>2, <2>2, <3>2, GoodAt
    <3> QED BY <1>4, <2>2, <3>1, <3>3
  <2>3. ~ \A x \in Tasks, g \in Fds : node'[x][g].Access => Where(x, g)' # w
    BY <1>2
  <2> QED BY <1>3, <2>1, <2>2, <2>3 DEF Change
<1>5. HasEvent(n) => n.Event \in HandlesOf(<<u, fd>>) \/ n.Event = PipeEvent
  BY <1>3, FdAssumption DEF HandlesOf
<1>6. ht'[w][n.Handle] = ht[w][n.Handle]
  BY <1>3, <1>4
<1>7. HasEvent(n) => ht'[w][n.Event] = ht[w][n.Event]
  BY <1>3, <1>4, <1>5
<1> QED BY <1>1, <1>6, <1>7

LEMMA UsableStays ==
  ASSUME Good, NEW t \in Tasks, NEW S \in SUBSET Fds, Change(t, S)
  PROVE  Usable'
<1> SUFFICES ASSUME NEW u \in Tasks, NEW fd \in Fds, node'[u][fd].Access
             PROVE  /\ IsOpen(Where(u, fd), node[u][fd].Handle)'
                    /\ ht'[Where(u, fd)'][node'[u][fd].Handle].obj \in Files
                    /\ HasEvent(node'[u][fd]) =>
                         /\ IsOpen(Where(u, fd), node[u][fd].Event)'
                         /\ ht'[Where(u, fd)'][node'[u][fd].Event].obj = "event"
  BY DEF Usable, Descriptors, HasEvent
<1>1. CASE u = t /\ fd \in S
  <2>1. Fresh(u, fd)
    BY <1>1 DEF Change
  <2>2. node'[u][fd].Handle \in Handles
    BY <2>1, ObjectFacts DEF Fresh
  <2> QED BY <2>1, <2>2, ObjectFacts DEF Fresh
<1>2. CASE ~(u = t /\ fd \in S)
  <2>1. /\ Same(u, fd)
        /\ ht'[Where(u, fd)][node[u][fd].Handle] = ht[Where(u, fd)][node[u][fd].Handle]
        /\ HasEvent(node[u][fd]) =>
             ht'[Where(u, fd)][node[u][fd].Event] = ht[Where(u, fd)][node[u][fd].Event]
    BY <1>2, SameHandle
  <2>2. /\ node[u][fd].Handle \in Handles
        /\ ht[Where(u, fd)][node[u][fd].Handle].obj \in Files
        /\ HasEvent(node[u][fd]) => /\ node[u][fd].Event \in Handles
                                    /\ ht[Where(u, fd)][node[u][fd].Event].obj = "event"
    BY <2>1, GoodAt DEF Same
  <2> QED BY <2>1, <2>2, ObjectFacts DEF Same, HasEvent
<1> QED BY <1>1, <1>2

LEMMA IsolatedStays ==
  ASSUME Good, NEW t \in Tasks, NEW S \in SUBSET Fds, Change(t, S)
  PROVE  Isolated'
<1> SUFFICES ASSUME NEW u \in Tasks, NEW fd \in Fds, node'[u][fd].Access,
                    NEW v \in Tasks, NEW g \in Fds, node'[v][g].Access,
                    <<u, fd>> # <<v, g>>, Where(u, fd)' = Where(v, g)'
             PROVE  HandlesOf(<<u, fd>>)' \cap HandlesOf(<<v, g>>)' = {}
  BY DEF Isolated, Descriptors, HandlesOf
<1>1. ASSUME NEW x \in Tasks, NEW k \in Fds, node'[x][k].Access, ~(x = t /\ k \in S)
      PROVE  /\ HandlesOf(<<x, k>>)' = HandlesOf(<<x, k>>)
             /\ node[x][k].Access /\ Where(x, k)' = Where(x, k)
             /\ \A h \in HandlesOf(<<x, k>>) : IsOpen(Where(x, k), h)
  <2>1. Same(x, k)
    BY <1>1 DEF Change
  <2>2. \A h \in HandlesOf(<<x, k>>) : IsOpen(Where(x, k), h)
    BY <2>1, GoodAt DEF Same
  <2> QED BY <2>1, <2>2 DEF Same, HandlesOf
<1>2. ASSUME NEW k \in S, node'[t][k].Access
      PROVE  \A h \in HandlesOf(<<t, k>>)' : ~IsOpen(Where(t, k)', h)
  <2>1. Fresh(t, k)
    BY <1>2 DEF Change
  <2> QED BY <2>1, ObjectFacts DEF Fresh, HandlesOf
<1>3. CASE u = t /\ fd \in S /\ v = t /\ g \in S
  BY <1>3 DEF Change
<1>4. CASE u = t /\ fd \in S /\ ~(v = t /\ g \in S)
  <2>1. \A h \in HandlesOf(<<v, g>>)' : IsOpen(Where(v, g)', h)
    BY <1>1, <1>4
  <2>2. \A h \in HandlesOf(<<u, fd>>)' : ~IsOpen(Where(u, fd)', h)
    BY <1>2, <1>4
  <2> QED BY <2>1, <2>2
<1>5. CASE v = t /\ g \in S /\ ~(u = t /\ fd \in S)
  <2>1. \A h \in HandlesOf(<<u, fd>>)' : IsOpen(Where(u, fd)', h)
    BY <1>1, <1>5
  <2>2. \A h \in HandlesOf(<<v, g>>)' : ~IsOpen(Where(v, g)', h)
    BY <1>2, <1>5
  <2> QED BY <2>1, <2>2
<1>6. CASE ~(u = t /\ fd \in S) /\ ~(v = t /\ g \in S)
  <2>1. /\ HandlesOf(<<u, fd>>)' = HandlesOf(<<u, fd>>)
        /\ HandlesOf(<<v, g>>)' = HandlesOf(<<v, g>>)
        /\ node[u][fd].Access /\ node[v][g].Access /\ Where(u, fd) = Where(v, g)
    BY <1>1, <1>6
  <2>2. HandlesOf(<<u, fd>>) \cap HandlesOf(<<v, g>>) = {}
    BY <2>1, GoodAt
  <2> QED BY <2>1, <2>2
<1> QED BY <1>3, <1>4, <1>5, <1>6

LEMMA ReferencedStays ==
  ASSUME Good, NEW t \in Tasks, NEW S \in SUBSET Fds, Change(t, S), Nodes'
  PROVE  Referenced'
<1> SUFFICES ASSUME NEW w \in Wins, NEW h \in Handles, ht'[w][h].obj \in Files, ~full'
             PROVE  \E u \in Tasks, fd \in Fds :
                      /\ node'[u][fd].Access /\ Where(u, fd)' = w
                      /\ node'[u][fd].Handle = h
  <2>1. ASSUME NEW u \in Tasks, NEW fd \in Fds, node'[u][fd].Access
        PROVE  <<u, fd>> \in Descriptors'
    BY <2>1 DEF Nodes, Descriptors
  <2> QED BY <2>1 DEF Referenced
<1>1. CASE ht'[w][h] # ht[w][h]
  <2>1. PICK fd \in S : node'[t][fd].Access /\ w = Where(t, fd)' /\ h = node'[t][fd].Handle
    BY <1>1 DEF Change
  <2> QED BY <2>1
<1>2. CASE ht'[w][h] = ht[w][h]
  <2>1. ~full
    BY DEF Change
  <2>2. PICK u \in Tasks, fd \in Fds :
          node[u][fd].Access /\ Where(u, fd) = w /\ node[u][fd].Handle = h
    BY <1>2, <2>1 DEF Good, Referenced, Descriptors
  <2>3. ~Closes(u, fd)
    BY <2>2, ObjectFacts, EntryFacts DEF Closes
  <2>4. Same(u, fd)
    BY <2>2, <2>3 DEF Change
  <2> QED BY <2>2, <2>4 DEF Same
<1> QED BY <1>1, <1>2

\* The parts of Good that the control of a step decides are left to it.
LEMMA GoodStays ==
  ASSUME Good, Agreed', NEW t \in Tasks, NEW S \in SUBSET Fds, Change(t, S),
         UNCHANGED calls, Clean',
         \A u \in Tasks, fd \in Fds : node'[u][fd].Access =>
           /\ pc'[u] # "none"
           /\ pc'[u] = "exec" => node'[u][fd].Event # PipeEvent
  PROVE  Good'
<1>1. Nodes'
  <2> SUFFICES ASSUME NEW u \in Tasks, NEW fd \in Fds, node'[u][fd].Access
               PROVE  Shaped(node[u][fd])'
    BY DEF Nodes, Alive
  <2>1. CASE u = t /\ fd \in S
    <3>1. Fresh(u, fd)
      BY <2>1 DEF Change
    <3> QED BY <3>1 DEF Fresh, Shaped, HasEvent
  <2>2. CASE ~(u = t /\ fd \in S)
    <3>1. Same(u, fd)
      BY <2>2 DEF Change
    <3>2. Shaped(node[u][fd])
      BY <3>1, GoodAt DEF Same
    <3> QED BY <3>1, <3>2 DEF Same, Shaped, HasEvent
  <2> QED BY <2>1, <2>2
<1> QED BY <1>1, UsableStays, IsolatedStays, ReferencedStays DEF Good

-----------------------------------------------------------------------------
(* Steps that change a descriptor *)

\* What a call of t may do to the handle tables, those of its descriptors S
\* being closed.
Touches(t, S) ==
  \A w \in Wins, h \in Handles : ht'[w][h] # ht[w][h] =>
    \/ w \in Used /\ h \in FreeIn(w) /\ (ht'[w][h].inh => "socket" \in calls)
    \/ /\ ht'[w][h] = Unused
       /\ \E fd \in S : /\ node[t][fd].Access /\ w = Where(t, fd)
                        /\ h \in HandlesOf(<<t, fd>>)

\* The processes stay what and where they are.
Stay == UNCHANGED <<pc, win, dst, calls>> /\ (full => full')

LEMMA CleanStays ==
  ASSUME Good, NEW t \in Tasks, NEW S \in SUBSET Fds, Touches(t, S), Stay
  PROVE  Clean'
<1>1. Used' = Used
  BY DEF Stay, Used
<1> SUFFICES ASSUME NEW w \in Wins
             PROVE  /\ w \in Used => ht'[w][PipeEvent].obj = "event"
                    /\ \A h \in Handles : /\ w \notin Used => ht'[w][h] = Unused
                                          /\ ht'[w][h].inh => "socket" \in calls
  BY <1>1 DEF Clean, Stay
<1>2. /\ w \in Used => ht[w][PipeEvent].obj = "event"
      /\ \A h \in Handles : /\ w \notin Used => ht[w][h] = Unused
                            /\ ht[w][h].inh => "socket" \in calls
  BY DEF Good, Clean
<1>3. PipeEvent \in Handles
  BY FdAssumption
<1>4. ht'[w][PipeEvent] = ht[w][PipeEvent]
  BY <1>3, ObjectFacts DEF Touches, HandlesOf
<1>5. ASSUME NEW h \in Handles, w \notin Used PROVE ht'[w][h] = Unused
  BY <1>2, <1>5 DEF Touches
<1>6. ASSUME NEW h \in Handles, ht'[w][h].inh PROVE "socket" \in calls
  BY <1>2, <1>6, EntryFacts DEF Touches
<1> QED BY <1>2, <1>4, <1>5, <1>6

\* One descriptor gets another entry.
LEMMA OneGood ==
  ASSUME Good, Agreed', Stay, NEW t \in Tasks, NEW fd \in Fds, NEW m \in Vnode, Alive(t),
         node' = [node EXCEPT ![t][fd] = m],
         \A u \in Tasks, g \in Fds : <<u, g>> # <<t, fd>> => Where(u, g)' = Where(u, g),
         Touches(t, {fd}),
         m.Access => Fresh(t, fd) /\ (pc[t] = "exec" => m.Event # PipeEvent),
         node[t][fd].Access => Closes(t, fd),
         \A w \in Wins, h \in Handles : ht'[w][h] # ht[w][h] /\ ht'[w][h].obj \in Files =>
           full' \/ (m.Access /\ w = Where(t, fd)' /\ h = m.Handle)
  PROVE  Good' /\ Change(t, {fd})
<1>1. \A u \in Tasks, g \in Fds :
        node'[u][g] = IF u = t /\ g = fd THEN m ELSE node[u][g]
  BY TypedAt DEF Good, Agreed
<1>2. ASSUME NEW u \in Tasks, NEW g \in Fds, ~(u = t /\ g = fd), node[u][g].Access
      PROVE  Same(u, g)
  BY <1>1, <1>2 DEF Same
<1>3. Change(t, {fd})
  <2>1. \A u \in Tasks, g \in Fds :
          node'[u][g].Access => IF u = t /\ g \in {fd} THEN Fresh(u, g) ELSE Same(u, g)
    BY <1>1, <1>2
  <2>2. \A u \in Tasks, g \in Fds : node[u][g].Access => Same(u, g) \/ Closes(u, g)
    BY <1>2
  <2>3. \A w \in Wins, h \in Handles : ht'[w][h] # ht[w][h] =>
       \/ h \in FreeIn(w)
       \/ \E g \in {fd} : /\ node[t][g].Access /\ w = Where(t, g)
                          /\ h \in HandlesOf(<<t, g>>)
    BY DEF Touches
  <2>4. \A w \in Wins, h \in Handles :
       ht'[w][h] # ht[w][h] /\ ht'[w][h].obj \in Files =>
         full' \/ \E g \in {fd} : /\ node'[t][g].Access /\ w = Where(t, g)'
                                  /\ h = node'[t][g].Handle
    BY <1>1
  <2> QED BY <2>1, <2>2, <2>3, <2>4 DEF Change, Stay
<1>4. ASSUME NEW u \in Tasks, NEW g \in Fds, node'[u][g].Access
      PROVE  pc'[u] # "none" /\ (pc'[u] = "exec" => node'[u][g].Event # PipeEvent)
  <2>1. CASE u = t /\ g = fd
    BY <1>1, <1>4, <2>1 DEF Stay, Alive
  <2>2. CASE ~(u = t /\ g = fd)
    BY <1>1, <1>4, <2>2 DEF Stay, Good, Nodes, Alive
  <2> QED BY <2>1, <2>2
<1>5. Clean'
  BY CleanStays
<1> QED BY <1>3, <1>4, <1>5, GoodStays DEF Stay

\* No descriptor gets another meaning.
LEMMA NoneGood ==
  ASSUME Good, Agreed', Stay, NEW t \in Tasks,
         \A u \in Tasks, g \in Fds : /\ node'[u][g].Access => Same(u, g)
                                     /\ node[u][g].Access => Same(u, g),
         Touches(t, {}),
         \A w \in Wins, h \in Handles : ht'[w][h] # ht[w][h] /\ ht'[w][h].obj \in Files => full'
  PROVE  Good' /\ Change(t, {})
<1>1. Change(t, {})
  BY DEF Change, Touches, Stay
<1>2. ASSUME NEW u \in Tasks, NEW g \in Fds, node'[u][g].Access
      PROVE  pc'[u] # "none" /\ (pc'[u] = "exec" => node'[u][g].Event # PipeEvent)
  <2>1. Same(u, g)
    BY <1>2
  <2> QED BY <2>1 DEF Same, Stay, Good, Nodes, Alive
<1>3. Clean'
  BY CleanStays
<1> QED BY <1>1, <1>2, <1>3, GoodStays DEF Stay

\* vfs_close() of a descriptor.
LEMMA CloseGood ==
  ASSUME Good, NEW t \in Tasks, NEW fd \in Fds, CloseNode(t, fd),
         node[t][fd].Access, Where(t, fd) = win[t]
  PROVE  /\ node' = [node EXCEPT ![t][fd] = ZeroNode]
         /\ Touches(t, {fd}) /\ Closes(t, fd)
         /\ \A w \in Wins, h \in Handles : ht'[w][h] # ht[w][h] => ht'[w][h] = Unused
<1> DEFINE n == node[t][fd]
           w == win[t]
<1>1. /\ Shaped(n) /\ n.Handle \in Handles /\ n.Handle # NoHandle /\ IsOpen(w, n.Handle)
      /\ w \in Wins
      /\ HasEvent(n) => IsOpen(w, n.Event) /\ n.Event \in Handles
  <2>1. PICK v : v = Where(t, fd)
    OBVIOUS
  <2>2. /\ Shaped(n) /\ n.Handle \in Handles /\ n.Handle # NoHandle /\ IsOpen(v, n.Handle)
        /\ v \in Wins
        /\ HasEvent(n) => IsOpen(v, n.Event) /\ n.Event \in Handles
    BY <2>1, GoodAt
  <2> QED BY <2>1, <2>2
<1>2. node' = [node EXCEPT ![t][fd] = ZeroNode]
  BY <1>1 DEF CloseNode, vfs_close, HasEvent
<1>3. \A v \in Wins, h \in Handles :
        ht'[v][h] = IF v = w /\ h \in CloseSet(w, n) THEN Unused ELSE ht[v][h]
  BY TypedAt, ClosedEffect DEF CloseNode, Good, Agreed
<1>4. n.Handle \in CloseSet(w, n) /\ CloseSet(w, n) \subseteq HandlesOf(<<t, fd>>)
  BY <1>1, FdAssumption DEF CloseSet, HandlesOf, Shaped, HasEvent
<1>5. Touches(t, {fd})
  BY <1>3, <1>4 DEF Touches
<1>6. Closes(t, fd)
  BY <1>1, <1>3, <1>4 DEF Closes
<1> QED BY <1>2, <1>3, <1>5, <1>6

\* What DuplicateHandle() does: T are the handle tables after it and m, marked c,
\* names in v what n names in w.
Copies(w, v, n, c, move, m, T) ==
  /\ DupOK(w, n)
  /\ m \in Vnode /\ m.Access /\ Shaped(m)
  /\ m.Handle \in FreeIn(v) /\ m.Event \in FreeIn(v) \cup {NoHandle}
  /\ m.CloseExec = c /\ m.Event # PipeEvent
  /\ T[v][m.Handle].obj = ht[w][n.Handle].obj
  /\ HasEvent(m) => m.Event \in Handles /\ T[v][m.Event].obj = "event"
  /\ \A y \in Wins, h \in Handles : T[y][h] # ht[y][h] =>
       \/ /\ y = v /\ h \in FreeIn(v) /\ (T[y][h].inh => "socket" \in calls)
          /\ h = m.Handle \/ T[y][h].obj = "event"
       \/ /\ move /\ y = w /\ T[y][h] = Unused
          /\ h = n.Handle \/ (HasEvent(n) /\ h = n.Event)
  /\ w # v /\ move => T[w][n.Handle] = Unused

\* DuplicateHandle() of what a descriptor names, and of its event.
LEMMA CopyGood ==
  ASSUME Good, NEW u \in Tasks, NEW g \in Fds, node[u][g].Access,
         NEW n \in Vnode, n = node[u][g], NEW w \in Wins, w = Where(u, g),
         NEW v \in Wins, v \in Used, NEW move \in BOOLEAN, NEW x \in NewFor(v, n),
         NEW c \in BOOLEAN, NEW m, m = DupNode(n, c, x),
         NEW T \in Tables, T = Duplicated(w, v, n, move, x)
  PROVE  Copies(w, v, n, c, move, m, T)
<1>1. /\ Shaped(n) /\ n.Handle \in Handles /\ n.Handle # NoHandle /\ IsOpen(w, n.Handle)
      /\ ht[w][n.Handle].obj \in Files
      /\ HasEvent(n) => /\ IsOpen(w, n.Event) /\ n.Event \in Handles
                        /\ ht[w][n.Event].obj = "event"
  BY GoodAt
<1>2. GotHandle(w, n) /\ (HasEvent(n) => GotEvent(w, n)) /\ DupOK(w, n)
  BY <1>1 DEF GotHandle, GotEvent, DupOK, Shaped
<1>3. ht \in Tables /\ \A y \in Wins, h \in Handles : ht[y][h] \in Entry
  BY TypedAt DEF Good, Agreed
<1>18. GotEvent(w, n) => HasEvent(n)
  BY DEF GotEvent
<1>19. /\ GotHandle(w, n) =>
            T[v][x[1]] = [ht[w][n.Handle] EXCEPT !.inh = Inheritable(n)]
       /\ GotEvent(w, n) =>
            T[v][x[2]] = [ht[w][n.Event] EXCEPT !.inh = Inheritable(n)]
       /\ \A y \in Wins, h \in Handles : T[y][h] # ht[y][h] =>
            \/ y = v /\ h \in FreeIn(v) /\ h = x[1] /\ GotHandle(w, n)
            \/ y = v /\ h \in FreeIn(v) /\ h = x[2] /\ GotEvent(w, n)
            \/ /\ y = w /\ move /\ T[y][h] = Unused
               /\ h = n.Handle \/ (HasEvent(n) /\ h = n.Event)
       /\ w # v /\ move /\ GotHandle(w, n) => T[w][n.Handle] = Unused
  <2>1. ht \in Tables
    BY <1>3
  <2> QED BY <2>1, DuplicatedEffect, SMTT(60)
<1>4. /\ T[v][x[1]] = [ht[w][n.Handle] EXCEPT !.inh = Inheritable(n)]
      /\ HasEvent(n) => T[v][x[2]] = [ht[w][n.Event] EXCEPT !.inh = Inheritable(n)]
      /\ \A y \in Wins, h \in Handles : T[y][h] # ht[y][h] =>
           \/ y = v /\ h \in FreeIn(v) /\ h = x[1]
           \/ y = v /\ h \in FreeIn(v) /\ h = x[2] /\ HasEvent(n)
           \/ /\ y = w /\ move /\ T[y][h] = Unused
              /\ h = n.Handle \/ (HasEvent(n) /\ h = n.Event)
      /\ w # v /\ move => T[w][n.Handle] = Unused
  <2>1. HasEvent(n) => GotEvent(w, n)
    BY <1>2
  <2>2. GotHandle(w, n)
    BY <1>2
  <2> QED BY <1>18, <1>19, <2>1, <2>2, SMTT(30)
<1>5. /\ m \in Vnode /\ m.Access = n.Access /\ m.FSType = n.FSType /\ m.CloseExec = c
      /\ m.Handle = x[1] /\ m.Event = IF HasEvent(n) THEN x[2] ELSE n.Event
  BY DupFacts
<1>6. /\ x[1] \in FreeIn(v) /\ x[1] \in Handles /\ x[1] # NoHandle /\ x[1] # PipeEvent
      /\ HasEvent(n) => /\ x[2] \in FreeIn(v) /\ x[2] \in Handles /\ x[1] # x[2]
                        /\ x[2] # NoHandle /\ x[2] # PipeEvent
  BY NewFacts, ObjectFacts, FdAssumption
<1>7. HasEvent(m) = HasEvent(n) /\ (~HasEvent(n) => m.Event = NoHandle)
  BY <1>1, <1>5 DEF HasEvent, Shaped
<1>8. NoHandle # PipeEvent
  BY FdAssumption
<1>9. Shaped(m) /\ m.Event # PipeEvent /\ m.Handle # m.Event
  BY <1>1, <1>5, <1>6, <1>7, <1>8 DEF Shaped
<1>10. Inheritable(n) => "socket" \in calls
  BY <1>1 DEF Inheritable, Shaped
<1>11. \A e \in Entry, b \in BOOLEAN :
         [e EXCEPT !.inh = b].obj = e.obj /\ [e EXCEPT !.inh = b].inh = b
  BY DEF Entry
<1>12. Inheritable(n) \in BOOLEAN
  BY DEF Inheritable
<1>13. /\ T[v][x[1]].obj = ht[w][n.Handle].obj
       /\ T[v][x[1]].inh => "socket" \in calls
  <2>1. PICK e \in Entry, b \in BOOLEAN : e = ht[w][n.Handle] /\ b = Inheritable(n)
    BY <1>1, <1>3, <1>12
  <2>2. T[v][x[1]] = [e EXCEPT !.inh = b]
    BY <1>4, <2>1
  <2> QED BY <1>10, <1>11, <2>1, <2>2
<1>14. HasEvent(n) => /\ T[v][x[2]].obj = "event"
                      /\ T[v][x[2]].inh => "socket" \in calls
  <2> SUFFICES ASSUME HasEvent(n) PROVE /\ T[v][x[2]].obj = "event"
                                        /\ T[v][x[2]].inh => "socket" \in calls
    OBVIOUS
  <2>1. PICK e \in Entry, b \in BOOLEAN : e = ht[w][n.Event] /\ b = Inheritable(n)
    BY <1>1, <1>3, <1>12
  <2>2. T[v][x[2]] = [e EXCEPT !.inh = b]
    BY <1>4, <2>1
  <2> QED BY <1>1, <1>10, <1>11, <2>1, <2>2
<1>15. ASSUME NEW y \in Wins, NEW h \in Handles, T[y][h] # ht[y][h]
       PROVE  \/ /\ y = v /\ h \in FreeIn(v) /\ (T[y][h].inh => "socket" \in calls)
                 /\ h = m.Handle \/ T[y][h].obj = "event"
              \/ /\ move /\ y = w /\ T[y][h] = Unused
                 /\ h = n.Handle \/ (HasEvent(n) /\ h = n.Event)
  <2>1. CASE y = v /\ h \in FreeIn(v) /\ h = x[1]
    BY <1>5, <1>13, <2>1
  <2>2. CASE y = v /\ h \in FreeIn(v) /\ h = x[2] /\ HasEvent(n)
    BY <1>14, <2>2
  <2>3. CASE /\ y = w /\ move /\ T[y][h] = Unused
             /\ h = n.Handle \/ (HasEvent(n) /\ h = n.Event)
    BY <2>3
  <2> QED BY <1>4, <1>15, <2>1, <2>2, <2>3
<1>16. m.Access /\ m.Event \in FreeIn(v) \cup {NoHandle}
  BY <1>5, <1>6, <1>7
<1>17. HasEvent(m) => m.Event \in Handles /\ T[v][m.Event].obj = "event"
  BY <1>5, <1>6, <1>7, <1>14
<1> QED BY <1>2, <1>4, <1>5, <1>6, <1>9, <1>13, <1>15, <1>16, <1>17 DEF Copies
\* The descriptor fd of t gets the entry m, and no other one changes.
Becomes(t, fd, m) == node' = [node EXCEPT ![t][fd] = m] /\ Change(t, {fd})

\* No descriptor changes.
Rests(t) == node' = node /\ Change(t, {})

\* fd is the number fd_posix() finds.
FirstFree(t, fd, min) ==
  /\ fd >= min /\ ~node[t][fd].Access
  /\ \A g \in Fds : g >= min /\ ~node[t][g].Access => fd <= g

\* The handles of m are new, and nothing else is; fd_posix() stores m.
Made(w, m) ==
  /\ Shaped(m) /\ m.Handle \in FreeIn(w) /\ ht'[w][m.Handle].obj \in Files
  /\ m.Event \in FreeIn(w) \cup {NoHandle}
  /\ HasEvent(m) => m.Event \in Handles /\ ht'[w][m.Event].obj = "event"
  /\ \A y \in Wins, h \in Handles : ht'[y][h] # ht[y][h] =>
       /\ y = w /\ h \in FreeIn(w) /\ (ht'[y][h].inh => "socket" \in calls)
       /\ h = m.Handle \/ ht'[y][h].obj \notin Files
Stored(t, m, min) ==
  /\ node' = [node EXCEPT ![t] = fd_posix(@, m, min)]
  /\ full' = (full \/ EMFILE(node[t], min))
Given(t, m, min) ==
  Rests(t) \/ \E fd \in Fds : Becomes(t, fd, m) /\ FirstFree(t, fd, min)

\* A call that made the handles of m stores it with fd_posix().
LEMMA GiveGood ==
  ASSUME Good, Agreed', Stay, UNCHANGED at, NEW t \in Tasks, pc[t] = "run",
         NEW m \in Vnode, m.Access, NEW min \in Nat, NEW w \in Wins, w = win[t],
         Made(w, m), Stored(t, m, min)
  PROVE  Good' /\ Given(t, m, min)
<1> USE DEF Made, Stored, Given
<1>1. w \in Used
  BY DEF Used
<1>2. \A u \in Tasks, g \in Fds : Where(u, g)' = Where(u, g)
  BY DEF Where, Stay
<1>3. \A S \in SUBSET Fds : Touches(t, S)
  BY <1>1 DEF Touches
<1>4. node \in [Tasks -> [Fds -> Vnode]] /\ node[t] \in [Fds -> Vnode]
  BY TypedAt DEF Good, Agreed
<1>5. CASE fd_posix(node[t], m, min) = node[t] /\ EMFILE(node[t], min)
  <2>1. node' = node
    BY <1>4, <1>5
  <2>2. \A u \in Tasks, g \in Fds : node[u][g].Access => Same(u, g)
    BY <1>2, <2>1 DEF Same
  <2>3. \A u \in Tasks, g \in Fds : /\ node'[u][g].Access => Same(u, g)
                                    /\ node[u][g].Access => Same(u, g)
    BY <2>1, <2>2
  <2>4. Touches(t, {})
    BY <1>3
  <2>5. full'
    BY <1>5, Zenon
  <2>6. Good' /\ Change(t, {})
    BY <2>3, <2>4, <2>5, NoneGood
  <2> QED BY <2>1, <2>6 DEF Rests
<1>6. CASE \E fd \in Fds : /\ fd_posix(node[t], m, min) = [node[t] EXCEPT ![fd] = m]
                           /\ FirstFree(t, fd, min)
  <2>1. PICK fd \in Fds : /\ fd_posix(node[t], m, min) = [node[t] EXCEPT ![fd] = m]
                          /\ FirstFree(t, fd, min)
    BY <1>6
  <2>2. node' = [node EXCEPT ![t][fd] = m]
    BY <1>4, <2>1
  <2>3. node'[t][fd] = m /\ Where(t, fd)' = w
    BY <1>4, <2>2 DEF Where, Stay
  <2>4. Fresh(t, fd)
    BY <2>3 DEF Fresh
  <2>5. Good' /\ Change(t, {fd})
    <3>1. Alive(t) /\ ~node[t][fd].Access /\ pc[t] # "exec"
      BY <2>1 DEF FirstFree, Alive
    <3>2. \A y \in Wins, h \in Handles : ht'[y][h] # ht[y][h] /\ ht'[y][h].obj \in Files =>
           full' \/ (m.Access /\ y = Where(t, fd)' /\ h = m.Handle)
      BY <2>3
    <3>3. Touches(t, {fd})
      BY <1>3
    <3>4. \A u \in Tasks, g \in Fds : <<u, g>> # <<t, fd>> => Where(u, g)' = Where(u, g)
      BY <1>2
    <3>5. m.Access => Fresh(t, fd) /\ (pc[t] = "exec" => m.Event # PipeEvent)
      BY <2>4, <3>1
    <3>6. node[t][fd].Access => Closes(t, fd)
      BY <3>1
    <3> QED BY <2>2, <3>1, <3>2, <3>3, <3>4, <3>5, <3>6, OneGood
  <2> QED BY <2>1, <2>2, <2>5 DEF Becomes
<1>7. \/ fd_posix(node[t], m, min) = node[t] /\ EMFILE(node[t], min)
      \/ \E fd \in Fds : /\ fd_posix(node[t], m, min) = [node[t] EXCEPT ![fd] = m]
                        /\ FirstFree(t, fd, min)
  <2>1. PICK nodes \in [Fds -> Vnode] : nodes = node[t]
    BY <1>4
  <2>2. \/ fd_posix(nodes, m, min) = nodes /\ EMFILE(nodes, min)
        \/ \E fd \in Fds :
             /\ fd_posix(nodes, m, min) = [nodes EXCEPT ![fd] = m]
             /\ fd >= min /\ ~nodes[fd].Access
             /\ \A g \in Fds : g >= min /\ ~nodes[g].Access => fd <= g
    BY Placing
  <2> QED BY <2>1, <2>2 DEF FirstFree
<1> QED BY <1>5, <1>6, <1>7

LEMMA OpenGood ==
  ASSUME Good, Agreed', UNCHANGED calls, NEW t \in Tasks, NEW f \in Paths,
         NEW c \in BOOLEAN, Open(t, f, c)
  PROVE  /\ Good'
         /\ Rests(t) \/ \E fd \in Fds, m \in Vnode : /\ Becomes(t, fd, m) /\ m.Access
                                                     /\ FirstFree(t, fd, 0)
<1>1. /\ pc[t] = "run" /\ full' = (full \/ EMFILE(node[t], 0))
      /\ UNCHANGED <<pc, at, dad, win, dst, main>>
  BY DEF Open
<1>2. PICK h, m :
        /\ h \in Single(win[t])
        /\ ht' = [ht EXCEPT ![win[t]][h] = [obj |-> f, inh |-> FALSE]]
        /\ node' = [node EXCEPT ![t] = fd_posix(@, m, 0)]
        /\ m = [Access |-> TRUE, Handle |-> h, Event |-> NoHandle,
                CloseExec |-> c, FSType |-> "disk"]
  BY DEF Open
<1>3. PICK w \in Wins : w = win[t]
  BY <1>1, TypedAt DEF Good, Agreed
<1>4. h \in FreeIn(w) /\ h \in Handles /\ h # PipeEvent
  BY <1>2, <1>3, IssueFacts
<1>5. /\ m \in Vnode /\ m.Access /\ m.Handle = h /\ m.Event = NoHandle /\ ~HasEvent(m)
      /\ Shaped(m)
  BY <1>2, <1>4 DEF Vnode, FSType, HasEvent, Shaped
<1>6. ht \in Tables
  BY TypedAt DEF Good, Agreed
<1>7. \A y \in Wins, g \in Handles :
        ht'[y][g] = IF y = w /\ g = h THEN [obj |-> f, inh |-> FALSE] ELSE ht[y][g]
  BY <1>2, <1>3, <1>6 DEF Tables
<1>8. f \in Files
  BY DEF Files
<1>9. 0 \in Nat /\ Stay
  BY <1>1 DEF Stay
<1>10. /\ ht'[w][m.Handle].obj \in Files
       /\ \A y \in Wins, g \in Handles : ht'[y][g] # ht[y][g] =>
           /\ y = w /\ g \in FreeIn(w) /\ (ht'[y][g].inh => "socket" \in calls)
           /\ g = m.Handle \/ ht'[y][g].obj \notin Files
  BY <1>4, <1>5, <1>7, <1>8
<1>11. PICK min \in Nat : min = 0
  BY <1>9
<1>12. /\ node' = [node EXCEPT ![t] = fd_posix(@, m, min)]
       /\ full' = (full \/ EMFILE(node[t], min))
  BY <1>1, <1>2, <1>11
<1>13. Made(w, m)
  BY <1>4, <1>5, <1>10 DEF Made
<1>14. Stored(t, m, min)
  BY <1>12 DEF Stored
<1>15. Good' /\ Given(t, m, min)
  BY <1>1, <1>3, <1>5, <1>9, <1>13, <1>14, GiveGood
<1> QED BY <1>5, <1>11, <1>15 DEF Given

LEMMA SocketGood ==
  ASSUME Good, Agreed', UNCHANGED calls, NEW t \in Tasks, Socket(t)
  PROVE  /\ Good'
         /\ Rests(t) \/ \E fd \in Fds, m \in Vnode : /\ Becomes(t, fd, m) /\ m.Access
                                                     /\ FirstFree(t, fd, 0)
<1>1. /\ pc[t] = "run" /\ full' = (full \/ EMFILE(node[t], 0)) /\ "socket" \in calls
      /\ UNCHANGED <<pc, at, dad, win, dst, main>>
  BY DEF Socket
<1>2. PICK x, m :
       /\ x \in Pairs(win[t])
       /\ ht' = [ht EXCEPT ![win[t]][x[1]] = [obj |-> "sock", inh |-> TRUE],
                           ![win[t]][x[2]] = [obj |-> "event", inh |-> FALSE]]
       /\ node' = [node EXCEPT ![t] = fd_posix(@, m, 0)]
       /\ m = [Access |-> TRUE, Handle |-> x[1], Event |-> x[2],
               CloseExec |-> FALSE, FSType |-> "sock"]
  BY DEF Socket
<1>3. PICK w \in Wins : w = win[t]
  BY <1>1, TypedAt DEF Good, Agreed
<1>4. /\ x[1] \in FreeIn(w) /\ x[1] \in Handles /\ x[1] # PipeEvent
      /\ x[2] \in FreeIn(w) /\ x[2] \in Handles /\ x[2] # PipeEvent /\ x[1] # x[2]
  BY <1>2, <1>3, IssueFacts
<1>5. /\ m \in Vnode /\ m.Access /\ m.Handle = x[1] /\ m.Event = x[2] /\ Shaped(m)
  BY <1>1, <1>2, <1>4 DEF Vnode, FSType, HasEvent, Shaped
<1>6. ht \in Tables
  BY TypedAt DEF Good, Agreed
<1>7. \A y \in Wins, g \in Handles :
        ht'[y][g] = IF y = w /\ g = x[2] THEN [obj |-> "event", inh |-> FALSE] ELSE
                    IF y = w /\ g = x[1] THEN [obj |-> "sock", inh |-> TRUE] ELSE ht[y][g]
  BY <1>2, <1>3, <1>6 DEF Tables
<1>8. "sock" \in Files /\ "event" \notin Files
  BY ObjectFacts DEF Files
<1>9. 0 \in Nat /\ Stay
  BY <1>1 DEF Stay
<1>10. /\ ht'[w][m.Handle].obj \in Files /\ ht'[w][m.Event].obj = "event"
       /\ \A y \in Wins, g \in Handles : ht'[y][g] # ht[y][g] =>
           /\ y = w /\ g \in FreeIn(w) /\ (ht'[y][g].inh => "socket" \in calls)
           /\ g = m.Handle \/ ht'[y][g].obj \notin Files
  BY <1>1, <1>4, <1>5, <1>7, <1>8
<1>11. PICK min \in Nat : min = 0
  BY <1>9
<1>12. /\ node' = [node EXCEPT ![t] = fd_posix(@, m, min)]
       /\ full' = (full \/ EMFILE(node[t], min))
  BY <1>1, <1>2, <1>11
<1>13. Made(w, m)
  BY <1>4, <1>5, <1>10 DEF Made
<1>14. Stored(t, m, min)
  BY <1>12 DEF Stored
<1>15. Good' /\ Given(t, m, min)
  BY <1>1, <1>3, <1>5, <1>9, <1>13, <1>14, GiveGood
<1> QED BY <1>5, <1>11, <1>15 DEF Given
\* dup() and fcntl(F_DUPFD) name what the old descriptor does.
LEMMA DupGood ==
  ASSUME Good, Agreed', UNCHANGED calls, NEW t \in Tasks, NEW old \in Fds,
         NEW min \in Fds, NEW c \in BOOLEAN, Dup(t, old, c, min)
  PROVE  /\ Good' /\ node[t][old].Access
         /\ \/ Rests(t)
            \/ \E fd \in Fds, m \in Vnode :
                 /\ Becomes(t, fd, m) /\ m.Access /\ FirstFree(t, fd, min)
                 /\ ht'[win[t]][m.Handle].obj = ht[win[t]][node[t][old].Handle].obj
<1>1. /\ pc[t] = "run" /\ GotHandle(win[t], node[t][old])
      /\ UNCHANGED <<pc, at, dad, win, dst, main>>
      /\ full' = (full \/ (DupOK(win[t], node[t][old]) /\ EMFILE(node[t], min)))
  BY DEF Dup
<1>2. PICK w \in Wins, n \in Vnode : w = win[t] /\ n = node[t][old]
  BY <1>1, TypedAt DEF Good, Agreed
<1>3. n.Access /\ node[t][old].Access
  BY <1>1, <1>2, FdAssumption DEF GotHandle, IsOpen, Good, Agreed, Agrees
<1>4. PICK x \in NewFor(w, n) :
        /\ ht' = Duplicated(w, w, n, FALSE, x)
        /\ node' = IF DupOK(w, n)
                   THEN [node EXCEPT ![t] = fd_posix(@, DupNode(n, c, x), min)]
                   ELSE node
  BY <1>2 DEF Dup
<1>5. w = Where(t, old) /\ w \in Used
  BY <1>1, <1>2 DEF Where, Used
<1>15. PICK move \in BOOLEAN : ~move
  OBVIOUS
<1>6. PICK m, T : m = DupNode(n, c, x) /\ T = Duplicated(w, w, n, move, x)
  OBVIOUS
<1>7. T \in Tables /\ T = ht' /\ min \in Nat
  BY <1>4, <1>6, <1>15, TypedAt, DuplicatedTyped, FdFacts DEF Good, Agreed
<1>8. /\ DupOK(w, n)
      /\ m \in Vnode /\ m.Access /\ Shaped(m)
      /\ m.Handle \in FreeIn(w) /\ m.Event \in FreeIn(w) \cup {NoHandle}
      /\ T[w][m.Handle].obj = ht[w][n.Handle].obj
      /\ HasEvent(m) => m.Event \in Handles /\ T[w][m.Event].obj = "event"
      /\ \A y \in Wins, h \in Handles : T[y][h] # ht[y][h] =>
           /\ y = w /\ h \in FreeIn(w) /\ (T[y][h].inh => "socket" \in calls)
           /\ h = m.Handle \/ T[y][h].obj = "event"
  <2>1. node[t][old].Access /\ n = node[t][old] /\ w = Where(t, old) /\ w \in Used
    BY <1>2, <1>3, <1>5
  <2>2. Copies(w, w, n, c, move, m, T)
    BY <1>6, <1>7, <2>1, CopyGood
  <2> QED BY <1>15, <2>2 DEF Copies
<1>9. ht[w][n.Handle].obj \in Files
  BY <1>2, <1>3, <1>5, GoodAt
<1>10. /\ node' = [node EXCEPT ![t] = fd_posix(@, m, min)]
       /\ full' = (full \/ EMFILE(node[t], min))
  BY <1>1, <1>2, <1>4, <1>6, <1>8
<1>11. Stay /\ UNCHANGED at
  BY <1>1 DEF Stay
<1>12. /\ ht'[w][m.Handle].obj \in Files
       /\ HasEvent(m) => m.Event \in Handles /\ ht'[w][m.Event].obj = "event"
       /\ \A y \in Wins, h \in Handles : ht'[y][h] # ht[y][h] =>
           /\ y = w /\ h \in FreeIn(w) /\ (ht'[y][h].inh => "socket" \in calls)
           /\ h = m.Handle \/ ht'[y][h].obj \notin Files
  BY <1>7, <1>8, <1>9, ObjectFacts
<1>13. Made(w, m)
  BY <1>8, <1>12 DEF Made
<1>16. Stored(t, m, min)
  BY <1>10 DEF Stored
<1>17. Good' /\ Given(t, m, min)
  BY <1>1, <1>2, <1>7, <1>8, <1>11, <1>13, <1>16, GiveGood
<1>14. ht'[win[t]][m.Handle].obj = ht[win[t]][node[t][old].Handle].obj
  BY <1>2, <1>7, <1>8
<1> QED BY <1>3, <1>8, <1>14, <1>17 DEF Given

\* What dup2() does to the handle tables: n's handles are duplicated, and those
\* of the descriptor it replaces closed.
LEMMA Dup2Good ==
  ASSUME Good, Agreed', UNCHANGED calls, NEW t \in Tasks, NEW old \in Fds,
         NEW new \in Fds, Dup2(t, old, new)
  PROVE  /\ Good' /\ node[t][old].Access
         /\ \E m \in Vnode :
              /\ Becomes(t, new, m) /\ m.Access /\ ~m.CloseExec
              /\ ht'[win[t]][m.Handle].obj = ht[win[t]][node[t][old].Handle].obj
<1>1. /\ pc[t] = "run" /\ node[t][old].Handle # NoHandle
      /\ UNCHANGED <<pc, at, dad, win, dst, main, full>>
  BY DEF Dup2
<1>2. PICK w \in Wins, n \in Vnode, was \in Vnode :
        w = win[t] /\ n = node[t][old] /\ was = node[t][new]
  BY <1>1, TypedAt DEF Good, Agreed
<1>3. n.Access /\ node[t][old].Access
  BY <1>1, <1>2 DEF Good, Agreed, Agrees
<1>4. PICK x \in NewFor(w, n) :
       LET dup == Duplicated(w, w, n, FALSE, x) IN
       IF DupOK(w, n)
       THEN /\ node' = [node EXCEPT ![t][new] = DupNode(n, FALSE, x)]
            /\ ht' = [dup EXCEPT ![w] = [h \in Handles |->
                        IF h \in CloseSet(w, was) THEN Unused ELSE @[h]]]
       ELSE /\ node' = [node EXCEPT ![t][new] = [n EXCEPT !.CloseExec = FALSE]]
            /\ ht' = dup
  BY <1>2 DEF Dup2
<1>5. w = Where(t, old) /\ w = Where(t, new) /\ w \in Used
  BY <1>1, <1>2 DEF Where, Used
<1>26. PICK move \in BOOLEAN : ~move
  OBVIOUS
<1>27. PICK c \in BOOLEAN : c = FALSE
  OBVIOUS
<1>6. PICK m, T : m = DupNode(n, c, x) /\ T = Duplicated(w, w, n, move, x)
  OBVIOUS
<1>7. T \in Tables
  BY <1>6, TypedAt, DuplicatedTyped DEF Good, Agreed
<1>8. /\ DupOK(w, n)
      /\ m \in Vnode /\ m.Access /\ Shaped(m)
      /\ m.Handle \in FreeIn(w) /\ m.Event \in FreeIn(w) \cup {NoHandle}
      /\ ~m.CloseExec
      /\ T[w][m.Handle].obj = ht[w][n.Handle].obj
      /\ HasEvent(m) => m.Event \in Handles /\ T[w][m.Event].obj = "event"
      /\ \A y \in Wins, h \in Handles : T[y][h] # ht[y][h] =>
           /\ y = w /\ h \in FreeIn(w) /\ (T[y][h].inh => "socket" \in calls)
           /\ h = m.Handle \/ T[y][h].obj = "event"
  <2>1. node[t][old].Access /\ n = node[t][old] /\ w = Where(t, old) /\ w \in Used
    BY <1>2, <1>3, <1>5
  <2>2. Copies(w, w, n, c, move, m, T)
    BY <1>6, <1>7, <2>1, CopyGood
  <2> QED BY <1>26, <1>27, <2>2 DEF Copies
<1>9. ht[w][n.Handle].obj \in Files
  BY <1>2, <1>3, <1>5, GoodAt
<1>10. /\ node' = [node EXCEPT ![t][new] = m]
       /\ ht' = [T EXCEPT ![w] = [h \in Handles |->
                        IF h \in CloseSet(w, was) THEN Unused ELSE @[h]]]
  BY <1>4, <1>6, <1>8, <1>26, <1>27
<1>11. \A y \in Wins, h \in Handles :
         ht'[y][h] = IF y = w /\ h \in CloseSet(w, was) THEN Unused ELSE T[y][h]
  BY <1>7, <1>10 DEF Tables
<1>12. ASSUME was.Access
       PROVE  /\ CloseSet(w, was) \subseteq HandlesOf(<<t, new>>)
              /\ was.Handle \in CloseSet(w, was)
  <2>2. PICK v : v = Where(t, new)
    OBVIOUS
  <2>3. /\ Shaped(was) /\ was.Handle \in Handles /\ was.Handle # NoHandle
        /\ IsOpen(v, was.Handle) /\ (HasEvent(was) => IsOpen(v, was.Event))
    BY <1>2, <1>12, <2>2, GoodAt
  <2>1. /\ Shaped(was) /\ was.Handle \in Handles /\ was.Handle # NoHandle
        /\ IsOpen(w, was.Handle) /\ (HasEvent(was) => IsOpen(w, was.Event))
    BY <1>5, <2>2, <2>3
  <2> QED BY <1>2, <2>1, FdAssumption DEF CloseSet, HandlesOf, Shaped, HasEvent
<1>13. ~was.Access => CloseSet(w, was) = {}
  BY <1>2 DEF Good, Agreed, Agrees, CloseSet
<1>14. \A h \in CloseSet(w, was) : h \notin FreeIn(w)
  BY ObjectFacts DEF CloseSet
<1>15. Touches(t, {new})
  BY <1>2, <1>5, <1>8, <1>11, <1>12, <1>13 DEF Touches
<1>16. node[t][new].Access => Closes(t, new)
  BY <1>2, <1>5, <1>11, <1>12, ObjectFacts DEF Closes, CloseSet
<1>17. ht'[w][m.Handle] = T[w][m.Handle] /\ (HasEvent(m) => ht'[w][m.Event] = T[w][m.Event])
  BY <1>8, <1>11, <1>14, ObjectFacts, FdAssumption
<1>18. Stay /\ UNCHANGED at
  BY <1>1 DEF Stay
<1>19. \A u \in Tasks, g \in Fds : Where(u, g)' = Where(u, g)
  BY <1>18 DEF Where, Stay
<1>20. node'[t][new] = m
  BY <1>2, <1>10, TypedAt DEF Good, Agreed
<1>21. Fresh(t, new) /\ Where(t, new)' = w
  BY <1>5, <1>8, <1>9, <1>17, <1>19, <1>20 DEF Fresh
<1>22. \A y \in Wins, h \in Handles : ht'[y][h] # ht[y][h] /\ ht'[y][h].obj \in Files =>
           full' \/ (m.Access /\ y = Where(t, new)' /\ h = m.Handle)
  BY <1>8, <1>11, <1>21, ObjectFacts, EntryFacts
<1>23. Alive(t) /\ pc[t] # "exec"
  BY <1>1 DEF Alive
<1>24. Good' /\ Change(t, {new})
  <2>1. \A u \in Tasks, g \in Fds : <<u, g>> # <<t, new>> => Where(u, g)' = Where(u, g)
    BY <1>19
  <2>2. m.Access => Fresh(t, new) /\ (pc[t] = "exec" => m.Event # PipeEvent)
    BY <1>21, <1>23
  <2> QED BY <1>8, <1>10, <1>15, <1>16, <1>18, <1>22, <1>23, <2>1, <2>2, OneGood
<1>25. ht'[win[t]][m.Handle].obj = ht[win[t]][node[t][old].Handle].obj
  BY <1>2, <1>8, <1>17
<1> QED BY <1>3, <1>8, <1>10, <1>24, <1>25 DEF Becomes
\* pipe() makes both descriptors, one of them, or none.
LEMMA PipeGood ==
  ASSUME Good, Agreed', UNCHANGED calls, NEW t \in Tasks, Pipe(t)
  PROVE  /\ Good'
         /\ \/ Rests(t)
            \/ \E fd \in Fds, m \in Vnode : /\ Becomes(t, fd, m) /\ m.Access
                                            /\ FirstFree(t, fd, 0)
            \/ \E r, s \in Fds, m1, m2 \in Vnode :
                 /\ node' = [node EXCEPT ![t][r] = m1, ![t][s] = m2]
                 /\ Change(t, {r, s}) /\ m1.Access /\ m2.Access
                 /\ ~m1.CloseExec /\ ~m2.CloseExec
                 /\ FirstFree(t, r, 0) /\ r < s /\ ~node[t][s].Access
                 /\ \A g \in Fds \ {r} : ~node[t][g].Access => s <= g
<1>1. /\ pc[t] = "run" /\ UNCHANGED <<pc, at, dad, win, dst, main>>
  BY DEF Pipe
<1>2. PICK x, m1, m2, one :
       /\ x \in Pairs(win[t])
       /\ one = fd_posix(node[t], m1, 0)
       /\ ht' = [ht EXCEPT ![win[t]][x[1]] = [obj |-> "rd", inh |-> FALSE],
                           ![win[t]][x[2]] = [obj |-> "wr", inh |-> FALSE]]
       /\ node' = [node EXCEPT ![t] = fd_posix(one, m2, 0)]
       /\ full' = (full \/ EMFILE(one, 0))
       /\ m1 = PipeNode(x[1]) /\ m2 = PipeNode(x[2])
  BY DEF Pipe
<1>3. PICK w \in Wins : w = win[t] /\ w \in Used
  BY <1>1, TypedAt DEF Good, Agreed, Used
<1>4. /\ x[1] \in FreeIn(w) /\ x[1] \in Handles /\ x[1] # PipeEvent
      /\ x[2] \in FreeIn(w) /\ x[2] \in Handles /\ x[2] # PipeEvent /\ x[1] # x[2]
      /\ PipeEvent \in Handles
  BY <1>2, <1>3, IssueFacts, FdAssumption
<1>5. /\ m1 \in Vnode /\ m1.Access /\ m1.Handle = x[1] /\ m1.Event = PipeEvent
      /\ Shaped(m1) /\ ~m1.CloseExec
      /\ m2 \in Vnode /\ m2.Access /\ m2.Handle = x[2] /\ m2.Event = PipeEvent
      /\ Shaped(m2) /\ ~m2.CloseExec
  BY <1>2, <1>4 DEF PipeNode, Vnode, FSType, HasEvent, Shaped
<1>6. ht \in Tables /\ node \in [Tasks -> [Fds -> Vnode]] /\ node[t] \in [Fds -> Vnode]
  BY TypedAt DEF Good, Agreed
<1>7. \A y \in Wins, g \in Handles :
        ht'[y][g] = IF y = w /\ g = x[2] THEN [obj |-> "wr", inh |-> FALSE] ELSE
                    IF y = w /\ g = x[1] THEN [obj |-> "rd", inh |-> FALSE] ELSE ht[y][g]
  BY <1>2, <1>3, <1>6 DEF Tables
<1>8. Stay /\ 0 \in Nat /\ \A u \in Tasks, g \in Fds : Where(u, g)' = Where(u, g)
  <2>1. full => full'
    BY <1>2, Zenon
  <2> QED BY <1>1, <2>1 DEF Stay, Where
<1>9. /\ ht'[w][PipeEvent].obj = "event" /\ ht'[w][x[1]].obj \in Files
      /\ ht'[w][x[2]].obj \in Files
  BY <1>3, <1>4, <1>7 DEF Good, Clean, Files
<1>10. \A y \in Wins, g \in Handles : ht'[y][g] # ht[y][g] =>
         /\ y = w /\ g \in FreeIn(w) /\ ~ht'[y][g].inh
         /\ g = x[1] \/ g = x[2]
  BY <1>4, <1>7
<1>11. \A S \in SUBSET Fds : Touches(t, S)
  BY <1>3, <1>10 DEF Touches
<1>12. /\ \A fd \in Fds : Where(t, fd)' = w
       /\ Alive(t) /\ pc[t] # "exec"
  BY <1>1, <1>3 DEF Where, Alive
<1>13. ASSUME NEW fd \in Fds, node'[t][fd] \in {m1, m2} PROVE Fresh(t, fd)
  BY <1>4, <1>5, <1>9, <1>12, <1>13 DEF Fresh
<1>14. \/ one = node[t] /\ EMFILE(node[t], 0)
       \/ \E r \in Fds : one = [node[t] EXCEPT ![r] = m1] /\ FirstFree(t, r, 0)
  <2>1. PICK nodes \in [Fds -> Vnode] : nodes = node[t]
    BY <1>6
  <2>2. \/ fd_posix(nodes, m1, 0) = nodes /\ EMFILE(nodes, 0)
        \/ \E fd \in Fds :
             /\ fd_posix(nodes, m1, 0) = [nodes EXCEPT ![fd] = m1]
             /\ fd >= 0 /\ ~nodes[fd].Access
             /\ \A g \in Fds : g >= 0 /\ ~nodes[g].Access => fd <= g
    BY <1>5, <1>8, Placing
  <2> QED BY <1>2, <2>1, <2>2 DEF FirstFree
<1>15. one \in [Fds -> Vnode]
  BY <1>5, <1>6, <1>14
<1>16. \/ fd_posix(one, m2, 0) = one /\ EMFILE(one, 0)
       \/ \E s \in Fds : /\ fd_posix(one, m2, 0) = [one EXCEPT ![s] = m2]
                         /\ ~one[s].Access
                         /\ \A g \in Fds : ~one[g].Access => s <= g
  <2>1. \A g \in Fds : g >= 0
    BY DEF Fds
  <2>2. \/ fd_posix(one, m2, 0) = one /\ EMFILE(one, 0)
        \/ \E s \in Fds : /\ fd_posix(one, m2, 0) = [one EXCEPT ![s] = m2]
                          /\ s >= 0 /\ ~one[s].Access
                          /\ \A g \in Fds : g >= 0 /\ ~one[g].Access => s <= g
    BY <1>5, <1>8, <1>15, Placing
  <2> QED BY <2>1, <2>2
<1>17. CASE one = node[t] /\ EMFILE(node[t], 0)
  <2>1. fd_posix(one, m2, 0) = one /\ full'
    <3>1. \A s \in Fds : node[t][s].Access
      BY <1>17 DEF EMFILE, Fds
    <3>2. EMFILE(one, 0)
      BY <1>17
    <3>3. full'
      BY <1>2, <3>2, Zenon
    <3> QED BY <1>16, <1>17, <3>1, <3>3
  <2>2. node' = node
    BY <1>2, <1>6, <1>17, <2>1
  <2>3. \A u \in Tasks, g \in Fds : node[u][g].Access => Same(u, g)
    BY <1>8, <2>2 DEF Same
  <2>4. \A u \in Tasks, g \in Fds : /\ node'[u][g].Access => Same(u, g)
                                    /\ node[u][g].Access => Same(u, g)
    BY <2>2, <2>3
  <2>5. Touches(t, {})
    BY <1>11
  <2>6. Good' /\ Change(t, {})
    BY <1>8, <2>1, <2>4, <2>5, NoneGood
  <2> QED BY <2>2, <2>6 DEF Rests
<1>18. CASE \E r \in Fds : one = [node[t] EXCEPT ![r] = m1] /\ FirstFree(t, r, 0)
  <2>1. PICK r \in Fds : one = [node[t] EXCEPT ![r] = m1] /\ FirstFree(t, r, 0)
    BY <1>18
  <2>2. ~node[t][r].Access
    BY <2>1 DEF FirstFree
  <2>3. CASE fd_posix(one, m2, 0) = one /\ EMFILE(one, 0)
    <3>1. node' = [node EXCEPT ![t][r] = m1]
      BY <1>2, <1>6, <2>1, <2>3
    <3>2. full'
      BY <1>2, <2>3, Zenon
    <3>3. node'[t][r] = m1
      BY <1>6, <3>1
    <3>4. m1.Access => Fresh(t, r) /\ (pc[t] = "exec" => m1.Event # PipeEvent)
      BY <1>12, <1>13, <3>3
    <3>5. \A u \in Tasks, g \in Fds : <<u, g>> # <<t, r>> => Where(u, g)' = Where(u, g)
      BY <1>8
    <3>6. Touches(t, {r})
      BY <1>11
    <3>7. \A y \in Wins, h \in Handles : ht'[y][h] # ht[y][h] /\ ht'[y][h].obj \in Files =>
            full' \/ (m1.Access /\ y = Where(t, r)' /\ h = m1.Handle)
      BY <3>2
    <3>8. node[t][r].Access => Closes(t, r)
      BY <2>2
    <3>9. Good' /\ Change(t, {r})
      BY <1>5, <1>8, <1>12, <3>1, <3>4, <3>5, <3>6, <3>7, <3>8, OneGood
    <3> QED BY <1>5, <2>1, <3>1, <3>9 DEF Becomes
  <2>4. CASE \E s \in Fds : /\ fd_posix(one, m2, 0) = [one EXCEPT ![s] = m2]
                            /\ ~one[s].Access
                            /\ \A g \in Fds : ~one[g].Access => s <= g
    <3>1. PICK s \in Fds : /\ fd_posix(one, m2, 0) = [one EXCEPT ![s] = m2]
                           /\ ~one[s].Access
                           /\ \A g \in Fds : ~one[g].Access => s <= g
      BY <2>4
    <3>2. \A g \in Fds : one[g] = IF g = r THEN m1 ELSE node[t][g]
      BY <1>6, <2>1
    <3>3. s # r /\ ~node[t][s].Access /\ \A g \in Fds \ {r} : ~node[t][g].Access => s <= g
      BY <1>5, <3>1, <3>2
    <3>4. r < s
      BY <2>1, <3>3 DEF FirstFree, Fds
    <3>5. node' = [node EXCEPT ![t][r] = m1, ![t][s] = m2]
      BY <1>2, <1>6, <2>1, <3>1
    <3>6. \A u \in Tasks, g \in Fds :
            node'[u][g] = IF u = t /\ g = s THEN m2 ELSE
                          IF u = t /\ g = r THEN m1 ELSE node[u][g]
      BY <1>6, <3>5
    <3>7. Change(t, {r, s})
      <4>1. ASSUME NEW u \in Tasks, NEW g \in Fds, node[u][g].Access PROVE Same(u, g)
        BY <1>8, <2>2, <3>3, <3>6, <4>1 DEF Same
      <4>2. \A u \in Tasks, g \in Fds : node'[u][g].Access =>
              IF u = t /\ g \in {r, s} THEN Fresh(u, g) ELSE Same(u, g)
        BY <1>13, <3>6, <4>1
      <4>3. HandlesOf(<<t, r>>)' = {x[1]} /\ HandlesOf(<<t, s>>)' = {x[2]}
        <5>1. node'[t][r] = m1 /\ node'[t][s] = m2
          BY <3>3, <3>6
        <5> QED BY <1>4, <1>5, <5>1, FdAssumption DEF HandlesOf
      <4>4. \A fd, g \in {r, s} : fd # g =>
              HandlesOf(<<t, fd>>)' \cap HandlesOf(<<t, g>>)' = {}
        BY <1>4, <4>3
      <4>5. \A y \in Wins, h \in Handles :
              ht'[y][h] # ht[y][h] /\ ht'[y][h].obj \in Files =>
                full' \/ \E fd \in {r, s} : /\ node'[t][fd].Access /\ y = Where(t, fd)'
                                            /\ h = node'[t][fd].Handle
        BY <1>5, <1>10, <1>12, <3>3, <3>6
      <4>6. \A y \in Wins, h \in Handles : ht'[y][h] # ht[y][h] => h \in FreeIn(y)
        BY <1>10
      <4> QED BY <1>8, <4>1, <4>2, <4>4, <4>5, <4>6 DEF Change, Stay
    <3>8. Clean'
      BY <1>8, <1>11, CleanStays
    <3>9. \A u \in Tasks, g \in Fds : node'[u][g].Access =>
            pc'[u] # "none" /\ (pc'[u] = "exec" => node'[u][g].Event # PipeEvent)
      BY <1>1, <1>12, <3>6 DEF Good, Nodes, Alive
    <3>10. Good'
      BY <3>7, <3>8, <3>9, GoodStays
    <3> QED BY <1>5, <2>1, <3>3, <3>4, <3>5, <3>7, <3>10
  <2> QED BY <1>16, <2>3, <2>4
<1> QED BY <1>14, <1>17, <1>18
\* A step that leaves Node[] and the handle tables alone.
LEMMA RestGood ==
  ASSUME Good, Agreed', Stay, NEW t \in Tasks, UNCHANGED <<node, ht>>,
         \A u \in Tasks, g \in Fds : node[u][g].Access => Where(u, g)' = Where(u, g)
  PROVE  Good' /\ Rests(t)
<1>1. \A u \in Tasks, g \in Fds : /\ node'[u][g].Access => Same(u, g)
                                  /\ node[u][g].Access => Same(u, g)
  BY DEF Same
<1>2. Touches(t, {})
  BY DEF Touches
<1>3. Good' /\ Change(t, {})
  BY <1>1, <1>2, NoneGood
<1> QED BY <1>3 DEF Rests

\* A descriptor of t is closed, by close() or in one of the loops.
LEMMA ClosingGood ==
  ASSUME Good, Agreed', Stay, NEW t \in Tasks, NEW fd \in Fds, CloseNode(t, fd),
         node[t][fd].Access, Where(t, fd) = win[t],
         \A u \in Tasks, g \in Fds : <<u, g>> # <<t, fd>> => Where(u, g)' = Where(u, g)
  PROVE  Good' /\ Becomes(t, fd, ZeroNode)
<1>1. /\ node' = [node EXCEPT ![t][fd] = ZeroNode]
      /\ Touches(t, {fd}) /\ Closes(t, fd)
      /\ \A w \in Wins, h \in Handles : ht'[w][h] # ht[w][h] => ht'[w][h] = Unused
  BY CloseGood
<1>2. Unused.obj \notin Files
  BY EntryFacts, ObjectFacts
<1>3. Alive(t)
  BY DEF Good, Nodes
<1>4. PICK m \in Vnode : m = ZeroNode /\ ~m.Access
  BY NodeFacts
<1>5. Good' /\ Change(t, {fd})
  BY <1>1, <1>2, <1>3, <1>4, OneGood
<1> QED BY <1>1, <1>5 DEF Becomes

LEMMA CloseCallGood ==
  ASSUME Good, Agreed', UNCHANGED calls, NEW t \in Tasks, NEW fd \in Fds, Close(t, fd)
  PROVE  Good' /\ (Rests(t) \/ Becomes(t, fd, ZeroNode))
<1>1. /\ pc[t] = "run" /\ UNCHANGED <<pc, at, dad, win, dst, main, full>> /\ CloseNode(t, fd)
  BY DEF Close
<1>2. Stay /\ \A u \in Tasks, g \in Fds : Where(u, g)' = Where(u, g)
  BY <1>1 DEF Stay, Where
<1>3. CASE node[t][fd].Access
  <2>1. Where(t, fd) = win[t]
    BY <1>1 DEF Where
  <2> QED BY <1>1, <1>2, <1>3, <2>1, ClosingGood
<1>4. CASE ~node[t][fd].Access
  <2>1. node[t][fd].Handle = NoHandle
    BY <1>4 DEF Good, Agreed, Agrees
  <2>2. vfs_close(win[t], node[t][fd]) = node[t][fd] /\ CloseSet(win[t], node[t][fd]) = {}
    BY <2>1 DEF vfs_close, CloseSet
  <2>3. node' = node
    BY <1>1, <2>2, TypedAt DEF CloseNode, Good, Agreed
  <2>4. ht' = ht
    <3>1. ht' = Closed(win[t], {})
      BY <1>1, <2>2 DEF CloseNode
    <3>2. ht \in Tables
      BY TypedAt DEF Good, Agreed
    <3> QED BY <3>1, <3>2 DEF Closed, Tables
  <2> QED BY <1>2, <2>3, <2>4, RestGood
<1> QED BY <1>3, <1>4

\* fcntl() changes at most the mark of a descriptor.
LEMMA SetGood ==
  ASSUME Good, Agreed', UNCHANGED calls, ~SetClosed, NEW t \in Tasks, NEW fd \in Fds,
         NEW c \in BOOLEAN, SetFd(t, fd, c) \/ SetFl(t, fd, c)
  PROVE  /\ Good' /\ node[t][fd].Access
         /\ \E m \in Vnode : /\ node' = [node EXCEPT ![t][fd] = m] /\ Change(t, {})
                             /\ m.Access /\ m.CloseExec = c
<1>1. Typed
  BY DEF Good, Agreed
<1>2. PICK m \in Vnode :
        /\ node[t][fd].Access /\ ht' = ht
        /\ node' = [node EXCEPT ![t][fd] = m]
        /\ m.Access /\ m.CloseExec = c /\ m.Handle = node[t][fd].Handle
        /\ m.Event = node[t][fd].Event /\ m.FSType = node[t][fd].FSType
  BY <1>1, SetEffect
<1>3. /\ pc[t] = "run" /\ UNCHANGED <<pc, at, dad, win, dst, main, full>>
  BY DEF SetFd, SetFl
<1>4. Stay /\ \A u \in Tasks, g \in Fds : Where(u, g)' = Where(u, g)
  BY <1>3 DEF Stay, Where
<1>5. \A u \in Tasks, g \in Fds : node'[u][g] = IF u = t /\ g = fd THEN m ELSE node[u][g]
  BY <1>1, <1>2, TypedAt
<1>6. \A u \in Tasks, g \in Fds : /\ node'[u][g].Access => Same(u, g)
                                  /\ node[u][g].Access => Same(u, g)
  BY <1>2, <1>4, <1>5 DEF Same
<1>7. Touches(t, {})
  BY <1>2 DEF Touches
<1>8. Good' /\ Change(t, {})
  BY <1>2, <1>4, <1>6, <1>7, NoneGood
<1> QED BY <1>2, <1>8
-----------------------------------------------------------------------------
(* The loops over Node[] *)

\* The open file of a descriptor.
Object(t, fd) == ht[Where(t, fd)][node[t][fd].Handle].obj

\* A descriptor of a child is its parent's.
Twin(t, fd) ==
  LET n == node[t][fd]
      m == node[dad[t]][fd]
  IN
  /\ n.Access <=> m.Access
  /\ n.Access => n.CloseExec = m.CloseExec /\ Object(t, fd) = Object(dad[t], fd)

\* What exit(), fork() and execve() have done so far.
Looped(t, fd) ==
  /\ pc[t] = "exec" => "exec" \in calls
  /\ pc[t] = "exit" /\ fd < at[t] => ~node[t][fd].Access
  /\ pc[t] = "child" => IF fd < at[t] THEN Twin(t, fd) ELSE ~node[t][fd].Access
  /\ pc[t] = "exec" /\ fd < at[t] => ~(node[t][fd].Access /\ node[t][fd].CloseExec)

Loops == \A t \in Tasks, fd \in Fds : Looped(t, fd)

LEMMA IndexFacts ==
  /\ \A k, fd \in Fds : ~(k < k) /\ (fd # k => (fd < k + 1 <=> fd < k)) /\ k < k + 1
  /\ \A k \in Fds : k + 1 \in 0 .. OPEN_MAX
  BY FdAssumption DEF Fds

\* __closefrom() closes the next entry, or finds it free.
LEMMA CloseNextGood ==
  ASSUME Good, Agreed', UNCHANGED calls, NEW t \in Tasks, CloseNext(t)
  PROVE  /\ Good' /\ at[t] \in Fds
         /\ \/ Rests(t) /\ ~node[t][at[t]].Access
            \/ Becomes(t, at[t], ZeroNode)
<1>1. /\ pc[t] \in {"closing", "exit"} /\ at[t] < OPEN_MAX
      /\ at' = [at EXCEPT ![t] = @ + 1] /\ UNCHANGED <<pc, dad, win, dst, main, full>>
      /\ \/ node[t][at[t]].Access /\ CloseNode(t, at[t])
         \/ ~node[t][at[t]].Access /\ UNCHANGED <<node, ht>>
  BY DEF CloseNext
<1>2. PICK k \in Fds : k = at[t]
  BY <1>1, FdFacts DEF Good, Agreed, Typed, TypeOK
<1>3. Stay /\ \A u \in Tasks, g \in Fds : Where(u, g)' = Where(u, g)
  <2>1. Stay
    BY <1>1 DEF Stay
  <2>2. \A u \in Tasks : pc[u] = "exec" => at'[u] = at[u]
    BY <1>1 DEF Good, Agreed, Typed, TypeOK
  <2> QED BY <1>1, <2>1, <2>2 DEF Where
<1>4. Where(t, k) = win[t]
  BY <1>1 DEF Where
<1>5. CASE node[t][k].Access /\ CloseNode(t, k)
  BY <1>2, <1>3, <1>4, <1>5, ClosingGood
<1>6. CASE ~node[t][k].Access /\ UNCHANGED <<node, ht>>
  BY <1>2, <1>3, <1>6, RestGood
<1> QED BY <1>1, <1>2, <1>5, <1>6

\* ProcDupChannels() gives a child its parent's next descriptor.
LEMMA CopyChannelGood ==
  ASSUME Good, Loops, Agreed', UNCHANGED calls, NEW t \in Tasks, CopyChannel(t)
  PROVE  /\ Good'
         /\ \E k \in Fds, u \in Tasks :
              /\ k = at[t] /\ u = dad[t] /\ u # t
              /\ \/ Rests(t) /\ ~node[u][k].Access
                 \/ /\ node[u][k].Access
                    /\ \E m \in Vnode :
                         /\ Becomes(t, k, m) /\ m.Access
                         /\ m.CloseExec = node[u][k].CloseExec
                         /\ Object(t, k)' = Object(u, k)
<1>1. /\ pc[t] = "child" /\ at[t] < OPEN_MAX
      /\ at' = [at EXCEPT ![t] = @ + 1] /\ UNCHANGED <<pc, dad, win, dst, main, full>>
      /\ \/ ~node[dad[t]][at[t]].Access /\ UNCHANGED <<node, ht>>
         \/ /\ node[dad[t]][at[t]].Access
            /\ \E x \in NewFor(win[t], node[dad[t]][at[t]]) :
                 /\ ht' = Duplicated(win[t], win[t], node[dad[t]][at[t]], FALSE, x)
                 /\ node' = [node EXCEPT ![t][at[t]] =
                               IF DupOK(win[t], node[dad[t]][at[t]])
                               THEN DupNode(node[dad[t]][at[t]],
                                            node[dad[t]][at[t]].CloseExec, x)
                               ELSE node[dad[t]][at[t]]]
  BY DEF CopyChannel
<1>2. PICK k \in Fds, u \in Tasks : k = at[t] /\ u = dad[t]
  BY <1>1, FdFacts DEF Good, Agreed, Typed, TypeOK, Placed
<1>3. pc[u] = "fork" /\ win[u] = win[t] /\ u # t
  BY <1>1, <1>2 DEF Good, Agreed, Typed, Placed
<1>4. Stay /\ \A y \in Tasks, g \in Fds : Where(y, g)' = Where(y, g)
  <2>1. Stay
    BY <1>1 DEF Stay
  <2>2. \A y \in Tasks : pc[y] = "exec" => at'[y] = at[y]
    BY <1>1 DEF Good, Agreed, Typed, TypeOK
  <2> QED BY <1>1, <2>1, <2>2 DEF Where
<1>5. PICK w \in Wins : w = win[t] /\ w \in Used /\ w = Where(u, k) /\ w = Where(t, k)
  BY <1>1, <1>3 DEF Good, Agreed, Typed, Placed, Alive, Used, Where
<1>6. CASE ~node[u][k].Access /\ UNCHANGED <<node, ht>>
  BY <1>2, <1>3, <1>4, <1>6, RestGood
<1>7. ASSUME node[u][k].Access,
             NEW x \in NewFor(win[t], node[u][k]),
             ht' = Duplicated(win[t], win[t], node[u][k], FALSE, x),
             node' = [node EXCEPT ![t][k] =
                        IF DupOK(win[t], node[u][k])
                        THEN DupNode(node[u][k], node[u][k].CloseExec, x)
                        ELSE node[u][k]]
      PROVE  /\ Good'
             /\ \E m \in Vnode : /\ Becomes(t, k, m) /\ m.Access
                                 /\ m.CloseExec = node[u][k].CloseExec
                                 /\ Object(t, k)' = Object(u, k)
  <2>1. PICK n \in Vnode : n = node[u][k] /\ n.Access
    BY <1>7, TypedAt DEF Good, Agreed
  <2>2. PICK c \in BOOLEAN : c = n.CloseExec
    BY DEF Vnode
  <2>3. PICK move \in BOOLEAN : ~move
    OBVIOUS
  <2>4. PICK m, T : m = DupNode(n, c, x) /\ T = Duplicated(w, w, n, move, x)
    OBVIOUS
  <2>5. x \in NewFor(w, n) /\ T = ht'
    BY <1>5, <1>7, <2>1, <2>3, <2>4
  <2>6. T \in Tables
    <3>1. ht \in Tables
      BY TypedAt DEF Good, Agreed
    <3> QED BY <2>4, <2>5, <3>1, DuplicatedTyped
  <2>7. Copies(w, w, n, c, move, m, T)
    BY <1>5, <2>1, <2>4, <2>5, <2>6, CopyGood
  <2>8. node' = [node EXCEPT ![t][k] = m] /\ m \in Vnode
    BY <1>5, <1>7, <2>1, <2>2, <2>4, <2>7 DEF Copies
  <2>9. node'[t][k] = m
    BY <2>8, TypedAt DEF Good, Agreed
  <2>10. ht[w][n.Handle].obj \in Files
    BY <1>5, <2>1, GoodAt
  <2>11. Fresh(t, k) /\ Where(t, k)' = w
    BY <1>4, <1>5, <2>5, <2>7, <2>9, <2>10 DEF Fresh, Copies
  <2>12. \A y \in Wins, h \in Handles : ht'[y][h] # ht[y][h] =>
           /\ y = w /\ h \in FreeIn(w) /\ (ht'[y][h].inh => "socket" \in calls)
           /\ h = m.Handle \/ ht'[y][h].obj = "event"
    BY <2>3, <2>5, <2>7 DEF Copies
  <2>13. Touches(t, {k})
    BY <1>5, <2>12 DEF Touches
  <2>14. ~node[t][k].Access /\ Alive(t) /\ pc[t] # "exec"
    <3>1. ~(k < at[t])
      BY <1>2, IndexFacts
    <3> QED BY <1>1, <3>1 DEF Loops, Looped, Alive
  <2>15. \A y \in Wins, h \in Handles : ht'[y][h] # ht[y][h] /\ ht'[y][h].obj \in Files =>
           full' \/ (m.Access /\ y = Where(t, k)' /\ h = m.Handle)
    BY <2>7, <2>11, <2>12, ObjectFacts DEF Copies
  <2>16. m.Access => Fresh(t, k) /\ (pc[t] = "exec" => m.Event # PipeEvent)
    BY <2>11, <2>14
  <2>17. node[t][k].Access => Closes(t, k)
    BY <2>14
  <2>18. \A y \in Tasks, g \in Fds : <<y, g>> # <<t, k>> => Where(y, g)' = Where(y, g)
    BY <1>4
  <2>19. Good' /\ Change(t, {k})
    BY <1>4, <2>8, <2>13, <2>14, <2>15, <2>16, <2>17, <2>18, OneGood
  <2>20. m.Access /\ m.CloseExec = c /\ T[w][m.Handle].obj = ht[w][n.Handle].obj
    BY <2>7 DEF Copies
  <2>21. Object(t, k)' = Object(u, k)
    BY <1>5, <2>1, <2>5, <2>9, <2>11, <2>20 DEF Object
  <2> QED BY <2>1, <2>2, <2>8, <2>19, <2>20, <2>21 DEF Becomes
<1>8. CASE node[u][k].Access
  <2>1. PICK x \in NewFor(win[t], node[u][k]) :
             /\ ht' = Duplicated(win[t], win[t], node[u][k], FALSE, x)
             /\ node' = [node EXCEPT ![t][k] =
                        IF DupOK(win[t], node[u][k])
                        THEN DupNode(node[u][k], node[u][k].CloseExec, x)
                        ELSE node[u][k]]
    BY <1>1, <1>2, <1>8
  <2>2. /\ Good'
        /\ \E m \in Vnode : /\ Becomes(t, k, m) /\ m.Access
                            /\ m.CloseExec = node[u][k].CloseExec
                            /\ Object(t, k)' = Object(u, k)
    BY <1>7, <1>8, <2>1
  <2> QED BY <1>2, <1>3, <1>8, <2>2
<1> QED BY <1>1, <1>2, <1>6, <1>8
\* ProcInheritChannels() closes the next descriptor or moves it to the new Win32
\* process; none is a socket, which it would leave alone.
LEMMA MoveChannelGood ==
  ASSUME Good, Loops, Supported, Agreed', UNCHANGED calls, NEW t \in Tasks, MoveChannel(t)
  PROVE  /\ Good'
         /\ \E k \in Fds :
              /\ k = at[t]
              /\ \/ Rests(t) /\ ~node[t][k].Access
                 \/ /\ Becomes(t, k, ZeroNode)
                    /\ node[t][k].Access /\ node[t][k].CloseExec
                 \/ /\ node[t][k].Access /\ ~node[t][k].CloseExec
                    /\ \E m \in Vnode :
                         /\ Becomes(t, k, m) /\ m.Access /\ ~m.CloseExec
                         /\ Object(t, k)' = Object(t, k)
<1>1. /\ pc[t] = "exec" /\ at[t] < OPEN_MAX
      /\ at' = [at EXCEPT ![t] = @ + 1] /\ UNCHANGED <<pc, dad, win, dst, main, full>>
  BY DEF MoveChannel
<1>2. PICK k \in Fds : k = at[t]
  BY <1>1, FdFacts DEF Good, Agreed, Typed, TypeOK
<1>3. PICK n \in Vnode : n = node[t][k]
  BY TypedAt DEF Good, Agreed
<1>4. \/ n.Access /\ n.CloseExec /\ CloseNode(t, k)
      \/ /\ n.Access /\ ~n.CloseExec /\ ~Inheritable(n)
         /\ \E x \in NewFor(dst[t], n) :
              /\ ht' = Duplicated(win[t], dst[t], n, TRUE, x)
              /\ node' = [node EXCEPT ![t][k] =
                           IF DupOK(win[t], n) THEN DupNode(n, FALSE, x) ELSE n]
      \/ (n.Access => ~n.CloseExec /\ Inheritable(n)) /\ UNCHANGED <<ht, node>>
  BY <1>2, <1>3 DEF MoveChannel
<1>5. PICK w \in Wins, v \in Wins : /\ w = win[t] /\ v = dst[t] /\ v \in Used /\ w # v
                                    /\ w = Where(t, k)
  <2>1. ~(k < at[t])
    BY <1>2, IndexFacts
  <2> QED BY <1>1, <2>1 DEF Good, Agreed, Typed, Placed, Alive, Used, Where
<1>6. Stay
  BY <1>1 DEF Stay
<1>7. \A y \in Tasks, g \in Fds : <<y, g>> # <<t, k>> => Where(y, g)' = Where(y, g)
  <2>1. ASSUME NEW y \in Tasks, y # t, NEW g \in Fds PROVE Where(y, g)' = Where(y, g)
    BY <1>1, <2>1 DEF Where, Good, Agreed, Typed, TypeOK
  <2>2. ASSUME NEW g \in Fds, g # k PROVE Where(t, g)' = Where(t, g)
    <3>1. at'[t] = k + 1 /\ (g < k + 1 <=> g < k)
      BY <1>1, <1>2, <2>2, IndexFacts DEF Good, Agreed, Typed, TypeOK
    <3> QED BY <1>1, <1>2, <3>1 DEF Where
  <2> QED BY <2>1, <2>2
<1>8. n.Access => ~Inheritable(n)
  <2>1. "exec" \in calls /\ calls \in Menus
    BY <1>1, <1>2 DEF Loops, Looped, Good, Agreed, Typed, TypeOK
  <2>2. n.Access => Shaped(n)
    BY <1>3 DEF Good, Nodes
  <2> QED BY <2>1, <2>2 DEF Supported, Shaped, Inheritable
<1>9. CASE n.Access /\ n.CloseExec /\ CloseNode(t, k)
  <2>1. Where(t, k) = win[t]
    BY <1>5
  <2> QED BY <1>2, <1>3, <1>6, <1>7, <1>9, <2>1, ClosingGood
<1>10. CASE ~n.Access /\ UNCHANGED <<ht, node>>
  <2>1. \A y \in Tasks, g \in Fds : node[y][g].Access => Where(y, g)' = Where(y, g)
    BY <1>3, <1>7, <1>10
  <2> QED BY <1>2, <1>3, <1>6, <1>10, <2>1, RestGood
<1>11. ASSUME n.Access, ~n.CloseExec, NEW x \in NewFor(dst[t], n),
              ht' = Duplicated(win[t], dst[t], n, TRUE, x),
              node' = [node EXCEPT ![t][k] =
                           IF DupOK(win[t], n) THEN DupNode(n, FALSE, x) ELSE n]
       PROVE  /\ Good'
              /\ \E m \in Vnode : /\ Becomes(t, k, m) /\ m.Access /\ ~m.CloseExec
                                  /\ Object(t, k)' = Object(t, k)
  <2>2. PICK c \in BOOLEAN : ~c /\ c = FALSE
    OBVIOUS
  <2>3. PICK move \in BOOLEAN : move /\ move = TRUE
    OBVIOUS
  <2>4. PICK m, T : m = DupNode(n, c, x) /\ T = Duplicated(w, v, n, move, x)
    OBVIOUS
  <2>5. x \in NewFor(v, n) /\ T = ht'
    BY <1>5, <1>11, <2>3, <2>4
  <2>6. T \in Tables
    <3>1. ht \in Tables
      BY TypedAt DEF Good, Agreed
    <3> QED BY <2>4, <2>5, <3>1, DuplicatedTyped
  <2>7. Copies(w, v, n, c, move, m, T)
    BY <1>3, <1>5, <1>11, <2>4, <2>5, <2>6, CopyGood
  <2>8. node' = [node EXCEPT ![t][k] = m] /\ m \in Vnode
    BY <1>5, <1>11, <2>2, <2>4, <2>7 DEF Copies
  <2>9. node'[t][k] = m
    BY <2>8, TypedAt DEF Good, Agreed
  <2>10. /\ ht[w][n.Handle].obj \in Files /\ n.Handle \in HandlesOf(<<t, k>>)
         /\ HasEvent(n) => n.Event \in HandlesOf(<<t, k>>)
    <3>1. PICK z : z = Where(t, k)
      OBVIOUS
    <3>2. /\ ht[z][n.Handle].obj \in Files /\ n.Handle \in HandlesOf(<<t, k>>)
          /\ HasEvent(n) => n.Event \in Handles
      BY <1>3, <1>11, <3>1, GoodAt
    <3>3. n.Event # PipeEvent
      BY <1>1, <1>3, <1>11 DEF Good, Nodes
    <3> QED BY <1>3, <1>5, <3>1, <3>2, <3>3, FdAssumption DEF HandlesOf
  <2>11. Fresh(t, k) /\ Where(t, k)' = v
    <3>1. Where(t, k)' = v
      <4>1. at'[t] = k + 1 /\ k < k + 1
        BY <1>1, <1>2, IndexFacts DEF Good, Agreed, Typed, TypeOK
      <4> QED BY <1>1, <1>5, <4>1 DEF Where
    <3> QED BY <1>5, <2>5, <2>7, <2>9, <2>10, <3>1 DEF Fresh, Copies
  <2>12. \A y \in Wins, h \in Handles : ht'[y][h] # ht[y][h] =>
           \/ /\ y = v /\ h \in FreeIn(v) /\ (ht'[y][h].inh => "socket" \in calls)
              /\ h = m.Handle \/ ht'[y][h].obj = "event"
           \/ y = w /\ ht'[y][h] = Unused /\ h \in HandlesOf(<<t, k>>)
    BY <2>5, <2>7, <2>10 DEF Copies
  <2>13. Touches(t, {k})
    BY <1>3, <1>5, <1>11, <2>12 DEF Touches
  <2>14. node[t][k].Access => Closes(t, k)
    BY <1>3, <1>5, <2>3, <2>5, <2>7 DEF Closes, Copies
  <2>15. \A y \in Wins, h \in Handles : ht'[y][h] # ht[y][h] /\ ht'[y][h].obj \in Files =>
           full' \/ (m.Access /\ y = Where(t, k)' /\ h = m.Handle)
    BY <2>7, <2>11, <2>12, ObjectFacts, EntryFacts DEF Copies
  <2>16. m.Access => Fresh(t, k) /\ (pc[t] = "exec" => m.Event # PipeEvent)
    BY <2>7, <2>11 DEF Copies
  <2>17. Alive(t)
    BY <1>1 DEF Alive
  <2>18. Good' /\ Change(t, {k})
    BY <1>6, <1>7, <2>8, <2>13, <2>14, <2>15, <2>16, <2>17, OneGood
  <2>19. m.Access /\ m.CloseExec = c /\ T[v][m.Handle].obj = ht[w][n.Handle].obj
    BY <2>7 DEF Copies
  <2>20. Object(t, k)' = Object(t, k)
    BY <1>3, <1>5, <2>5, <2>9, <2>11, <2>19 DEF Object
  <2> QED BY <2>2, <2>8, <2>18, <2>19, <2>20 DEF Becomes
<1>12. CASE /\ n.Access /\ ~n.CloseExec
            /\ \E x \in NewFor(dst[t], n) :
                 /\ ht' = Duplicated(win[t], dst[t], n, TRUE, x)
                 /\ node' = [node EXCEPT ![t][k] =
                           IF DupOK(win[t], n) THEN DupNode(n, FALSE, x) ELSE n]
  <2>1. /\ Good'
        /\ \E m \in Vnode : /\ Becomes(t, k, m) /\ m.Access /\ ~m.CloseExec
                            /\ Object(t, k)' = Object(t, k)
    BY <1>11, <1>12
  <2> QED BY <1>2, <1>3, <1>12, <2>1
<1> QED BY <1>4, <1>8, <1>9, <1>10, <1>12
-----------------------------------------------------------------------------
(* Steps of the control *)

\* Node[] and the handle tables stay, and processes stay where they are.
LEMMA TurnGood ==
  ASSUME Good, Agreed', UNCHANGED calls, NEW t \in Tasks, UNCHANGED <<node, ht, full>>,
         \A w \in Wins : w \in Used' <=> w \in Used,
         \A u \in Tasks, fd \in Fds : node[u][fd].Access =>
           /\ Where(u, fd)' = Where(u, fd) /\ pc'[u] # "none"
           /\ pc'[u] = "exec" => node[u][fd].Event # PipeEvent
  PROVE  Good' /\ Change(t, {})
<1>1. \A u \in Tasks, fd \in Fds : node[u][fd].Access => Same(u, fd)
  BY DEF Same
<1>2. Change(t, {})
  BY <1>1 DEF Change
<1>3. Clean'
  BY DEF Clean, Good
<1> QED BY <1>2, <1>3, GoodStays

LEMMA ForkGood ==
  ASSUME Good, Agreed', UNCHANGED calls, NEW t \in Tasks, Fork(t)
  PROVE  Good' /\ Change(t, {})
<1>1. PICK c \in Tasks :
       /\ pc[c] = "none"
       /\ pc' = [pc EXCEPT ![t] = "fork", ![c] = "child"]
       /\ at' = [at EXCEPT ![c] = 0]
       /\ win' = [win EXCEPT ![c] = win[t]]
  BY DEF Fork
<1>2. pc[t] = "run" /\ UNCHANGED <<dst, main, node, ht, full>>
  BY DEF Fork
<1>3. /\ pc \in [Tasks -> PC] /\ at \in [Tasks -> 0 .. OPEN_MAX]
      /\ win \in [Tasks -> Wins \cup {NoWin}]
  BY DEF Good, Agreed, Typed, TypeOK
<1>4. win[c] \notin Wins
  BY <1>1 DEF Good, Agreed, Typed, Placed, Alive
<1>5. \A w \in Wins : w \in Used' <=> w \in Used
  <2>1. \A u \in Tasks : win'[u] = IF u = c THEN win[t] ELSE win[u]
    BY <1>1, <1>3
  <2> QED BY <1>2, <1>4, <2>1 DEF Used
<1>6. \A u \in Tasks, fd \in Fds : node[u][fd].Access =>
           /\ Where(u, fd)' = Where(u, fd) /\ pc'[u] # "none"
           /\ pc'[u] = "exec" => node[u][fd].Event # PipeEvent
  BY <1>1, <1>2, <1>3 DEF Good, Nodes, Alive, Where
<1> QED BY <1>2, <1>5, <1>6, TurnGood

LEMMA ForkDoneGood ==
  ASSUME Good, Agreed', UNCHANGED calls, NEW t \in Tasks, ForkDone(t)
  PROVE  Good' /\ Change(t, {})
<1>1. /\ pc[t] = "child" /\ pc' = [pc EXCEPT ![t] = "run", ![dad[t]] = "run"]
      /\ at' = [at EXCEPT ![t] = 0] /\ UNCHANGED <<win, dst, main, node, ht, full>>
  BY DEF ForkDone
<1>2. dad[t] \in Tasks /\ pc[dad[t]] = "fork"
  BY <1>1 DEF Good, Agreed, Typed, Placed
<1>3. pc \in [Tasks -> PC] /\ at \in [Tasks -> 0 .. OPEN_MAX]
  BY DEF Good, Agreed, Typed, TypeOK
<1>4. \A u \in Tasks, fd \in Fds : node[u][fd].Access =>
           /\ Where(u, fd)' = Where(u, fd) /\ pc'[u] # "none"
           /\ pc'[u] = "exec" => node[u][fd].Event # PipeEvent
  BY <1>1, <1>2, <1>3 DEF Good, Nodes, Alive, Where
<1>5. Used' = Used
  BY <1>1 DEF Used
<1> QED BY <1>1, <1>4, <1>5, TurnGood

\* closefrom() and exit() begin, and closefrom() returns.
LEMMA StageGood ==
  ASSUME Good, Agreed', UNCHANGED <<win, dst, node, ht, full, calls>>, NEW t \in Tasks,
         pc[t] # "exec", NEW s, s \notin {"exec", "none"}, NEW i,
         pc' = [pc EXCEPT ![t] = s], at' = [at EXCEPT ![t] = i]
  PROVE  Good' /\ Change(t, {})
<1>1. pc \in [Tasks -> PC] /\ at \in [Tasks -> 0 .. OPEN_MAX]
  BY DEF Good, Agreed, Typed, TypeOK
<1>2. \A u \in Tasks, fd \in Fds : node[u][fd].Access =>
           /\ Where(u, fd)' = Where(u, fd) /\ pc'[u] # "none"
           /\ pc'[u] = "exec" => node[u][fd].Event # PipeEvent
  BY <1>1 DEF Good, Nodes, Alive, Where
<1>3. Used' = Used
  BY DEF Used
<1> QED BY <1>2, <1>3, TurnGood

\* CreateProcessAsUser() hands down no handle: only sockets are inheritable.
LEMMA ExecGood ==
  ASSUME Good, Supported, Agreed', UNCHANGED calls, NEW t \in Tasks, Exec(t)
  PROVE  Good' /\ Change(t, {})
<1>1. PICK v \in Wins \ Used :
       /\ dst' = [dst EXCEPT ![t] = v]
       /\ ht' = [ht EXCEPT ![v] = [h \in Handles |->
                   CASE h = PipeEvent -> [obj |-> "event", inh |-> FALSE]
                     [] h # PipeEvent /\ ht[win[t]][h].inh -> ht[win[t]][h]
                     [] OTHER -> Unused]]
  BY DEF Exec
<1>2. /\ pc[t] = "run" /\ "exec" \in calls
      /\ pc' = [pc EXCEPT ![t] = "exec"] /\ at' = [at EXCEPT ![t] = 0]
      /\ UNCHANGED <<dad, win, main, node, full>>
  BY DEF Exec
<1>3. \A fd \in Fds : node[t][fd].Event # PipeEvent
  BY DEF Exec, Supported
<1>4. /\ pc \in [Tasks -> PC] /\ at \in [Tasks -> 0 .. OPEN_MAX]
      /\ dst \in [Tasks -> Wins \cup {NoWin}] /\ win[t] \in Wins /\ ht \in Tables
  BY <1>2, TypedAt DEF Good, Agreed, Typed, TypeOK
<1>5. "socket" \notin calls
  BY <1>2 DEF Supported, Good, Agreed, Typed, TypeOK
<1>6. \A h \in Handles : ~ht[win[t]][h].inh
  BY <1>4, <1>5 DEF Good, Clean
<1>7. \A w \in Wins, h \in Handles :
        ht'[w][h] = IF w = v THEN IF h = PipeEvent THEN [obj |-> "event", inh |-> FALSE]
                                  ELSE Unused
                    ELSE ht[w][h]
  BY <1>1, <1>4, <1>6 DEF Tables
<1>8. \A u \in Tasks, fd \in Fds : Where(u, fd)' = Where(u, fd)
  <2>1. ASSUME NEW u \in Tasks, u # t, NEW fd \in Fds PROVE Where(u, fd)' = Where(u, fd)
    BY <1>1, <1>2, <1>4, <2>1 DEF Where
  <2>2. ASSUME NEW fd \in Fds PROVE Where(t, fd)' = Where(t, fd)
    <3>1. at'[t] = 0 /\ ~(fd < 0)
      BY <1>2, <1>4 DEF Fds
    <3> QED BY <1>2, <3>1 DEF Where
  <2> QED BY <2>1, <2>2
<1>9. dst[t] \notin Wins
  BY <1>2 DEF Good, Agreed, Typed, Placed
<1>10. \A w \in Wins : w \in Used' <=> (w \in Used \/ w = v)
  <2>1. \A u \in Tasks : dst'[u] = IF u = t THEN v ELSE dst[u]
    BY <1>1, <1>4
  <2> QED BY <1>2, <1>9, <2>1 DEF Used
<1>11. \A u \in Tasks, fd \in Fds : node[u][fd].Access => Same(u, fd) /\ Where(u, fd)' # v
  <2>1. ASSUME NEW u \in Tasks, NEW fd \in Fds PROVE Where(u, fd) # v
    BY DEF Where, Used
  <2> QED BY <1>2, <1>8, <2>1 DEF Same
<1>12. Change(t, {})
  <2>1. \A w \in Wins, h \in Handles : ht'[w][h] # ht[w][h] =>
          \A u \in Tasks, fd \in Fds : node'[u][fd].Access => Where(u, fd)' # w
    BY <1>2, <1>7, <1>11
  <2>2. \A w \in Wins, h \in Handles : ht'[w][h] # ht[w][h] => ht'[w][h].obj \notin Files
    BY <1>7, ObjectFacts, EntryFacts
  <2> QED BY <1>2, <1>11, <2>1, <2>2 DEF Change
<1>13. Clean'
  <2>1. ASSUME NEW w \in Wins, w \in Used' PROVE ht'[w][PipeEvent].obj = "event"
    BY <1>7, <1>10, <2>1, FdAssumption DEF Good, Clean
  <2>2. ASSUME NEW w \in Wins, NEW h \in Handles, w \notin Used' PROVE ht'[w][h] = Unused
    BY <1>7, <1>10, <2>2 DEF Good, Clean
  <2>3. ASSUME NEW w \in Wins, NEW h \in Handles PROVE ~ht'[w][h].inh
    BY <1>5, <1>7, EntryFacts DEF Good, Clean
  <2> QED BY <2>1, <2>2, <2>3 DEF Clean
<1>14. \A u \in Tasks, fd \in Fds : node'[u][fd].Access =>
         pc'[u] # "none" /\ (pc'[u] = "exec" => node'[u][fd].Event # PipeEvent)
  BY <1>2, <1>3, <1>4 DEF Good, Nodes, Alive
<1> QED BY <1>12, <1>13, <1>14, GoodStays
\* The last process to leave a Win32 process takes its handles along.
LEMMA LeaveEffect ==
  ASSUME Good, UNCHANGED calls, NEW t \in Tasks, NEW v, Leave(t, v),
         win[t] \in Wins, v # win[t], v = NoWin \/ v \in Wins, dst[t] \in Wins => v = dst[t],
         v \in Wins => v = dst[t]
  PROVE  /\ \A w \in Wins, h \in Handles :
              ht'[w][h] = IF Alone(t) /\ w = win[t] THEN Unused ELSE ht[w][h]
         /\ \A u \in Tasks : win'[u] = IF u = t THEN v ELSE win[u]
         /\ \A u \in Tasks : dst'[u] = IF u = t THEN NoWin ELSE dst[u]
         /\ Alone(t) => \A u \in Tasks : u # t => win[u] # win[t] /\ dst[u] # win[t]
         /\ Clean'
<1>1. /\ win \in [Tasks -> Wins \cup {NoWin}] /\ dst \in [Tasks -> Wins \cup {NoWin}]
      /\ ht \in Tables /\ NoWin \notin Wins
  BY TypedAt, FdAssumption DEF Good, Agreed, Typed, TypeOK
<1>2. /\ \A u \in Tasks : win'[u] = IF u = t THEN v ELSE win[u]
      /\ \A u \in Tasks : dst'[u] = IF u = t THEN NoWin ELSE dst[u]
  BY <1>1 DEF Leave
<1>3. \A w \in Wins, h \in Handles :
              ht'[w][h] = IF Alone(t) /\ w = win[t] THEN Unused ELSE ht[w][h]
  <2>1. CASE Alone(t)
    <3>1. ht' = Closed(win[t], Handles)
      BY <2>1 DEF Leave
    <3> QED BY <1>1, <2>1, <3>1, ClosedEffect
  <2>2. CASE ~Alone(t)
    BY <2>2 DEF Leave
  <2> QED BY <2>1, <2>2
<1>4. Alone(t) => \A u \in Tasks : u # t => win[u] # win[t] /\ dst[u] # win[t]
  BY DEF Alone, Good, Agreed, Typed, Placed
<1>5. \A w \in Wins : w \in Used' <=> (w \in Used /\ ~(Alone(t) /\ w = win[t]))
  <2>1. ASSUME NEW w \in Wins
        PROVE  w \in Used' <=> w = v \/ \E u \in Tasks : u # t /\ (w = win[u] \/ w = dst[u])
    BY <1>1, <1>2 DEF Used
  <2>2. ASSUME NEW w \in Wins
        PROVE  w \in Used <=> \/ w = win[t] \/ w = v
                              \/ \E u \in Tasks : u # t /\ (w = win[u] \/ w = dst[u])
    BY <1>1 DEF Used
  <2>3. ~Alone(t) => \E u \in Tasks : u # t /\ win[u] = win[t]
    BY DEF Alone
  <2> QED BY <1>4, <2>1, <2>2, <2>3
<1>6. Clean'
  BY <1>3, <1>5, EntryFacts, FdAssumption DEF Clean, Good
<1> QED BY <1>2, <1>3, <1>4, <1>6

LEMMA ExecDoneGood ==
  ASSUME Good, Agreed', UNCHANGED calls, NEW t \in Tasks, ExecDone(t)
  PROVE  Good' /\ Change(t, {})
<1>1. /\ pc[t] = "exec" /\ at[t] = OPEN_MAX
      /\ pc' = [pc EXCEPT ![t] = "run"] /\ at' = [at EXCEPT ![t] = 0]
      /\ Leave(t, dst[t]) /\ UNCHANGED <<dad, node, full>>
  BY DEF ExecDone
<1>2. PICK v \in Wins : v = dst[t] /\ v # win[t] /\ win[t] \in Wins
  BY <1>1 DEF Good, Agreed, Typed, Placed, Alive
<1>3. /\ \A w \in Wins, h \in Handles :
              ht'[w][h] = IF Alone(t) /\ w = win[t] THEN Unused ELSE ht[w][h]
      /\ \A u \in Tasks : win'[u] = IF u = t THEN v ELSE win[u]
      /\ \A u \in Tasks : dst'[u] = IF u = t THEN NoWin ELSE dst[u]
      /\ Alone(t) => \A u \in Tasks : u # t => win[u] # win[t] /\ dst[u] # win[t]
      /\ Clean'
  BY <1>1, <1>2, LeaveEffect
<1>4. pc \in [Tasks -> PC] /\ at \in [Tasks -> 0 .. OPEN_MAX]
  BY DEF Good, Agreed, Typed, TypeOK
<1>5. \A u \in Tasks, fd \in Fds : Where(u, fd)' = Where(u, fd)
  <2>1. ASSUME NEW u \in Tasks, u # t, NEW fd \in Fds PROVE Where(u, fd)' = Where(u, fd)
    BY <1>1, <1>3, <1>4, <2>1 DEF Where
  <2>2. ASSUME NEW fd \in Fds PROVE Where(t, fd)' = Where(t, fd)
    <3>1. fd < at[t] /\ pc'[t] = "run"
      BY <1>1, <1>4, FdFacts
    <3> QED BY <1>1, <1>2, <1>3, <3>1 DEF Where
  <2> QED BY <2>1, <2>2
<1>6. \A u \in Tasks, fd \in Fds : node[u][fd].Access => Same(u, fd)
  BY <1>1, <1>5 DEF Same
<1>7. Change(t, {})
  <2>1. ASSUME Alone(t), NEW u \in Tasks, NEW fd \in Fds PROVE Where(u, fd)' # win[t]
    <3>1. CASE u = t
      <4>1. fd < at[t]
        BY <1>1, FdFacts
      <4> QED BY <1>1, <1>2, <1>5, <3>1, <4>1 DEF Where
    <3>2. CASE u # t
      BY <1>3, <1>5, <2>1, <3>2 DEF Where
    <3> QED BY <3>1, <3>2
  <2>2. \A w \in Wins, h \in Handles : ht'[w][h] # ht[w][h] =>
          /\ \A u \in Tasks, fd \in Fds : node'[u][fd].Access => Where(u, fd)' # w
          /\ ht'[w][h].obj \notin Files
    BY <1>3, <2>1, ObjectFacts, EntryFacts
  <2> QED BY <1>1, <1>6, <2>2 DEF Change
<1>8. \A u \in Tasks, fd \in Fds : node'[u][fd].Access =>
         pc'[u] # "none" /\ (pc'[u] = "exec" => node'[u][fd].Event # PipeEvent)
  BY <1>1, <1>4 DEF Good, Nodes, Alive
<1> QED BY <1>3, <1>7, <1>8, GoodStays

\* exit() of the last process of a Win32 process, or of one that has closed its
\* descriptors.
LEMMA DieGood ==
  ASSUME Good, Agreed', UNCHANGED calls, NEW t \in Tasks, Die(t),
         pc[t] \in {"run", "exit"},
         Alone(t) \/ \A fd \in Fds : ~node[t][fd].Access
  PROVE  Good' /\ Change(t, {})
<1>1. /\ pc' = [pc EXCEPT ![t] = "none"] /\ at' = [at EXCEPT ![t] = 0]
      /\ node' = [node EXCEPT ![t] = [fd \in Fds |-> ZeroNode]]
      /\ Leave(t, NoWin) /\ UNCHANGED <<dad, full>>
  BY DEF Die
<1>2. win[t] \in Wins /\ NoWin # win[t] /\ dst[t] \notin Wins
  BY FdAssumption DEF Good, Agreed, Typed, Placed, Alive
<1>3. /\ \A w \in Wins, h \in Handles :
              ht'[w][h] = IF Alone(t) /\ w = win[t] THEN Unused ELSE ht[w][h]
      /\ \A u \in Tasks : win'[u] = IF u = t THEN NoWin ELSE win[u]
      /\ \A u \in Tasks : dst'[u] = IF u = t THEN NoWin ELSE dst[u]
      /\ Alone(t) => \A u \in Tasks : u # t => win[u] # win[t] /\ dst[u] # win[t]
      /\ Clean'
  BY <1>1, <1>2, FdAssumption, LeaveEffect
<1>4. pc \in [Tasks -> PC] /\ at \in [Tasks -> 0 .. OPEN_MAX]
      /\ node \in [Tasks -> [Fds -> Vnode]]
  BY DEF Good, Agreed, Typed, TypeOK
<1>5. \A u \in Tasks, fd \in Fds :
        node'[u][fd] = IF u = t THEN ZeroNode ELSE node[u][fd]
  BY <1>1, <1>4
<1>6. \A u \in Tasks, fd \in Fds : u # t => Where(u, fd)' = Where(u, fd)
  BY <1>1, <1>3, <1>4 DEF Where
<1>7. \A u \in Tasks, fd \in Fds : u # t /\ node[u][fd].Access => Same(u, fd)
  BY <1>5, <1>6 DEF Same
<1>8. \A fd \in Fds : node[t][fd].Access => Closes(t, fd)
  <2> SUFFICES ASSUME NEW fd \in Fds, node[t][fd].Access PROVE Closes(t, fd)
    OBVIOUS
  <2>1. Where(t, fd) = win[t] /\ Alone(t)
    BY DEF Where
  <2>2. node[t][fd].Handle \in Handles
    BY GoodAt
  <2> QED BY <1>2, <1>3, <2>1, <2>2 DEF Closes
<1>9. \A u \in Tasks, fd \in Fds : node'[u][fd].Access => u # t /\ node[u][fd].Access
  BY <1>5, NodeFacts
<1>10. Change(t, {})
  <2>1. ASSUME Alone(t), NEW u \in Tasks, u # t, NEW fd \in Fds
        PROVE  Where(u, fd)' # win[t]
    BY <1>3, <1>6, <2>1 DEF Where
  <2>2. \A w \in Wins, h \in Handles : ht'[w][h] # ht[w][h] =>
          /\ \A u \in Tasks, fd \in Fds : node'[u][fd].Access => Where(u, fd)' # w
          /\ ht'[w][h].obj \notin Files
    BY <1>3, <1>9, <2>1, ObjectFacts, EntryFacts
  <2> QED BY <1>1, <1>7, <1>8, <1>9, <2>2 DEF Change
<1>11. \A u \in Tasks, fd \in Fds : node'[u][fd].Access =>
         pc'[u] # "none" /\ (pc'[u] = "exec" => node'[u][fd].Event # PipeEvent)
  BY <1>1, <1>4, <1>5, <1>9 DEF Good, Nodes, Alive
<1> QED BY <1>3, <1>10, <1>11, GoodStays
-----------------------------------------------------------------------------
(* The loops again *)

LEMMA ObjectStays ==
  ASSUME Good, NEW t \in Tasks, NEW S \in SUBSET Fds, Change(t, S),
         NEW u \in Tasks, NEW fd \in Fds, node'[u][fd].Access, ~(u = t /\ fd \in S)
  PROVE  Object(u, fd)' = Object(u, fd) /\ node[u][fd].Access
<1>1. PICK n, w : n = node[u][fd] /\ w = Where(u, fd)
  OBVIOUS
<1>2. Same(u, fd) /\ ht'[w][n.Handle] = ht[w][n.Handle]
  BY <1>1, SameHandle
<1> QED BY <1>1, <1>2 DEF Same, Object

\* Entries that a step leaves alone.
LEMMA TwinStays ==
  ASSUME Good, NEW t \in Tasks, NEW S \in SUBSET Fds, Change(t, S),
         NEW u \in Tasks, NEW fd \in Fds, Twin(u, fd), pc[u] = "child",
         dad'[u] = dad[u], dad[u] # t, ~(u = t /\ fd \in S),
         node'[u][fd] = node[u][fd], node'[dad[u]] = node[dad[u]]
  PROVE  Twin(u, fd)'
<1>1. PICK x \in Tasks : x = dad[u]
  BY DEF Good, Agreed, Typed, Placed
<1>2. /\ node[u][fd].Access <=> node[x][fd].Access
      /\ node[u][fd].Access => /\ node[u][fd].CloseExec = node[x][fd].CloseExec
                               /\ Object(u, fd) = Object(x, fd)
  BY <1>1 DEF Twin
<1>3. node'[u][fd].Access => Object(u, fd)' = Object(u, fd)
  BY ObjectStays
<1>4. node'[x][fd].Access => Object(x, fd)' = Object(x, fd)
  BY <1>1, ObjectStays
<1>5. /\ node'[u][fd].Access <=> node'[x][fd].Access
      /\ node'[u][fd].Access => /\ node'[u][fd].CloseExec = node'[x][fd].CloseExec
                                /\ Object(u, fd)' = Object(x, fd)'
  BY <1>1, <1>2, <1>3, <1>4
<1>6. Object(x, fd)' = Object(dad[u], fd)' /\ dad'[u] = x
  <2>1. dad'[u] = x
    BY <1>1
  <2> QED BY <2>1 DEF Object, Where
<1> QED BY <1>5, <1>6 DEF Twin

\* A step of t is none of the loops of the others.
LEMMA LoopsStay ==
  ASSUME Good, Loops, UNCHANGED calls, NEW t \in Tasks, NEW S \in SUBSET Fds, Change(t, S),
         pc[t] # "fork", \A u \in Tasks : u # t => node'[u] = node[u],
         NEW u \in Tasks, u # t, pc'[u] = pc[u], at'[u] = at[u], dad'[u] = dad[u]
  PROVE  \A fd \in Fds : Looped(u, fd)'
<1> SUFFICES ASSUME NEW fd \in Fds PROVE Looped(u, fd)'
  OBVIOUS
<1>1. Looped(u, fd) /\ node'[u][fd] = node[u][fd]
  BY DEF Loops
<1>2. ASSUME pc[u] = "child", fd < at[u] PROVE Twin(u, fd)'
  <2>1. Twin(u, fd)
    BY <1>1, <1>2 DEF Looped
  <2>2. dad[u] \in Tasks /\ pc[dad[u]] = "fork"
    BY <1>2 DEF Good, Agreed, Typed, Placed
  <2>3. dad[u] # t /\ node'[dad[u]] = node[dad[u]]
    BY <2>2
  <2> QED BY <1>1, <1>2, <2>1, <2>3, TwinStays
<1> QED BY <1>1, <1>2 DEF Looped

\* Those of t itself, when it is in none.
LEMMA LoopsFree ==
  ASSUME Good, Loops, UNCHANGED <<calls, dad>>, NEW t \in Tasks, NEW S \in SUBSET Fds,
         Change(t, S), pc[t] # "fork",
         \A u \in Tasks : u # t => node'[u] = node[u] /\ pc'[u] = pc[u] /\ at'[u] = at[u],
         pc'[t] \notin {"exec", "exit", "child"}
  PROVE  Loops'
<1>1. \A u \in Tasks, fd \in Fds : u # t => Looped(u, fd)'
  BY LoopsStay
<1>2. \A fd \in Fds : Looped(t, fd)'
  BY DEF Looped
<1> QED BY <1>1, <1>2 DEF Loops
\* What the calls share.
LEMMA CallLoops ==
  ASSUME Good, Loops, UNCHANGED <<calls, pc, at, dad>>, NEW t \in Tasks, pc[t] = "run",
         NEW S \in SUBSET Fds, Change(t, S), NEW N, node' = [node EXCEPT ![t] = N]
  PROVE  Loops'
<1>1. \A u \in Tasks : u # t => node'[u] = node[u]
  BY TypedAt DEF Good, Agreed
<1> QED BY <1>1, LoopsFree

LEMMA EffectLoops ==
  ASSUME Good, Loops, UNCHANGED <<calls, pc, at, dad>>, NEW t \in Tasks, pc[t] = "run",
         Rests(t) \/ \E fd \in Fds : \E m : Becomes(t, fd, m)
  PROVE  Loops'
<1>1. CASE Rests(t)
  <2>1. node' = [node EXCEPT ![t] = node[t]]
    BY <1>1, TypedAt DEF Rests, Good, Agreed
  <2> QED BY <1>1, <2>1, CallLoops DEF Rests
<1>2. CASE \E fd \in Fds : \E m : Becomes(t, fd, m)
  <2>4. PICK fd \in Fds : \E m : node' = [node EXCEPT ![t][fd] = m] /\ Change(t, {fd})
    BY <1>2 DEF Becomes
  <2>1. PICK m : node' = [node EXCEPT ![t][fd] = m] /\ Change(t, {fd})
    BY <2>4
  <2>2. PICK N : N = [node[t] EXCEPT ![fd] = m]
    OBVIOUS
  <2>3. node' = [node EXCEPT ![t] = N]
    BY <2>1, <2>2, TypedAt DEF Good, Agreed
  <2> QED BY <2>1, <2>3, CallLoops
<1> QED BY <1>1, <1>2

LEMMA CallGood ==
  ASSUME Good, Loops, Supported, Agreed', UNCHANGED calls, NEW t \in Tasks,
         \/ \E f \in Paths, c \in BOOLEAN : Open(t, f, c)
         \/ Pipe(t) \/ Socket(t)
         \/ \E fd, min \in Fds, c \in BOOLEAN : Dup(t, fd, c, min)
         \/ \E old, new \in Fds : Dup2(t, old, new)
         \/ \E fd \in Fds : Close(t, fd)
         \/ \E fd \in Fds, c \in BOOLEAN : SetFd(t, fd, c) \/ SetFl(t, fd, c)
  PROVE  Good' /\ Loops'
<1>1. pc[t] = "run" /\ UNCHANGED <<pc, at, dad>>
  BY DEF Open, Pipe, Socket, Dup, Dup2, Close, SetFd, SetFl
<1>2. ASSUME NEW f \in Paths, NEW c \in BOOLEAN, Open(t, f, c) PROVE Good' /\ Loops'
  <2>1. /\ Good'
        /\ Rests(t) \/ \E fd \in Fds, m \in Vnode : Becomes(t, fd, m)
    BY <1>2, OpenGood
  <2> QED BY <1>1, <2>1, EffectLoops
<1>3. CASE Socket(t)
  <2>1. /\ Good'
        /\ Rests(t) \/ \E fd \in Fds, m \in Vnode : Becomes(t, fd, m)
    BY <1>3, SocketGood
  <2> QED BY <1>1, <2>1, EffectLoops
<1>4. CASE Pipe(t)
  <2>1. /\ Good'
        /\ \/ Rests(t) \/ \E fd \in Fds, m \in Vnode : Becomes(t, fd, m)
           \/ \E r, s \in Fds, m1, m2 \in Vnode :
                /\ node' = [node EXCEPT ![t][r] = m1, ![t][s] = m2]
                /\ Change(t, {r, s})
    BY <1>4, PipeGood
  <2>2. ASSUME NEW r \in Fds, NEW s \in Fds, NEW m1, NEW m2, Change(t, {r, s}),
               node' = [node EXCEPT ![t][r] = m1, ![t][s] = m2]
        PROVE  Loops'
    <3>1. PICK N : N = [node[t] EXCEPT ![r] = m1, ![s] = m2]
      OBVIOUS
    <3>2. node' = [node EXCEPT ![t] = N]
      BY <2>2, <3>1, TypedAt DEF Good, Agreed
    <3> QED BY <1>1, <2>2, <3>2, CallLoops
  <2> QED BY <1>1, <2>1, <2>2, EffectLoops
<1>5. ASSUME NEW fd \in Fds, NEW min \in Fds, NEW c \in BOOLEAN, Dup(t, fd, c, min)
      PROVE  Good' /\ Loops'
  <2>1. /\ Good'
        /\ Rests(t) \/ \E g \in Fds, m \in Vnode : Becomes(t, g, m)
    BY <1>5, DupGood
  <2> QED BY <1>1, <2>1, EffectLoops
<1>6. ASSUME NEW old \in Fds, NEW new \in Fds, Dup2(t, old, new) PROVE Good' /\ Loops'
  <2>1. Good' /\ \E m \in Vnode : Becomes(t, new, m)
    BY <1>6, Dup2Good
  <2> QED BY <1>1, <2>1, EffectLoops
<1>7. ASSUME NEW fd \in Fds, Close(t, fd) PROVE Good' /\ Loops'
  BY <1>1, <1>7, CloseCallGood, EffectLoops
<1>8. ASSUME NEW fd \in Fds, NEW c \in BOOLEAN, SetFd(t, fd, c) \/ SetFl(t, fd, c)
      PROVE  Good' /\ Loops'
  <2>1. ~SetClosed
    BY DEF Supported
  <2>2. /\ Good'
        /\ \E m \in Vnode : node' = [node EXCEPT ![t][fd] = m] /\ Change(t, {})
    BY <1>8, <2>1, SetGood
  <2>3. PICK m \in Vnode : node' = [node EXCEPT ![t][fd] = m]
    BY <2>2
  <2>4. PICK N : N = [node[t] EXCEPT ![fd] = m]
    OBVIOUS
  <2>5. node' = [node EXCEPT ![t] = N]
    BY <2>3, <2>4, TypedAt DEF Good, Agreed
  <2> QED BY <1>1, <2>2, <2>5, CallLoops
<1> QED BY <1>2, <1>3, <1>4, <1>5, <1>6, <1>7, <1>8

\* The loops of closefrom(), exit(), fork() and execve() take a step.
LEMMA LoopGood ==
  ASSUME Good, Loops, Supported, Agreed', UNCHANGED calls, NEW t \in Tasks,
         CloseNext(t) \/ CopyChannel(t) \/ MoveChannel(t)
  PROVE  Good' /\ Loops'
<1>1. /\ pc[t] \in {"closing", "exit", "child", "exec"}
      /\ at' = [at EXCEPT ![t] = @ + 1] /\ UNCHANGED <<pc, dad>>
  BY DEF CloseNext, CopyChannel, MoveChannel
<1>2. at \in [Tasks -> 0 .. OPEN_MAX] /\ node \in [Tasks -> [Fds -> Vnode]]
  BY DEF Good, Agreed, Typed, TypeOK
<1>3. ASSUME NEW k \in Fds, k = at[t], Rests(t) \/ \E m : Becomes(t, k, m),
             Looped(t, k)'
      PROVE  Loops'
  <2>1. PICK S \in SUBSET Fds : Change(t, S) /\ S \subseteq {k}
    BY <1>3 DEF Rests, Becomes
  <2>2. \A u \in Tasks, fd \in Fds : <<u, fd>> # <<t, k>> => node'[u][fd] = node[u][fd]
    BY <1>2, <1>3 DEF Rests, Becomes
  <2>3. \A u \in Tasks : u # t => node'[u] = node[u]
    BY <1>2, <1>3 DEF Rests, Becomes
  <2>4. at'[t] = k + 1 /\ \A u \in Tasks : u # t => at'[u] = at[u]
    BY <1>1, <1>2, <1>3
  <2>5. \A u \in Tasks, fd \in Fds : u # t => Looped(u, fd)'
    BY <1>1, <2>1, <2>3, <2>4, LoopsStay
  <2>6. ASSUME NEW fd \in Fds, fd # k PROVE Looped(t, fd)'
    <3>1. fd < at'[t] <=> fd < at[t]
      BY <1>3, <2>4, <2>6, IndexFacts
    <3>2. Looped(t, fd) /\ node'[t][fd] = node[t][fd]
      BY <2>2, <2>6 DEF Loops
    <3>3. ASSUME pc[t] = "child", fd < at[t] PROVE Twin(t, fd)'
      <4>1. Twin(t, fd)
        BY <3>2, <3>3 DEF Looped
      <4>2. dad[t] \in Tasks /\ pc[dad[t]] = "fork" /\ dad[t] # t
        BY <3>3 DEF Good, Agreed, Typed, Placed
      <4>3. node'[dad[t]] = node[dad[t]] /\ ~(t = t /\ fd \in S)
        BY <2>1, <2>3, <2>6, <4>2
      <4> QED BY <1>1, <2>1, <3>2, <3>3, <4>1, <4>2, <4>3, TwinStays
    <3> QED BY <1>1, <3>1, <3>2, <3>3 DEF Looped
  <2> QED BY <1>3, <2>5, <2>6 DEF Loops
<1>4. ASSUME NEW k \in Fds, k = at[t] PROVE k < at'[t]
  BY <1>1, <1>2, <1>4, IndexFacts
<1>5. CASE CloseNext(t)
  <2>1. PICK k \in Fds : k = at[t]
    BY <1>5, CloseNextGood
  <2>2. Good' /\ ((Rests(t) /\ ~node[t][k].Access) \/ Becomes(t, k, ZeroNode))
    BY <1>5, <2>1, CloseNextGood
  <2>3. ~node'[t][k].Access
    BY <1>2, <2>2, NodeFacts DEF Rests, Becomes
  <2>4. Looped(t, k)'
    BY <1>1, <1>5, <2>3 DEF Looped, CloseNext
  <2> QED BY <1>3, <2>1, <2>2, <2>4
<1>6. CASE CopyChannel(t)
  <2>1. PICK k \in Fds, u \in Tasks :
              /\ k = at[t] /\ u = dad[t] /\ u # t
              /\ \/ Rests(t) /\ ~node[u][k].Access
                 \/ /\ node[u][k].Access
                    /\ \E m \in Vnode :
                         /\ Becomes(t, k, m) /\ m.Access
                         /\ m.CloseExec = node[u][k].CloseExec
                         /\ Object(t, k)' = Object(u, k)
    BY <1>6, CopyChannelGood
  <2>2. Good' /\ pc[t] = "child"
    BY <1>6, CopyChannelGood DEF CopyChannel
  <2>3. ~(k < at[t]) /\ k < at'[t]
    BY <1>4, <2>1, IndexFacts
  <2>4. Twin(t, k)'
    <3>1. CASE Rests(t) /\ ~node[u][k].Access
      <4>1. ~node[t][k].Access
        BY <2>2, <2>3 DEF Loops, Looped
      <4> QED BY <1>1, <2>1, <3>1, <4>1 DEF Rests, Twin
    <3>2. ASSUME node[u][k].Access, NEW m \in Vnode, Becomes(t, k, m), m.Access,
                 m.CloseExec = node[u][k].CloseExec, Object(t, k)' = Object(u, k)
          PROVE  Twin(t, k)'
      <4>1. /\ node'[t][k] = m /\ node'[u] = node[u] /\ dad'[t] = u
            /\ Change(t, {k})
        BY <1>1, <1>2, <2>1, <3>2 DEF Becomes
      <4>2. Object(u, k)' = Object(u, k)
        BY <2>1, <3>2, <4>1, ObjectStays
      <4>3. Object(u, k)' = Object(dad[t], k)'
        BY <4>1 DEF Object, Where
      <4> QED BY <3>2, <4>1, <4>2, <4>3 DEF Twin
    <3> QED BY <2>1, <3>1, <3>2
  <2>5. Looped(t, k)'
    BY <1>1, <2>2, <2>3, <2>4 DEF Looped
  <2> QED BY <1>3, <2>1, <2>2, <2>5
<1>7. CASE MoveChannel(t)
  <2>1. PICK k \in Fds :
              /\ k = at[t]
              /\ \/ Rests(t) /\ ~node[t][k].Access
                 \/ Becomes(t, k, ZeroNode)
                 \/ \E m \in Vnode : Becomes(t, k, m) /\ ~m.CloseExec
    BY <1>7, MoveChannelGood
  <2>2. Good' /\ pc[t] = "exec"
    BY <1>7, MoveChannelGood DEF MoveChannel
  <2>3. ~(node'[t][k].Access /\ node'[t][k].CloseExec)
    BY <1>2, <2>1, NodeFacts DEF Rests, Becomes
  <2>4. "exec" \in calls
    BY <2>2, <2>1 DEF Loops, Looped
  <2>5. Looped(t, k)'
    BY <1>1, <2>2, <2>3, <2>4 DEF Looped
  <2> QED BY <1>3, <2>1, <2>2, <2>5
<1> QED BY <1>5, <1>6, <1>7
\* The steps between the calls and the loops.
LEMMA ControlGood ==
  ASSUME Good, Loops, Supported, Agreed', UNCHANGED calls, NEW t \in Tasks,
         \/ Fork(t) \/ ForkDone(t) \/ Exec(t) \/ ExecDone(t)
         \/ Exit(t) \/ (\E fd \in Fds : CloseFrom(t, fd)) \/ CloseDone(t)
  PROVE  Good' /\ Loops' /\ Change(t, {})
<1>1. /\ pc \in [Tasks -> PC] /\ at \in [Tasks -> 0 .. OPEN_MAX]
      /\ dad \in [Tasks -> Tasks \cup {NoTask}] /\ node \in [Tasks -> [Fds -> Vnode]]
  BY DEF Good, Agreed, Typed, TypeOK
<1>2. \A fd \in Fds : ~(fd < 0)
  BY DEF Fds
<1>3. CASE Fork(t)
  <2>1. Good' /\ Change(t, {}) /\ node' = node /\ pc[t] = "run"
    BY <1>3, ForkGood DEF Fork
  <2>2. PICK c \in Tasks :
          /\ pc[c] = "none" /\ pc' = [pc EXCEPT ![t] = "fork", ![c] = "child"]
          /\ at' = [at EXCEPT ![c] = 0] /\ dad' = [dad EXCEPT ![c] = t]
    BY <1>3 DEF Fork
  <2>3. ASSUME NEW u \in Tasks, u # t, u # c PROVE \A fd \in Fds : Looped(u, fd)'
    <3>1. pc'[u] = pc[u] /\ at'[u] = at[u] /\ dad'[u] = dad[u]
      BY <1>1, <2>2, <2>3
    <3>2. {} \in SUBSET Fds /\ pc[t] # "fork"
      BY <2>1
    <3> QED BY <2>1, <2>3, <3>1, <3>2, LoopsStay
  <2>4. pc'[t] = "fork"
    BY <1>1, <2>1, <2>2
  <2>5. \A fd \in Fds : Looped(c, fd)'
    <3>1. pc'[c] = "child" /\ at'[c] = 0
      BY <1>1, <2>2
    <3>2. \A fd \in Fds : ~node[c][fd].Access
      BY <2>2 DEF Good, Nodes, Alive
    <3> QED BY <1>2, <2>1, <3>1, <3>2 DEF Looped
  <2>6. \A fd \in Fds : Looped(t, fd)'
    BY <2>4 DEF Looped
  <2> QED BY <2>1, <2>3, <2>5, <2>6 DEF Loops
<1>4. CASE ForkDone(t)
  <2>1. Good' /\ Change(t, {})
    BY <1>4, ForkDoneGood
  <2>2. /\ pc[t] = "child" /\ pc' = [pc EXCEPT ![t] = "run", ![dad[t]] = "run"]
        /\ dad' = [dad EXCEPT ![t] = NoTask] /\ at' = [at EXCEPT ![t] = 0]
        /\ node' = node
    BY <1>4 DEF ForkDone
  <2>3. dad[t] \in Tasks
    BY <2>2 DEF Good, Agreed, Typed, Placed
  <2>4. ASSUME NEW u \in Tasks, u # t, u # dad[t] PROVE \A fd \in Fds : Looped(u, fd)'
    <3>1. pc'[u] = pc[u] /\ at'[u] = at[u] /\ dad'[u] = dad[u]
      BY <1>1, <2>2, <2>4
    <3>2. {} \in SUBSET Fds /\ pc[t] # "fork"
      BY <2>2
    <3> QED BY <2>1, <2>2, <2>4, <3>1, <3>2, LoopsStay
  <2>5. pc'[t] = "run" /\ pc'[dad[t]] = "run"
    BY <1>1, <2>2, <2>3
  <2>6. \A u \in {t, dad[t]}, fd \in Fds : Looped(u, fd)'
    BY <2>5 DEF Looped
  <2> QED BY <2>1, <2>4, <2>6 DEF Loops
<1>5. ASSUME Change(t, {}), UNCHANGED dad, pc[t] # "fork", pc'[t] # "child",
             pc'[t] = "exec" => "exec" \in calls,
             pc'[t] \in {"exec", "exit"} => at'[t] = 0,
             \A u \in Tasks : u # t =>
               pc'[u] = pc[u] /\ at'[u] = at[u] /\ node'[u] = node[u]
      PROVE  Loops'
  <2>1. ASSUME NEW u \in Tasks, u # t PROVE \A fd \in Fds : Looped(u, fd)'
    <3>1. pc'[u] = pc[u] /\ at'[u] = at[u] /\ dad'[u] = dad[u]
      BY <1>5, <2>1
    <3>2. {} \in SUBSET Fds
      OBVIOUS
    <3> QED BY <1>5, <2>1, <3>1, <3>2, LoopsStay
  <2>2. \A fd \in Fds : Looped(t, fd)'
    BY <1>2, <1>5 DEF Looped
  <2> QED BY <2>1, <2>2 DEF Loops
<1>7. CASE Exec(t)
  <2>1. Good' /\ Change(t, {})
    BY <1>7, ExecGood
  <2>2. /\ pc[t] = "run" /\ "exec" \in calls /\ pc' = [pc EXCEPT ![t] = "exec"]
        /\ at' = [at EXCEPT ![t] = 0] /\ UNCHANGED <<dad, node>>
    BY <1>7 DEF Exec
  <2>3. /\ pc'[t] = "exec" /\ at'[t] = 0
        /\ \A u \in Tasks : u # t =>
             pc'[u] = pc[u] /\ at'[u] = at[u] /\ node'[u] = node[u]
    BY <1>1, <2>2
  <2> QED BY <1>5, <2>1, <2>2, <2>3
<1>8. CASE ExecDone(t)
  <2>1. Good' /\ Change(t, {})
    BY <1>8, ExecDoneGood
  <2>2. /\ pc[t] = "exec" /\ pc' = [pc EXCEPT ![t] = "run"]
        /\ at' = [at EXCEPT ![t] = 0] /\ UNCHANGED <<dad, node>>
    BY <1>8 DEF ExecDone
  <2>3. /\ pc'[t] = "run"
        /\ \A u \in Tasks : u # t =>
             pc'[u] = pc[u] /\ at'[u] = at[u] /\ node'[u] = node[u]
    BY <1>1, <2>2
  <2> QED BY <1>5, <2>1, <2>2, <2>3
<1>9. ASSUME NEW fd \in Fds, CloseFrom(t, fd)
      PROVE  Good' /\ Loops' /\ Change(t, {})
  <2>1. /\ pc[t] = "run" /\ pc' = [pc EXCEPT ![t] = "closing"]
        /\ at' = [at EXCEPT ![t] = fd]
        /\ UNCHANGED <<dad, win, dst, main, node, ht, full>>
    BY <1>9 DEF CloseFrom
  <2>2. Good' /\ Change(t, {})
    BY <2>1, StageGood
  <2>3. /\ pc'[t] = "closing"
        /\ \A u \in Tasks : u # t =>
             pc'[u] = pc[u] /\ at'[u] = at[u] /\ node'[u] = node[u]
    BY <1>1, <2>1
  <2> QED BY <1>5, <2>1, <2>2, <2>3
<1>10. ASSUME Die(t), pc[t] \in {"run", "exit"},
              Alone(t) \/ \A fd \in Fds : ~node[t][fd].Access
       PROVE  Good' /\ Loops' /\ Change(t, {})
  <2>1. Good' /\ Change(t, {})
    BY <1>10, DieGood
  <2>2. /\ pc' = [pc EXCEPT ![t] = "none"] /\ at' = [at EXCEPT ![t] = 0]
        /\ UNCHANGED dad /\ \A u \in Tasks : u # t => node'[u] = node[u]
    BY <1>1, <1>10 DEF Die
  <2>3. /\ pc'[t] = "none"
        /\ \A u \in Tasks : u # t =>
             pc'[u] = pc[u] /\ at'[u] = at[u] /\ node'[u] = node[u]
    BY <1>1, <2>2
  <2> QED BY <1>5, <1>10, <2>1, <2>2, <2>3
<1>11. CASE Exit(t)
  <2>1. pc[t] = "run"
    BY <1>11 DEF Exit
  <2>2. CASE Alone(t) /\ Die(t)
    BY <1>10, <2>1, <2>2
  <2>3. CASE /\ pc' = [pc EXCEPT ![t] = "exit"] /\ at' = [at EXCEPT ![t] = 0]
             /\ UNCHANGED <<dad, win, dst, main, node, ht, full>>
    <3>1. Good' /\ Change(t, {})
      BY <2>1, <2>3, StageGood
    <3>2. /\ pc'[t] = "exit" /\ at'[t] = 0
          /\ \A u \in Tasks : u # t =>
               pc'[u] = pc[u] /\ at'[u] = at[u] /\ node'[u] = node[u]
      BY <1>1, <2>3
    <3> QED BY <1>5, <2>1, <2>3, <3>1, <3>2
  <2> QED BY <1>11, <2>2, <2>3 DEF Exit
<1>12. CASE CloseDone(t)
  <2>1. at[t] = OPEN_MAX
    BY <1>12 DEF CloseDone
  <2>2. CASE pc[t] = "exit" /\ Die(t)
    <3>1. \A fd \in Fds : ~node[t][fd].Access
      BY <2>1, <2>2, FdFacts DEF Loops, Looped
    <3> QED BY <1>10, <2>2, <3>1
  <2>3. CASE /\ pc[t] = "closing" /\ pc' = [pc EXCEPT ![t] = "run"]
             /\ at' = [at EXCEPT ![t] = 0]
             /\ UNCHANGED <<dad, win, dst, main, node, ht, full>>
    <3>1. Good' /\ Change(t, {})
      BY <2>3, StageGood
    <3>2. /\ pc'[t] = "run"
          /\ \A u \in Tasks : u # t =>
               pc'[u] = pc[u] /\ at'[u] = at[u] /\ node'[u] = node[u]
      BY <1>1, <2>3
    <3> QED BY <1>5, <2>3, <3>1, <3>2
  <2> QED BY <1>12, <2>2, <2>3 DEF CloseDone
<1> QED BY <1>3, <1>4, <1>7, <1>8, <1>9, <1>11, <1>12
-----------------------------------------------------------------------------
(* The invariant is inductive *)

Kept == Agreed /\ ("std" \in calls \/ (Good /\ Loops))

LEMMA KeptInit == Init => Kept
<1> SUFFICES ASSUME Init PROVE Kept
  OBVIOUS
<1>1. Typed
  BY TypedInit
<1>2. /\ \A t \in Tasks, fd \in Fds : node[t][fd] = ZeroNode
      /\ \A t \in Tasks : pc[t] \in {"run", "none"}
  BY DEF Init
<1>3. Agreed
  BY <1>1, <1>2, NodeFacts DEF Agreed, Agrees
<1>4. \A t \in Tasks, fd \in Fds : ~node[t][fd].Access
  BY <1>2, NodeFacts
<1>5. Nodes /\ Usable /\ Isolated
  BY <1>4 DEF Nodes, Usable, Isolated, Descriptors
<1>6. Loops
  BY <1>2 DEF Loops, Looped
<1>7. PICK t \in Tasks, w \in Wins :
        /\ win = [u \in Tasks |-> IF u = t THEN w ELSE NoWin]
        /\ dst = [u \in Tasks |-> NoWin]
        /\ ht = [v \in Wins |-> [h \in Handles |->
             IF v = w /\ h = PipeEvent THEN [obj |-> "event", inh |-> FALSE]
             ELSE Unused]]
  BY DEF Init
<1>8. \A v \in Wins : v \in Used <=> v = w
  BY <1>7, FdAssumption DEF Used
<1>9. \A v \in Wins, h \in Handles :
        ht[v][h] = IF v = w /\ h = PipeEvent THEN [obj |-> "event", inh |-> FALSE]
                   ELSE Unused
  BY <1>7
<1>10. Clean
  BY <1>8, <1>9, EntryFacts, FdAssumption DEF Clean
<1>11. Referenced
  BY <1>9, EntryFacts, ObjectFacts DEF Referenced
<1> QED BY <1>3, <1>5, <1>6, <1>10, <1>11 DEF Kept, Good

LEMMA StepGood ==
  ASSUME Supported, Good, Loops, Agreed', Next
  PROVE  Good' /\ Loops'
<1>1. UNCHANGED calls /\ "std" \notin calls
  BY DEF Next, Good
<1>2. PICK t \in Tasks :
        \/ \E f \in Paths, c \in BOOLEAN : Open(t, f, c)
        \/ \E k \in Fds : OpenStd(t, k)
        \/ Pipe(t) \/ Socket(t)
        \/ \E fd, min \in Fds, c \in BOOLEAN : Dup(t, fd, c, min)
        \/ \E old, new \in Fds : Dup2(t, old, new)
        \/ \E fd \in Fds : Close(t, fd) \/ CloseFrom(t, fd)
        \/ \E fd \in Fds, c \in BOOLEAN : SetFd(t, fd, c) \/ SetFl(t, fd, c)
        \/ Fork(t) \/ CopyChannel(t) \/ ForkDone(t)
        \/ Exec(t) \/ MoveChannel(t) \/ ExecDone(t)
        \/ Exit(t) \/ CloseNext(t) \/ CloseDone(t)
  BY DEF Next, Step
<1>3. ~ \E k \in Fds : OpenStd(t, k)
  BY <1>1 DEF OpenStd
<1>4. CASE \/ \E f \in Paths, c \in BOOLEAN : Open(t, f, c)
           \/ Pipe(t) \/ Socket(t)
           \/ \E fd, min \in Fds, c \in BOOLEAN : Dup(t, fd, c, min)
           \/ \E old, new \in Fds : Dup2(t, old, new)
           \/ \E fd \in Fds : Close(t, fd)
           \/ \E fd \in Fds, c \in BOOLEAN : SetFd(t, fd, c) \/ SetFl(t, fd, c)
  BY <1>1, <1>4, CallGood
<1>5. CASE CloseNext(t) \/ CopyChannel(t) \/ MoveChannel(t)
  BY <1>1, <1>5, LoopGood
<1>6. CASE \/ Fork(t) \/ ForkDone(t) \/ Exec(t) \/ ExecDone(t)
           \/ Exit(t) \/ (\E fd \in Fds : CloseFrom(t, fd)) \/ CloseDone(t)
  BY <1>1, <1>6, ControlGood
<1> QED BY <1>2, <1>3, <1>4, <1>5, <1>6

LEMMA KeptStep ==
  ASSUME Supported, Kept, [Next]_vars
  PROVE  Kept'
<1>1. Agreed'
  BY AgreedStep DEF Kept, Supported
<1>2. CASE "std" \in calls
  <2>1. calls' = calls
    BY DEF Next, vars
  <2> QED BY <1>1, <1>2, <2>1 DEF Kept
<1>3. CASE "std" \notin calls /\ Next
  BY <1>1, <1>3, StepGood DEF Kept
<1>4. CASE "std" \notin calls /\ UNCHANGED vars
  <2>1. Good /\ Loops
    BY <1>4 DEF Kept
  <2>2. Good'
    <3>1. /\ UNCHANGED <<pc, at, dad, win, dst, node, ht, full, calls>>
          /\ \A t, fd : Where(t, fd)' = Where(t, fd)
          /\ Descriptors' = Descriptors
      BY <1>4 DEF vars, Where, Descriptors, Alive
    <3>2. Nodes' /\ Clean'
      BY <2>1, <3>1 DEF Good, Nodes, Alive, Shaped, HasEvent, Clean, Used
    <3>3. Isolated'
      BY <2>1, <3>1 DEF Good, Isolated, HandlesOf
    <3>4. Usable'
      BY <2>1, <3>1 DEF Good, Usable, IsOpen, HasEvent
    <3>5. Referenced'
      BY <2>1, <3>1 DEF Good, Referenced
    <3> QED BY <1>1, <2>1, <3>1, <3>2, <3>3, <3>4, <3>5 DEF Good
  <2>3. Loops'
    BY <1>4, <2>1 DEF vars, Loops, Looped, Twin, Object, Where
  <2> QED BY <1>1, <2>2, <2>3 DEF Kept
<1> QED BY <1>2, <1>3, <1>4

LEMMA KeptAlways == ASSUME Supported PROVE Spec => []Kept
<1>1. Kept /\ [Next]_vars => Kept'
  BY KeptStep
<1> QED BY <1>1, KeptInit, PTL DEF Spec

\* Handles of different descriptors are different, whatever the processes of one
\* Win32 process do: close(), dup2(), exit() and execve() of one close no handle
\* that a descriptor of another names.
THEOREM HandlesApart == ASSUME Supported PROVE Spec => []Isolated
<1>1. Kept => Isolated
  BY DEF Kept, Good, Isolated
<1> QED BY <1>1, KeptAlways, PTL

\* The handle of a descriptor is open in the Win32 process its program runs in,
\* and so is its event: fork() and execve() duplicate both or neither.
THEOREM AlwaysUsable == ASSUME Supported PROVE Spec => []Usable
<1>1. Kept => Usable
  BY DEF Kept, Good, Usable
<1> QED BY <1>1, KeptAlways, PTL

\* No file, pipe or socket stays open without a descriptor, but for those that
\* fd_posix() found no number for: what close() and execve() leave are events.
THEOREM AlwaysReferenced == ASSUME Supported PROVE Spec => []Referenced
<1>1. Kept => Referenced
  BY DEF Kept, Good, Referenced
<1> QED BY <1>1, KeptAlways, PTL
-----------------------------------------------------------------------------
(* The descriptors act as FdPosix says *)

\* What FdPosix sees of Node[] and the handle tables.
FileMap ==
  [t \in Tasks |-> [fd \in Fds |->
     IF node[t][fd].Access /\ node[t][fd].Handle # NoHandle
     THEN ht[Where(t, fd)][node[t][fd].Handle].obj ELSE NoFile]]
MarkMap ==
  [t \in Tasks |-> [fd \in Fds |-> node[t][fd].Access /\ node[t][fd].CloseExec]]

\* One descriptor of them.
FileOf(t, fd) == IF node[t][fd].Access THEN Object(t, fd) ELSE NoFile
MarkOf(t, fd) == node[t][fd].Access /\ node[t][fd].CloseExec

LEMMA MapFacts ==
  /\ Agreed => FileMap = [t \in Tasks |-> [fd \in Fds |-> FileOf(t, fd)]]
  /\ Agreed' => FileMap' = [t \in Tasks |-> [fd \in Fds |-> FileOf(t, fd)']]
  /\ MarkMap = [t \in Tasks |-> [fd \in Fds |-> MarkOf(t, fd)]]
  /\ MarkMap' = [t \in Tasks |-> [fd \in Fds |-> MarkOf(t, fd)']]
<1>1. Agreed => FileMap = [t \in Tasks |-> [fd \in Fds |-> FileOf(t, fd)]]
  BY DEF FileMap, FileOf, Object, Agreed, Agrees
<1>2. Agreed' => FileMap' = [t \in Tasks |-> [fd \in Fds |-> FileOf(t, fd)']]
  BY DEF FileMap, FileOf, Object, Agreed, Agrees
<1>3. /\ MarkMap = [t \in Tasks |-> [fd \in Fds |-> MarkOf(t, fd)]]
      /\ MarkMap' = [t \in Tasks |-> [fd \in Fds |-> MarkOf(t, fd)']]
  BY DEF MarkMap, MarkOf
<1> QED BY <1>1, <1>2, <1>3

\* An entry is free in FdPosix when its Access is 0.
LEMMA FreeFacts ==
  ASSUME Good, NEW t \in Tasks
  PROVE  /\ \A fd \in Fds : FileMap[t][fd] = NoFile <=> ~node[t][fd].Access
         /\ \A fd \in Fds : node[t][fd].Access => /\ FileMap[t][fd] = Object(t, fd)
                                                  /\ Object(t, fd) \in Files
         /\ \A fd \in Fds : MarkMap[t][fd] = MarkOf(t, fd)
<1>1. ASSUME NEW fd \in Fds, node[t][fd].Access PROVE Object(t, fd) \in Files
  <2>1. PICK w, n : w = Where(t, fd) /\ n = node[t][fd]
    OBVIOUS
  <2>2. ht[w][n.Handle].obj \in Files
    BY <1>1, <2>1, GoodAt
  <2> QED BY <2>1, <2>2 DEF Object
<1>2. \A fd \in Fds : FileMap[t][fd] = FileOf(t, fd) /\ MarkMap[t][fd] = MarkOf(t, fd)
  BY MapFacts DEF Good
<1> QED BY <1>1, <1>2, ObjectFacts DEF FileOf

\* A descriptor that a step leaves alone.
LEMMA MapStays ==
  ASSUME Good, NEW t \in Tasks, NEW S \in SUBSET Fds, Change(t, S),
         NEW u \in Tasks, NEW fd \in Fds, ~(u = t /\ fd \in S),
         node'[u][fd].Access <=> node[u][fd].Access
  PROVE  FileOf(u, fd)' = FileOf(u, fd)
  BY ObjectStays DEF FileOf

\* Two maps that differ at one descriptor.
IsMap(F) == F = [u \in Tasks |-> [g \in Fds |-> F[u][g]]]
SameBut(F, G, t, fd) ==
  \A u \in Tasks, g \in Fds : <<u, g>> # <<t, fd>> => G[u][g] = F[u][g]
DiffersAt(F, G, t, fd) == G = [F EXCEPT ![t][fd] = G[t][fd]]

LEMMA DifferAt ==
  ASSUME NEW F, NEW G, NEW t \in Tasks, NEW fd \in Fds,
         IsMap(F), IsMap(G), SameBut(F, G, t, fd)
  PROVE  DiffersAt(F, G, t, fd)
<1> USE DEF IsMap, SameBut, DiffersAt
<1>1. PICK N : N = [F[t] EXCEPT ![fd] = G[t][fd]]
  OBVIOUS
<1>2. F[t] = [g \in Fds |-> F[t][g]] /\ G[t] = [g \in Fds |-> G[t][g]]
  OBVIOUS
<1>3. N = G[t]
  <2>1. N = [g \in Fds |-> IF g = fd THEN G[t][fd] ELSE F[t][g]]
    BY <1>1, <1>2
  <2>2. \A g \in Fds : (IF g = fd THEN G[t][fd] ELSE F[t][g]) = G[t][g]
    OBVIOUS
  <2> QED BY <1>2, <2>1, <2>2
<1>4. \A u \in Tasks : u # t => F[u] = G[u]
  <2> SUFFICES ASSUME NEW u \in Tasks, u # t PROVE F[u] = G[u]
    OBVIOUS
  <2>1. F[u] = [g \in Fds |-> F[u][g]] /\ G[u] = [g \in Fds |-> G[u][g]]
    OBVIOUS
  <2>2. \A g \in Fds : F[u][g] = G[u][g]
    OBVIOUS
  <2> QED BY <2>1, <2>2
<1>5. G = [u \in Tasks |-> G[u]] /\ F = [u \in Tasks |-> F[u]]
  OBVIOUS
<1>6. [F EXCEPT ![t] = N] = [u \in Tasks |-> IF u = t THEN N ELSE F[u]]
  BY <1>5
<1>7. G = [F EXCEPT ![t] = N]
  BY <1>3, <1>4, <1>5, <1>6
<1> QED BY <1>1, <1>7

ClearsAt(F, G, t, a) ==
  \A u \in Tasks, g \in Fds : G[u][g] = IF u = t THEN a ELSE F[u][g]
Cleared(F, G, t, a) == G = [F EXCEPT ![t] = [g \in Fds |-> a]]

LEMMA ClearAt ==
  ASSUME NEW F, NEW G, NEW t \in Tasks, NEW a,
         IsMap(F), IsMap(G), ClearsAt(F, G, t, a)
  PROVE  Cleared(F, G, t, a)
<1> USE DEF IsMap, ClearsAt, Cleared
<1>1. \A u \in Tasks : u # t => F[u] = G[u]
  <2> SUFFICES ASSUME NEW u \in Tasks, u # t PROVE F[u] = G[u]
    OBVIOUS
  <2>1. F[u] = [g \in Fds |-> F[u][g]] /\ G[u] = [g \in Fds |-> G[u][g]]
    OBVIOUS
  <2> QED BY <2>1
<1>2. G[t] = [g \in Fds |-> a]
  OBVIOUS
<1>3. G = [u \in Tasks |-> G[u]] /\ F = [u \in Tasks |-> F[u]]
  OBVIOUS
<1> QED BY <1>1, <1>2, <1>3

SameButTwo(F, G, t, r, s, a, b) ==
  \A u \in Tasks, g \in Fds :
    G[u][g] = IF u = t /\ g = s THEN b ELSE IF u = t /\ g = r THEN a ELSE F[u][g]
DiffersTwice(F, G, t, r, s, a, b) == G = [F EXCEPT ![t][r] = a, ![t][s] = b]

LEMMA DifferTwice ==
  ASSUME NEW F, NEW G, NEW t \in Tasks, NEW r \in Fds, NEW s \in Fds, NEW a, NEW b,
         IsMap(F), IsMap(G), r # s, SameButTwo(F, G, t, r, s, a, b)
  PROVE  DiffersTwice(F, G, t, r, s, a, b)
<1> USE DEF SameButTwo, DiffersTwice
<1>1. PICK N : N = [F[t] EXCEPT ![r] = a]
  OBVIOUS
<1>2. PICK E : E = [F EXCEPT ![t] = N]
  OBVIOUS
<1>3. F = [u \in Tasks |-> F[u]] /\ F[t] = [g \in Fds |-> F[t][g]]
  BY DEF IsMap
<1>4. E[t] = N /\ \A u \in Tasks : u # t => E[u] = F[u]
  BY <1>2, <1>3
<1>5. N = [g \in Fds |-> IF g = r THEN a ELSE F[t][g]]
  BY <1>1, <1>3
<1>6. \A u \in Tasks, g \in Fds : E[u][g] = IF u = t /\ g = r THEN a ELSE F[u][g]
  BY <1>4, <1>5
<1>7. IsMap(E)
  <2>1. E = [u \in Tasks |-> E[u]]
    BY <1>2, <1>3
  <2>2. \A u \in Tasks : E[u] = [g \in Fds |-> E[u][g]]
    BY <1>4, <1>5 DEF IsMap
  <2> QED BY <2>1, <2>2 DEF IsMap
<1>8. SameBut(E, G, t, s) /\ G[t][s] = b
  BY <1>6 DEF SameBut
<1>9. DiffersAt(E, G, t, s)
  BY <1>7, <1>8, DifferAt
<1>10. G = [E EXCEPT ![t][s] = b]
  BY <1>8, <1>9 DEF DiffersAt
<1>11. E = [F EXCEPT ![t][r] = a]
  BY <1>1, <1>2
<1> QED BY <1>10, <1>11

\* All of them but one.
LEMMA OnlyThat ==
  ASSUME Good, Good', NEW t \in Tasks, NEW fd \in Fds,
         \A u \in Tasks, g \in Fds : <<u, g>> # <<t, fd>> =>
           FileOf(u, g)' = FileOf(u, g) /\ MarkOf(u, g)' = MarkOf(u, g)
  PROVE  /\ FileMap' = [FileMap EXCEPT ![t][fd] = FileMap'[t][fd]]
         /\ MarkMap' = [MarkMap EXCEPT ![t][fd] = MarkMap'[t][fd]]
<1>1. /\ FileMap = [u \in Tasks |-> [g \in Fds |-> FileOf(u, g)]]
      /\ FileMap' = [u \in Tasks |-> [g \in Fds |-> FileOf(u, g)']]
      /\ MarkMap = [u \in Tasks |-> [g \in Fds |-> MarkOf(u, g)]]
      /\ MarkMap' = [u \in Tasks |-> [g \in Fds |-> MarkOf(u, g)']]
  BY MapFacts DEF Good
<1>2. PICK F, G : F = FileMap /\ G = FileMap'
  OBVIOUS
<1>3. G = [F EXCEPT ![t][fd] = G[t][fd]]
  <2>1. IsMap(F) /\ IsMap(G) /\ SameBut(F, G, t, fd)
    BY <1>1, <1>2 DEF IsMap, SameBut
  <2>2. DiffersAt(F, G, t, fd)
    BY <2>1, DifferAt
  <2> QED BY <2>2 DEF DiffersAt
<1>4. PICK M, N : M = MarkMap /\ N = MarkMap'
  OBVIOUS
<1>5. N = [M EXCEPT ![t][fd] = N[t][fd]]
  <2>1. IsMap(M) /\ IsMap(N) /\ SameBut(M, N, t, fd)
    BY <1>1, <1>4 DEF IsMap, SameBut
  <2>2. DiffersAt(M, N, t, fd)
    BY <2>1, DifferAt
  <2> QED BY <2>2 DEF DiffersAt
<1> QED BY <1>2, <1>3, <1>4, <1>5

LEMMA BecomesThat ==
  ASSUME Good, Good', NEW t \in Tasks, NEW fd \in Fds, NEW m \in Vnode, Becomes(t, fd, m)
  PROVE  /\ FileMap' = [FileMap EXCEPT ![t][fd] = FileMap'[t][fd]]
         /\ MarkMap' = [MarkMap EXCEPT ![t][fd] = MarkMap'[t][fd]]
         /\ FileMap'[t][fd] = IF m.Access THEN Object(t, fd)' ELSE NoFile
         /\ MarkMap'[t][fd] = (m.Access /\ m.CloseExec)
<1>1. \A u \in Tasks, g \in Fds :
        node'[u][g] = IF u = t /\ g = fd THEN m ELSE node[u][g]
  BY TypedAt DEF Becomes, Good, Agreed
<1>2. ASSUME NEW u \in Tasks, NEW g \in Fds, <<u, g>> # <<t, fd>>
      PROVE  FileOf(u, g)' = FileOf(u, g) /\ MarkOf(u, g)' = MarkOf(u, g)
  <2>1. node'[u][g] = node[u][g] /\ ~(u = t /\ g \in {fd})
    BY <1>1, <1>2
  <2>2. FileOf(u, g)' = FileOf(u, g)
    BY <2>1, MapStays DEF Becomes
  <2> QED BY <2>1, <2>2 DEF MarkOf
<1>3. FileMap'[t][fd] = FileOf(t, fd)' /\ MarkMap'[t][fd] = MarkOf(t, fd)'
  BY MapFacts DEF Good
<1> QED BY <1>1, <1>2, <1>3, OnlyThat DEF FileOf, MarkOf

\* None changes.
LEMMA NoneOfThem ==
  ASSUME Good, Good', NEW t \in Tasks, NEW S \in SUBSET Fds, Change(t, S),
         \A u \in Tasks, g \in Fds :
           /\ node'[u][g].Access <=> node[u][g].Access
           /\ node[u][g].Access => node'[u][g].CloseExec = node[u][g].CloseExec,
         \A g \in S : FileOf(t, g)' = FileOf(t, g)
  PROVE  UNCHANGED <<FileMap, MarkMap>>
<1>1. ASSUME NEW u \in Tasks, NEW g \in Fds
      PROVE  FileOf(u, g)' = FileOf(u, g) /\ MarkOf(u, g)' = MarkOf(u, g)
  <2>1. CASE u = t /\ g \in S
    BY <2>1 DEF MarkOf
  <2>2. CASE ~(u = t /\ g \in S)
    BY <2>2, MapStays DEF MarkOf
  <2> QED BY <2>1, <2>2
<1> QED BY <1>1, MapFacts DEF Good

-----------------------------------------------------------------------------
(* The actions of FdPosix, said of the two maps *)

OnlyMap(t, fd) ==
  /\ FileMap' = [FileMap EXCEPT ![t][fd] = FileMap'[t][fd]]
  /\ MarkMap' = [MarkMap EXCEPT ![t][fd] = MarkMap'[t][fd]]

\* One step of FdPosix, or none.
Acts == Posix!FNext \/ UNCHANGED <<pc, dad, FileMap, MarkMap>>

LEMMA OnlyAtActs ==
  ASSUME NEW t, NEW fd, OnlyMap(t, fd), UNCHANGED <<pc, dad>>
  PROVE  Posix!OnlyAt(t, fd)
  BY DEF OnlyMap, Posix!OnlyAt, FileMap, MarkMap

LEMMA GetsActs ==
  ASSUME NEW t, NEW fd, NEW f, NEW c
  PROVE  Posix!Gets(t, fd, f, c) <=> FileMap'[t][fd] = f /\ MarkMap'[t][fd] = c
  BY DEF Posix!Gets, FileMap, MarkMap

LEMMA FreeActs ==
  ASSUME NEW t
  PROVE  /\ Posix!Fds = Fds
         /\ Posix!Free(t) = {fd \in Fds : FileMap[t][fd] = NoFile}
         /\ Posix!Open(t) = Fds \ {fd \in Fds : FileMap[t][fd] = NoFile}
  BY DEF Posix!Free, Posix!Open, Posix!Fds, Fds, FileMap

\* open() and socket().
LEMMA GiveActs ==
  ASSUME NEW t \in Tasks, NEW fd \in Fds, pc[t] = "run", UNCHANGED <<pc, dad>>,
         OnlyMap(t, fd), FileMap[t][fd] = NoFile,
         \A g \in Fds : FileMap[t][g] = NoFile => fd <= g, FileMap'[t][fd] \in Files
  PROVE  Acts
<1>1. Posix!OnlyAt(t, fd)
  BY OnlyAtActs
<1>2. Posix!Give(t, fd)
  BY <1>1, FreeActs DEF Posix!Give, FileMap
<1> QED BY <1>2, FreeActs DEF Acts, Posix!FNext

\* dup() and fcntl(F_DUPFD); dup2() gives the mark up.
LEMMA DupActs ==
  ASSUME NEW t \in Tasks, NEW old \in Fds, NEW fd \in Fds, pc[t] = "run",
         UNCHANGED <<pc, dad>>, OnlyMap(t, fd), FileMap[t][old] # NoFile,
         FileMap'[t][fd] = FileMap[t][old],
         \/ FileMap[t][fd] = NoFile
         \/ fd # old /\ MarkMap'[t][fd] = FALSE
  PROVE  Acts
<1>1. Posix!OnlyAt(t, fd)
  BY OnlyAtActs
<1>2. old \in Posix!Open(t)
  BY FreeActs
<1>3. CASE FileMap[t][fd] = NoFile
  <2>1. Posix!Dup(t, old, fd)
    BY <1>1, <1>2, <1>3, FreeActs DEF Posix!Dup, FileMap
  <2> QED BY <2>1, FreeActs DEF Acts, Posix!FNext
<1>4. CASE fd # old /\ MarkMap'[t][fd] = FALSE
  <2>1. Posix!Gets(t, fd, FileMap[t][old], FALSE)
    BY <1>4 DEF Posix!Gets, FileMap, MarkMap
  <2>2. Posix!Dup2(t, old, fd)
    BY <1>1, <1>2, <1>4, <2>1 DEF Posix!Dup2, FileMap
  <2> QED BY <2>2, FreeActs DEF Acts, Posix!FNext
<1> QED BY <1>3, <1>4

LEMMA CloseActs ==
  ASSUME NEW t \in Tasks, NEW fd \in Fds, pc[t] \in {"run", "closing", "exit"},
         UNCHANGED <<pc, dad>>, OnlyMap(t, fd), FileMap'[t][fd] = NoFile,
         MarkMap'[t][fd] = FALSE
  PROVE  Acts
<1>1. Posix!OnlyAt(t, fd) /\ Posix!Gets(t, fd, NoFile, FALSE)
  BY OnlyAtActs, GetsActs
<1>2. Posix!Close(t, fd)
  BY <1>1 DEF Posix!Close
<1> QED BY <1>2, FreeActs DEF Acts, Posix!FNext

LEMMA SetActs ==
  ASSUME NEW t \in Tasks, NEW fd \in Fds, pc[t] = "run", UNCHANGED <<pc, dad>>,
         OnlyMap(t, fd), FileMap[t][fd] # NoFile, FileMap'[t][fd] = FileMap[t][fd]
  PROVE  Acts
<1>1. Posix!OnlyAt(t, fd)
  BY OnlyAtActs
<1>2. Posix!SetCloexec(t, fd)
  BY <1>1, FreeActs DEF Posix!SetCloexec, FileMap
<1> QED BY <1>2, FreeActs DEF Acts, Posix!FNext

\* One descriptor of a fork(), and of an exec().
LEMMA InheritActs ==
  ASSUME NEW t \in Tasks, NEW fd \in Fds, pc[t] = "child", UNCHANGED <<pc, dad>>,
         OnlyMap(t, fd), FileMap'[t][fd] = FileMap[dad[t]][fd],
         MarkMap'[t][fd] = MarkMap[dad[t]][fd]
  PROVE  Acts
<1>1. Posix!OnlyAt(t, fd) /\ Posix!Gets(t, fd, FileMap[dad[t]][fd], MarkMap[dad[t]][fd])
  BY OnlyAtActs DEF Posix!Gets, FileMap, MarkMap
<1>2. Posix!Inherit(t, fd)
  BY <1>1 DEF Posix!Inherit, FileMap, MarkMap
<1> QED BY <1>2, FreeActs DEF Acts, Posix!FNext

LEMMA CloseOnExecActs ==
  ASSUME NEW t \in Tasks, NEW fd \in Fds, pc[t] = "exec", UNCHANGED <<pc, dad>>,
         OnlyMap(t, fd), MarkMap[t][fd], FileMap'[t][fd] = NoFile,
         MarkMap'[t][fd] = FALSE
  PROVE  Acts
<1>1. Posix!OnlyAt(t, fd) /\ Posix!Gets(t, fd, NoFile, FALSE)
  BY OnlyAtActs, GetsActs
<1>2. Posix!CloseOnExec(t, fd)
  BY <1>1 DEF Posix!CloseOnExec, MarkMap
<1> QED BY <1>2, FreeActs DEF Acts, Posix!FNext

LEMMA PipeActs ==
  ASSUME NEW t \in Tasks, NEW r \in Fds, NEW s \in Fds, pc[t] = "run",
         UNCHANGED <<pc, dad, MarkMap>>, r < s,
         FileMap[t][r] = NoFile, FileMap[t][s] = NoFile,
         \A g \in Fds \ {r} : FileMap[t][g] = NoFile => s <= g,
         \E fr, fs \in Files : FileMap' = [FileMap EXCEPT ![t][r] = fr, ![t][s] = fs]
  PROVE  Acts
<1>1. r \in Posix!Free(t) /\ s \in Posix!Free(t) /\ \A g \in Posix!Free(t) \ {r} : s <= g
  BY FreeActs
<1>2. Posix!Pipe(t, r, s)
  BY <1>1 DEF Posix!Pipe, FileMap, MarkMap
<1> QED BY <1>2, FreeActs DEF Acts, Posix!FNext

\* The steps that leave the maps alone, or clear them.
LEMMA StageActs ==
  ASSUME NEW t \in Tasks, UNCHANGED <<FileMap, MarkMap>>,
         \/ \E c \in Tasks : /\ pc[t] = "run" /\ pc[c] = "none"
                             /\ pc' = [pc EXCEPT ![t] = "fork", ![c] = "child"]
                             /\ dad' = [dad EXCEPT ![c] = t]
         \/ /\ pc[t] = "child" /\ FileMap[t] = FileMap[dad[t]] /\ MarkMap[t] = MarkMap[dad[t]]
            /\ pc' = [pc EXCEPT ![t] = "run", ![dad[t]] = "run"]
            /\ dad' = [dad EXCEPT ![t] = NoTask]
         \/ /\ pc[t] = "run" /\ UNCHANGED dad
            /\ \E s \in {"exec", "exit", "closing"} : pc' = [pc EXCEPT ![t] = s]
         \/ /\ pc[t] = "exec" /\ UNCHANGED dad /\ \A fd \in Fds : ~MarkMap[t][fd]
            /\ pc' = [pc EXCEPT ![t] = "run"]
         \/ pc[t] = "closing" /\ UNCHANGED dad /\ pc' = [pc EXCEPT ![t] = "run"]
  PROVE  Acts
<1>1. ASSUME NEW c \in Tasks, pc[t] = "run", pc[c] = "none",
             pc' = [pc EXCEPT ![t] = "fork", ![c] = "child"],
             dad' = [dad EXCEPT ![c] = t]
      PROVE  Acts
  <2>1. Posix!ForkBegin(t, c)
    BY <1>1 DEF Posix!ForkBegin, FileMap, MarkMap
  <2> QED BY <2>1 DEF Acts, Posix!FNext
<1>2. CASE /\ pc[t] = "child" /\ FileMap[t] = FileMap[dad[t]] /\ MarkMap[t] = MarkMap[dad[t]]
           /\ pc' = [pc EXCEPT ![t] = "run", ![dad[t]] = "run"]
           /\ dad' = [dad EXCEPT ![t] = NoTask]
  <2>1. Posix!ForkEnd(t)
    BY <1>2 DEF Posix!ForkEnd, FileMap, MarkMap
  <2> QED BY <2>1 DEF Acts, Posix!FNext
<1>3. ASSUME pc[t] = "run", UNCHANGED dad, NEW s \in {"exec", "exit", "closing"},
             pc' = [pc EXCEPT ![t] = s]
      PROVE  Acts
  <2>1. Posix!ExecBegin(t) \/ Posix!ExitBegin(t) \/ Posix!ClosingFrom(t)
    BY <1>3 DEF Posix!ExecBegin, Posix!ExitBegin, Posix!ClosingFrom, FileMap, MarkMap
  <2> QED BY <2>1 DEF Acts, Posix!FNext
<1>4. CASE /\ pc[t] = "exec" /\ UNCHANGED dad /\ \A fd \in Fds : ~MarkMap[t][fd]
           /\ pc' = [pc EXCEPT ![t] = "run"]
  <2>1. Posix!ExecEnd(t)
    BY <1>4, FreeActs DEF Posix!ExecEnd, FileMap, MarkMap
  <2> QED BY <2>1 DEF Acts, Posix!FNext
<1>5. CASE pc[t] = "closing" /\ UNCHANGED dad /\ pc' = [pc EXCEPT ![t] = "run"]
  <2>1. Posix!ClosingFrom(t)
    BY <1>5 DEF Posix!ClosingFrom, FileMap, MarkMap
  <2> QED BY <2>1 DEF Acts, Posix!FNext
<1> QED BY <1>1, <1>2, <1>3, <1>4, <1>5

LEMMA DieActs ==
  ASSUME NEW t \in Tasks, pc[t] \in {"run", "exit"}, UNCHANGED dad,
         pc' = [pc EXCEPT ![t] = "none"],
         FileMap' = [FileMap EXCEPT ![t] = [fd \in Fds |-> NoFile]],
         MarkMap' = [MarkMap EXCEPT ![t] = [fd \in Fds |-> FALSE]]
  PROVE  Acts
<1>1. Posix!ExitEnd(t)
  BY FreeActs DEF Posix!ExitEnd, FileMap, MarkMap
<1> QED BY <1>1 DEF Acts, Posix!FNext

-----------------------------------------------------------------------------
(* Every step of the descriptors is one of those *)

LEMMA RestActs ==
  ASSUME Good, Good', NEW t \in Tasks, Rests(t)
  PROVE  UNCHANGED <<FileMap, MarkMap>>
<1>1. {} \in SUBSET Fds /\ Change(t, {}) /\ node' = node
  BY DEF Rests
<1> QED BY <1>1, NoneOfThem

\* A new open file.
LEMMA GivesActs ==
  ASSUME Good, Good', NEW t \in Tasks, pc[t] = "run", UNCHANGED <<pc, dad>>,
         \/ Rests(t)
         \/ \E fd \in Fds, m \in Vnode : /\ Becomes(t, fd, m) /\ m.Access
                                         /\ FirstFree(t, fd, 0)
  PROVE  Acts
<1>1. CASE Rests(t)
  BY <1>1, RestActs DEF Acts
<1>2. ASSUME NEW fd \in Fds, NEW m \in Vnode, Becomes(t, fd, m), m.Access,
             FirstFree(t, fd, 0)
      PROVE  Acts
  <2>1. OnlyMap(t, fd) /\ FileMap'[t][fd] = Object(t, fd)'
    BY <1>2, BecomesThat DEF OnlyMap
  <2>2. Object(t, fd)' \in Files
    <3>1. node'[t][fd] = m
      BY <1>2, TypedAt DEF Becomes, Good, Agreed
    <3>2. Fresh(t, fd)
      BY <1>2, <3>1 DEF Becomes, Change
    <3> QED BY <3>2 DEF Fresh, Object
  <2>3. /\ FileMap[t][fd] = NoFile
        /\ \A g \in Fds : FileMap[t][g] = NoFile => fd <= g
    BY <1>2, FreeFacts, FdFacts DEF FirstFree
  <2> QED BY <2>1, <2>2, <2>3, GiveActs
<1> QED BY <1>1, <1>2

LEMMA PipesActs ==
  ASSUME Good, Good', NEW t \in Tasks, pc[t] = "run", UNCHANGED <<pc, dad, win>>,
         NEW r \in Fds, NEW s \in Fds, NEW m1 \in Vnode, NEW m2 \in Vnode,
         node' = [node EXCEPT ![t][r] = m1, ![t][s] = m2],
         Change(t, {r, s}), m1.Access, m2.Access, ~m1.CloseExec, ~m2.CloseExec,
         FirstFree(t, r, 0), r < s, ~node[t][s].Access,
         \A g \in Fds \ {r} : ~node[t][g].Access => s <= g
  PROVE  Acts
<1>1. \A u \in Tasks, g \in Fds :
        node'[u][g] = IF u = t /\ g = s THEN m2 ELSE IF u = t /\ g = r THEN m1
                      ELSE node[u][g]
  BY TypedAt DEF Good, Agreed
<1>2. r # s /\ node'[t][r] = m1 /\ node'[t][s] = m2
  <2>1. r # s
    BY FdFacts
  <2>2. node \in [Tasks -> [Fds -> Vnode]]
    BY TypedAt DEF Good, Agreed
  <2> QED BY <2>1, <2>2
<1>3. Fresh(t, r) /\ Fresh(t, s)
  BY <1>2 DEF Change
<1>4. PICK fr, fs \in Files : fr = Object(t, r)' /\ fs = Object(t, s)'
  BY <1>3 DEF Fresh, Object
<1>5. ASSUME NEW u \in Tasks, NEW g \in Fds
      PROVE  /\ FileOf(u, g)' = IF u = t /\ g = s THEN fs ELSE IF u = t /\ g = r THEN fr
                                ELSE FileOf(u, g)
             /\ MarkOf(u, g)' = MarkOf(u, g)
  <2>1. CASE u = t /\ g \in {r, s}
    BY <1>2, <1>4, <2>1 DEF FileOf, MarkOf, FirstFree
  <2>2. CASE ~(u = t /\ g \in {r, s})
    <3>1. PICK S \in SUBSET Fds : S = {r, s}
      OBVIOUS
    <3>2. Change(t, S) /\ ~(u = t /\ g \in S)
      BY <2>2, <3>1
    <3>3. ~(u = t /\ g = s) /\ ~(u = t /\ g = r)
      BY <2>2
    <3>4. node'[u][g] = node[u][g]
      BY <1>1, <3>3
    <3>5. FileOf(u, g)' = FileOf(u, g)
      BY <3>2, <3>4, MapStays
    <3> QED BY <3>3, <3>4, <3>5 DEF MarkOf
  <2> QED BY <2>1, <2>2
<1>6. UNCHANGED MarkMap
  BY <1>5, MapFacts
<1>7. FileMap' = [FileMap EXCEPT ![t][r] = fr, ![t][s] = fs]
  <2>1. PICK F, G : F = FileMap /\ G = FileMap'
    OBVIOUS
  <2>2. F = [u \in Tasks |-> [g \in Fds |-> FileOf(u, g)]]
    BY <2>1, MapFacts DEF Good
  <2>3. G = [u \in Tasks |-> [g \in Fds |-> FileOf(u, g)']]
    BY <2>1, MapFacts DEF Good
  <2>4. SameButTwo(F, G, t, r, s, fr, fs)
    BY <1>5, <2>2, <2>3 DEF SameButTwo
  <2>5. IsMap(F) /\ IsMap(G)
    BY <2>2, <2>3 DEF IsMap
  <2>6. DiffersTwice(F, G, t, r, s, fr, fs)
    BY <1>2, <2>4, <2>5, DifferTwice
  <2> QED BY <2>1, <2>6 DEF DiffersTwice
<1>8. /\ FileMap[t][r] = NoFile /\ FileMap[t][s] = NoFile
      /\ \A g \in Fds \ {r} : FileMap[t][g] = NoFile => s <= g
  BY FreeFacts DEF FirstFree
<1> QED BY <1>6, <1>7, <1>8, PipeActs

\* A copy of a descriptor of the same process.
LEMMA CopiesActs ==
  ASSUME Good, Good', NEW t \in Tasks, pc[t] = "run", UNCHANGED <<pc, dad, win>>,
         NEW old \in Fds, NEW fd \in Fds, NEW m \in Vnode, node[t][old].Access,
         Becomes(t, fd, m), m.Access,
         ht'[win[t]][m.Handle].obj = ht[win[t]][node[t][old].Handle].obj,
         ~node[t][fd].Access \/ (fd # old /\ ~m.CloseExec)
  PROVE  Acts
<1>1. /\ OnlyMap(t, fd) /\ FileMap'[t][fd] = Object(t, fd)'
      /\ MarkMap'[t][fd] = (m.Access /\ m.CloseExec)
  BY BecomesThat DEF OnlyMap
<1>2. Object(t, fd)' = Object(t, old)
  <2>1. node'[t][fd] = m
    BY TypedAt DEF Becomes, Good, Agreed
  <2>2. Where(t, old) = win[t] /\ Where(t, fd)' = win[t]
    BY DEF Where
  <2> QED BY <2>1, <2>2 DEF Object
<1>3. FileMap[t][old] = Object(t, old) /\ FileMap[t][old] # NoFile
  BY FreeFacts
<1>4. FileMap[t][fd] = NoFile \/ (fd # old /\ MarkMap'[t][fd] = FALSE)
  <2>1. CASE ~node[t][fd].Access
    BY <2>1, FreeFacts
  <2>2. CASE fd # old /\ ~m.CloseExec
    BY <1>1, <2>2
  <2> QED BY <2>1, <2>2
<1>5. FileMap'[t][fd] = FileMap[t][old]
  BY <1>1, <1>2, <1>3
<1> QED BY <1>1, <1>3, <1>4, <1>5, DupActs

\* A closed descriptor.
LEMMA ClosesActs ==
  ASSUME Good, Good', NEW t \in Tasks, UNCHANGED <<pc, dad>>, NEW fd \in Fds,
         Becomes(t, fd, ZeroNode),
         \/ pc[t] \in {"run", "closing", "exit"}
         \/ pc[t] = "exec" /\ node[t][fd].Access /\ node[t][fd].CloseExec
  PROVE  Acts
<1>1. ZeroNode \in Vnode /\ ~ZeroNode.Access
  BY NodeFacts, EntryFacts DEF ZeroNode, Vnode, FSType
<1>2. PICK m \in Vnode : m = ZeroNode /\ ~m.Access
  BY <1>1
<1>3. Becomes(t, fd, m)
  BY <1>2
<1>4. /\ OnlyMap(t, fd) /\ FileMap'[t][fd] = NoFile
      /\ MarkMap'[t][fd] = FALSE
  BY <1>2, <1>3, BecomesThat DEF OnlyMap
<1>5. CASE pc[t] \in {"run", "closing", "exit"}
  BY <1>4, <1>5, CloseActs
<1>6. CASE pc[t] = "exec" /\ node[t][fd].Access /\ node[t][fd].CloseExec
  <2>1. MarkMap[t][fd]
    BY <1>6, FreeFacts DEF MarkOf
  <2> QED BY <1>4, <1>6, <2>1, CloseOnExecActs
<1> QED BY <1>5, <1>6

LEMMA MarksActs ==
  ASSUME Good, Good', NEW t \in Tasks, pc[t] = "run", UNCHANGED <<pc, dad>>,
         NEW fd \in Fds, node[t][fd].Access, NEW m \in Vnode, m.Access,
         node' = [node EXCEPT ![t][fd] = m], Change(t, {})
  PROVE  Acts
<1>1. \A u \in Tasks, g \in Fds :
        node'[u][g] = IF u = t /\ g = fd THEN m ELSE node[u][g]
  BY TypedAt DEF Good, Agreed
<1>2. PICK S \in SUBSET Fds : S = {}
  OBVIOUS
<1>3. Change(t, S)
  BY <1>2
<1>4. \A u \in Tasks, g \in Fds : FileOf(u, g)' = FileOf(u, g)
  BY <1>1, <1>2, <1>3, MapStays
<1>5. \A u \in Tasks, g \in Fds : <<u, g>> # <<t, fd>> => MarkOf(u, g)' = MarkOf(u, g)
  BY <1>1 DEF MarkOf
<1>6. OnlyMap(t, fd)
  BY <1>4, <1>5, OnlyThat DEF OnlyMap
<1>7. FileMap[t][fd] # NoFile /\ FileMap'[t][fd] = FileMap[t][fd]
  BY <1>4, FreeFacts, MapFacts DEF Good
<1> QED BY <1>6, <1>7, SetActs

\* The calls a running program makes.
LEMMA CallActs ==
  ASSUME Good, Good', Agreed', Supported, UNCHANGED calls, NEW t \in Tasks,
         \/ \E f \in Paths, c \in BOOLEAN : Open(t, f, c)
         \/ Pipe(t) \/ Socket(t)
         \/ \E fd, min \in Fds, c \in BOOLEAN : Dup(t, fd, c, min)
         \/ \E old, new \in Fds : Dup2(t, old, new)
         \/ \E fd \in Fds : Close(t, fd)
         \/ \E fd \in Fds, c \in BOOLEAN : SetFd(t, fd, c) \/ SetFl(t, fd, c)
  PROVE  Acts
<1>1. pc[t] = "run" /\ UNCHANGED <<pc, dad, win>>
  BY DEF Open, Pipe, Socket, Dup, Dup2, Close, SetFd, SetFl
<1>2. ASSUME NEW f \in Paths, NEW c \in BOOLEAN, Open(t, f, c) PROVE Acts
  <2>1. \/ Rests(t)
        \/ \E fd \in Fds, m \in Vnode : /\ Becomes(t, fd, m) /\ m.Access
                                        /\ FirstFree(t, fd, 0)
    BY <1>2, OpenGood
  <2> QED BY <1>1, <2>1, GivesActs
<1>3. CASE Socket(t)
  <2>1. \/ Rests(t)
        \/ \E fd \in Fds, m \in Vnode : /\ Becomes(t, fd, m) /\ m.Access
                                        /\ FirstFree(t, fd, 0)
    BY <1>3, SocketGood
  <2> QED BY <1>1, <2>1, GivesActs
<1>4. CASE Pipe(t)
  <2>1. \/ \/ Rests(t)
           \/ \E fd \in Fds, m \in Vnode : /\ Becomes(t, fd, m) /\ m.Access
                                           /\ FirstFree(t, fd, 0)
        \/ \E r, s \in Fds, m1, m2 \in Vnode :
             /\ node' = [node EXCEPT ![t][r] = m1, ![t][s] = m2]
             /\ Change(t, {r, s}) /\ m1.Access /\ m2.Access
             /\ ~m1.CloseExec /\ ~m2.CloseExec
             /\ FirstFree(t, r, 0) /\ r < s /\ ~node[t][s].Access
             /\ \A g \in Fds \ {r} : ~node[t][g].Access => s <= g
    BY <1>4, PipeGood
  <2>2. CASE \/ Rests(t)
             \/ \E fd \in Fds, m \in Vnode : /\ Becomes(t, fd, m) /\ m.Access
                                             /\ FirstFree(t, fd, 0)
    BY <1>1, <2>2, GivesActs
  <2>3. ASSUME NEW r \in Fds, NEW s \in Fds, NEW m1 \in Vnode, NEW m2 \in Vnode,
               node' = [node EXCEPT ![t][r] = m1, ![t][s] = m2],
               Change(t, {r, s}), m1.Access, m2.Access, ~m1.CloseExec, ~m2.CloseExec,
               FirstFree(t, r, 0), r < s, ~node[t][s].Access,
               \A g \in Fds \ {r} : ~node[t][g].Access => s <= g
        PROVE  Acts
    BY <1>1, <2>3, PipesActs
  <2> QED BY <2>1, <2>2, <2>3
<1>5. ASSUME NEW old \in Fds, NEW min \in Fds, NEW c \in BOOLEAN, Dup(t, old, c, min)
      PROVE  Acts
  <2>1. /\ node[t][old].Access
        /\ \/ Rests(t)
           \/ \E fd \in Fds, m \in Vnode :
                /\ Becomes(t, fd, m) /\ m.Access /\ FirstFree(t, fd, min)
                /\ ht'[win[t]][m.Handle].obj = ht[win[t]][node[t][old].Handle].obj
    BY <1>5, DupGood
  <2>2. CASE Rests(t)
    BY <1>1, <2>2, RestActs DEF Acts
  <2>3. ASSUME NEW fd \in Fds, NEW m \in Vnode, Becomes(t, fd, m), m.Access,
               FirstFree(t, fd, min),
               ht'[win[t]][m.Handle].obj = ht[win[t]][node[t][old].Handle].obj
        PROVE  Acts
    <3>1. ~node[t][fd].Access
      BY <2>3 DEF FirstFree
    <3> QED BY <1>1, <2>1, <2>3, <3>1, CopiesActs
  <2> QED BY <2>1, <2>2, <2>3
<1>6. ASSUME NEW old \in Fds, NEW new \in Fds, Dup2(t, old, new) PROVE Acts
  <2>1. PICK m \in Vnode :
          /\ Becomes(t, new, m) /\ m.Access /\ ~m.CloseExec
          /\ ht'[win[t]][m.Handle].obj = ht[win[t]][node[t][old].Handle].obj
    BY <1>6, Dup2Good
  <2>2. node[t][old].Access /\ new # old
    BY <1>6, Dup2Good DEF Dup2
  <2> QED BY <1>1, <2>1, <2>2, CopiesActs
<1>7. ASSUME NEW fd \in Fds, Close(t, fd) PROVE Acts
  <2>1. Rests(t) \/ Becomes(t, fd, ZeroNode)
    BY <1>7, CloseCallGood
  <2>2. CASE Rests(t)
    BY <1>1, <2>2, RestActs DEF Acts
  <2>3. CASE Becomes(t, fd, ZeroNode)
    BY <1>1, <2>3, ClosesActs
  <2> QED BY <2>1, <2>2, <2>3
<1>8. ASSUME NEW fd \in Fds, NEW c \in BOOLEAN, SetFd(t, fd, c) \/ SetFl(t, fd, c)
      PROVE  Acts
  <2>1. ~SetClosed
    BY DEF Supported
  <2>2. /\ node[t][fd].Access
        /\ \E m \in Vnode : /\ node' = [node EXCEPT ![t][fd] = m] /\ Change(t, {})
                            /\ m.Access /\ m.CloseExec = c
    BY <1>8, <2>1, SetGood
  <2> QED BY <1>1, <2>2, MarksActs
<1> QED BY <1>2, <1>3, <1>4, <1>5, <1>6, <1>7, <1>8

\* One descriptor of a closefrom(), an exit(), a fork() or an execve().
LEMMA LoopActs ==
  ASSUME Good, Loops, Good', Agreed', Supported, UNCHANGED calls, NEW t \in Tasks,
         CloseNext(t) \/ CopyChannel(t) \/ MoveChannel(t)
  PROVE  Acts
<1>1. CASE CloseNext(t)
  <2>1. PICK k \in Fds : k = at[t]
    BY <1>1, CloseNextGood
  <2>2. Rests(t) \/ Becomes(t, k, ZeroNode)
    BY <1>1, <2>1, CloseNextGood
  <2>3. pc[t] \in {"closing", "exit"} /\ UNCHANGED <<pc, dad>>
    BY <1>1 DEF CloseNext
  <2>4. CASE Rests(t)
    BY <2>3, <2>4, RestActs DEF Acts
  <2>5. CASE Becomes(t, k, ZeroNode)
    BY <2>3, <2>5, ClosesActs
  <2> QED BY <2>2, <2>4, <2>5
<1>2. CASE CopyChannel(t)
  <2>1. pc[t] = "child" /\ UNCHANGED <<pc, dad>>
    BY <1>2 DEF CopyChannel
  <2>2. PICK k \in Fds, u \in Tasks :
          /\ k = at[t] /\ u = dad[t] /\ u # t
          /\ \/ Rests(t) /\ ~node[u][k].Access
             \/ /\ node[u][k].Access
                /\ \E m \in Vnode :
                     /\ Becomes(t, k, m) /\ m.Access
                     /\ m.CloseExec = node[u][k].CloseExec
                     /\ Object(t, k)' = Object(u, k)
    BY <1>2, CopyChannelGood
  <2>3. CASE Rests(t)
    BY <2>1, <2>3, RestActs DEF Acts
  <2>4. ASSUME node[u][k].Access, NEW m \in Vnode, Becomes(t, k, m), m.Access,
               m.CloseExec = node[u][k].CloseExec, Object(t, k)' = Object(u, k)
        PROVE  Acts
    <3>1. /\ OnlyMap(t, k) /\ FileMap'[t][k] = Object(t, k)'
          /\ MarkMap'[t][k] = (m.Access /\ m.CloseExec)
      BY <2>4, BecomesThat DEF OnlyMap
    <3>2. /\ FileMap[u][k] = Object(u, k)
          /\ MarkMap[u][k] = (node[u][k].Access /\ node[u][k].CloseExec)
      BY <2>4, FreeFacts DEF MarkOf
    <3>3. FileMap'[t][k] = FileMap[dad[t]][k] /\ MarkMap'[t][k] = MarkMap[dad[t]][k]
      BY <2>2, <2>4, <3>1, <3>2
    <3> QED BY <2>1, <3>1, <3>3, InheritActs
  <2> QED BY <2>2, <2>3, <2>4
<1>3. CASE MoveChannel(t)
  <2>1. pc[t] = "exec" /\ UNCHANGED <<pc, dad>>
    BY <1>3 DEF MoveChannel
  <2>2. PICK k \in Fds :
          \/ Rests(t)
          \/ Becomes(t, k, ZeroNode) /\ node[t][k].Access /\ node[t][k].CloseExec
          \/ /\ node[t][k].Access /\ ~node[t][k].CloseExec
             /\ \E m \in Vnode : /\ Becomes(t, k, m) /\ m.Access /\ ~m.CloseExec
                                 /\ Object(t, k)' = Object(t, k)
    BY <1>3, MoveChannelGood
  <2>3. CASE Rests(t)
    BY <2>1, <2>3, RestActs DEF Acts
  <2>4. CASE Becomes(t, k, ZeroNode) /\ node[t][k].Access /\ node[t][k].CloseExec
    BY <2>1, <2>4, ClosesActs
  <2>5. ASSUME node[t][k].Access, ~node[t][k].CloseExec, NEW m \in Vnode,
               Becomes(t, k, m), m.Access, ~m.CloseExec, Object(t, k)' = Object(t, k)
        PROVE  Acts
    <3>1. \A u \in Tasks, g \in Fds :
            node'[u][g] = IF u = t /\ g = k THEN m ELSE node[u][g]
      BY <2>5, TypedAt DEF Becomes, Good, Agreed
    <3>2. PICK S \in SUBSET Fds : S = {k}
      OBVIOUS
    <3>3. Change(t, S)
      BY <2>5, <3>2 DEF Becomes
    <3>4. \A u \in Tasks, g \in Fds :
            /\ node'[u][g].Access <=> node[u][g].Access
            /\ node[u][g].Access => node'[u][g].CloseExec = node[u][g].CloseExec
      <4>1. PICK b \in BOOLEAN : ~b
        OBVIOUS
      <4>2. m.CloseExec = b /\ node[t][k].CloseExec = b
        BY <2>5, <4>1, TypedAt DEF Vnode, Good, Agreed
      <4>3. m.Access <=> node[t][k].Access
        BY <2>5
      <4> QED BY <3>1, <4>2, <4>3
    <3>5. \A g \in S : FileOf(t, g)' = FileOf(t, g)
      BY <2>5, <3>2, <3>4 DEF FileOf
    <3> QED BY <2>1, <3>3, <3>4, <3>5, NoneOfThem DEF Acts
  <2> QED BY <2>2, <2>3, <2>4, <2>5
<1> QED BY <1>1, <1>2, <1>3

\* The end of a process.
LEMMA DieMaps ==
  ASSUME Good, Good', NEW t \in Tasks, Die(t), Change(t, {})
  PROVE  /\ FileMap' = [FileMap EXCEPT ![t] = [fd \in Fds |-> NoFile]]
         /\ MarkMap' = [MarkMap EXCEPT ![t] = [fd \in Fds |-> FALSE]]
<1>1. \A u \in Tasks, g \in Fds : node'[u][g] = IF u = t THEN ZeroNode ELSE node[u][g]
  BY TypedAt DEF Die, Good, Agreed
<1>2. ~ZeroNode.Access
  BY DEF ZeroNode
<1>3. PICK S \in SUBSET Fds : S = {}
  OBVIOUS
<1>4. Change(t, S)
  BY <1>3
<1>5. PICK b \in BOOLEAN : ~b
  OBVIOUS
<1>6. \A u \in Tasks, g \in Fds :
        FileOf(u, g)' = IF u = t THEN NoFile ELSE FileOf(u, g)
  <2>1. \A u \in Tasks, g \in Fds : u # t => FileOf(u, g)' = FileOf(u, g)
    BY <1>1, <1>3, <1>4, MapStays
  <2>2. \A g \in Fds : FileOf(t, g)' = NoFile
    BY <1>1, <1>2 DEF FileOf
  <2> QED BY <2>1, <2>2
<1>7. \A u \in Tasks, g \in Fds :
        MarkOf(u, g)' = IF u = t THEN FALSE ELSE MarkOf(u, g)
  BY <1>1, <1>2 DEF MarkOf
<1>8. PICK F, G : F = FileMap /\ G = FileMap'
  OBVIOUS
<1>9. G = [F EXCEPT ![t] = [fd \in Fds |-> NoFile]]
  <2>1. F = [u \in Tasks |-> [g \in Fds |-> FileOf(u, g)]]
    BY <1>8, MapFacts DEF Good
  <2>2. G = [u \in Tasks |-> [g \in Fds |-> FileOf(u, g)']]
    BY <1>8, MapFacts DEF Good
  <2>3. IsMap(F) /\ IsMap(G) /\ ClearsAt(F, G, t, NoFile)
    BY <1>6, <2>1, <2>2 DEF IsMap, ClearsAt
  <2>4. Cleared(F, G, t, NoFile)
    BY <2>3, ClearAt
  <2> QED BY <2>4 DEF Cleared
<1>10. PICK M, N : M = MarkMap /\ N = MarkMap'
  OBVIOUS
<1>11. N = [M EXCEPT ![t] = [fd \in Fds |-> FALSE]]
  <2>1. M = [u \in Tasks |-> [g \in Fds |-> MarkOf(u, g)]]
    BY <1>10, MapFacts
  <2>2. N = [u \in Tasks |-> [g \in Fds |-> MarkOf(u, g)']]
    BY <1>10, MapFacts
  <2>3. IsMap(M) /\ IsMap(N) /\ ClearsAt(M, N, t, FALSE)
    BY <1>7, <2>1, <2>2 DEF IsMap, ClearsAt
  <2>4. Cleared(M, N, t, FALSE)
    BY <2>3, ClearAt
  <2> QED BY <2>4 DEF Cleared
<1> QED BY <1>8, <1>9, <1>10, <1>11

\* The steps that begin and end a fork(), an execve(), a closefrom() or an exit().
LEMMA ControlActs ==
  ASSUME Good, Loops, Good', Agreed', Supported, UNCHANGED calls, NEW t \in Tasks,
         \/ Fork(t) \/ ForkDone(t) \/ Exec(t) \/ ExecDone(t)
         \/ Exit(t) \/ (\E fd \in Fds : CloseFrom(t, fd)) \/ CloseDone(t)
  PROVE  Acts
<1>1. Change(t, {})
  BY ControlGood
<1>2. ASSUME UNCHANGED node PROVE UNCHANGED <<FileMap, MarkMap>>
  BY <1>1, <1>2, RestActs DEF Rests
<1>3. ASSUME Die(t), pc[t] \in {"run", "exit"} PROVE Acts
  BY <1>1, <1>3, DieMaps, DieActs DEF Die
<1>4. CASE Fork(t)
  <2>1. UNCHANGED <<FileMap, MarkMap>>
    BY <1>2, <1>4 DEF Fork
  <2>2. \E c \in Tasks : /\ pc[t] = "run" /\ pc[c] = "none"
                         /\ pc' = [pc EXCEPT ![t] = "fork", ![c] = "child"]
                         /\ dad' = [dad EXCEPT ![c] = t]
    BY <1>4 DEF Fork
  <2> QED BY <2>1, <2>2, StageActs
<1>5. CASE ForkDone(t)
  <2>1. UNCHANGED <<FileMap, MarkMap>>
    BY <1>2, <1>5 DEF ForkDone
  <2>2. PICK u \in Tasks : u = dad[t]
    BY <1>5 DEF ForkDone, Good, Agreed, Typed, Placed
  <2>3. \A fd \in Fds : fd < at[t]
    BY <1>5, FdFacts DEF ForkDone
  <2>4. \A fd \in Fds : Twin(t, fd)
    BY <1>5, <2>3 DEF ForkDone, Loops, Looped
  <2>5. \A fd \in Fds : FileOf(t, fd) = FileOf(u, fd) /\ MarkOf(t, fd) = MarkOf(u, fd)
    BY <2>2, <2>4 DEF Twin, FileOf, MarkOf
  <2>6. FileMap[t] = FileMap[u] /\ MarkMap[t] = MarkMap[u]
    BY <2>5, MapFacts DEF Good
  <2>7. /\ pc[t] = "child" /\ FileMap[t] = FileMap[dad[t]] /\ MarkMap[t] = MarkMap[dad[t]]
        /\ pc' = [pc EXCEPT ![t] = "run", ![dad[t]] = "run"]
        /\ dad' = [dad EXCEPT ![t] = NoTask]
    BY <1>5, <2>2, <2>6 DEF ForkDone
  <2> QED BY <2>1, <2>7, StageActs
<1>6. CASE Exec(t)
  <2>1. UNCHANGED <<FileMap, MarkMap>>
    BY <1>2, <1>6 DEF Exec
  <2>2. pc[t] = "run" /\ UNCHANGED dad /\ pc' = [pc EXCEPT ![t] = "exec"]
    BY <1>6 DEF Exec
  <2> QED BY <2>1, <2>2, StageActs
<1>7. CASE ExecDone(t)
  <2>1. UNCHANGED <<FileMap, MarkMap>>
    BY <1>2, <1>7 DEF ExecDone
  <2>2. pc[t] = "exec" /\ UNCHANGED dad /\ pc' = [pc EXCEPT ![t] = "run"]
    BY <1>7 DEF ExecDone
  <2>3. \A fd \in Fds : fd < at[t]
    BY <1>7, FdFacts DEF ExecDone
  <2>4. \A fd \in Fds : ~MarkMap[t][fd]
    BY <2>2, <2>3, FreeFacts DEF Loops, Looped, MarkOf
  <2> QED BY <2>1, <2>2, <2>4, StageActs
<1>8. CASE Exit(t)
  <2>1. CASE Die(t)
    BY <1>3, <1>8, <2>1 DEF Exit
  <2>2. CASE pc' = [pc EXCEPT ![t] = "exit"] /\ UNCHANGED <<dad, node>>
    <3>1. UNCHANGED <<FileMap, MarkMap>>
      BY <1>2, <2>2
    <3>2. pc[t] = "run"
      BY <1>8 DEF Exit
    <3> QED BY <2>2, <3>1, <3>2, StageActs
  <2> QED BY <1>8, <2>1, <2>2 DEF Exit
<1>9. ASSUME NEW fd \in Fds, CloseFrom(t, fd) PROVE Acts
  <2>1. UNCHANGED <<FileMap, MarkMap>>
    BY <1>2, <1>9 DEF CloseFrom
  <2>2. pc[t] = "run" /\ UNCHANGED dad /\ pc' = [pc EXCEPT ![t] = "closing"]
    BY <1>9 DEF CloseFrom
  <2> QED BY <2>1, <2>2, StageActs
<1>10. CASE CloseDone(t)
  <2>1. CASE pc[t] = "exit" /\ Die(t)
    BY <1>3, <2>1
  <2>2. CASE pc[t] = "closing" /\ UNCHANGED <<dad, node>> /\ pc' = [pc EXCEPT ![t] = "run"]
    <3>1. UNCHANGED <<FileMap, MarkMap>>
      BY <1>2, <2>2
    <3> QED BY <2>2, <3>1, StageActs
  <2> QED BY <1>10, <2>1, <2>2 DEF CloseDone
<1> QED BY <1>4, <1>5, <1>6, <1>7, <1>8, <1>9, <1>10

LEMMA ActsStep ==
  ASSUME Supported, Kept, Kept', [Next]_vars
  PROVE  [("std" \notin calls) => Posix!FNext]_(Posix!fvars)
<1>1. CASE "std" \in calls
  BY <1>1
<1>2. CASE "std" \notin calls
  <2>1. Good /\ Loops
    BY <1>2 DEF Kept
  <2>2. UNCHANGED calls
    BY DEF Next, vars
  <2>3. Good' /\ Agreed'
    BY <1>2, <2>2 DEF Kept
  <2>4. ASSUME Acts PROVE Posix!FNext \/ UNCHANGED Posix!fvars
    BY <2>4 DEF Acts, Posix!fvars, FileMap, MarkMap
  <2>5. CASE Next
    <3>1. PICK t \in Tasks :
            \/ \E f \in Paths, c \in BOOLEAN : Open(t, f, c)
            \/ \E k \in Fds : OpenStd(t, k)
            \/ Pipe(t) \/ Socket(t)
            \/ \E fd, min \in Fds, c \in BOOLEAN : Dup(t, fd, c, min)
            \/ \E old, new \in Fds : Dup2(t, old, new)
            \/ \E fd \in Fds : Close(t, fd) \/ CloseFrom(t, fd)
            \/ \E fd \in Fds, c \in BOOLEAN : SetFd(t, fd, c) \/ SetFl(t, fd, c)
            \/ Fork(t) \/ CopyChannel(t) \/ ForkDone(t)
            \/ Exec(t) \/ MoveChannel(t) \/ ExecDone(t)
            \/ Exit(t) \/ CloseNext(t) \/ CloseDone(t)
      BY <2>5 DEF Next, Step
    <3>2. CASE \E k \in Fds : OpenStd(t, k)
      BY <1>2, <3>2 DEF OpenStd
    <3>3. CASE \/ \E f \in Paths, c \in BOOLEAN : Open(t, f, c)
               \/ Pipe(t) \/ Socket(t)
               \/ \E fd, min \in Fds, c \in BOOLEAN : Dup(t, fd, c, min)
               \/ \E old, new \in Fds : Dup2(t, old, new)
               \/ \E fd \in Fds : Close(t, fd)
               \/ \E fd \in Fds, c \in BOOLEAN : SetFd(t, fd, c) \/ SetFl(t, fd, c)
      BY <2>1, <2>2, <2>3, <2>4, <3>3, CallActs
    <3>4. CASE CloseNext(t) \/ CopyChannel(t) \/ MoveChannel(t)
      BY <2>1, <2>2, <2>3, <2>4, <3>4, LoopActs
    <3>5. CASE \/ Fork(t) \/ ForkDone(t) \/ Exec(t) \/ ExecDone(t)
               \/ Exit(t) \/ (\E fd \in Fds : CloseFrom(t, fd)) \/ CloseDone(t)
      BY <2>1, <2>2, <2>3, <2>4, <3>5, ControlActs
    <3> QED BY <3>1, <3>2, <3>3, <3>4, <3>5
  <2>6. CASE UNCHANGED vars
    BY <2>6 DEF vars, Posix!fvars, Where
  <2> QED BY <2>5, <2>6
<1> QED BY <1>1, <1>2

\* Programs that leave /dev/stdin alone see of their descriptors what FdPosix
\* says, whatever the processes that share their Win32 process and its handle
\* table do: open(), dup(), pipe(), close(), fork() and execve() of several
\* processes, one descriptor at a time (libposix.c:126, vfs_posix.c:52).
THEOREM ActsLikePosix == ASSUME Supported PROVE Spec => ActsPosix
<1>1. Spec => []Kept
  BY KeptAlways
<1>2. Kept /\ Kept' /\ [Next]_vars => [("std" \notin calls) => Posix!FNext]_(Posix!fvars)
  BY ActsStep
<1> QED BY <1>1, <1>2, PTL DEF Spec, ActsPosix

LEMMA FirstMaps ==
  ASSUME Init, Kept
  PROVE  Posix!FInit
<1>1. Posix!Fds = Fds
  BY DEF Posix!Fds, Fds
<1>2. \A t \in Tasks, fd \in Fds : node[t][fd] = ZeroNode
  BY DEF Init
<1>3. \A t \in Tasks, fd \in Fds : FileOf(t, fd) = NoFile /\ MarkOf(t, fd) = FALSE
  BY <1>2, NodeFacts DEF FileOf, MarkOf
<1>4. /\ FileMap = [t \in Tasks |-> [fd \in Fds |-> NoFile]]
      /\ MarkMap = [t \in Tasks |-> [fd \in Fds |-> FALSE]]
  BY <1>3, MapFacts DEF Kept
<1>5. dad = [t \in Tasks |-> NoTask] /\ pc \in [Tasks -> {"none", "run"}]
  BY DEF Init
<1> QED BY <1>1, <1>4, <1>5 DEF Posix!FInit, FileMap, MarkMap

\* A program that does none of it implements FdPosix from its first state on.
THEOREM DescriptorsPosix ==
  ASSUME Supported, \A m \in Menus : "std" \notin m
  PROVE  Spec => ImplementsPosix
<1>1. Spec => []Kept
  BY KeptAlways
<1>2. Init => "std" \notin calls
  BY DEF Init
<1>3. "std" \notin calls /\ [Next]_vars => ("std" \notin calls)'
  BY DEF Next, vars
<1>4. Spec => []("std" \notin calls)
  BY <1>2, <1>3, PTL DEF Spec
<1>5. Init /\ Kept => Posix!FInit
  BY FirstMaps
<1>6. Kept /\ Kept' /\ "std" \notin calls /\ [Next]_vars => [Posix!FNext]_(Posix!fvars)
  BY ActsStep
<1> QED BY <1>1, <1>4, <1>5, <1>6, PTL DEF Spec, ImplementsPosix, Posix!FSpec

==============================================================================
