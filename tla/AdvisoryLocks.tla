---------------------------- MODULE AdvisoryLocks ----------------------------
(***************************************************************************)
(* What fcntl(F_SETLK) and flock() promise: a holder has bytes of the file *)
(* to read or to write, and nobody else has what it writes.  A holder is a *)
(* process for fcntl(), an open file for flock().                          *)
(***************************************************************************)
EXTENDS TLAPS

CONSTANTS
  Holders,  \* processes and open files
  Bytes     \* of the file

VARIABLE held  \* what a holder has of each byte: "-", "r" or "w"

Conflicts(m, n) == m # "-" /\ n # "-" /\ "w" \in {m, n}

Init == held = [h \in Holders |-> [b \in Bytes |-> "-"]]

\* A holder gets bytes that the others leave to it.
Lock(h, B, m) ==
  /\ \A b \in B, g \in Holders \ {h} : ~Conflicts(m, held[g][b])
  /\ held' = [held EXCEPT ![h] = [b \in Bytes |-> IF b \in B THEN m ELSE held[h][b]]]

\* Bytes are given back, at the exit of a process those of several holders.
Unlock ==
  /\ held' \in [Holders -> [Bytes -> {"-", "r", "w"}]]
  /\ \A h \in Holders, b \in Bytes : held'[h][b] \in {"-", held[h][b]}

Next == Unlock \/ \E h \in Holders, B \in SUBSET Bytes, m \in {"r", "w"} : Lock(h, B, m)

Spec == Init /\ [][Next]_held

\* Bytes that one holder has to write, nobody else has: what F_WRLCK of fcntl()
\* and LOCK_EX of flock() say.
Exclusive == \A g, h \in Holders, b \in Bytes : g # h => ~Conflicts(held[g][b], held[h][b])

Typed == held \in [Holders -> [Bytes -> {"-", "r", "w"}]]

LEMMA LockKeeps ==
  ASSUME Typed, Exclusive, NEW k \in Holders, NEW B \in SUBSET Bytes, NEW m \in {"r", "w"},
         Lock(k, B, m)
  PROVE  Typed' /\ Exclusive'
<1> DEFINE new == [b \in Bytes |-> IF b \in B THEN m ELSE held[k][b]]
<1>1. held' = [held EXCEPT ![k] = new]
  BY DEF Lock
<1>2. new \in [Bytes -> {"-", "r", "w"}]
  BY DEF Typed
<1>3. Typed'
  BY <1>1, <1>2 DEF Typed
<1>4. \A h \in Holders \ {k}, b \in Bytes :
        ~Conflicts(held'[k][b], held[h][b]) /\ ~Conflicts(held[h][b], held'[k][b])
  <2> TAKE h \in Holders \ {k}, b \in Bytes
  <2>1. held'[k][b] = IF b \in B THEN m ELSE held[k][b]
    BY <1>1 DEF Typed
  <2>2. CASE b \in B
    BY <2>1, <2>2 DEF Lock, Conflicts
  <2>3. CASE b \notin B
    BY <2>1, <2>3 DEF Exclusive, Conflicts
  <2> QED BY <2>2, <2>3
<1>5. \A h \in Holders \ {k} : held'[h] = held[h]
  BY <1>1 DEF Typed
<1>6. Exclusive'
  <2> SUFFICES ASSUME NEW g \in Holders, NEW h \in Holders, NEW b \in Bytes, g # h
               PROVE  ~Conflicts(held'[g][b], held'[h][b])
    BY DEF Exclusive, Conflicts
  <2>1. CASE g = k
    BY <1>4, <1>5, <2>1
  <2>2. CASE h = k
    BY <1>4, <1>5, <2>2
  <2>3. CASE g # k /\ h # k
    BY <1>5, <2>3 DEF Exclusive
  <2> QED BY <2>1, <2>2, <2>3
<1> QED BY <1>3, <1>6

\* A holder keeps what it has to write to itself, whoever else locks, unlocks
\* or exits: what a program may build on fcntl(F_SETLK) and flock().
THEOREM Exclusion == Spec => [](Typed /\ Exclusive)
<1>1. Init => Typed /\ Exclusive
  BY DEF Init, Typed, Exclusive, Conflicts
<1>2. Typed /\ Exclusive /\ [Next]_held => Typed' /\ Exclusive'
  <2> SUFFICES ASSUME Typed, Exclusive, [Next]_held PROVE Typed' /\ Exclusive'
    OBVIOUS
  <2>1. CASE \E h \in Holders, B \in SUBSET Bytes, m \in {"r", "w"} : Lock(h, B, m)
    BY <2>1, LockKeeps
  <2>2. CASE Unlock
    <3>1. Typed'
      BY <2>2 DEF Unlock, Typed
    <3>2. \A h \in Holders, b \in Bytes : held'[h][b] \in {"-", held[h][b]}
      BY <2>2 DEF Unlock
    <3>3. Exclusive'
      BY <3>2 DEF Exclusive, Conflicts
    <3> QED BY <3>1, <3>3
  <2>3. CASE UNCHANGED held
    BY <2>3 DEF Typed, Exclusive, Conflicts
  <2> QED BY <2>1, <2>2, <2>3 DEF Next
<1> QED BY <1>1, <1>2, PTL DEF Spec
=============================================================================
