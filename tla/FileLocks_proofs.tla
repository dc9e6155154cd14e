--------------------------- MODULE FileLocks_proofs ---------------------------
(***************************************************************************)
(* Proofs about FileLocks: types for all programs; that what a program was *)
(* told it has is locked, and what is locked somebody was told, and that   *)
(* fcntl() and flock() follow AdvisoryLocks, for programs that are Careful.*)
(***************************************************************************)
EXTENDS FileLocks, TLAPS

-----------------------------------------------------------------------------
(* Programs that are careful, and the invariant *)

\* Nobody locks to the end of the file (l_len = 0).  Programs that lock with
\* flock() do not fork and do not use fcntl(); those that use fcntl() open the
\* file once, ask for bytes they do not have and unlock ranges they locked; and
\* all fork and execute only without a lock.
Careful ==
  /\ \A r \in Ranges : r[2] # 0
  /\ \A m \in Menus :
       /\ "flock" \in m => m \cap {"fcntl", "fork"} = {}
       /\ "flock" \notin m => "apart" \in m /\ m \cap {"dup", "reopen"} = {}
       /\ m \cap {"fork", "exec"} # {} => "clean" \in m

\* Who is told of the locks that p takes on object o.
Hold(p, o) == IF "flock" \in menu THEN o ELSE p

\* The lock l is of the Win32 process of p, on an object p has open.
Mine(p, l) == image[p] = l.img /\ Has(node[p], l.obj)

\* Processes share a Win32 process only while they have no locks, an open file
\* only if they do not use flock(), and have the file open once if they use fcntl().
Separate ==
  /\ \A p, q \in Procs : p # q /\ Live(p) /\ image[q] = image[p] =>
       /\ "flock" \notin menu /\ "clean" \in menu
       /\ call[p].at = "run" /\ \A b \in Bytes : told[p][b] = "-"
  /\ \A p, q \in Procs, o \in Objects :
       p # q /\ Has(node[p], o) /\ Has(node[q], o) => "flock" \notin menu
  /\ "flock" \notin menu => \A p \in Procs, fd, g \in Fds :
       Opened(p, fd) /\ Opened(p, g) => fd = g

\* A request in progress is for bytes that its holder does not have.
Fit(p, q) ==
  /\ q.mode \in {"r", "w"} /\ q.bytes = Span(q.lo, q.len) /\ q.bytes # {}
  /\ q.holder = Hold(p, node[p][q.fd].obj)
  /\ \A b \in q.bytes : told[q.holder][b] = "-"
  /\ "flock" \in menu => q.lo = 0 /\ q.len = Word - 1
Asking == \A p \in Procs : call[p].at # "run" => Fit(p, call[p])

\* Each lock is some process's, and its holder was told so.
Matched ==
  \A l \in lock :
    /\ Span(l.lo, l.len) # {}
    /\ "flock" \in menu => l.lo = 0 /\ l.len = Word - 1
    /\ \E p \in Procs : /\ Mine(p, l)
                        /\ \A b \in Span(l.lo, l.len) : told[Hold(p, l.obj)][b] = l.mode

Disjoint ==
  \A l, k \in lock : l # k /\ l.obj = k.obj /\ l.img = k.img =>
    Span(l.lo, l.len) \cap Span(k.lo, k.len) = {}

\* What a holder was told is locked, by a process that may say so.
Meant ==
  \A h \in Holders, b \in Bytes : told[h][b] # "-" =>
    \E l \in lock, p \in Procs :
      l.mode = told[h][b] /\ b \in Span(l.lo, l.len) /\ Mine(p, l) /\ h = Hold(p, l.obj)

\* TypeOK is not inductive without it: a process that exits is in no call, and
\* one in LockFileEx() has asked for a lock.
Busy == \A p \in Procs :
  IF call[p].at = "run" THEN call[p] = NoCall
  ELSE call[p].mode # "-" /\ call[p].holder \in Holders

Trusted == TypeOK /\ Busy /\ Separate /\ Asking /\ Matched /\ Disjoint /\ Meant

-----------------------------------------------------------------------------
(* Types *)

Nodes == [obj : Objects \cup {None}, region : 0 .. Word - 1, size : 0 .. Word - 1]
Lockings == [obj : Objects, img : Images, lo : 0 .. Word - 1, len : 0 .. Word - 1,
             mode : {"r", "w"}]
Calls == [at : {"run", "lock", "wait"}, fd : Fds, lo : 0 .. Word - 1, len : 0 .. Word - 1,
          mode : Modes, wait : BOOLEAN, holder : Holders \cup {None}, bytes : SUBSET Bytes]
Tables == [Procs -> [Fds -> Nodes]]
Tellings == [Holders -> [Bytes -> Modes]]

LEMMA Sizes ==
  /\ None \notin Objects /\ None \notin Images /\ Procs \cap Objects = {}
  /\ 0 \in Fds /\ Word \in Nat /\ Word > 1 /\ MaxByte \in Nat /\ MaxByte < Word - 1
  /\ NoNode \in Nodes /\ NoCall \in Calls /\ Nothing \in [Bytes -> Modes]
<1>1. /\ MaxFd \in Nat /\ MaxObj \in Nat /\ MaxByte \in Nat /\ Word \in Nat
      /\ Word > MaxByte + 1
  BY FileLocksAssumption
<1>2. None \notin Objects /\ None \notin Images /\ Procs \cap Objects = {} /\ 0 \in Fds
  BY <1>1, FileLocksAssumption DEF None, Objects, Images, Fds
<1>3. 0 \in 0 .. Word - 1 /\ Word > 1 /\ MaxByte < Word - 1
  BY <1>1
<1>4. NoNode \in Nodes /\ NoCall \in Calls /\ Nothing \in [Bytes -> Modes]
  BY <1>2, <1>3 DEF NoNode, Nodes, NoCall, Calls, Nothing, Modes
<1> QED BY <1>1, <1>2, <1>3, <1>4

\* What TypeOK says, with the sets named.
LEMMA TypeFacts ==
  /\ TypeOK => /\ image \in [Procs -> Images \cup {None}] /\ node \in Tables
               /\ lock \subseteq Lockings /\ call \in [Procs -> Calls]
               /\ told \in Tellings /\ menu \in Menus
               /\ \A p \in Procs : ~Live(p) => /\ call[p] = NoCall
                                               /\ \A fd \in Fds : ~Opened(p, fd)
               /\ \A p \in Procs : call[p].at # "run" => Opened(p, call[p].fd)
  /\ (/\ image \in [Procs -> Images \cup {None}] /\ node \in Tables
      /\ lock \subseteq Lockings /\ call \in [Procs -> Calls]
      /\ told \in Tellings /\ menu \in Menus
      /\ \A p \in Procs : ~Live(p) => call[p] = NoCall /\ \A fd \in Fds : ~Opened(p, fd)
      /\ \A p \in Procs : call[p].at # "run" => Opened(p, call[p].fd)) => TypeOK
  BY DEF TypeOK, Tables, Nodes, Lockings, Calls, Tellings

LEMMA SumTyped ==
  ASSUME NEW n \in Nodes, NEW q \in Calls, NEW sign \in {-1, 1}
  PROVE  Sum(n, q, sign) \in Nodes /\ Sum(n, q, sign).obj = n.obj
<1>1. /\ q.lo \in Nat /\ q.len \in Nat /\ n.region \in Nat /\ n.size \in Nat
      /\ Word \in Nat /\ Word > 0
  BY Sizes DEF Calls, Nodes
<1>2. PICK a \in Int : a = sign * q.lo * q.len
  BY <1>1
<1>3. PICK b \in Int : b = sign * q.len
  BY <1>1
<1>4. \A x \in Int : x % Word \in 0 .. Word - 1
  BY <1>1
<1>5. /\ (n.region + a) % Word \in 0 .. Word - 1
      /\ (n.size + b) % Word \in 0 .. Word - 1
  BY <1>1, <1>4
<1>6. Sum(n, q, sign) = [n EXCEPT !.region = (n.region + a) % Word,
                                  !.size = (n.size + b) % Word]
  BY <1>2, <1>3 DEF Sum, Nodes
<1> QED BY <1>5, <1>6 DEF Nodes

\* The requests a program can make.
LEMMA RequestTyped ==
  ASSUME TypeOK, NEW p \in Procs, NEW fd \in Fds, Opened(p, fd), NEW q, q \in Requests(p, fd)
  PROVE  /\ q \in Calls /\ q.at = "lock" /\ q.fd = fd /\ q.holder \in Holders
         /\ \/ /\ "fcntl" \in menu /\ q.holder = p
               /\ \E r \in Ranges : /\ q.bytes = Asked(r)
                                    /\ r[2] # 0 => /\ q.lo = r[1] /\ q.len = r[2]
                                                   /\ q.bytes = Span(r[1], r[2])
            \/ /\ "flock" \in menu /\ q.holder = node[p][fd].obj
               /\ q.lo = 0 /\ q.len = Word - 1 /\ q.bytes = Bytes
<1>1. PICK n \in Nodes : n = node[p][fd]
  BY TypeFacts DEF Tables
<1>2. n.obj \in Objects
  BY <1>1 DEF Opened, Nodes
<1>3. ASSUME NEW r \in Ranges, NEW m \in {"-", "r", "w"}, NEW w \in BOOLEAN,
             q = fcntl_F_SETLK(p, fd, r, m, w)
      PROVE  /\ q \in Calls /\ q.at = "lock" /\ q.fd = fd /\ q.holder = p
             /\ q.bytes = Asked(r)
             /\ r[2] # 0 => q.lo = r[1] /\ q.len = r[2] /\ q.bytes = Span(r[1], r[2])
  <2>1. r[1] \in 0 .. MaxByte /\ r[2] \in 0 .. MaxByte + 1
    BY FileLocksAssumption
  <2>2. r[1] \in 0 .. Word - 1 /\ r[2] \in 0 .. Word - 1
    BY <2>1, Sizes
  <2>3. Asked(r) \in SUBSET Bytes
    BY <2>1, Sizes DEF Asked, Span, Bytes
  <2>4. n.size # 0 => n.region \div n.size \in 0 .. Word - 1
    <3>1. /\ n.size \in Nat /\ n.region \in 0 .. Word - 1 /\ Word \in Nat
      BY Sizes DEF Nodes
    <3>2. \A x, y \in Nat : y # 0 => x \div y \in Nat /\ x \div y <= x
      OBVIOUS
    <3> QED BY <3>1, <3>2
  <2>5. PICK lo, len \in 0 .. Word - 1 :
          /\ q = [NoCall EXCEPT !.at = "lock", !.fd = fd, !.mode = m, !.wait = w,
                                !.holder = p, !.lo = lo, !.len = len, !.bytes = Asked(r)]
          /\ r[2] # 0 => lo = r[1] /\ len = r[2]
    <3>1. CASE r[2] = 0 /\ n.size # 0
      BY <1>1, <1>3, <2>4, <3>1 DEF fcntl_F_SETLK, Nodes
    <3>2. CASE ~(r[2] = 0 /\ n.size # 0)
      BY <1>1, <1>3, <2>2, <3>2 DEF fcntl_F_SETLK
    <3> QED BY <3>1, <3>2
  <2>6. r[2] # 0 => Asked(r) = Span(r[1], r[2])
    BY DEF Asked
  <2>7. q \in Calls
    BY <2>3, <2>5, Sizes DEF Calls, NoCall, Modes, Holders
  <2> QED BY <2>5, <2>6, <2>7 DEF NoCall
<1>4. ASSUME NEW m \in {"-", "r", "w"}, NEW w \in BOOLEAN, q = sys_flock(p, fd, m, w)
      PROVE  /\ q \in Calls /\ q.at = "lock" /\ q.fd = fd /\ q.holder = node[p][fd].obj
             /\ q.lo = 0 /\ q.len = Word - 1 /\ q.bytes = Bytes
  <2>1. 0 \in 0 .. Word - 1 /\ Word - 1 \in 0 .. Word - 1
    BY Sizes
  <2>2. q = [at |-> "lock", fd |-> fd, lo |-> 0, len |-> Word - 1, mode |-> m, wait |-> w,
             holder |-> n.obj, bytes |-> Bytes]
    BY <1>1, <1>4 DEF sys_flock, NoCall
  <2>3. q \in Calls
    BY <1>2, <2>1, <2>2 DEF Calls, Modes, Holders
  <2> QED BY <1>1, <2>2, <2>3
<1>5. Waits \subseteq BOOLEAN
  BY DEF Waits
<1>6. \/ /\ "fcntl" \in menu
         /\ \E r \in Ranges, m \in Modes, w \in Waits : q = fcntl_F_SETLK(p, fd, r, m, w)
      \/ /\ "flock" \in menu
         /\ \E m \in Modes, w \in Waits : q = sys_flock(p, fd, m, w)
  BY DEF Requests
<1> QED BY <1>1, <1>2, <1>3, <1>4, <1>5, <1>6 DEF Holders, Modes
LEMMA TypeNext ==
  (/\ image' \in [Procs -> Images \cup {None}] /\ node' \in Tables
   /\ lock' \subseteq Lockings /\ call' \in [Procs -> Calls]
   /\ told' \in Tellings /\ menu' \in Menus
   /\ \A p \in Procs : ~Live(p)' => call'[p] = NoCall /\ \A fd \in Fds : ~Opened(p, fd)'
   /\ \A p \in Procs : call'[p].at # "run" => node'[p][call'[p].fd].obj # None) => TypeOK'
  BY DEF TypeOK, Tables, Nodes, Lockings, Calls, Tellings, Opened

\* Entries of the tables, one changed.
LEMMA Stored ==
  ASSUME NEW t \in Tables, NEW p \in Procs, NEW fd \in Fds, NEW n \in Nodes
  PROVE  /\ [t EXCEPT ![p][fd] = n] \in Tables
         /\ \A r \in Procs, g \in Fds :
              [t EXCEPT ![p][fd] = n][r][g] = IF r = p /\ g = fd THEN n ELSE t[r][g]
<1>1. [t[p] EXCEPT ![fd] = n] \in [Fds -> Nodes]
  BY DEF Tables
<1>2. PICK e \in [Fds -> Nodes] : e = [t[p] EXCEPT ![fd] = n]
  BY <1>1
<1>3. [t EXCEPT ![p][fd] = n] = [t EXCEPT ![p] = e]
  BY <1>2 DEF Tables
<1>4. [t EXCEPT ![p] = e] \in Tables
  BY DEF Tables
<1>5. \A r \in Procs, g \in Fds :
        [t EXCEPT ![p] = e][r][g] = IF r = p /\ g = fd THEN n ELSE t[r][g]
  BY <1>2 DEF Tables
<1> QED BY <1>3, <1>4, <1>5

LEMMA SetTyped ==
  ASSUME NEW t \in Tellings, NEW h \in Holders, NEW B, NEW m \in Modes
  PROVE  /\ Set(t, h, B, m) \in Tellings
         /\ \A g \in Holders, b \in Bytes :
              Set(t, h, B, m)[g][b] = IF g = h /\ b \in B THEN m ELSE t[g][b]
<1>1. PICK f \in [Bytes -> Modes] : f = [b \in Bytes |-> IF b \in B THEN m ELSE t[h][b]]
  BY DEF Tellings
<1>2. Set(t, h, B, m) = [t EXCEPT ![h] = f]
  BY <1>1 DEF Set
<1>3. [t EXCEPT ![h] = f] \in Tellings
  BY DEF Tellings
<1>4. \A g \in Holders, b \in Bytes :
        [t EXCEPT ![h] = f][g][b] = IF g = h /\ b \in B THEN m ELSE t[g][b]
  BY <1>1 DEF Tellings
<1> QED BY <1>2, <1>3, <1>4

LEMMA ForgottenTyped ==
  ASSUME NEW t \in Tellings, NEW n, NEW i
  PROVE  /\ Forgotten(n, i, t) \in Tellings
         /\ \A h \in Holders, b \in Bytes : Forgotten(n, i, t)[h][b] \in {"-", t[h][b]}
<1>1. \A h \in Holders : Forgotten(n, i, t)[h] \in {Nothing, t[h]}
  BY DEF Forgotten
<1>2. Forgotten(n, i, t) = [h \in Holders |-> Forgotten(n, i, t)[h]]
  BY DEF Forgotten
<1>3. \A h \in Holders : Forgotten(n, i, t)[h] \in [Bytes -> Modes]
  BY <1>1, Sizes DEF Tellings
<1>4. Forgotten(n, i, t) \in Tellings
  BY <1>2, <1>3 DEF Tellings
<1>5. \A b \in Bytes : Nothing[b] = "-"
  BY DEF Nothing
<1> QED BY <1>1, <1>4, <1>5

LEMMA StartTyped == ASSUME TypeOK, NEW p \in Procs, Start(p) PROVE TypeOK'
<1>1. PICK i \in Images : /\ image' = [image EXCEPT ![p] = i] /\ ~Live(p)
                          /\ UNCHANGED <<node, lock, call, told, menu>>
  BY DEF Start
<1>2. image' \in [Procs -> Images \cup {None}]
  BY <1>1, TypeFacts
<1>3. \A r \in Procs : ~Live(r)' => ~Live(r)
  BY <1>1, <1>2, TypeFacts, Sizes DEF Live
<1>4. \A r \in Procs, fd \in Fds : Opened(r, fd)' <=> Opened(r, fd)
  BY <1>1 DEF Opened
<1> QED BY <1>1, <1>2, <1>3, <1>4, TypeFacts, TypeNext DEF Opened

\* An entry of the table changes and stays open while a call uses it.
Entered(p, fd, n) ==
  /\ Live(p) /\ node' = [node EXCEPT ![p][fd] = n] /\ image' = image /\ menu' = menu
  /\ lock' \subseteq Lockings /\ told' \in Tellings /\ call' \in [Procs -> Calls]
  /\ \A r \in Procs : ~Live(r) => call'[r] = call[r]
  /\ \A r \in Procs : call'[r].at # "run" =>
       IF r = p /\ call'[r].fd = fd THEN n.obj # None ELSE Opened(r, call'[r].fd)

LEMMA NodeTyped ==
  ASSUME TypeOK, NEW p \in Procs, NEW fd \in Fds, NEW n \in Nodes, Entered(p, fd, n)
  PROVE  TypeOK'
<1> USE DEF Entered
<1>1. PICK t \in Tables : t = node
  BY TypeFacts
<1>2. PICK u \in Tables : u = node'
  BY <1>1, Stored
<1>3. \A r \in Procs, g \in Fds : u[r][g] = IF r = p /\ g = fd THEN n ELSE t[r][g]
  BY <1>1, <1>2, Stored
<1>4. \A r \in Procs : Live(r)' <=> Live(r)
  BY DEF Live
<1>5. \A r \in Procs : ~Live(r)' => call'[r] = NoCall /\ \A g \in Fds : ~Opened(r, g)'
  <2> TAKE r \in Procs
  <2> HAVE ~Live(r)'
  <2>1. ~Live(r) /\ r # p
    BY <1>4
  <2>2. call[r] = NoCall /\ \A g \in Fds : ~Opened(r, g)
    BY <2>1, TypeFacts
  <2> QED BY <1>1, <1>2, <1>3, <2>1, <2>2 DEF Opened
<1>6. \A r \in Procs : call'[r].at # "run" => node'[r][call'[r].fd].obj # None
  <2> TAKE r \in Procs
  <2> HAVE call'[r].at # "run"
  <2>1. call'[r].fd \in Fds
    BY DEF Calls
  <2> QED BY <1>1, <1>2, <1>3, <2>1 DEF Opened
<1>7. image' \in [Procs -> Images \cup {None}] /\ menu' \in Menus
  BY TypeFacts
<1> QED BY <1>2, <1>5, <1>6, <1>7, TypeNext

LEMMA OpenTyped == ASSUME TypeOK, NEW p \in Procs, Open(p) PROVE TypeOK'
<1>1. PICK fd \in Fds, o \in Objects :
        /\ node' = [node EXCEPT ![p][fd] = [NoNode EXCEPT !.obj = o]] /\ Runs(p)
        /\ ~Opened(p, fd) /\ UNCHANGED <<image, lock, call, told, menu>>
  BY DEF Open
<1>2. PICK n \in Nodes : n = [NoNode EXCEPT !.obj = o]
  BY Sizes DEF Nodes, NoNode
<1>3. n.obj # None
  BY <1>2, Sizes DEF NoNode
<1> QED BY <1>1, <1>2, <1>3, NodeTyped, TypeFacts DEF Runs, Entered

LEMMA DupTyped == ASSUME TypeOK, NEW p \in Procs, NEW g \in Fds, Dup(p, g) PROVE TypeOK'
<1>1. PICK fd \in Fds :
        /\ node' = [node EXCEPT ![p][fd] = node[p][g]] /\ Runs(p) /\ Opened(p, g)
        /\ ~Opened(p, fd) /\ UNCHANGED <<image, lock, call, told, menu>>
  BY DEF Dup
<1>2. PICK n \in Nodes : n = node[p][g]
  BY TypeFacts DEF Tables
<1>3. n.obj # None
  BY <1>1, <1>2 DEF Opened
<1> QED BY <1>1, <1>2, <1>3, NodeTyped, TypeFacts DEF Runs, Entered

LEMMA ForkTyped == ASSUME TypeOK, NEW p \in Procs, NEW c \in Procs, Fork(p, c) PROVE TypeOK'
<1>1. /\ image' = [image EXCEPT ![c] = image[p]] /\ node' = [node EXCEPT ![c] = node[p]]
      /\ UNCHANGED <<lock, call, told, menu>> /\ Live(p) /\ ~Live(c)
  BY DEF Fork, Runs
<1>2. image' \in [Procs -> Images \cup {None}] /\ node' \in Tables
  BY <1>1, TypeFacts DEF Tables
<1>3. call[c] = NoCall
  BY <1>1, TypeFacts
<1>4. \A r \in Procs : ~Live(r)' => r # c /\ ~Live(r)
  BY <1>1, TypeFacts DEF Live
<1>5. \A r \in Procs \ {c} : node'[r] = node[r]
  BY <1>1, TypeFacts DEF Tables
<1>6. \A r \in Procs : ~Live(r)' => call'[r] = NoCall /\ \A fd \in Fds : ~Opened(r, fd)'
  BY <1>1, <1>4, <1>5, TypeFacts DEF Opened
<1>7. \A r \in Procs : call'[r].at # "run" => node'[r][call'[r].fd].obj # None
  BY <1>1, <1>3, <1>5, TypeFacts DEF Opened, NoCall
<1> QED BY <1>1, <1>2, <1>6, <1>7, TypeFacts, TypeNext

LEMMA ExecveTyped == ASSUME TypeOK, NEW p \in Procs, Execve(p) PROVE TypeOK'
<1>1. PICK i \in Images : /\ image' = [image EXCEPT ![p] = i] /\ Runs(p)
                          /\ lock' = Kept(node, image') /\ UNCHANGED <<node, call, told, menu>>
  BY DEF Execve
<1>2. image' \in [Procs -> Images \cup {None}] /\ lock' \subseteq Lockings
  BY <1>1, TypeFacts DEF Kept
<1>3. \A r \in Procs : ~Live(r)' => ~Live(r)
  BY <1>1, <1>2, TypeFacts, Sizes DEF Live
<1>4. \A r \in Procs, fd \in Fds : Opened(r, fd)' <=> Opened(r, fd)
  BY <1>1 DEF Opened
<1> QED BY <1>1, <1>2, <1>3, <1>4, TypeFacts, TypeNext DEF Opened

LEMMA CloseTyped == ASSUME TypeOK, NEW p \in Procs, NEW fd \in Fds, Close(p, fd) PROVE TypeOK'
<1>1. /\ node' = [node EXCEPT ![p][fd] = NoNode] /\ lock' = Kept(node', image) /\ Runs(p)
      /\ told' = Forgotten(node', image, [told EXCEPT ![p] = Nothing])
      /\ UNCHANGED <<image, call, menu>>
  BY DEF Close
<1>2. PICK t \in Tellings : t = [told EXCEPT ![p] = Nothing]
  BY TypeFacts, Sizes DEF Tellings, Holders
<1>3. lock' \subseteq Lockings
  BY <1>1, TypeFacts DEF Kept
<1>4. told' \in Tellings
  BY <1>1, <1>2, ForgottenTyped
<1>5. \A r \in Procs : call'[r].at # "run" => r # p /\ Opened(r, call'[r].fd)
  BY <1>1, TypeFacts DEF Runs
<1> QED BY <1>1, <1>3, <1>4, <1>5, NodeTyped, TypeFacts, Sizes DEF Runs, Entered

LEMMA ExitTyped == ASSUME TypeOK, Busy, NEW p \in Procs, Exit(p) PROVE TypeOK'
<1>1. /\ image' = [image EXCEPT ![p] = None]
      /\ node' = [node EXCEPT ![p] = [fd \in Fds |-> NoNode]]
      /\ lock' = Kept(node', image') /\ Runs(p)
      /\ told' = Forgotten(node', image', [told EXCEPT ![p] = Nothing])
      /\ UNCHANGED <<call, menu>>
  BY DEF Exit
<1>2. PICK t \in Tellings : t = [told EXCEPT ![p] = Nothing]
  BY TypeFacts, Sizes DEF Tellings, Holders
<1>3. lock' \subseteq Lockings
  BY <1>1, TypeFacts DEF Kept
<1>4. told' \in Tellings
  BY <1>1, <1>2, ForgottenTyped
<1>5. image' \in [Procs -> Images \cup {None}] /\ node' \in Tables
  BY <1>1, TypeFacts, Sizes DEF Tables
<1>6. \A r \in Procs \ {p} : node'[r] = node[r] /\ image'[r] = image[r]
  BY <1>1, TypeFacts DEF Tables
<1>7. call[p] = NoCall
  BY <1>1 DEF Runs, Busy
<1>8. \A fd \in Fds : node'[p][fd].obj = None
  BY <1>1, TypeFacts DEF Tables, NoNode
<1>9. \A r \in Procs : call'[r] = call[r]
  BY <1>1
<1>10. \A r \in Procs : ~Live(r)' => call'[r] = NoCall /\ \A fd \in Fds : ~Opened(r, fd)'
  <2> TAKE r \in Procs
  <2>1. CASE r = p
    BY <1>7, <1>8, <1>9, <2>1 DEF Opened
  <2>2. CASE r # p
    BY <1>6, <1>9, <2>2, TypeFacts DEF Opened, Live
  <2> QED BY <2>1, <2>2
<1>11. \A r \in Procs : call'[r].at # "run" => node'[r][call'[r].fd].obj # None
  BY <1>6, <1>7, <1>9, TypeFacts DEF Opened, NoCall
<1>12. call' \in [Procs -> Calls] /\ menu' \in Menus
  BY <1>1, TypeFacts
<1> QED BY <1>3, <1>4, <1>5, <1>10, <1>11, <1>12, TypeNext

\* A process locks or unlocks: its entry of the table keeps its file object.
Located(p, fd, n, q) ==
  /\ Live(p) /\ Opened(p, fd)
  /\ n.obj = node[p][fd].obj /\ node' = [node EXCEPT ![p][fd] = n]
  /\ \/ q = NoCall
     \/ q.at # "run" /\ q.fd = fd /\ q.mode # "-" /\ q.holder \in Holders
  /\ call' = [call EXCEPT ![p] = q] /\ image' = image /\ menu' = menu
  /\ lock' \subseteq Lockings /\ told' \in Tellings

LEMMA LockTyped ==
  ASSUME TypeOK, Busy, NEW p \in Procs, NEW fd \in Fds, NEW n \in Nodes, NEW q \in Calls,
         Located(p, fd, n, q)
  PROVE  TypeOK' /\ Busy'
<1> USE DEF Located
<1>1. call' \in [Procs -> Calls]
  BY TypeFacts
<1>2. \A r \in Procs : call'[r] = IF r = p THEN q ELSE call[r]
  BY TypeFacts
<1>3. n.obj # None
  BY DEF Opened
<1>4. \A r \in Procs : call'[r].at # "run" =>
        IF r = p /\ call'[r].fd = fd THEN n.obj # None ELSE Opened(r, call'[r].fd)
  BY <1>2, <1>3, TypeFacts DEF NoCall
<1>5. TypeOK'
  <2>1. \A r \in Procs : ~Live(r) => call'[r] = call[r]
    BY <1>2
  <2>2. Entered(p, fd, n)
    BY <1>1, <1>4, <2>1 DEF Entered, Located
  <2> QED BY <2>2, NodeTyped
<1>6. Busy'
  <2>1. IF q.at = "run" THEN q = NoCall ELSE q.mode # "-" /\ q.holder \in Holders
    BY DEF NoCall
  <2>2. \A r \in Procs \ {p} : call'[r] = call[r]
    BY <1>2
  <2>3. call'[p] = q
    BY <1>2
  <2> QED BY <2>1, <2>2, <2>3 DEF Busy
<1> QED BY <1>5, <1>6

\* What SetLock does: the process unlocks, and goes on to LockFileEx().
Unlocks(p, q, l) ==
  /\ l \in Matches(node[p][q.fd].obj, image[p], q)
  /\ lock' = lock \ {l}
  /\ node' = [node EXCEPT ![p][q.fd] = Sum(node[p][q.fd], q, -1)]
Requested(p, q) ==
  /\ call' = IF q.mode = "-" THEN call ELSE [call EXCEPT ![p] = q]
  /\ told' = IF q.mode = "-" \/ q.holder \in Objects
             THEN Set(told, q.holder, q.bytes, "-") ELSE told
  /\ UNCHANGED <<image, menu>>

LEMMA SetLockSays ==
  ASSUME NEW p \in Procs, NEW q, file_F_SETLK(p, q)
  PROVE  /\ Runs(p) /\ Requested(p, q)
         /\ \/ \E l \in Matches(node[p][q.fd].obj, image[p], q) : Unlocks(p, q, l)
            \/ /\ Matches(node[p][q.fd].obj, image[p], q) = {}
               /\ UNCHANGED <<lock, node>>
  BY DEF file_F_SETLK, Requested, Unlocks

LEMMA RequestedTyped ==
  ASSUME TypeOK, Busy, NEW p \in Procs, NEW q \in Calls, q.holder \in Holders, Runs(p),
         Requested(p, q)
  PROVE  /\ told' \in Tellings
         /\ call' = [call EXCEPT ![p] = IF q.mode = "-" THEN NoCall ELSE q]
<1>1. PICK t \in Tellings : t = told
  BY TypeFacts
<1>2. PICK h \in Holders : h = q.holder
  OBVIOUS
<1>3. Set(t, h, q.bytes, "-") \in Tellings
  BY SetTyped DEF Modes
<1>4. told' \in Tellings
  BY <1>1, <1>2, <1>3 DEF Requested
<1>5. call[p] = NoCall /\ call \in [Procs -> Calls]
  BY TypeFacts DEF Busy, Runs
<1>6. CASE q.mode = "-"
  BY <1>4, <1>5, <1>6 DEF Requested
<1>7. CASE q.mode # "-"
  BY <1>4, <1>7 DEF Requested
<1> QED BY <1>6, <1>7

LEMMA SetLockTyped == ASSUME TypeOK, Busy, NEW p \in Procs, SetLock(p) PROVE TypeOK' /\ Busy'
<1>1. PICK fd \in Fds : /\ Opened(p, fd)
                        /\ \E q \in Requests(p, fd) : Sensible(p, q) /\ file_F_SETLK(p, q)
  BY DEF SetLock
<1>2. PICK q : q \in Requests(p, fd) /\ file_F_SETLK(p, q)
  BY <1>1
<1>3. q \in Calls /\ q.at = "lock" /\ q.fd = fd /\ q.holder \in Holders
  BY <1>1, <1>2, RequestTyped
<1>4. Runs(p) /\ Requested(p, q)
  BY <1>2, SetLockSays
<1>5. /\ told' \in Tellings /\ image' = image /\ menu' = menu /\ Live(p)
      /\ call' = [call EXCEPT ![p] = IF q.mode = "-" THEN NoCall ELSE q]
  BY <1>3, <1>4, RequestedTyped DEF Requested, Runs
<1>6. PICK c \in Calls : c = IF q.mode = "-" THEN NoCall ELSE q
  <2>1. NoCall \in Calls /\ q \in Calls
    BY <1>3, Sizes
  <2>2. CASE q.mode = "-"
    BY <2>1, <2>2, Zenon
  <2>3. CASE q.mode # "-"
    BY <2>1, <2>3, Zenon
  <2> QED BY <2>2, <2>3
<1>7. \/ c = NoCall
      \/ c.at # "run" /\ c.fd = fd /\ c.mode # "-" /\ c.holder \in Holders
  BY <1>3, <1>6
<1>8. PICK n \in Nodes : n = node[p][fd]
  BY TypeFacts DEF Tables
<1>9. Sum(n, q, -1) \in Nodes /\ Sum(n, q, -1).obj = n.obj
  BY <1>3, SumTyped
<1>10. lock' \subseteq Lockings
  BY <1>2, SetLockSays, TypeFacts DEF Unlocks
<1>11. \/ node' = [node EXCEPT ![p][fd] = n]
       \/ node' = [node EXCEPT ![p][fd] = Sum(n, q, -1)]
  BY <1>2, <1>3, <1>8, SetLockSays, TypeFacts DEF Unlocks, Tables
<1>12. PICK m \in Nodes : m.obj = n.obj /\ node' = [node EXCEPT ![p][fd] = m]
  BY <1>9, <1>11
<1>13. Located(p, fd, m, c)
  BY <1>1, <1>5, <1>6, <1>7, <1>8, <1>10, <1>12 DEF Located
<1> QED BY <1>13, LockTyped

\* The lock a process asks for.
LockOf(p) == [obj |-> node[p][call[p].fd].obj, img |-> image[p], lo |-> call[p].lo,
              len |-> call[p].len, mode |-> call[p].mode]

LEMMA GetsTyped ==
  ASSUME TypeOK, Busy, NEW p \in Procs, call[p].at # "run", Gets(p)
  PROVE  TypeOK' /\ Busy' /\ LockOf(p) \in Lockings
<1>1. PICK q \in Calls : q = call[p]
  BY TypeFacts
<1>2. PICK fd \in Fds : fd = q.fd
  BY <1>1 DEF Calls
<1>3. PICK n \in Nodes : n = node[p][fd]
  BY TypeFacts DEF Tables
<1>4. Opened(p, fd) /\ n.obj \in Objects /\ Live(p) /\ image[p] \in Images
  BY <1>1, <1>2, <1>3, TypeFacts DEF Opened, Live, NoCall, Nodes
<1>5. Sum(n, q, 1) \in Nodes /\ Sum(n, q, 1).obj = n.obj
  BY SumTyped
<1>6. PICK m \in Nodes : m.obj = n.obj /\ node' = [node EXCEPT ![p][fd] = m]
  BY <1>1, <1>2, <1>3, <1>5 DEF Gets
<1>7. q.mode \in {"r", "w"} /\ q.holder \in Holders
  BY <1>1 DEF Busy, Calls, Modes
<1>8. LockOf(p) \in Lockings
  BY <1>1, <1>2, <1>3, <1>4, <1>7 DEF LockOf, Lockings, Calls
<1>9. lock' \subseteq Lockings
  BY <1>8, TypeFacts DEF Gets, LockOf
<1>10. PICK t \in Tellings : t = told
  BY TypeFacts
<1>11. PICK h \in Holders, k \in Modes : h = q.holder /\ k = q.mode
  BY <1>7 DEF Modes
<1>12. told' = Set(t, h, q.bytes, k)
  BY <1>1, <1>10, <1>11 DEF Gets
<1>13. told' \in Tellings
  BY <1>12, SetTyped
<1>14. NoCall \in Calls /\ image' = image /\ menu' = menu /\ call' = [call EXCEPT ![p] = NoCall]
  BY Sizes DEF Gets
<1>15. PICK c \in Calls : c = NoCall
  BY <1>14
<1>16. call' = [call EXCEPT ![p] = c]
  BY <1>14, <1>15
<1>17. Located(p, fd, m, c)
  BY <1>3, <1>4, <1>6, <1>9, <1>13, <1>14, <1>15, <1>16 DEF Located
<1>18. TypeOK' /\ Busy'
  BY <1>17, LockTyped
<1> QED BY <1>8, <1>18

LEMMA LockFileExTyped ==
  ASSUME TypeOK, Busy, NEW p \in Procs, LockFileEx(p) PROVE TypeOK' /\ Busy'
<1>1. call[p].at # "run"
  BY DEF LockFileEx
<1>2. CASE Gets(p)
  BY <1>1, <1>2, GetsTyped
<1>3. CASE ~Gets(p)
  <2>1. PICK c \in Calls : c = call[p]
    BY TypeFacts
  <2>2. PICK q \in Calls : /\ call' = [call EXCEPT ![p] = q]
                           /\ q = NoCall \/ q = [c EXCEPT !.at = "wait"]
    <3>1. [c EXCEPT !.at = "wait"] \in Calls /\ NoCall \in Calls
      BY Sizes DEF Calls
    <3>2. \/ call' = [call EXCEPT ![p].at = "wait"]
          \/ call' = [call EXCEPT ![p] = NoCall]
      BY <1>3 DEF LockFileEx
    <3> QED BY <2>1, <3>1, <3>2
  <2>4. UNCHANGED <<image, node, lock, told, menu>>
    BY <1>3 DEF LockFileEx
  <2>5. call' \in [Procs -> Calls]
    BY <2>2, TypeFacts
  <2>6. \A r \in Procs : call'[r] = IF r = p THEN q ELSE call[r]
    BY <2>2, TypeFacts
  <2>7. q = NoCall \/ /\ q.at # "run" /\ q.fd = c.fd /\ q.mode = c.mode
                      /\ q.holder = c.holder
    BY <2>2 DEF Calls
  <2>3. c.mode # "-" /\ c.holder \in Holders
    BY <1>1, <2>1 DEF Busy
  <2>8. Busy'
    <3>1. \/ q = NoCall
          \/ q.at # "run" /\ q.mode # "-" /\ q.holder \in Holders
      BY <2>3, <2>7
    <3>2. \A r \in Procs \ {p} : call'[r] = call[r]
      BY <2>6
    <3>3. call'[p] = q
      BY <2>6
    <3>4. IF call'[p].at = "run" THEN call'[p] = NoCall
          ELSE call'[p].mode # "-" /\ call'[p].holder \in Holders
      BY <3>1, <3>3 DEF NoCall
    <3> QED BY <3>2, <3>4 DEF Busy
  <2>9. Live(p)
    BY <1>1, TypeFacts DEF NoCall
  <2>10. \A r \in Procs : ~Live(r) => call'[r] = NoCall
    BY <2>6, <2>9, TypeFacts
  <2>11. \A r \in Procs : call'[r].at # "run" => Opened(r, call'[r].fd)
    BY <1>1, <2>1, <2>6, <2>7, TypeFacts DEF NoCall
  <2>12. TypeOK'
    BY <2>4, <2>5, <2>10, <2>11, TypeFacts, TypeNext DEF Opened, Live
  <2> QED BY <2>8, <2>12
<1> QED BY <1>2, <1>3

LEMMA TypeStep == TypeOK /\ Busy /\ [Next]_vars => TypeOK' /\ Busy'
<1> SUFFICES ASSUME TypeOK, Busy, [Next]_vars PROVE TypeOK' /\ Busy'
  OBVIOUS
<1>1. CASE UNCHANGED vars
  BY <1>1 DEF vars, TypeOK, Busy, Live, Opened
<1>2. ASSUME NEW p \in Procs,
             \/ Start(p) \/ Open(p) \/ Execve(p) \/ Exit(p)
             \/ \E fd \in Fds : Dup(p, fd) \/ Close(p, fd)
             \/ \E c \in Procs : Fork(p, c)
      PROVE  TypeOK' /\ Busy'
  <2>1. TypeOK'
    BY <1>2, StartTyped, OpenTyped, ExecveTyped, ExitTyped, DupTyped, CloseTyped, ForkTyped
  <2>2. call' = call
    BY <1>2 DEF Start, Open, Execve, Exit, Dup, Close, Fork
  <2> QED BY <2>1, <2>2 DEF Busy
<1>3. ASSUME NEW p \in Procs, SetLock(p) \/ LockFileEx(p) \/ Granted(p)
      PROVE  TypeOK' /\ Busy'
  <2>1. Granted(p) => Gets(p) /\ call[p].at # "run"
    BY DEF Granted
  <2> QED BY <1>3, <2>1, SetLockTyped, LockFileExTyped, GetsTyped
<1> QED BY <1>1, <1>2, <1>3 DEF Next

LEMMA TypeInit == Init => TypeOK /\ Busy
<1>1. Init => Busy
  BY DEF Init, Busy, NoCall
<1>2. Init => TypeOK
  <2> SUFFICES ASSUME Init PROVE TypeOK
    OBVIOUS
  <2>1. /\ image \in [Procs -> Images \cup {None}] /\ node \in Tables
        /\ lock \subseteq Lockings /\ call \in [Procs -> Calls]
        /\ told \in Tellings /\ menu \in Menus
    BY Sizes DEF Init, Tables, Tellings
  <2>2. \A p \in Procs : call[p] = NoCall /\ \A fd \in Fds : ~Opened(p, fd)
    BY DEF Init, Opened, NoNode
  <2> QED BY <2>1, <2>2, TypeFacts DEF NoCall
<1> QED BY <1>1, <1>2

\* Types of every state, whatever the programs do: sums stay in a word, locks
\* belong to open files and Win32 processes, a process in LockFileEx() has the
\* file open.  (file_F_SETLK, sys_flock, fcntl_F_SETLK.)
THEOREM TypeCorrect == Spec => []TypeOK
  BY TypeInit, TypeStep, PTL DEF Spec

-----------------------------------------------------------------------------
(* What the invariant says *)

LEMMA Menu ==
  ASSUME TypeOK, Careful
  PROVE  /\ "flock" \in menu => menu \cap {"fcntl", "fork"} = {}
         /\ "flock" \notin menu => "apart" \in menu /\ menu \cap {"dup", "reopen"} = {}
         /\ menu \cap {"fork", "exec"} # {} => "clean" \in menu
  BY DEF TypeOK, Careful

LEMMA HolderIs ==
  ASSUME NEW p \in Procs, NEW o \in Objects
  PROVE  /\ Hold(p, o) \in Holders
         /\ "flock" \in menu => Hold(p, o) = o /\ Hold(p, o) \notin Procs
         /\ "flock" \notin menu => Hold(p, o) = p /\ Hold(p, o) \notin Objects
         /\ menu' = menu => Hold(p, o)' = Hold(p, o)
  BY Sizes DEF Hold, Holders

\* A lock has a mode, an object and bytes.
LEMMA LockIs ==
  ASSUME Trusted, NEW l \in lock
  PROVE  /\ l \in Lockings /\ l.mode # "-" /\ l.obj \in Objects /\ l.img \in Images /\ l.img # None
         /\ \E b \in Bytes : b \in Span(l.lo, l.len)
<1>1. l \in Lockings
  BY TypeFacts DEF Trusted
<1>2. l.mode # "-" /\ l.obj \in Objects /\ l.img \in Images /\ l.img # None
  BY <1>1, Sizes DEF Lockings
<1>3. Span(l.lo, l.len) # {}
  BY DEF Trusted, Matched
<1> QED BY <1>1, <1>2, <1>3 DEF Span

\* A process in LockFileEx() shares its Win32 process with no other.
LEMMA Alone ==
  ASSUME Trusted, NEW p \in Procs, NEW r \in Procs, Live(p), image[r] = image[p],
         \/ "flock" \in menu
         \/ call[p].at # "run"
         \/ \E b \in Bytes : told[p][b] # "-"
  PROVE  r = p
  BY DEF Trusted, Separate

\* With flock() no two processes have a file object open.
LEMMA OwnObject ==
  ASSUME Trusted, NEW p \in Procs, NEW r \in Procs, NEW o \in Objects, "flock" \in menu,
         Has(node[p], o), Has(node[r], o)
  PROVE  p = r
  BY DEF Trusted, Separate

\* With fcntl() a process has one object open.
LEMMA OneObject ==
  ASSUME Trusted, NEW p \in Procs, NEW o \in Objects, NEW u \in Objects, "flock" \notin menu,
         Has(node[p], o), Has(node[p], u)
  PROVE  o = u
<1>1. PICK fd \in Fds : node[p][fd].obj = o
  BY DEF Has
<1>2. PICK g \in Fds : node[p][g].obj = u
  BY DEF Has
<1>3. Opened(p, fd) /\ Opened(p, g)
  BY <1>1, <1>2, Sizes DEF Opened
<1>4. fd = g
  BY <1>3 DEF Trusted, Separate
<1> QED BY <1>1, <1>2, <1>4

\* A lock of a Win32 process is of the process that has it alone.
LEMMA Owner ==
  ASSUME Trusted, NEW l \in lock
  PROVE  \E r \in Procs :
           /\ Mine(r, l)
           /\ \A b \in Bytes : b \in Span(l.lo, l.len) => told[Hold(r, l.obj)][b] = l.mode
           /\ \A p \in Procs : image[p] = l.img => p = r
<1>1. PICK r \in Procs : /\ Mine(r, l)
                         /\ \A b \in Span(l.lo, l.len) : told[Hold(r, l.obj)][b] = l.mode
  BY DEF Trusted, Matched
<1>2. PICK c \in Bytes : c \in Span(l.lo, l.len)
  BY LockIs
<1>3. told[Hold(r, l.obj)][c] # "-"
  BY <1>1, <1>2, LockIs
<1>4. l.img = image[r] /\ Live(r)
  BY <1>1, LockIs DEF Mine, Live
<1>5. "flock" \in menu \/ \E b \in Bytes : told[r][b] # "-"
  BY <1>3, LockIs, HolderIs
<1>6. \A p \in Procs : image[p] = l.img => p = r
  BY <1>4, <1>5, Alone
<1> QED BY <1>1, <1>6

LEMMA FitStays ==
  ASSUME NEW p \in Procs, NEW q \in Calls, Fit(p, q), menu' = menu,
         node'[p][q.fd].obj = node[p][q.fd].obj,
         \A b \in Bytes : told[q.holder][b] = "-" => told'[q.holder][b] = "-"
  PROVE  Fit(p, q)'
  BY DEF Fit, Hold, Calls

-----------------------------------------------------------------------------
(* Calls that move no lock *)

Unmoved ==
  /\ lock' = lock /\ told' = told /\ menu' = menu /\ call' = call
  /\ \A r \in Procs, l \in lock, b \in Bytes :
       Mine(r, l) /\ told[Hold(r, l.obj)][b] # "-" => Mine(r, l)'
  /\ \A r \in Procs : call[r].at # "run" =>
       node'[r][call[r].fd].obj = node[r][call[r].fd].obj

LEMMA Unmoving ==
  ASSUME Trusted, Unmoved PROVE Asking' /\ Matched' /\ Disjoint' /\ Meant'
<1>1. lock' = lock /\ told' = told /\ menu' = menu /\ call' = call
  BY DEF Unmoved
<1>2. \A r \in Procs, o \in Objects : Hold(r, o)' = Hold(r, o)
  BY <1>1 DEF Hold
<1>3. Disjoint'
  BY <1>1 DEF Trusted, Disjoint
<1>4. Asking'
  <2> SUFFICES ASSUME NEW p \in Procs, call[p].at # "run" PROVE Fit(p, call[p])'
    BY <1>1 DEF Asking
  <2>1. PICK q \in Calls : q = call[p]
    BY TypeFacts DEF Trusted
  <2>2. Fit(p, q)
    BY <2>1 DEF Trusted, Asking
  <2>3. node'[p][q.fd].obj = node[p][q.fd].obj
    BY <2>1 DEF Unmoved
  <2>4. Fit(p, q)'
    BY <1>1, <2>2, <2>3, FitStays
  <2> QED BY <1>1, <2>1, <2>4
<1>5. Matched'
  <2> SUFFICES ASSUME NEW l \in lock
               PROVE  /\ Span(l.lo, l.len) # {}
                      /\ "flock" \in menu => l.lo = 0 /\ l.len = Word - 1
                      /\ \E r \in Procs :
                           /\ Mine(r, l)'
                           /\ \A b \in Span(l.lo, l.len) : told[Hold(r, l.obj)'][b] = l.mode
    BY <1>1 DEF Matched
  <2>1. PICK r \in Procs :
          /\ Mine(r, l)
          /\ \A b \in Bytes : b \in Span(l.lo, l.len) => told[Hold(r, l.obj)][b] = l.mode
    BY Owner
  <2>2. PICK b \in Bytes : b \in Span(l.lo, l.len)
    BY LockIs
  <2>3. Mine(r, l)'
    BY <2>1, <2>2, LockIs DEF Unmoved
  <2>4. \A c \in Span(l.lo, l.len) : told[Hold(r, l.obj)'][c] = l.mode
    BY <1>2, <2>1, LockIs DEF Span
  <2>5. Span(l.lo, l.len) # {} /\ ("flock" \in menu => l.lo = 0 /\ l.len = Word - 1)
    BY DEF Trusted, Matched
  <2> QED BY <2>3, <2>4, <2>5
<1>6. Meant'
  <2> SUFFICES ASSUME NEW h \in Holders, NEW b \in Bytes, told[h][b] # "-"
               PROVE  \E l \in lock, r \in Procs :
                        /\ l.mode = told[h][b] /\ b \in Span(l.lo, l.len)
                        /\ Mine(r, l)' /\ h = Hold(r, l.obj)'
    BY <1>1 DEF Meant
  <2>1. PICK l \in lock, r \in Procs :
          l.mode = told[h][b] /\ b \in Span(l.lo, l.len) /\ Mine(r, l) /\ h = Hold(r, l.obj)
    BY DEF Trusted, Meant
  <2>2. Mine(r, l)'
    BY <2>1 DEF Unmoved
  <2>3. h = Hold(r, l.obj)'
    BY <1>2, <2>1, LockIs
  <2> QED BY <2>1, <2>2, <2>3
<1> QED BY <1>3, <1>4, <1>5, <1>6

LEMMA StartTrusted ==
  ASSUME Trusted, NEW p \in Procs, Start(p) PROVE Separate' /\ Unmoved
<1>1. PICK i \in Images : /\ ~Live(p) /\ \A r \in Procs : image[r] # i
                          /\ image' = [image EXCEPT ![p] = i]
                          /\ UNCHANGED <<node, lock, call, told, menu>>
  BY DEF Start
<1>2. \A r \in Procs : image'[r] = IF r = p THEN i ELSE image[r]
  BY <1>1, TypeFacts DEF Trusted
<1>3. \A r, s \in Procs : r # s /\ Live(r)' /\ image'[s] = image'[r] =>
                            Live(r) /\ image[s] = image[r]
  BY <1>1, <1>2 DEF Live
<1>4. \A r \in Procs, o \in Objects : Has(node[r], o)' <=> Has(node[r], o)
  BY <1>1
<1>5. Separate'
  BY <1>1, <1>3, <1>4 DEF Trusted, Separate, Opened
<1>6. \A r \in Procs, l \in lock : Mine(r, l) => Mine(r, l)'
  BY <1>1, <1>2, LockIs DEF Mine, Live
<1> QED BY <1>1, <1>5, <1>6 DEF Unmoved

\* A descriptor is added.
LEMMA EntryIs ==
  ASSUME TypeOK, NEW p \in Procs, NEW fd \in Fds, NEW n \in Nodes,
         node' = [node EXCEPT ![p][fd] = n]
  PROVE  /\ \A r \in Procs, g \in Fds : node'[r][g] = IF r = p /\ g = fd THEN n ELSE node[r][g]
         /\ \A r \in Procs \ {p} : node'[r] = node[r]
<1>1. PICK t \in Tables : t = node
  BY TypeFacts
<1>2. \A r \in Procs, g \in Fds : node'[r][g] = IF r = p /\ g = fd THEN n ELSE t[r][g]
  BY <1>1, Stored
<1>3. \A r \in Procs \ {p} : node'[r] = t[r]
  BY <1>1 DEF Tables
<1> QED BY <1>1, <1>2, <1>3

LEMMA Added ==
  ASSUME Trusted, NEW p \in Procs, NEW fd \in Fds, NEW n \in Nodes, NEW o \in Objects,
         n.obj = o, ~Opened(p, fd), node' = [node EXCEPT ![p][fd] = n],
         UNCHANGED <<image, lock, call, told, menu>>
  PROVE  /\ Unmoved
         /\ \A r \in Procs, u \in Objects : r # p \/ u # o => (Has(node[r], u)' <=> Has(node[r], u))
         /\ \A r \in Procs, g \in Fds : ~(r = p /\ g = fd) => (Opened(r, g)' <=> Opened(r, g))
<1>1. \A r \in Procs, g \in Fds : node'[r][g] = IF r = p /\ g = fd THEN n ELSE node[r][g]
  BY EntryIs DEF Trusted
<1>2. \A g \in Fds : node'[p][g].obj = IF g = fd THEN o ELSE node[p][g].obj
  BY <1>1
<1>3. \A r \in Procs \ {p}, g \in Fds : node'[r][g].obj = node[r][g].obj
  BY <1>1
<1>4. \A r \in Procs, u \in Objects : r # p \/ u # o => (Has(node[r], u)' <=> Has(node[r], u))
  <2> SUFFICES ASSUME NEW r \in Procs, NEW u \in Objects, r # p \/ u # o
               PROVE  (\E g \in Fds : node'[r][g].obj = u) <=> (\E g \in Fds : node[r][g].obj = u)
    BY DEF Has
  <2>1. CASE r # p
    BY <1>3, <2>1
  <2>2. CASE r = p /\ u # o
    <3>1. \A g \in Fds : node'[p][g].obj = u <=> node[p][g].obj = u
      BY <1>2, <2>2, Sizes DEF Opened
    <3> QED BY <2>2, <3>1
  <2> QED BY <2>1, <2>2
<1>5. Has(node[p], o)'
  BY <1>2 DEF Has
<1>6. \A r \in Procs, l \in lock : Mine(r, l) => Mine(r, l)'
  BY <1>4, <1>5, LockIs DEF Mine
<1>7. \A r \in Procs : call[r].at # "run" =>
        node'[r][call[r].fd].obj = node[r][call[r].fd].obj
  <2> TAKE r \in Procs
  <2> HAVE call[r].at # "run"
  <2>1. call[r].fd \in Fds /\ Opened(r, call[r].fd)
    BY TypeFacts DEF Trusted, Calls
  <2> QED BY <1>1, <2>1
<1>8. \A r \in Procs, g \in Fds : ~(r = p /\ g = fd) => (Opened(r, g)' <=> Opened(r, g))
  BY <1>1 DEF Opened
<1> QED BY <1>4, <1>6, <1>7, <1>8 DEF Unmoved

LEMMA OpenTrusted ==
  ASSUME Trusted, Careful, NEW p \in Procs, Open(p) PROVE Separate' /\ Unmoved
<1>1. PICK fd \in Fds, o \in Objects :
        /\ ~Opened(p, fd) /\ node' = [node EXCEPT ![p][fd] = [NoNode EXCEPT !.obj = o]]
        /\ "reopen" \in menu \/ \A f \in Fds : ~Opened(p, f)
        /\ \A r \in Procs : ~Has(node[r], o)
        /\ UNCHANGED <<image, lock, call, told, menu>>
  BY DEF Open
<1>2. PICK n \in Nodes : n = [NoNode EXCEPT !.obj = o]
  BY Sizes DEF Nodes, NoNode
<1>3. n.obj = o
  BY <1>2 DEF NoNode
<1>4. /\ Unmoved
      /\ \A r \in Procs, u \in Objects : r # p \/ u # o => (Has(node[r], u)' <=> Has(node[r], u))
      /\ \A r \in Procs, g \in Fds : ~(r = p /\ g = fd) => (Opened(r, g)' <=> Opened(r, g))
  BY <1>1, <1>2, <1>3, Added
<1>5. "flock" \notin menu' => \A r \in Procs, f, g \in Fds :
        Opened(r, f)' /\ Opened(r, g)' => f = g
  <2>1. "flock" \notin menu => \A f \in Fds : ~Opened(p, f)
    BY <1>1, Menu DEF Trusted
  <2> QED BY <1>1, <1>4, <2>1 DEF Trusted, Separate
<1>6. \A r, s \in Procs, u \in Objects :
        r # s /\ Has(node[r], u)' /\ Has(node[s], u)' => "flock" \notin menu'
  <2>1. \A r, s \in Procs, u \in Objects :
          r # s /\ Has(node[r], u)' /\ Has(node[s], u)' => u # o
    BY <1>1, <1>4
  <2> QED BY <1>1, <1>4, <2>1 DEF Trusted, Separate
<1>7. Separate'
  BY <1>1, <1>5, <1>6 DEF Trusted, Separate, Live
<1> QED BY <1>4, <1>7

LEMMA DupTrusted ==
  ASSUME Trusted, Careful, NEW p \in Procs, NEW g \in Fds, Dup(p, g) PROVE Separate' /\ Unmoved
<1>1. PICK fd \in Fds :
        /\ "dup" \in menu /\ Opened(p, g) /\ ~Opened(p, fd)
        /\ node' = [node EXCEPT ![p][fd] = node[p][g]]
        /\ UNCHANGED <<image, lock, call, told, menu>>
  BY DEF Dup
<1>2. PICK n \in Nodes : n = node[p][g]
  BY TypeFacts DEF Tables, Trusted
<1>3. PICK o \in Objects : n.obj = o
  BY <1>1, <1>2 DEF Opened, Nodes
<1>4. /\ Unmoved
      /\ \A r \in Procs, u \in Objects : r # p \/ u # o => (Has(node[r], u)' <=> Has(node[r], u))
  BY <1>1, <1>2, <1>3, Added
<1>5. Has(node[p], o)
  BY <1>2, <1>3 DEF Has
<1>6. "flock" \in menu
  BY <1>1, Menu DEF Trusted
<1>7. \A r, s \in Procs, u \in Objects : r # s => ~(Has(node[r], u)' /\ Has(node[s], u)')
  BY <1>4, <1>5, <1>6 DEF Trusted, Separate
<1>8. Separate'
  BY <1>1, <1>6, <1>7 DEF Trusted, Separate, Live
<1> QED BY <1>4, <1>8

\* A process without a lock was told of none.
LEMMA Clean ==
  ASSUME NEW p \in Procs, ~HasLock(p)
  PROVE  /\ \A b \in Bytes : told[p][b] = "-"
         /\ \A o \in Objects, b \in Bytes : Has(node[p], o) => told[o][b] = "-"
<1>1. told[p] = Nothing /\ \A o \in Objects : Has(node[p], o) => told[o] = Nothing
  BY Sizes DEF HasLock, Has
<1> QED BY <1>1 DEF Nothing

LEMMA ForkTrusted ==
  ASSUME Trusted, Careful, NEW p \in Procs, NEW c \in Procs, Fork(p, c)
  PROVE  Separate' /\ Unmoved
<1>1. /\ image' = [image EXCEPT ![c] = image[p]] /\ node' = [node EXCEPT ![c] = node[p]]
      /\ UNCHANGED <<lock, call, told, menu>> /\ Runs(p) /\ Live(p) /\ ~Live(c) /\ p # c
      /\ "fork" \in menu /\ ("clean" \in menu => ~HasLock(p))
  BY DEF Fork, Runs
<1>2. "flock" \notin menu /\ "clean" \in menu
  BY <1>1, Menu DEF Trusted
<1>3. \A b \in Bytes : told[p][b] = "-"
  BY <1>1, <1>2, Clean
<1>4. \A b \in Bytes : told[c][b] = "-"
  <2> SUFFICES ASSUME NEW b \in Bytes, told[c][b] # "-" PROVE FALSE
    OBVIOUS
  <2>1. PICK l \in lock, r \in Procs : Mine(r, l) /\ c = Hold(r, l.obj)
    BY DEF Trusted, Meant, Holders
  <2>2. c = r
    BY <1>2, <2>1, LockIs, HolderIs
  <2> QED BY <1>1, <2>1, <2>2, LockIs DEF Mine, Live
<1>5. call[p].at = "run" /\ call[c].at = "run"
  BY <1>1, TypeFacts DEF Trusted, Runs, NoCall
<1>6. /\ image'[c] = image[p] /\ node'[c] = node[p]
      /\ \A r \in Procs \ {c} : image'[r] = image[r] /\ node'[r] = node[r]
  BY <1>1, TypeFacts DEF Trusted, Tables
<1>7. \A r, s \in Procs : r # s /\ Live(r)' /\ image'[s] = image'[r] =>
        call[r].at = "run" /\ \A b \in Bytes : told[r][b] = "-"
  <2> SUFFICES ASSUME NEW r \in Procs, NEW s \in Procs, r # s, Live(r)', image'[s] = image'[r]
               PROVE  call[r].at = "run" /\ \A b \in Bytes : told[r][b] = "-"
    OBVIOUS
  <2>1. CASE r \in {p, c}
    BY <1>3, <1>4, <1>5, <2>1
  <2>2. CASE r \notin {p, c} /\ s = c
    <3>1. Live(r) /\ image[p] = image[r] /\ p # r
      BY <1>6, <2>2 DEF Live
    <3> QED BY <3>1 DEF Trusted, Separate
  <2>3. CASE r \notin {p, c} /\ s # c
    <3>1. Live(r) /\ image[s] = image[r]
      BY <1>6, <2>3 DEF Live
    <3> QED BY <3>1 DEF Trusted, Separate
  <2> QED BY <2>1, <2>2, <2>3
<1>8. \A r \in Procs, f, g \in Fds : Opened(r, f)' /\ Opened(r, g)' => f = g
  BY <1>2, <1>6 DEF Opened, Trusted, Separate
<1>9. Separate'
  BY <1>1, <1>2, <1>7, <1>8 DEF Separate
<1>10. \A r \in Procs, l \in lock : Mine(r, l) => Mine(r, l)'
  BY <1>1, <1>6, LockIs DEF Mine, Live, Has
<1>11. \A r \in Procs : call[r].at # "run" =>
         node'[r][call[r].fd].obj = node[r][call[r].fd].obj
  BY <1>5, <1>6
<1> QED BY <1>1, <1>9, <1>10, <1>11 DEF Unmoved

LEMMA ExecveTrusted ==
  ASSUME Trusted, Careful, NEW p \in Procs, Execve(p) PROVE Separate' /\ Unmoved
<1>1. PICK i \in Images : /\ image' = [image EXCEPT ![p] = i] /\ Runs(p)
                          /\ \A r \in Procs : image[r] # i
                          /\ lock' = Kept(node, image') /\ UNCHANGED <<node, call, told, menu>>
                          /\ "exec" \in menu /\ ("clean" \in menu => ~HasLock(p))
  BY DEF Execve
<1>2. "clean" \in menu
  BY <1>1, Menu DEF Trusted
<1>3. /\ \A b \in Bytes : told[p][b] = "-"
      /\ \A o \in Objects, b \in Bytes : Has(node[p], o) => told[o][b] = "-"
  BY <1>1, <1>2, Clean
<1>4. \A r \in Procs : image'[r] = IF r = p THEN i ELSE image[r]
  BY <1>1, TypeFacts DEF Trusted
<1>5. \A r \in Procs, l \in lock, b \in Bytes :
        Mine(r, l) /\ told[Hold(r, l.obj)][b] # "-" => Mine(r, l)'
  <2> SUFFICES ASSUME NEW r \in Procs, NEW l \in lock, NEW b \in Bytes,
                      Mine(r, l), told[Hold(r, l.obj)][b] # "-"
               PROVE  Mine(r, l)'
    OBVIOUS
  <2>1. r # p
    BY <1>3, HolderIs, LockIs DEF Mine
  <2> QED BY <1>1, <1>4, <2>1 DEF Mine, Has
<1>6. lock' = lock
  <2>1. \A l \in lock : \E r \in Procs : image'[r] = l.img /\ Has(node[r], l.obj)
    <3> TAKE l \in lock
    <3>1. PICK r \in Procs :
            /\ Mine(r, l)
            /\ \A b \in Bytes : b \in Span(l.lo, l.len) => told[Hold(r, l.obj)][b] = l.mode
      BY Owner
    <3>2. PICK b \in Bytes : b \in Span(l.lo, l.len)
      BY LockIs
    <3>3. Mine(r, l)'
      BY <1>5, <3>1, <3>2, LockIs
    <3> QED BY <1>1, <3>3 DEF Mine
  <2> QED BY <1>1, <2>1 DEF Kept
<1>7. \A r, s \in Procs : r # s /\ Live(r)' /\ image'[s] = image'[r] =>
                            Live(r) /\ image[s] = image[r]
  BY <1>1, <1>4 DEF Live
<1>8. Separate'
  BY <1>1, <1>7 DEF Trusted, Separate, Opened, Has
<1> QED BY <1>1, <1>5, <1>6, <1>8 DEF Unmoved

-----------------------------------------------------------------------------
(* A process closes a descriptor or exits *)

Leaves(p) ==
  /\ Runs(p) /\ call' = call /\ menu' = menu
  /\ image'[p] \in {None, image[p]}
  /\ \A r \in Procs \ {p} : image'[r] = image[r] /\ node'[r] = node[r]
  /\ \A fd \in Fds : node'[p][fd].obj \in {None, node[p][fd].obj}
  /\ "flock" \notin menu => \A o \in Objects : ~(Live(p)' /\ Has(node[p], o)')
  /\ lock' = Kept(node', image')
  /\ told' = Forgotten(node', image', [told EXCEPT ![p] = Nothing])

LEMMA CloseLeaves ==
  ASSUME Trusted, NEW p \in Procs, NEW fd \in Fds, Close(p, fd) PROVE Leaves(p)
<1>1. /\ node' = [node EXCEPT ![p][fd] = NoNode] /\ lock' = Kept(node', image) /\ Runs(p)
      /\ told' = Forgotten(node', image, [told EXCEPT ![p] = Nothing])
      /\ image' = image /\ call' = call /\ menu' = menu /\ Opened(p, fd)
  BY DEF Close
<1>2. PICK n \in Nodes : n = NoNode
  BY Sizes
<1>3. /\ \A r \in Procs, g \in Fds : node'[r][g] = IF r = p /\ g = fd THEN n ELSE node[r][g]
      /\ \A r \in Procs \ {p} : node'[r] = node[r]
  BY <1>1, <1>2, EntryIs DEF Trusted
<1>4. \A g \in Fds : node'[p][g].obj = IF g = fd THEN None ELSE node[p][g].obj
  BY <1>2, <1>3 DEF NoNode
<1>5. "flock" \notin menu => \A g \in Fds : Opened(p, g) => g = fd
  BY <1>1 DEF Trusted, Separate
<1>6. "flock" \notin menu => \A o \in Objects : ~Has(node[p], o)'
  BY <1>4, <1>5, Sizes DEF Has, Opened
<1> QED BY <1>1, <1>3, <1>4, <1>6 DEF Leaves, Kept

LEMMA ExitLeaves == ASSUME Trusted, NEW p \in Procs, Exit(p) PROVE Leaves(p)
<1>1. /\ image' = [image EXCEPT ![p] = None]
      /\ node' = [node EXCEPT ![p] = [fd \in Fds |-> NoNode]]
      /\ lock' = Kept(node', image') /\ Runs(p)
      /\ told' = Forgotten(node', image', [told EXCEPT ![p] = Nothing])
      /\ call' = call /\ menu' = menu
  BY DEF Exit
<1>2. /\ image'[p] = None /\ node'[p] = [fd \in Fds |-> NoNode]
      /\ \A r \in Procs \ {p} : image'[r] = image[r] /\ node'[r] = node[r]
  BY <1>1, TypeFacts DEF Trusted, Tables
<1>3. \A fd \in Fds : node'[p][fd].obj = None
  BY <1>2 DEF NoNode
<1>4. ~Live(p)'
  BY <1>2 DEF Live
<1> QED BY <1>1, <1>2, <1>3, <1>4 DEF Leaves, Kept

\* What is left: locks that another still has, and what their holders were told.
LEMMA Left ==
  ASSUME Trusted, NEW p \in Procs, Leaves(p)
  PROVE  /\ \A r \in Procs, o \in Objects : Has(node[r], o)' => Has(node[r], o)
         /\ \A r \in Procs : Live(r)' => Live(r) /\ image'[r] = image[r]
         /\ \A l \in lock' : l \in lock /\ \E r \in Procs : Mine(r, l)'
         /\ \A l \in lock : (\E r \in Procs : Mine(r, l)') => l \in lock'
         /\ \A r \in Procs \ {p}, l \in lock : Mine(r, l) => Mine(r, l)'
         /\ \A r \in Procs, l \in lock : Mine(r, l)' => Mine(r, l)
<1>1. \A r \in Procs, o \in Objects : Has(node[r], o)' => Has(node[r], o)
  BY Sizes DEF Leaves, Has
<1>2. \A r \in Procs : Live(r)' => Live(r) /\ image'[r] = image[r]
  BY DEF Leaves, Live
<1>3. /\ \A l \in lock' : l \in lock /\ \E r \in Procs : Mine(r, l)'
      /\ \A l \in lock : (\E r \in Procs : Mine(r, l)') => l \in lock'
  BY DEF Leaves, Kept, Mine
<1>4. \A r \in Procs \ {p}, l \in lock : Mine(r, l) => Mine(r, l)'
  BY DEF Leaves, Mine, Has
<1>5. \A r \in Procs, l \in lock : Mine(r, l)' => Mine(r, l)
  BY <1>1, <1>2, LockIs DEF Mine, Live
<1> QED BY <1>1, <1>2, <1>3, <1>4, <1>5

InHand(h) == \E r \in Procs : Live(r) /\ Has(node[r], h)

LEMMA LeftTold ==
  ASSUME Trusted, NEW p \in Procs, Leaves(p)
  PROVE  /\ \A h \in Holders, b \in Bytes : told'[h][b] # "-" =>
              /\ told'[h][b] = told[h][b] /\ h # p
              /\ h \in Objects => InHand(h)'
         /\ \A h \in Holders \ {p} : h \notin Objects \/ InHand(h)' => told'[h] = told[h]
<1>1. PICK t \in Tellings : t = [told EXCEPT ![p] = Nothing]
  BY TypeFacts, Sizes DEF Tellings, Holders, Trusted
<1>2. \A h \in Holders : t[h] = IF h = p THEN Nothing ELSE told[h]
  BY <1>1, TypeFacts DEF Trusted, Tellings
<1>3. \A h \in Holders :
        told'[h] = IF h \in Objects /\ ~InHand(h)' THEN Nothing ELSE t[h]
  BY <1>1 DEF Leaves, Forgotten, InHand, Live
<1>4. \A b \in Bytes : Nothing[b] = "-"
  BY DEF Nothing
<1> QED BY <1>2, <1>3, <1>4

LEMMA LeavesTrusted ==
  ASSUME Trusted, NEW p \in Procs, Leaves(p)
  PROVE  Separate' /\ Asking' /\ Matched' /\ Disjoint' /\ Meant'
<1>1. /\ call' = call /\ menu' = menu /\ Live(p) /\ call[p].at = "run"
      /\ "flock" \notin menu => \A o \in Objects : ~(Live(p)' /\ Has(node[p], o)')
  BY DEF Leaves, Runs
<1>2. \A h \in Holders, b \in Bytes : told[h][b] = "-" => told'[h][b] = "-"
  BY LeftTold
<1>3. Disjoint'
  BY Left DEF Trusted, Disjoint
<1>4. Separate'
  <2>1. \A r, s \in Procs : r # s /\ Live(r)' /\ image'[s] = image'[r] =>
                              Live(r) /\ image[s] = image[r]
    BY Left DEF Live
  <2>2. Procs \subseteq Holders
    BY DEF Holders
  <2>3. \A r \in Procs, fd \in Fds : Opened(r, fd)' => Opened(r, fd)
    BY Sizes DEF Leaves, Opened
  <2>4. \A r, s \in Procs : r # s /\ Live(r)' /\ image'[s] = image'[r] =>
         /\ "flock" \notin menu' /\ "clean" \in menu'
         /\ call'[r].at = "run" /\ \A b \in Bytes : told'[r][b] = "-"
    BY <1>1, <1>2, <2>1, <2>2 DEF Trusted, Separate
  <2>5. \A r, s \in Procs, o \in Objects :
          r # s /\ Has(node[r], o)' /\ Has(node[s], o)' => "flock" \notin menu'
    BY <1>1, Left DEF Trusted, Separate
  <2>6. "flock" \notin menu' => \A r \in Procs, f, g \in Fds : Opened(r, f)' /\ Opened(r, g)' => f = g
    BY <1>1, <2>3 DEF Trusted, Separate
  <2> QED BY <2>4, <2>5, <2>6 DEF Separate
<1>5. Asking'
  <2> SUFFICES ASSUME NEW r \in Procs, call[r].at # "run" PROVE Fit(r, call[r])'
    BY <1>1 DEF Asking
  <2>1. PICK q \in Calls : q = call[r]
    BY TypeFacts DEF Trusted
  <2>2. Fit(r, q)
    BY <2>1 DEF Trusted, Asking
  <2>3. node'[r][q.fd].obj = node[r][q.fd].obj
    BY <1>1 DEF Leaves
  <2>4. q.holder \in Holders
    BY <2>1 DEF Trusted, Busy
  <2>5. Fit(r, q)'
    BY <1>1, <1>2, <2>2, <2>3, <2>4, FitStays
  <2> QED BY <1>1, <2>1, <2>5
<1>6. Matched'
  <2> SUFFICES ASSUME NEW l \in lock'
               PROVE  /\ Span(l.lo, l.len) # {}
                      /\ "flock" \in menu => l.lo = 0 /\ l.len = Word - 1
                      /\ \E r \in Procs :
                           /\ Mine(r, l)'
                           /\ \A b \in Span(l.lo, l.len) : told'[Hold(r, l.obj)'][b] = l.mode
    BY <1>1 DEF Matched
  <2>1. l \in lock
    BY Left
  <2>2. PICK s \in Procs : Mine(s, l)'
    BY Left
  <2>3. PICK r \in Procs :
          /\ Mine(r, l)
          /\ \A b \in Bytes : b \in Span(l.lo, l.len) => told[Hold(r, l.obj)][b] = l.mode
          /\ \A x \in Procs : image[x] = l.img => x = r
    BY <2>1, Owner
  <2>4. s = r
    BY <2>1, <2>2, <2>3, Left DEF Mine
  <2>5. PICK o \in Objects : o = l.obj
    BY <2>1, LockIs
  <2>6. Live(r)' /\ Has(node[r], o)'
    BY <2>1, <2>2, <2>4, <2>5, LockIs DEF Mine, Live
  <2>7. PICK h \in Holders : h = Hold(r, o) /\ h = Hold(r, o)'
    BY <1>1, HolderIs
  <2>8. told'[h] = told[h]
    <3>1. CASE "flock" \in menu
      <4>1. h = o /\ h # p
        BY <2>7, <3>1, HolderIs
      <4> QED BY <2>6, <4>1, LeftTold DEF InHand
    <3>2. CASE "flock" \notin menu
      <4>1. h = r /\ r # p /\ h \notin Objects
        BY <1>1, <2>6, <2>7, <3>2, HolderIs
      <4> QED BY <4>1, LeftTold
    <3> QED BY <3>1, <3>2
  <2>9. \A b \in Span(l.lo, l.len) : told'[Hold(r, l.obj)'][b] = l.mode
    BY <2>3, <2>5, <2>7, <2>8 DEF Span
  <2>10. Span(l.lo, l.len) # {} /\ ("flock" \in menu => l.lo = 0 /\ l.len = Word - 1)
    BY <2>1 DEF Trusted, Matched
  <2> QED BY <2>2, <2>4, <2>9, <2>10
<1>7. Meant'
  <2> SUFFICES ASSUME NEW h \in Holders, NEW b \in Bytes, told'[h][b] # "-"
               PROVE  \E l \in lock', r \in Procs :
                        /\ l.mode = told'[h][b] /\ b \in Span(l.lo, l.len)
                        /\ Mine(r, l)' /\ h = Hold(r, l.obj)'
    BY DEF Meant
  <2>1. told'[h][b] = told[h][b] /\ h # p /\ (h \in Objects => InHand(h)')
    BY LeftTold
  <2>2. PICK l \in lock, r \in Procs :
          l.mode = told[h][b] /\ b \in Span(l.lo, l.len) /\ Mine(r, l) /\ h = Hold(r, l.obj)
    BY <2>1 DEF Trusted, Meant
  <2>3. PICK o \in Objects : o = l.obj
    BY LockIs
  <2>4. Mine(r, l)'
    <3>1. CASE "flock" \notin menu
      <4>1. r # p
        BY <2>1, <2>2, <2>3, <3>1, HolderIs
      <4> QED BY <2>2, <4>1, Left
    <3>2. CASE "flock" \in menu
      <4>1. h = o
        BY <2>2, <2>3, <3>2, HolderIs
      <4>2. PICK s \in Procs : Live(s)' /\ Has(node[s], o)'
        BY <2>1, <4>1 DEF InHand
      <4>3. s = r
        BY <2>2, <2>3, <3>2, <4>2, Left, OwnObject DEF Mine
      <4> QED BY <2>2, <2>3, <4>2, <4>3, Left DEF Mine
    <3> QED BY <3>1, <3>2
  <2>5. l \in lock' /\ h = Hold(r, l.obj)'
    BY <1>1, <2>2, <2>4, Left, HolderIs, LockIs
  <2> QED BY <2>1, <2>2, <2>4, <2>5
<1> QED BY <1>3, <1>4, <1>5, <1>6, <1>7

-----------------------------------------------------------------------------
(* Locking and unlocking *)

\* Nobody opens, closes, starts or exits.
Same ==
  /\ image' = image /\ menu' = menu
  /\ \A r \in Procs, fd \in Fds : node'[r][fd].obj = node[r][fd].obj

Sole(p) == Live(p) /\ \A r \in Procs : image[r] = image[p] => r = p

\* Calls and results of the other processes, and of p.
Others(p) == \A r \in Procs \ {p} : call'[r] = call[r]
Kind(p) ==
  /\ \A r \in Procs \ {p}, b \in Bytes : told[r][b] = "-" => told'[r][b] = "-"
  /\ \A r \in Procs \ {p}, b \in Bytes : call[r].at # "run" =>
       (told[call[r].holder][b] = "-" => told'[call[r].holder][b] = "-")

LEMMA SameFacts ==
  ASSUME Same
  PROVE  /\ \A r \in Procs, o \in Objects : Has(node[r], o)' <=> Has(node[r], o)
         /\ \A r \in Procs, fd \in Fds : Opened(r, fd)' <=> Opened(r, fd)
         /\ \A r \in Procs : \A l : l.obj \in Objects => (Mine(r, l)' <=> Mine(r, l))
         /\ \A r \in Procs, o \in Objects : Hold(r, o)' = Hold(r, o)
<1>1. \A r \in Procs, o \in Objects : Has(node[r], o)' <=> Has(node[r], o)
  BY DEF Same, Has
<1> QED BY <1>1 DEF Same, Mine, Hold, Opened

LEMMA SameSeparate ==
  ASSUME Trusted, Same, NEW p \in Procs, Sole(p), Others(p), Kind(p)
  PROVE  Separate'
<1>1. \A r, s \in Procs : r # s /\ Live(r)' /\ image'[s] = image'[r] => r # p
  BY DEF Same, Live, Sole
<1>2. \A r, s \in Procs : r # s /\ Live(r)' /\ image'[s] = image'[r] =>
       /\ "flock" \notin menu' /\ "clean" \in menu'
       /\ call'[r].at = "run" /\ \A b \in Bytes : told'[r][b] = "-"
  BY <1>1 DEF Same, Live, Others, Kind, Trusted, Separate
<1>3. menu' = menu
  BY DEF Same
<1>4. \A r, s \in Procs, o \in Objects :
        r # s /\ Has(node[r], o)' /\ Has(node[s], o)' => "flock" \notin menu'
  BY <1>3, SameFacts DEF Trusted, Separate
<1>5. "flock" \notin menu' => \A r \in Procs, f, g \in Fds : Opened(r, f)' /\ Opened(r, g)' => f = g
  BY <1>3, SameFacts DEF Trusted, Separate
<1> QED BY <1>2, <1>4, <1>5 DEF Separate

LEMMA SameAsking ==
  ASSUME Trusted, Same, NEW p \in Procs, Others(p), Kind(p),
         call'[p].at # "run" => Fit(p, call[p])'
  PROVE  Asking'
<1> SUFFICES ASSUME NEW r \in Procs, r # p, call[r].at # "run" PROVE Fit(r, call[r])'
  BY DEF Asking, Others
<1>1. PICK q \in Calls : q = call[r]
  BY TypeFacts DEF Trusted
<1>2. Fit(r, q)
  BY <1>1 DEF Trusted, Asking
<1>3. node'[r][q.fd].obj = node[r][q.fd].obj /\ menu' = menu
  BY DEF Same, Calls
<1>4. \A b \in Bytes : told[q.holder][b] = "-" => told'[q.holder][b] = "-"
  BY <1>1 DEF Kind
<1>5. Fit(r, q)'
  BY <1>2, <1>3, <1>4, FitStays
<1> QED BY <1>1, <1>5 DEF Others

\* A lock goes, and its holder was told.
Drops(p, l) ==
  /\ l \in lock /\ Mine(p, l) /\ lock' = lock \ {l}
  /\ told' = Set(told, Hold(p, l.obj), Span(l.lo, l.len), "-")

LEMMA DropsTold ==
  ASSUME Trusted, NEW p \in Procs, NEW l \in lock, Drops(p, l)
  PROVE  \A h \in Holders, b \in Bytes :
           told'[h][b] = IF h = Hold(p, l.obj) /\ b \in Span(l.lo, l.len) THEN "-"
                         ELSE told[h][b]
<1>1. PICK t \in Tellings : t = told
  BY TypeFacts DEF Trusted
<1>2. PICK h \in Holders : h = Hold(p, l.obj)
  BY LockIs, HolderIs
<1>3. told' = Set(t, h, Span(l.lo, l.len), "-")
  BY <1>1, <1>2 DEF Drops
<1>4. \A g \in Holders, b \in Bytes :
        told'[g][b] = IF g = h /\ b \in Span(l.lo, l.len) THEN "-" ELSE t[g][b]
  BY <1>3, SetTyped DEF Modes
<1> QED BY <1>1, <1>2, <1>4

LEMMA DropsTrusted ==
  ASSUME Trusted, Same, NEW p \in Procs, NEW l \in lock, Drops(p, l), Sole(p)
  PROVE  Matched' /\ Disjoint' /\ Meant' /\ Kind(p)
<1>1. \A h \in Holders, b \in Bytes :
        told'[h][b] = IF h = Hold(p, l.obj) /\ b \in Span(l.lo, l.len) THEN "-"
                      ELSE told[h][b]
  BY DropsTold
<1>2. menu' = menu /\ lock' = lock \ {l} /\ Mine(p, l)
  BY DEF Same, Drops
<1>3. PICK o \in Objects : o = l.obj
  BY LockIs
<1>4. Kind(p)
  BY <1>1 DEF Kind, Holders, Trusted, Busy
<1>5. Disjoint'
  BY <1>2 DEF Trusted, Disjoint
<1>6. \A k \in lock, r \in Procs : Mine(r, k) /\ Hold(r, k.obj) = Hold(p, l.obj) =>
        k.obj = l.obj /\ k.img = l.img
  <2> SUFFICES ASSUME NEW k \in lock, NEW r \in Procs, Mine(r, k), Hold(r, k.obj) = Hold(p, l.obj)
               PROVE  k.obj = l.obj /\ k.img = l.img
    OBVIOUS
  <2>1. PICK u \in Objects : u = k.obj
    BY LockIs
  <2>2. Has(node[r], u) /\ Has(node[p], o) /\ k.img = image[r] /\ l.img = image[p]
    BY <1>2, <1>3, <2>1 DEF Mine
  <2>3. CASE "flock" \in menu
    <3>1. u = o
      BY <1>3, <2>1, <2>3, HolderIs
    <3> QED BY <1>3, <2>1, <2>2, <2>3, <3>1, OwnObject
  <2>4. CASE "flock" \notin menu
    <3>1. r = p
      BY <1>3, <2>1, <2>4, HolderIs
    <3> QED BY <1>3, <2>1, <2>2, <2>4, <3>1, OneObject
  <2> QED BY <2>3, <2>4
<1>7. Matched'
  <2> SUFFICES ASSUME NEW k \in lock, k # l
               PROVE  /\ Span(k.lo, k.len) # {}
                      /\ "flock" \in menu => k.lo = 0 /\ k.len = Word - 1
                      /\ \E r \in Procs :
                           /\ Mine(r, k)'
                           /\ \A b \in Span(k.lo, k.len) : told'[Hold(r, k.obj)'][b] = k.mode
    BY <1>2 DEF Matched
  <2>1. PICK r \in Procs :
          /\ Mine(r, k)
          /\ \A b \in Bytes : b \in Span(k.lo, k.len) => told[Hold(r, k.obj)][b] = k.mode
    BY Owner
  <2>2. PICK u \in Objects : u = k.obj
    BY LockIs
  <2>3. Mine(r, k)' /\ Hold(r, u)' = Hold(r, u) /\ Hold(r, u) \in Holders
    BY <2>1, <2>2, SameFacts, HolderIs
  <2>4. ASSUME NEW b \in Bytes, b \in Span(k.lo, k.len)
        PROVE  told'[Hold(r, u)][b] = k.mode
    <3>1. ~(Hold(r, u) = Hold(p, l.obj) /\ b \in Span(l.lo, l.len))
      <4> SUFFICES ASSUME Hold(r, u) = Hold(p, l.obj), b \in Span(l.lo, l.len) PROVE FALSE
        OBVIOUS
      <4>1. k.obj = l.obj /\ k.img = l.img
        BY <1>6, <2>1, <2>2
      <4>2. Span(l.lo, l.len) \cap Span(k.lo, k.len) = {}
        BY <4>1 DEF Trusted, Disjoint
      <4> QED BY <2>4, <4>2
    <3> QED BY <1>1, <2>1, <2>2, <2>3, <2>4, <3>1
  <2>5. Span(k.lo, k.len) # {} /\ ("flock" \in menu => k.lo = 0 /\ k.len = Word - 1)
    BY DEF Trusted, Matched
  <2>6. \A b \in Span(k.lo, k.len) : told'[Hold(r, k.obj)'][b] = k.mode
    BY <2>2, <2>3, <2>4 DEF Span
  <2> QED BY <2>3, <2>5, <2>6
<1>8. Meant'
  <2> SUFFICES ASSUME NEW h \in Holders, NEW b \in Bytes, told'[h][b] # "-"
               PROVE  \E k \in lock', r \in Procs :
                        /\ k.mode = told'[h][b] /\ b \in Span(k.lo, k.len)
                        /\ Mine(r, k)' /\ h = Hold(r, k.obj)'
    BY DEF Meant
  <2>1. told'[h][b] = told[h][b] /\ ~(h = Hold(p, l.obj) /\ b \in Span(l.lo, l.len))
    BY <1>1
  <2>2. PICK k \in lock, r \in Procs :
          k.mode = told[h][b] /\ b \in Span(k.lo, k.len) /\ Mine(r, k) /\ h = Hold(r, k.obj)
    BY <2>1 DEF Trusted, Meant
  <2>3. PICK u \in Objects : u = k.obj
    BY LockIs
  <2>4. k # l
    <3> SUFFICES ASSUME k = l PROVE FALSE
      OBVIOUS
    <3>1. r = p
      BY <1>2, <2>2 DEF Sole, Mine
    <3> QED BY <2>1, <2>2, <3>1
  <2>5. Mine(r, k)' /\ Hold(r, u)' = Hold(r, u)
    BY <2>2, <2>3, SameFacts
  <2> QED BY <1>2, <2>1, <2>2, <2>3, <2>4, <2>5
<1> QED BY <1>4, <1>5, <1>7, <1>8

\* A lock is added on bytes its holder did not have.
Adds(p, l) ==
  /\ Mine(p, l) /\ lock' = lock \cup {l}
  /\ told' = Set(told, Hold(p, l.obj), Span(l.lo, l.len), l.mode)
  /\ Span(l.lo, l.len) # {}
  /\ "flock" \in menu => l.lo = 0 /\ l.len = Word - 1
  /\ \A b \in Bytes : b \in Span(l.lo, l.len) => told[Hold(p, l.obj)][b] = "-"

LEMMA AddsTold ==
  ASSUME Trusted, NEW p \in Procs, NEW l \in Lockings, Adds(p, l)
  PROVE  \A h \in Holders, b \in Bytes :
           told'[h][b] = IF h = Hold(p, l.obj) /\ b \in Span(l.lo, l.len) THEN l.mode
                         ELSE told[h][b]
<1>1. PICK t \in Tellings : t = told
  BY TypeFacts DEF Trusted
<1>2. PICK h \in Holders : h = Hold(p, l.obj)
  BY HolderIs DEF Lockings
<1>3. PICK m \in Modes : m = l.mode
  BY DEF Lockings, Modes
<1>4. told' = Set(t, h, Span(l.lo, l.len), m)
  BY <1>1, <1>2, <1>3 DEF Adds
<1>5. \A g \in Holders, b \in Bytes :
        told'[g][b] = IF g = h /\ b \in Span(l.lo, l.len) THEN m ELSE t[g][b]
  BY <1>4, SetTyped
<1> QED BY <1>1, <1>2, <1>3, <1>5

\* The holders of two processes' locks are not the same.
LEMMA HoldersApart ==
  ASSUME Trusted, NEW p \in Procs, NEW r \in Procs, NEW o \in Objects, NEW u \in Objects,
         Has(node[p], o), Has(node[r], u), Hold(p, o) = Hold(r, u)
  PROVE  p = r /\ o = u
<1>1. CASE "flock" \in menu
  <2>1. o = u
    BY <1>1, HolderIs
  <2> QED BY <1>1, <2>1, OwnObject
<1>2. CASE "flock" \notin menu
  <2>1. p = r
    BY <1>2, HolderIs
  <2> QED BY <1>2, <2>1, OneObject
<1> QED BY <1>1, <1>2

LEMMA AddsTrusted ==
  ASSUME Trusted, Same, NEW p \in Procs, NEW l \in Lockings, Adds(p, l), Sole(p)
  PROVE  Matched' /\ Disjoint' /\ Meant' /\ Kind(p)
<1>1. \A h \in Holders, b \in Bytes :
        told'[h][b] = IF h = Hold(p, l.obj) /\ b \in Span(l.lo, l.len) THEN l.mode
                      ELSE told[h][b]
  BY AddsTold
<1>2. /\ menu' = menu /\ lock' = lock \cup {l} /\ Mine(p, l)
      /\ \A b \in Bytes : b \in Span(l.lo, l.len) => told[Hold(p, l.obj)][b] = "-"
      /\ Span(l.lo, l.len) # {}
      /\ "flock" \in menu => l.lo = 0 /\ l.len = Word - 1
  BY DEF Same, Adds
<1>3. PICK o \in Objects : o = l.obj
  BY DEF Lockings
<1>4. Has(node[p], o) /\ l.img = image[p] /\ Hold(p, o) \in Holders
  BY <1>2, <1>3, HolderIs DEF Mine
<1>5. Mine(p, l)' /\ Hold(p, o)' = Hold(p, o)
  BY <1>2, <1>3, SameFacts
<1>6. Kind(p)
  <2>1. \A r \in Procs \ {p} : r # Hold(p, o)
    BY HolderIs
  <2>2. ASSUME NEW r \in Procs \ {p}, call[r].at # "run"
        PROVE  call[r].holder \in Holders /\ call[r].holder # Hold(p, o)
    <3>1. PICK q \in Calls : q = call[r]
      BY TypeFacts DEF Trusted
    <3>2. Fit(r, q)
      BY <2>2, <3>1 DEF Trusted, Asking
    <3>3. PICK u \in Objects : u = node[r][q.fd].obj /\ Has(node[r], u)
      <4>1. PICK n \in Nodes : n = node[r][q.fd]
        BY TypeFacts DEF Trusted, Tables, Calls
      <4>2. n.obj \in Objects /\ q.fd \in Fds
        BY <2>2, <3>1, <4>1, TypeFacts DEF Trusted, Opened, Nodes, Calls
      <4> QED BY <4>1, <4>2 DEF Has
    <3>4. q.holder = Hold(r, u)
      BY <3>2, <3>3 DEF Fit
    <3> QED BY <1>4, <3>1, <3>3, <3>4, HoldersApart, HolderIs
  <2> QED BY <1>1, <1>3, <2>1, <2>2 DEF Kind, Holders
<1>7. ASSUME NEW k \in lock, k.obj = l.obj, k.img = l.img
      PROVE  Span(k.lo, k.len) \cap Span(l.lo, l.len) = {}
  <2> SUFFICES ASSUME NEW b \in Bytes, b \in Span(k.lo, k.len), b \in Span(l.lo, l.len)
               PROVE  FALSE
    BY DEF Span
  <2>1. PICK r \in Procs :
          /\ Mine(r, k)
          /\ \A c \in Bytes : c \in Span(k.lo, k.len) => told[Hold(r, k.obj)][c] = k.mode
    BY Owner
  <2>2. r = p
    BY <1>4, <1>7, <2>1 DEF Mine, Sole
  <2> QED BY <1>2, <1>7, <2>1, <2>2, LockIs
<1>8. Disjoint'
  <2> SUFFICES ASSUME NEW k \in lock', NEW j \in lock', k # j, k.obj = j.obj, k.img = j.img
               PROVE  Span(k.lo, k.len) \cap Span(j.lo, j.len) = {}
    BY DEF Disjoint
  <2>1. CASE k \in lock /\ j \in lock
    BY <2>1 DEF Trusted, Disjoint
  <2>2. CASE k \in lock /\ j = l
    BY <1>7, <2>2
  <2>3. CASE k = l /\ j \in lock
    BY <1>7, <2>3
  <2> QED BY <1>2, <2>1, <2>2, <2>3
<1>9. Matched'
  <2> SUFFICES ASSUME NEW k \in lock \cup {l}
               PROVE  /\ Span(k.lo, k.len) # {}
                      /\ "flock" \in menu => k.lo = 0 /\ k.len = Word - 1
                      /\ \E r \in Procs :
                           /\ Mine(r, k)'
                           /\ \A b \in Span(k.lo, k.len) : told'[Hold(r, k.obj)'][b] = k.mode
    BY <1>2 DEF Matched
  <2>1. CASE k = l
    <3>1. \A b \in Span(l.lo, l.len) : told'[Hold(p, l.obj)'][b] = l.mode
      BY <1>1, <1>3, <1>4, <1>5 DEF Span
    <3> QED BY <1>2, <1>5, <2>1, <3>1
  <2>2. CASE k \in lock
    <3>1. PICK r \in Procs :
            /\ Mine(r, k)
            /\ \A b \in Bytes : b \in Span(k.lo, k.len) => told[Hold(r, k.obj)][b] = k.mode
      BY <2>2, Owner
    <3>2. PICK u \in Objects : u = k.obj
      BY <2>2, LockIs
    <3>3. Mine(r, k)' /\ Hold(r, u)' = Hold(r, u) /\ Hold(r, u) \in Holders
      BY <3>1, <3>2, SameFacts, HolderIs
    <3>4. \A b \in Bytes : b \in Span(k.lo, k.len) => told'[Hold(r, u)][b] = k.mode
      <4>1. k.mode # "-"
        BY <2>2, LockIs
      <4> QED BY <1>1, <1>2, <3>1, <3>2, <3>3, <4>1
    <3>5. Span(k.lo, k.len) # {} /\ ("flock" \in menu => k.lo = 0 /\ k.len = Word - 1)
      BY <2>2 DEF Trusted, Matched
    <3>6. \A b \in Span(k.lo, k.len) : told'[Hold(r, k.obj)'][b] = k.mode
      BY <3>2, <3>3, <3>4 DEF Span
    <3> QED BY <3>3, <3>5, <3>6
  <2> QED BY <2>1, <2>2
<1>10. Meant'
  <2> SUFFICES ASSUME NEW h \in Holders, NEW b \in Bytes, told'[h][b] # "-"
               PROVE  \E k \in lock', r \in Procs :
                        /\ k.mode = told'[h][b] /\ b \in Span(k.lo, k.len)
                        /\ Mine(r, k)' /\ h = Hold(r, k.obj)'
    BY DEF Meant
  <2>1. CASE h = Hold(p, l.obj) /\ b \in Span(l.lo, l.len)
    <3>1. told'[h][b] = l.mode /\ h = Hold(p, l.obj)' /\ l \in lock'
      BY <1>1, <1>2, <1>3, <1>5, <2>1
    <3> QED BY <1>5, <2>1, <3>1
  <2>2. CASE ~(h = Hold(p, l.obj) /\ b \in Span(l.lo, l.len))
    <3>1. told'[h][b] = told[h][b]
      BY <1>1, <2>2
    <3>2. PICK k \in lock, r \in Procs :
            k.mode = told[h][b] /\ b \in Span(k.lo, k.len) /\ Mine(r, k) /\ h = Hold(r, k.obj)
      BY <3>1 DEF Trusted, Meant
    <3>3. PICK u \in Objects : u = k.obj
      BY LockIs
    <3>4. Mine(r, k)' /\ Hold(r, u)' = Hold(r, u) /\ k \in lock'
      BY <1>2, <3>2, <3>3, SameFacts
    <3> QED BY <3>1, <3>2, <3>3, <3>4
  <2> QED BY <2>1, <2>2
<1> QED BY <1>6, <1>8, <1>9, <1>10

\* Nothing is locked or unlocked.
LEMMA KeepsTrusted ==
  ASSUME Trusted, Same, NEW p \in Procs, lock' = lock,
         \A h \in Holders, b \in Bytes : told'[h][b] = told[h][b]
  PROVE  Matched' /\ Disjoint' /\ Meant' /\ Kind(p)
<1>1. Kind(p)
  BY DEF Kind, Holders, Trusted, Busy
<1>2. Disjoint'
  BY DEF Trusted, Disjoint
<1>3. Matched'
  <2> SUFFICES ASSUME NEW k \in lock
               PROVE  /\ Span(k.lo, k.len) # {}
                      /\ "flock" \in menu => k.lo = 0 /\ k.len = Word - 1
                      /\ \E r \in Procs :
                           /\ Mine(r, k)'
                           /\ \A b \in Span(k.lo, k.len) : told'[Hold(r, k.obj)'][b] = k.mode
    BY DEF Matched, Same
  <2>1. PICK r \in Procs :
          /\ Mine(r, k)
          /\ \A b \in Bytes : b \in Span(k.lo, k.len) => told[Hold(r, k.obj)][b] = k.mode
    BY Owner
  <2>2. PICK u \in Objects : u = k.obj
    BY LockIs
  <2>3. Mine(r, k)' /\ Hold(r, u)' = Hold(r, u) /\ Hold(r, u) \in Holders
    BY <2>1, <2>2, SameFacts, HolderIs
  <2>4. Span(k.lo, k.len) # {} /\ ("flock" \in menu => k.lo = 0 /\ k.len = Word - 1)
    BY DEF Trusted, Matched
  <2>5. \A b \in Span(k.lo, k.len) : told'[Hold(r, k.obj)'][b] = k.mode
    BY <2>1, <2>2, <2>3 DEF Span
  <2> QED BY <2>3, <2>4, <2>5
<1>4. Meant'
  <2> SUFFICES ASSUME NEW h \in Holders, NEW b \in Bytes, told[h][b] # "-"
               PROVE  \E k \in lock, r \in Procs :
                        /\ k.mode = told[h][b] /\ b \in Span(k.lo, k.len)
                        /\ Mine(r, k)' /\ h = Hold(r, k.obj)'
    BY DEF Meant
  <2>1. PICK k \in lock, r \in Procs :
          k.mode = told[h][b] /\ b \in Span(k.lo, k.len) /\ Mine(r, k) /\ h = Hold(r, k.obj)
    BY DEF Trusted, Meant
  <2> QED BY <2>1, SameFacts, LockIs
<1> QED BY <1>1, <1>2, <1>3, <1>4

LEMMA SumKeeps ==
  ASSUME Trusted, NEW p \in Procs, NEW fd \in Fds, NEW q \in Calls, NEW sign \in {-1, 1},
         node' = [node EXCEPT ![p][fd] = Sum(node[p][fd], q, sign)],
         image' = image, menu' = menu
  PROVE  Same
<1>1. PICK n \in Nodes : n = node[p][fd]
  BY TypeFacts DEF Trusted, Tables
<1>2. PICK m \in Nodes : m = Sum(n, q, sign) /\ m.obj = n.obj
  BY SumTyped
<1>3. \A r \in Procs, g \in Fds : node'[r][g] = IF r = p /\ g = fd THEN m ELSE node[r][g]
  BY <1>1, <1>2, EntryIs DEF Trusted
<1> QED BY <1>1, <1>2, <1>3 DEF Same

\* What careful programs ask for.
Suits(p, q) ==
  /\ q \in Calls /\ q.at = "lock" /\ q.holder = Hold(p, node[p][q.fd].obj)
  /\ q.bytes = Span(q.lo, q.len) /\ q.bytes # {}
  /\ "flock" \in menu => q.lo = 0 /\ q.len = Word - 1
  /\ "flock" \notin menu /\ q.mode # "-" =>
       \A b \in Bytes : b \in q.bytes => told[q.holder][b] = "-"
  /\ "flock" \notin menu /\ q.mode = "-" => Matches(node[p][q.fd].obj, image[p], q) # {}

LEMMA Requesting ==
  ASSUME Trusted, Careful, NEW p \in Procs, NEW fd \in Fds, Opened(p, fd), Runs(p),
         NEW q, q \in Requests(p, fd), Sensible(p, q)
  PROVE  Suits(p, q) /\ q.fd = fd /\ Sole(p)
<1>1. /\ q \in Calls /\ q.at = "lock" /\ q.fd = fd /\ q.holder \in Holders
      /\ \/ /\ "fcntl" \in menu /\ q.holder = p
            /\ \E r \in Ranges : /\ q.bytes = Asked(r)
                                 /\ r[2] # 0 => /\ q.lo = r[1] /\ q.len = r[2]
                                                /\ q.bytes = Span(r[1], r[2])
         \/ /\ "flock" \in menu /\ q.holder = node[p][fd].obj
            /\ q.lo = 0 /\ q.len = Word - 1 /\ q.bytes = Bytes
  BY RequestTyped DEF Trusted
<1>2. PICK o \in Objects : o = node[p][fd].obj
  <2>1. PICK n \in Nodes : n = node[p][fd]
    BY TypeFacts DEF Trusted, Tables
  <2> QED BY <2>1 DEF Opened, Nodes
<1>3. Sole(p)
  <2>1. Live(p)
    BY DEF Runs
  <2>2. CASE "clean" \in menu
    BY <2>1, <2>2 DEF Sole, Sensible
  <2>3. CASE "clean" \notin menu
    BY <2>1, <2>3 DEF Sole, Trusted, Separate
  <2> QED BY <2>2, <2>3
<1>4. CASE "flock" \in menu
  <2>1. q.holder = o /\ q.lo = 0 /\ q.len = Word - 1 /\ q.bytes = Bytes
    BY <1>1, <1>2, <1>4, Menu DEF Trusted
  <2>2. Bytes = Span(0, Word - 1) /\ 0 \in Bytes
    BY Sizes DEF Span, Bytes
  <2>3. q.holder = Hold(p, o)
    BY <1>4, <2>1, HolderIs
  <2>4. Suits(p, q)
    BY <1>1, <1>2, <1>4, <2>1, <2>2, <2>3 DEF Suits
  <2> QED BY <1>1, <1>3, <2>4
<1>5. CASE "flock" \notin menu
  <2>1. q.holder = p /\ "apart" \in menu
    BY <1>1, <1>5, Menu DEF Trusted
  <2>2. q.holder = Hold(p, o)
    BY <1>5, <2>1, HolderIs
  <2>3. PICK r \in Ranges : q.lo = r[1] /\ q.len = r[2] /\ q.bytes = Span(r[1], r[2])
    BY <1>1, <1>5 DEF Careful
  <2>4. r[1] \in Bytes /\ r[2] \in Nat /\ r[2] # 0
    BY FileLocksAssumption DEF Careful, Bytes
  <2>5. r[1] \in Span(r[1], r[2])
    BY <2>4, Sizes DEF Span, Bytes
  <2>6. q.mode # "-" => \A b \in Bytes : b \in q.bytes => told[q.holder][b] = "-"
    BY <2>1 DEF Sensible
  <2>7. q.mode = "-" => Matches(node[p][q.fd].obj, image[p], q) # {}
    BY <2>1 DEF Sensible
  <2>8. Suits(p, q)
    BY <1>1, <1>2, <1>5, <2>2, <2>3, <2>5, <2>6, <2>7 DEF Suits
  <2> QED BY <1>1, <1>3, <2>8
<1> QED BY <1>4, <1>5

\* UnlockFileEx() takes the lock that its holder was told of, and no other.
LEMMA UnlockTrusted ==
  ASSUME Trusted, NEW p \in Procs, NEW fd \in Fds, Opened(p, fd), NEW q, Suits(p, q), q.fd = fd,
         Sole(p), Runs(p), file_F_SETLK(p, q)
  PROVE  /\ Same /\ Matched' /\ Disjoint' /\ Meant' /\ Kind(p)
         /\ q.mode # "-" => \A b \in Bytes : b \in q.bytes => told'[q.holder][b] = "-"
<1>1. /\ Requested(p, q)
      /\ \/ \E l \in Matches(node[p][fd].obj, image[p], q) : Unlocks(p, q, l)
         \/ /\ Matches(node[p][fd].obj, image[p], q) = {}
            /\ UNCHANGED <<lock, node>>
  BY SetLockSays
<1>2. /\ q \in Calls /\ q.bytes = Span(q.lo, q.len)
      /\ "flock" \in menu => q.lo = 0 /\ q.len = Word - 1
      /\ "flock" \notin menu /\ q.mode # "-" =>
           \A b \in Bytes : b \in q.bytes => told[q.holder][b] = "-"
      /\ "flock" \notin menu /\ q.mode = "-" => Matches(node[p][fd].obj, image[p], q) # {}
  BY DEF Suits
<1>3. PICK o \in Objects : o = node[p][fd].obj
  <2>1. PICK n \in Nodes : n = node[p][fd]
    BY TypeFacts DEF Trusted, Tables
  <2> QED BY <2>1 DEF Opened, Nodes
<1>4. q.holder = Hold(p, o)
  BY <1>3 DEF Suits
<1>5. Has(node[p], o)
  BY <1>3 DEF Has
<1>6. image' = image /\ menu' = menu
  BY <1>1 DEF Requested
<1>7. ASSUME NEW l \in lock, l.obj = o, l.img = image[p], l.lo = q.lo, l.len = q.len
      PROVE  Mine(p, l) /\ ("flock" \notin menu => q.mode = "-")
  <2>1. Mine(p, l)
    BY <1>5, <1>7 DEF Mine
  <2>2. PICK r \in Procs :
          /\ Mine(r, l)
          /\ \A b \in Bytes : b \in Span(l.lo, l.len) => told[Hold(r, l.obj)][b] = l.mode
    BY Owner
  <2>3. r = p
    BY <1>7, <2>2 DEF Mine, Sole
  <2>4. PICK b \in Bytes : b \in Span(l.lo, l.len)
    BY LockIs
  <2>5. told[q.holder][b] # "-" /\ b \in q.bytes
    BY <1>2, <1>4, <1>7, <2>2, <2>3, <2>4, LockIs
  <2> QED BY <1>2, <2>1, <2>5
<1>8. CASE \E l \in Matches(node[p][fd].obj, image[p], q) : Unlocks(p, q, l)
  <2>1. PICK l \in lock : /\ l.obj = o /\ l.img = image[p] /\ l.lo = q.lo /\ l.len = q.len
                          /\ Unlocks(p, q, l)
    BY <1>3, <1>8 DEF Matches
  <2>2. Mine(p, l) /\ ("flock" \notin menu => q.mode = "-")
    BY <1>7, <2>1
  <2>3. q.mode = "-" \/ q.holder \in Objects
    BY <1>4, <2>2, HolderIs
  <2>4. told' = Set(told, Hold(p, l.obj), Span(l.lo, l.len), "-")
    BY <1>1, <1>2, <1>4, <2>1, <2>3 DEF Requested
  <2>5. Drops(p, l)
    BY <2>1, <2>2, <2>4 DEF Drops, Unlocks
  <2>6. Same
    BY <1>2, <1>6, <2>1, SumKeeps DEF Unlocks
  <2>7. \A b \in Bytes : b \in q.bytes => told'[q.holder][b] = "-"
    BY <1>2, <1>4, <2>1, <2>5, DropsTold, HolderIs
  <2> QED BY <2>5, <2>6, <2>7, DropsTrusted
<1>9. CASE Matches(node[p][fd].obj, image[p], q) = {} /\ UNCHANGED <<lock, node>>
  <2>1. Same
    BY <1>6, <1>9 DEF Same
  <2>2. "flock" \in menu \/ q.mode # "-"
    BY <1>2, <1>9
  <2>3. CASE "flock" \notin menu
    <3>1. told' = told
      BY <1>1, <1>4, <2>2, <2>3, HolderIs DEF Requested
    <3> QED BY <1>2, <1>9, <2>1, <2>3, <3>1, KeepsTrusted
  <2>4. CASE "flock" \in menu
    <3>1. PICK h \in Holders : h = q.holder /\ h = o
      BY <1>4, <2>4, HolderIs
    <3>2. PICK t \in Tellings : t = told
      BY TypeFacts DEF Trusted
    <3>3. told' = Set(t, h, q.bytes, "-")
      BY <1>1, <3>1, <3>2 DEF Requested
    <3>4. \A g \in Holders, b \in Bytes :
            told'[g][b] = IF g = h /\ b \in q.bytes THEN "-" ELSE t[g][b]
      BY <3>3, SetTyped DEF Modes
    <3>5. \A b \in Bytes : told[h][b] = "-"
      <4> SUFFICES ASSUME NEW b \in Bytes, told[h][b] # "-" PROVE FALSE
        OBVIOUS
      <4>1. PICK l \in lock, r \in Procs : Mine(r, l) /\ h = Hold(r, l.obj)
        BY DEF Trusted, Meant
      <4>2. l.obj = o
        BY <2>4, <3>1, <4>1, LockIs, HolderIs
      <4>3. r = p
        BY <1>5, <2>4, <4>1, <4>2, OwnObject DEF Mine
      <4>4. l.img = image[p] /\ l.lo = q.lo /\ l.len = q.len
        BY <1>2, <2>4, <4>1, <4>3 DEF Mine, Trusted, Matched
      <4> QED BY <1>3, <1>9, <4>2, <4>4 DEF Matches
    <3>6. \A g \in Holders, b \in Bytes : told'[g][b] = told[g][b]
      BY <3>2, <3>4, <3>5
    <3> QED BY <1>9, <2>1, <3>1, <3>5, <3>6, KeepsTrusted
  <2> QED BY <2>3, <2>4
<1> QED BY <1>1, <1>8, <1>9

LEMMA SetLockTrusted ==
  ASSUME Trusted, Careful, NEW p \in Procs, SetLock(p)
  PROVE  Separate' /\ Asking' /\ Matched' /\ Disjoint' /\ Meant'
<1>1. PICK fd \in Fds :
        /\ Opened(p, fd)
        /\ \E q \in Requests(p, fd) : Sensible(p, q) /\ file_F_SETLK(p, q)
  BY DEF SetLock
<1>2. PICK q : q \in Requests(p, fd) /\ Sensible(p, q) /\ file_F_SETLK(p, q)
  BY <1>1
<1>3. Runs(p) /\ Requested(p, q)
  BY <1>2, SetLockSays
<1>4. Suits(p, q) /\ q.fd = fd /\ Sole(p)
  BY <1>1, <1>2, <1>3, Requesting
<1>5. /\ Same /\ Matched' /\ Disjoint' /\ Meant' /\ Kind(p)
      /\ q.mode # "-" => \A b \in Bytes : b \in q.bytes => told'[q.holder][b] = "-"
  BY <1>1, <1>2, <1>3, <1>4, UnlockTrusted
<1>6. q \in Calls /\ q.holder \in Holders
  BY <1>1, <1>2, RequestTyped DEF Trusted
<1>7. call' = [call EXCEPT ![p] = IF q.mode = "-" THEN NoCall ELSE q]
  BY <1>3, <1>6, RequestedTyped DEF Trusted
<1>8. Others(p) /\ call'[p] = IF q.mode = "-" THEN NoCall ELSE q
  BY <1>7, TypeFacts DEF Trusted, Others
<1>9. Separate'
  BY <1>4, <1>5, <1>8, SameSeparate
<1>10. call'[p].at # "run" => Fit(p, call[p])'
  <2> SUFFICES ASSUME call'[p].at # "run" PROVE Fit(p, call[p])'
    OBVIOUS
  <2>1. call'[p] = q /\ q.mode \in {"r", "w"}
    BY <1>6, <1>8 DEF NoCall, Calls, Modes
  <2>2. menu' = menu /\ node'[p][q.fd].obj = node[p][q.fd].obj
    BY <1>4, <1>5 DEF Same
  <2>3. /\ q.holder = Hold(p, node[p][q.fd].obj)
        /\ q.bytes = Span(q.lo, q.len) /\ q.bytes # {}
        /\ "flock" \in menu => q.lo = 0 /\ q.len = Word - 1
    BY <1>4 DEF Suits
  <2>4. Fit(p, q)'
    <3>1. q.holder = Hold(p, node[p][q.fd].obj)'
      BY <2>2, <2>3 DEF Hold
    <3>2. \A b \in q.bytes : told'[q.holder][b] = "-"
      BY <1>5, <2>1, <2>3 DEF Span
    <3> QED BY <2>1, <2>2, <2>3, <3>1, <3>2 DEF Fit
  <2> QED BY <2>1, <2>4
<1>11. Asking'
  BY <1>5, <1>8, <1>10, SameAsking
<1> QED BY <1>5, <1>9, <1>11

\* What a process in LockFileEx() waits for.
LEMMA Waiting ==
  ASSUME Trusted, NEW p \in Procs, call[p].at # "run"
  PROVE  /\ Sole(p) /\ Fit(p, call[p]) /\ LockOf(p) \in Lockings /\ Mine(p, LockOf(p))
         /\ call[p].fd \in Fds /\ call[p] \in Calls
         /\ call[p].holder = Hold(p, LockOf(p).obj)
         /\ call[p].bytes = Span(LockOf(p).lo, LockOf(p).len)
<1>1. PICK q \in Calls : q = call[p]
  BY TypeFacts DEF Trusted
<1>2. PICK n \in Nodes : n = node[p][q.fd]
  BY TypeFacts DEF Trusted, Tables, Calls
<1>3. n.obj \in Objects /\ q.fd \in Fds /\ Live(p) /\ image[p] \in Images
  BY <1>1, <1>2, TypeFacts DEF Trusted, Opened, Nodes, Calls, NoCall, Live
<1>4. Fit(p, q)
  BY <1>1 DEF Trusted, Asking
<1>5. Sole(p)
  BY <1>3, Alone DEF Sole
<1>6. LockOf(p) \in Lockings
  BY <1>1, <1>2, <1>3, <1>4 DEF LockOf, Lockings, Calls, Fit
<1>7. Has(node[p], n.obj)
  BY <1>2, <1>3 DEF Has
<1> QED BY <1>1, <1>2, <1>3, <1>4, <1>5, <1>6, <1>7 DEF LockOf, Mine, Fit

LEMMA GetsTrusted ==
  ASSUME Trusted, NEW p \in Procs, call[p].at # "run", Gets(p)
  PROVE  Separate' /\ Asking' /\ Matched' /\ Disjoint' /\ Meant'
<1>1. PICK q \in Calls : q = call[p]
  BY TypeFacts DEF Trusted
<1>2. PICK l \in Lockings : l = LockOf(p)
  BY Waiting
<1>3. /\ lock' = lock \cup {l}
      /\ node' = [node EXCEPT ![p][q.fd] = Sum(node[p][q.fd], q, 1)]
      /\ told' = Set(told, q.holder, q.bytes, q.mode)
      /\ call' = [call EXCEPT ![p] = NoCall] /\ image' = image /\ menu' = menu
  BY <1>1, <1>2 DEF Gets, LockOf
<1>4. /\ Sole(p) /\ Fit(p, q) /\ Mine(p, l) /\ q.fd \in Fds
      /\ q.holder = Hold(p, l.obj) /\ q.bytes = Span(l.lo, l.len)
  BY <1>1, <1>2, Waiting
<1>5. l.lo = q.lo /\ l.len = q.len /\ l.mode = q.mode
  BY <1>1, <1>2 DEF LockOf
<1>6. Adds(p, l)
  BY <1>3, <1>4, <1>5 DEF Adds, Fit
<1>7. Same
  BY <1>3, <1>4, SumKeeps
<1>8. Matched' /\ Disjoint' /\ Meant' /\ Kind(p)
  BY <1>4, <1>6, <1>7, AddsTrusted
<1>9. Others(p) /\ call'[p].at = "run"
  BY <1>3, TypeFacts DEF Trusted, Others, NoCall
<1> QED BY <1>4, <1>7, <1>8, <1>9, SameSeparate, SameAsking

LEMMA LockFileExTrusted ==
  ASSUME Trusted, NEW p \in Procs, LockFileEx(p)
  PROVE  Separate' /\ Asking' /\ Matched' /\ Disjoint' /\ Meant'
<1>1. call[p].at # "run"
  BY DEF LockFileEx
<1>2. CASE Gets(p)
  BY <1>1, <1>2, GetsTrusted
<1>3. CASE ~Gets(p)
  <2>1. PICK q \in Calls : q = call[p]
    BY TypeFacts DEF Trusted
  <2>2. /\ UNCHANGED <<image, node, lock, told, menu>>
        /\ \/ call' = [call EXCEPT ![p].at = "wait"]
           \/ call' = [call EXCEPT ![p] = NoCall]
    BY <1>3 DEF LockFileEx
  <2>3. Same
    BY <2>2 DEF Same
  <2>4. Matched' /\ Disjoint' /\ Meant' /\ Kind(p)
    BY <2>2, <2>3, KeepsTrusted
  <2>5. Others(p) /\ call'[p] \in {NoCall, [q EXCEPT !.at = "wait"]}
    BY <2>1, <2>2, TypeFacts DEF Trusted, Others
  <2>6. Sole(p) /\ Fit(p, q)
    BY <1>1, <2>1, Waiting
  <2>7. Separate'
    BY <2>3, <2>4, <2>5, <2>6, SameSeparate
  <2>8. call'[p].at # "run" => Fit(p, call[p])'
    <3> SUFFICES ASSUME call'[p].at # "run" PROVE Fit(p, call[p])'
      OBVIOUS
    <3>1. PICK c : c = [q EXCEPT !.at = "wait"]
      OBVIOUS
    <3>2. call'[p] = c
      BY <2>5, <3>1 DEF NoCall
    <3>3. /\ c.mode = q.mode /\ c.bytes = q.bytes /\ c.lo = q.lo /\ c.len = q.len
          /\ c.holder = q.holder /\ c.fd = q.fd
      BY <3>1 DEF Calls
    <3>4. Fit(p, c)
      BY <2>6, <3>3 DEF Fit
    <3>5. Fit(p, c)'
      BY <2>2, <3>4 DEF Fit, Hold
    <3> QED BY <3>2, <3>5
  <2>9. Asking'
    BY <2>3, <2>4, <2>5, <2>8, SameAsking
  <2> QED BY <2>4, <2>7, <2>9
<1> QED BY <1>2, <1>3

-----------------------------------------------------------------------------
(* What programs can trust *)

LEMMA TrustedInit == Init => Trusted
<1> SUFFICES ASSUME Init PROVE Trusted
  OBVIOUS
<1>1. /\ lock = {} /\ menu \in Menus
      /\ \A p \in Procs : /\ image[p] = None /\ call[p] = NoCall
                          /\ \A fd \in Fds : node[p][fd] = NoNode
      /\ \A h \in Holders, b \in Bytes : told[h][b] = "-"
  BY DEF Init, Nothing
<1>2. TypeOK /\ Busy
  BY TypeInit
<1>3. \A p \in Procs : ~Live(p) /\ call[p].at = "run"
  BY <1>1 DEF Live, NoCall
<1>4. \A p \in Procs, fd \in Fds : ~Opened(p, fd)
  BY <1>1 DEF Opened, NoNode
<1>5. \A p \in Procs, o \in Objects : ~Has(node[p], o)
  BY <1>4, Sizes DEF Has, Opened
<1>6. Separate
  BY <1>3, <1>4, <1>5 DEF Separate
<1>7. Asking /\ Matched /\ Disjoint /\ Meant
  BY <1>1, <1>3 DEF Asking, Matched, Disjoint, Meant
<1> QED BY <1>2, <1>6, <1>7 DEF Trusted

LEMMA TrustedStep == ASSUME Careful PROVE Trusted /\ [Next]_vars => Trusted'
<1> SUFFICES ASSUME Trusted, [Next]_vars PROVE Trusted'
  OBVIOUS
<1>1. TypeOK' /\ Busy'
  BY TypeStep DEF Trusted
<1>2. ASSUME Separate' /\ Unmoved PROVE Trusted'
  BY <1>1, <1>2, Unmoving DEF Trusted
<1>3. ASSUME Separate' /\ Asking' /\ Matched' /\ Disjoint' /\ Meant' PROVE Trusted'
  BY <1>1, <1>3 DEF Trusted
<1>4. CASE UNCHANGED vars
  <2>1. Separate' /\ Unmoved
    BY <1>4 DEF vars, Trusted, Separate, Unmoved, Live, Opened, Has, Mine
  <2> QED BY <1>2, <2>1
<1>5. ASSUME NEW p \in Procs,
             \/ Start(p) \/ Open(p) \/ Execve(p)
             \/ \E fd \in Fds : Dup(p, fd)
             \/ \E c \in Procs : Fork(p, c)
      PROVE  Trusted'
  BY <1>2, <1>5, StartTrusted, OpenTrusted, ExecveTrusted, DupTrusted, ForkTrusted
<1>6. ASSUME NEW p \in Procs, Exit(p) \/ \E fd \in Fds : Close(p, fd)
      PROVE  Trusted'
  BY <1>3, <1>6, ExitLeaves, CloseLeaves, LeavesTrusted
<1>7. ASSUME NEW p \in Procs, SetLock(p) \/ LockFileEx(p) \/ Granted(p) PROVE Trusted'
  <2>1. Granted(p) => Gets(p) /\ call[p].at # "run"
    BY DEF Granted
  <2> QED BY <1>3, <1>7, <2>1, SetLockTrusted, LockFileExTrusted, GetsTrusted
<1> QED BY <1>4, <1>5, <1>6, <1>7 DEF Next

LEMMA AlwaysTrusted == ASSUME Careful PROVE Spec => []Trusted
  BY TrustedInit, TrustedStep, PTL DEF Spec

LEMMA TrustedBacked == Trusted => Backed /\ Known
<1> SUFFICES ASSUME Trusted PROVE Backed /\ Known
  OBVIOUS
<1>1. \A l \in lock, p \in Procs : Mine(p, l) => Locker(Hold(p, l.obj), l)
  BY DEF Mine, Locker, Hold
<1>2. Backed
  <2> SUFFICES ASSUME NEW h \in Holders, NEW b \in Bytes, told[h][b] # "-"
               PROVE  \E l \in lock : /\ l.mode = told[h][b] /\ b \in Span(l.lo, l.len)
                                      /\ Locker(h, l)
    BY DEF Backed
  <2>1. PICK l \in lock, p \in Procs :
          l.mode = told[h][b] /\ b \in Span(l.lo, l.len) /\ Mine(p, l) /\ h = Hold(p, l.obj)
    BY DEF Trusted, Meant
  <2> QED BY <1>1, <2>1
<1>3. Known
  <2> SUFFICES ASSUME NEW l \in lock, NEW b \in Bytes, b \in Span(l.lo, l.len)
               PROVE  \E h \in Holders : told[h][b] # "-" /\ Locker(h, l)
    BY DEF Known
  <2>1. PICK r \in Procs :
          /\ Mine(r, l)
          /\ \A c \in Bytes : c \in Span(l.lo, l.len) => told[Hold(r, l.obj)][c] = l.mode
    BY Owner
  <2>2. Hold(r, l.obj) \in Holders /\ told[Hold(r, l.obj)][b] # "-"
    BY <2>1, LockIs, HolderIs
  <2> QED BY <1>1, <2>1, <2>2
<1> QED BY <1>2, <1>3

\* What a careful program was told to have, Windows has locked: no close(), exit,
\* fork(), execve() or lock of another process takes it away (file_F_SETLK,
\* file_close, ProcDupChannels, ProcInheritChannels, posix_PROCESS_DETACH).
THEOREM LocksBacked == ASSUME Careful PROVE Spec => []Backed
  BY AlwaysTrusted, TrustedBacked, PTL

\* Every lock that keeps others out is known to a careful program that can unlock
\* it: UnlockFileEx() before each LockFileEx(), close() and exit leave no other.
THEOREM NoneLeftBehind == ASSUME Careful PROVE Spec => []Known
  BY AlwaysTrusted, TrustedBacked, PTL

\* LockFileEx() grants only what no other holder was told to have.
LEMMA GetsPosix ==
  ASSUME Trusted, NEW p \in Procs, call[p].at # "run", Gets(p)
  PROVE  \E h \in Holders, B \in SUBSET Bytes, m \in {"r", "w"} : Posix!Lock(h, B, m)
<1>1. PICK q \in Calls : q = call[p]
  BY TypeFacts DEF Trusted
<1>2. PICK l \in Lockings : l = LockOf(p)
  BY Waiting
<1>3. /\ Sole(p) /\ Fit(p, q) /\ Mine(p, l)
      /\ q.holder = Hold(p, l.obj) /\ q.bytes = Span(l.lo, l.len)
  BY <1>1, <1>2, Waiting
<1>4. PICK o \in Objects : o = l.obj
  BY DEF Lockings
<1>5. PICK h \in Holders : h = q.holder /\ h = Hold(p, o)
  BY <1>3, <1>4, HolderIs
<1>6. q.bytes \in SUBSET Bytes /\ q.mode \in {"r", "w"}
  BY <1>3 DEF Fit, Calls
<1>7. l.obj = node[p][q.fd].obj /\ l.img = image[p] /\ q.bytes = Span(q.lo, q.len)
  BY <1>1, <1>2, <1>3 DEF LockOf, Fit
<1>8. ASSUME NEW b \in q.bytes, NEW g \in Holders \ {h}
      PROVE  ~Posix!Conflicts(q.mode, told[g][b])
  <2> SUFFICES ASSUME told[g][b] # "-", "w" \in {q.mode, told[g][b]} PROVE FALSE
    BY DEF Posix!Conflicts
  <2>1. PICK k \in lock, r \in Procs :
          k.mode = told[g][b] /\ b \in Span(k.lo, k.len) /\ Mine(r, k) /\ g = Hold(r, k.obj)
    BY <1>6 DEF Trusted, Meant
  <2>2. PICK u \in Objects : u = k.obj
    BY LockIs
  <2>3. <<k.obj, k.img>> # <<l.obj, l.img>>
    <3> SUFFICES ASSUME k.obj = l.obj, k.img = l.img PROVE FALSE
      OBVIOUS
    <3>1. r = p
      BY <1>3, <1>7, <2>1 DEF Sole, Mine
    <3> QED BY <1>4, <1>5, <2>1, <3>1
  <2>4. Span(k.lo, k.len) \cap Span(q.lo, q.len) # {}
    BY <1>7, <2>1
  <2>5. Conflict(k, node[p][call[p].fd].obj, image[p], call[p])
    BY <1>1, <1>7, <2>1, <2>3, <2>4 DEF Conflict
  <2> QED BY <2>5 DEF Gets, Obstructed
<1>9. told' = [told EXCEPT ![h] = [b \in Bytes |-> IF b \in q.bytes THEN q.mode ELSE told[h][b]]]
  BY <1>1, <1>5 DEF Gets, Set
<1>10. Posix!Lock(h, q.bytes, q.mode)
  BY <1>8, <1>9 DEF Posix!Lock
<1> QED BY <1>6, <1>10

LEMMA PosixStep == Trusted /\ TypeOK' /\ [Next]_vars => [Posix!Next]_told
<1> SUFFICES ASSUME Trusted, TypeOK', [Next]_vars PROVE [Posix!Next]_told
  OBVIOUS
<1>1. told' \in Tellings
  BY DEF TypeOK, Tellings
<1>2. ASSUME \A h \in Holders, b \in Bytes : told'[h][b] \in {"-", told[h][b]}
      PROVE  [Posix!Next]_told
  BY <1>1, <1>2 DEF Posix!Next, Posix!Unlock, Tellings, Modes
<1>3. ASSUME NEW p \in Procs, Gets(p), call[p].at # "run" PROVE [Posix!Next]_told
  BY <1>3, GetsPosix DEF Posix!Next
<1>4. CASE UNCHANGED vars
  BY <1>4 DEF vars
<1>5. ASSUME NEW p \in Procs,
             \/ Start(p) \/ Open(p) \/ Execve(p)
             \/ \E fd \in Fds : Dup(p, fd)
             \/ \E c \in Procs : Fork(p, c)
      PROVE  [Posix!Next]_told
  BY <1>5 DEF Start, Open, Execve, Dup, Fork
<1>6. ASSUME NEW p \in Procs, Exit(p) \/ \E fd \in Fds : Close(p, fd)
      PROVE  [Posix!Next]_told
  <2>1. Leaves(p)
    BY <1>6, ExitLeaves, CloseLeaves
  <2> QED BY <1>2, <2>1, LeftTold
<1>7. ASSUME NEW p \in Procs, SetLock(p) PROVE [Posix!Next]_told
  <2>1. PICK fd \in Fds :
          /\ Opened(p, fd)
          /\ \E q \in Requests(p, fd) : Sensible(p, q) /\ file_F_SETLK(p, q)
    BY <1>7 DEF SetLock
  <2>2. PICK q : q \in Requests(p, fd) /\ file_F_SETLK(p, q)
    BY <2>1
  <2>3. q.holder \in Holders
    BY <2>1, <2>2, RequestTyped DEF Trusted
  <2>4. PICK t \in Tellings, h \in Holders : t = told /\ h = q.holder
    BY <2>3, TypeFacts DEF Trusted
  <2>5. told' = told \/ told' = Set(t, h, q.bytes, "-")
    BY <2>2, <2>4, SetLockSays DEF Requested
  <2>6. \A g \in Holders, b \in Bytes : told'[g][b] \in {"-", told[g][b]}
    BY <2>4, <2>5, SetTyped DEF Modes
  <2> QED BY <1>2, <2>6
<1>8. ASSUME NEW p \in Procs, LockFileEx(p) \/ Granted(p) PROVE [Posix!Next]_told
  <2>1. call[p].at # "run" /\ (Gets(p) \/ told' = told)
    BY <1>8 DEF LockFileEx, Granted
  <2> QED BY <1>3, <2>1
<1> QED BY <1>4, <1>5, <1>6, <1>7, <1>8 DEF Next

\* fcntl() and flock() are AdvisoryLocks to careful programs: a lock is told of
\* only when no other holder was told of one that conflicts, and goes only when
\* its holder unlocks, closes or exits (fcntl_F_SETLK, sys_flock, file_F_SETLK).
THEOREM LocksPosix == ASSUME Careful PROVE Spec => ActsPosix
<1>1. Init => Posix!Init
  BY DEF Init, Posix!Init, Nothing
<1>2. Trusted => TypeOK
  BY DEF Trusted
<1> QED BY <1>1, <1>2, AlwaysTrusted, PosixStep, PTL DEF Spec, ActsPosix, Posix!Spec

\* So no two holders are told that they have a byte, one of them to write it:
\* F_WRLCK of fcntl() and LOCK_EX of flock() keep careful programs apart.
THEOREM LocksExclusive == ASSUME Careful PROVE Spec => []Posix!Exclusive
  BY LocksPosix, Posix!Exclusion, PTL DEF ActsPosix

==============================================================================
