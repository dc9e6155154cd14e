------------------------------ MODULE FileLocks ------------------------------
(***************************************************************************)
(* fcntl(F_SETLK) and flock() on one file.  Both are UnlockFileEx() and    *)
(* LockFileEx() of the same range, one after the other.  To Windows a lock *)
(* belongs to a file object, which open() makes and dup() and fork() share,*)
(* in a Win32 process, which fork() shares and execve() leaves; it is gone *)
(* with the last handle of the object in that process.  An entry of Node[] *)
(* remembers its locks by two sums.                                        *)
(***************************************************************************)
EXTENDS Integers, FiniteSets

CONSTANTS
  Procs,    \* processes
  MaxFd,    \* the last descriptor (bound)
  MaxObj,   \* opens of the file at one time (bound)
  MaxByte,  \* the last byte of the file
  Word,     \* DWORDLONG counts modulo this (bound: 2^64 in the code)
  Ranges,   \* <<l_start, l_len>> of the programs' requests
  Menus     \* which programs run: sets of the calls they make, "fcntl",
            \* "flock", "dup", "fork", "exec", and of how they make them:
            \* "wait" (F_SETLKW, flock() without LOCK_NB), "reopen" (a process
            \* opens the file twice), "single" (a process that has a lock asks
            \* for no other), "apart" (nor for bytes it has; it unlocks ranges
            \* it has locked), "clean" (a process forks and executes while it
            \* has no lock, and locks while its Win32 process is its own)

ASSUME FileLocksAssumption ==
  /\ {MaxFd, MaxObj, MaxByte, Word} \subseteq Nat /\ Word > MaxByte + 1
  /\ Ranges \subseteq (0 .. MaxByte) \X (0 .. MaxByte + 1)
  /\ Procs \cap Int = {}

Fds == 0 .. MaxFd
Objects == 1 .. MaxObj
Bytes == 0 .. MaxByte
Images == 1 .. Cardinality(Procs)
None == 0
Holders == Procs \cup Objects

VARIABLES
  image,  \* the Win32 process a process is a thread of, or None
  node,   \* Node[] of each process
  lock,   \* the locks Windows has
  call,   \* the lock a process is in LockFileEx() for
  told,   \* what the results of the calls say a holder has of each byte
  menu    \* the calls the programs make

vars == <<image, node, lock, call, told, menu>>

NoNode == [obj |-> None, region |-> 0, size |-> 0]
NoCall == [at |-> "run", fd |-> 0, lo |-> 0, len |-> 0, mode |-> "-",
           wait |-> FALSE, holder |-> None, bytes |-> {}]
Nothing == [b \in Bytes |-> "-"]

Live(p) == image[p] # None
Opened(p, fd) == node[p][fd].obj # None
Has(n, o) == \E fd \in Fds : n[fd].obj = o
Runs(p) == Live(p) /\ call[p].at = "run"

Span(lo, len) == {b \in Bytes : lo <= b /\ b < lo + len}
HasLock(p) ==
  \E h \in {p} \cup ({node[p][fd].obj : fd \in Fds} \ {None}) : told[h] # Nothing
Posix == INSTANCE AdvisoryLocks WITH held <- told

-----------------------------------------------------------------------------
(* Windows. *)

\* Mutant: only exclusive locks keep each other out.
Conflict_both(l, o, i, q) ==
  /\ Span(l.lo, l.len) \cap Span(q.lo, q.len) # {}
  /\ q.mode = "w" /\ l.mode = "w"
\* LockFileEx(): an exclusive lock overlaps no lock, a shared one no exclusive
\* one but the owner's.
Conflict(l, o, i, q) ==
  /\ Span(l.lo, l.len) \cap Span(q.lo, q.len) # {}
  /\ \/ q.mode = "w"
     \/ l.mode = "w" /\ <<l.obj, l.img>> # <<o, i>>
Obstructed(p) ==
  \E l \in lock : Conflict(l, node[p][call[p].fd].obj, image[p], call[p])

\* UnlockFileEx() finds a lock of exactly this range and owner.
Matches(o, i, q) == {l \in lock : l.obj = o /\ l.img = i /\ l.lo = q.lo /\ l.len = q.len}

\* Calls on a file object that was not opened for overlapped operation wait
\* for each other.
InUse(p, fd) == \E r \in Procs \ {p} : call[r].at = "wait"
                                       /\ node[r][call[r].fd].obj = node[p][fd].obj

\* The locks that outlive a change of the descriptors to n, in images i.
Kept(n, i) == {l \in lock : \E p \in Procs : i[p] = l.img /\ Has(n[p], l.obj)}
\* A file that nobody has open any longer is not locked by flock().
Forgotten(n, i, t) ==
  [h \in Holders |->
     IF h \in Objects /\ (\A p \in Procs : i[p] # None => ~Has(n[p], h)) THEN Nothing
     ELSE t[h]]

-----------------------------------------------------------------------------
(* Descriptors. *)

\* A process of another origin.
Start(p) ==
  \E i \in Images :
    /\ ~Live(p) /\ \A r \in Procs : image[r] # i
    /\ \A j \in 1 .. (i - 1) : \E r \in Procs : image[r] = j
    /\ image' = [image EXCEPT ![p] = i]
    /\ UNCHANGED <<node, lock, call, told, menu>>

Open(p) ==
  \E fd \in Fds, o \in Objects :
    /\ Runs(p) /\ ~Opened(p, fd)
    /\ "reopen" \in menu \/ \A f \in Fds : ~Opened(p, f)
    /\ \A f \in 0 .. (fd - 1) : Opened(p, f)
    /\ \A r \in Procs : ~Has(node[r], o)
    /\ \A u \in 1 .. (o - 1) : \E r \in Procs : Has(node[r], u)
    /\ node' = [node EXCEPT ![p][fd] = [NoNode EXCEPT !.obj = o]]
    /\ UNCHANGED <<image, lock, call, told, menu>>

\* The copy has the sums of the original.
Dup(p, fd) ==
  \E new \in Fds :
    /\ "dup" \in menu /\ Runs(p) /\ Opened(p, fd) /\ ~Opened(p, new)
    /\ \A f \in 0 .. (new - 1) : Opened(p, f)
    /\ node' = [node EXCEPT ![p][new] = node[p][fd]]
    /\ UNCHANGED <<image, lock, call, told, menu>>

Fork(p, c) ==
  /\ "fork" \in menu /\ Runs(p) /\ ~Live(c)
  /\ "clean" \in menu => ~HasLock(p)
  /\ image' = [image EXCEPT ![c] = image[p]]
  /\ node' = [node EXCEPT ![c] = node[p]]
  /\ UNCHANGED <<lock, call, told, menu>>

\* The handles move to a new Win32 process.
Execve(p) ==
  \E i \in Images :
    /\ "exec" \in menu /\ Runs(p)
    /\ "clean" \in menu => ~HasLock(p)
    /\ \A r \in Procs : image[r] # i
    /\ \A j \in 1 .. (i - 1) : \E r \in Procs : image[r] = j
    /\ image' = [image EXCEPT ![p] = i]
    /\ lock' = Kept(node, image')
    /\ UNCHANGED <<node, call, told, menu>>

\* Mutant: closing a descriptor unlocks the file object.
Close_unlock(p, fd) ==
  /\ Runs(p) /\ Opened(p, fd)
  /\ node' = [node EXCEPT ![p][fd] = NoNode]
  /\ lock' = {l \in lock : l.obj # node[p][fd].obj}
  /\ told' = Forgotten(node', image, [told EXCEPT ![p] = Nothing])
  /\ UNCHANGED <<image, call, menu>>

\* With any descriptor of the file fcntl()'s locks go.
Close(p, fd) ==
  /\ Runs(p) /\ Opened(p, fd)
  /\ node' = [node EXCEPT ![p][fd] = NoNode]
  /\ lock' = Kept(node', image)
  /\ told' = Forgotten(node', image, [told EXCEPT ![p] = Nothing])
  /\ UNCHANGED <<image, call, menu>>

Exit(p) ==
  /\ Runs(p)
  /\ image' = [image EXCEPT ![p] = None]
  /\ node' = [node EXCEPT ![p] = [fd \in Fds |-> NoNode]]
  /\ lock' = Kept(node', image')
  /\ told' = Forgotten(node', image', [told EXCEPT ![p] = Nothing])
  /\ UNCHANGED <<call, menu>>

-----------------------------------------------------------------------------
(* Locks. *)

\* Mutants: sums without a word's width; sums that only grow.
Sum_wide(n, q, sign) ==
  [n EXCEPT !.region = @ + sign * q.lo * q.len, !.size = @ + sign * q.len]
Sum_grows(n, q, sign) ==
  [n EXCEPT !.region = (@ + q.lo * q.len) % Word, !.size = (@ + q.len) % Word]
\* LockRegion and LockSize.
Sum(n, q, sign) ==
  [n EXCEPT !.region = (@ + sign * q.lo * q.len) % Word,
            !.size = (@ + sign * q.len) % Word]

Set(t, h, B, m) == [t EXCEPT ![h] = [b \in Bytes |-> IF b \in B THEN m ELSE t[h][b]]]

\* What fcntl() is asked for.  A length of zero is all that follows, to the
\* caller; to the code it is what the sums say, if they say anything.
Asked(r) == IF r[2] = 0 THEN r[1] .. MaxByte ELSE Span(r[1], r[2])
fcntl_F_SETLK(p, fd, r, m, w) ==
  LET n == node[p][fd]
      sums == r[2] = 0 /\ n.size # 0
  IN [NoCall EXCEPT !.at = "lock", !.fd = fd, !.mode = m, !.wait = w, !.holder = p,
                    !.lo = IF sums THEN n.region \div n.size ELSE r[1],
                    !.len = IF sums THEN n.size ELSE r[2],
                    !.bytes = Asked(r)]

\* flock() locks 2^64 - 1 bytes.
sys_flock(p, fd, m, w) ==
  [NoCall EXCEPT !.at = "lock", !.fd = fd, !.mode = m, !.wait = w,
                 !.holder = node[p][fd].obj, !.len = Word - 1, !.bytes = Bytes]

Modes == {"-", "r", "w"}
Waits == IF "wait" \in menu THEN {TRUE} ELSE {FALSE}
Requests(p, fd) ==
  (IF "fcntl" \in menu
   THEN {fcntl_F_SETLK(p, fd, r, m, w) : r \in Ranges, m \in Modes, w \in Waits} ELSE {})
  \cup
  (IF "flock" \in menu THEN {sys_flock(p, fd, m, w) : m \in Modes, w \in Waits} ELSE {})

\* How the programs of the menu use the calls.
Sensible(p, q) ==
  LET mine == {b \in Bytes : told[q.holder][b] # "-"}
  IN /\ "clean" \in menu => \A r \in Procs \ {p} : image[r] # image[p]
     /\ IF q.mode = "-"
        THEN "apart" \in menu => Matches(node[p][q.fd].obj, image[p], q) # {}
        ELSE /\ "single" \in menu => mine = {}
             /\ "apart" \in menu => mine \cap q.bytes = {}

\* Mutant: an exclusive lock is asked for on top of the one there is.
file_F_SETLK_over(p, q) ==
  LET n == node[p][q.fd]
      found == IF q.mode = "w" THEN {} ELSE Matches(n.obj, image[p], q)
  IN /\ Runs(p) /\ ~InUse(p, q.fd)
     /\ \/ \E l \in found : /\ lock' = lock \ {l}
                            /\ node' = [node EXCEPT ![p][q.fd] = Sum(n, q, -1)]
        \/ found = {} /\ UNCHANGED <<lock, node>>
     /\ call' = IF q.mode = "-" THEN call ELSE [call EXCEPT ![p] = q]
     /\ told' = IF q.mode = "-" \/ (q.mode = "r" /\ q.holder \in Objects)
                THEN Set(told, q.holder, q.bytes, "-") ELSE told
     /\ UNCHANGED <<image, menu>>

\* Mutant: LOCK_UN has an offset and a size of zero.
file_F_SETLK_zero(p, q) ==
  LET n == node[p][q.fd]
      found == IF q.mode = "-" THEN Matches(n.obj, image[p], [q EXCEPT !.len = 0])
               ELSE Matches(n.obj, image[p], q)
  IN /\ Runs(p) /\ ~InUse(p, q.fd)
     /\ \/ \E l \in found : /\ lock' = lock \ {l}
                            /\ node' = [node EXCEPT ![p][q.fd] = Sum(n, q, -1)]
        \/ found = {} /\ UNCHANGED <<lock, node>>
     /\ call' = IF q.mode = "-" THEN call ELSE [call EXCEPT ![p] = q]
     /\ told' = IF q.mode = "-" \/ q.holder \in Objects
                THEN Set(told, q.holder, q.bytes, "-") ELSE told
     /\ UNCHANGED <<image, menu>>

\* UnlockFileEx().  That nothing was locked is not a failure.  flock() may lose
\* the lock it converts, fcntl() may not.
file_F_SETLK(p, q) ==
  LET n == node[p][q.fd]
      found == Matches(n.obj, image[p], q)
  IN /\ Runs(p) /\ ~InUse(p, q.fd)
     /\ \/ \E l \in found : /\ lock' = lock \ {l}
                            /\ node' = [node EXCEPT ![p][q.fd] = Sum(n, q, -1)]
        \/ found = {} /\ UNCHANGED <<lock, node>>
     /\ call' = IF q.mode = "-" THEN call ELSE [call EXCEPT ![p] = q]
     /\ told' = IF q.mode = "-" \/ q.holder \in Objects
                THEN Set(told, q.holder, q.bytes, "-") ELSE told
     /\ UNCHANGED <<image, menu>>

\* LockFileEx() returns: it has the lock.
Gets(p) ==
  LET q == call[p]
      o == node[p][q.fd].obj
  IN /\ ~Obstructed(p)
     /\ lock' = lock \cup {[obj |-> o, img |-> image[p], lo |-> q.lo, len |-> q.len,
                            mode |-> q.mode]}
     /\ node' = [node EXCEPT ![p][q.fd] = Sum(node[p][q.fd], q, 1)]
     /\ told' = Set(told, q.holder, q.bytes, q.mode)
     /\ call' = [call EXCEPT ![p] = NoCall]
     /\ UNCHANGED <<image, menu>>

LockFileEx(p) ==
  /\ call[p].at = "lock" /\ ~InUse(p, call[p].fd)
  /\ \/ Gets(p)
     \/ /\ Obstructed(p)
        /\ call' = IF call[p].wait THEN [call EXCEPT ![p].at = "wait"]
                   ELSE [call EXCEPT ![p] = NoCall]
        /\ UNCHANGED <<image, node, lock, told, menu>>

Granted(p) == call[p].at = "wait" /\ Gets(p)

\* F_GETLK.
fcntl_F_GETLK(n) == IF n.size = 0 THEN <<>> ELSE <<n.region \div n.size, n.size>>

-----------------------------------------------------------------------------
Init ==
  /\ image = [p \in Procs |-> None]
  /\ node = [p \in Procs |-> [fd \in Fds |-> NoNode]]
  /\ lock = {}
  /\ call = [p \in Procs |-> NoCall]
  /\ told = [h \in Holders |-> Nothing]
  /\ menu \in Menus

SetLock(p) == \E fd \in Fds : /\ Opened(p, fd)
                              /\ \E q \in Requests(p, fd) : Sensible(p, q) /\ file_F_SETLK(p, q)

Next == \E p \in Procs :
  \/ Start(p) \/ Open(p) \/ Execve(p) \/ Exit(p)
  \/ \E fd \in Fds : Dup(p, fd) \/ Close(p, fd)
  \/ \E c \in Procs : Fork(p, c)
  \/ SetLock(p) \/ LockFileEx(p) \/ Granted(p)

Spec == Init /\ [][Next]_vars

\* Who has a lock gives it up some day, and a call that can go on does: Windows
\* grants waiting locks in order, when an unlock makes room.
GivesUp(p) == \E fd \in Fds :
  /\ Opened(p, fd)
  /\ \E q \in Requests(p, fd) : /\ q.mode = "-" /\ told[q.holder] # Nothing
                                /\ Sensible(p, q) /\ file_F_SETLK(p, q)
FairSpec == Spec /\ \A p \in Procs : /\ SF_vars(GivesUp(p))
                                     /\ WF_vars(LockFileEx(p))
                                     /\ SF_vars(Granted(p))

-----------------------------------------------------------------------------
TypeOK ==
  /\ image \in [Procs -> Images \cup {None}]
  /\ node \in [Procs -> [Fds -> [obj : Objects \cup {None}, region : 0 .. Word - 1,
                                 size : 0 .. Word - 1]]]
  /\ lock \subseteq [obj : Objects, img : Images, lo : 0 .. Word - 1, len : 0 .. Word - 1,
                     mode : {"r", "w"}]
  /\ call \in [Procs -> [at : {"run", "lock", "wait"}, fd : Fds, lo : 0 .. Word - 1,
                         len : 0 .. Word - 1, mode : Modes, wait : BOOLEAN,
                         holder : Holders \cup {None}, bytes : SUBSET Bytes]]
  /\ told \in [Holders -> [Bytes -> Modes]]
  /\ menu \in Menus
  /\ \A p \in Procs : ~Live(p) => call[p] = NoCall /\ \A fd \in Fds : ~Opened(p, fd)
  /\ \A p \in Procs : call[p].at # "run" => Opened(p, call[p].fd)

\* The programs can trust the results: nobody is told to have bytes that
\* another was told to have for writing and has not given back.
ActsPosix == Posix!Spec

\* What a program was told to have, Windows has locked: no call, close or exit
\* of any process takes the lock of another away.
Locker(h, l) == \E p \in Procs : image[p] = l.img /\ Has(node[p], l.obj) /\ h \in {p, l.obj}
Backed == \A h \in Holders, b \in Bytes : told[h][b] # "-" =>
  \E l \in lock : l.mode = told[h][b] /\ b \in Span(l.lo, l.len) /\ Locker(h, l)

\* No lock is left behind: one that keeps others out is of a process that
\* knows of it, and can unlock it.
Known == \A l \in lock : \A b \in Bytes \cap Span(l.lo, l.len) :
  \E h \in Holders : told[h][b] # "-" /\ Locker(h, l)

\* F_GETLK divides the two sums: while a descriptor shares its file object with
\* no other and has one lock, it gets the lock's range, and with none, nothing.
GetLkTrue == \A p \in Procs, fd \in Fds :
  LET mine == {l \in lock : l.obj = node[p][fd].obj /\ l.img = image[p]}
  IN Opened(p, fd) /\ menu \cap {"dup", "fork"} = {} =>
       /\ mine = {} => fcntl_F_GETLK(node[p][fd]) = <<>>
       /\ \A l \in mine : mine = {l} /\ l.len # 0 =>
                            fcntl_F_GETLK(node[p][fd]) = <<l.lo, l.len>>

\* A process that waits for a lock gets it, if those who have it give it up: it
\* does not wait for itself, nor for one that waits for it.
Served == \A p \in Procs : call[p].at = "wait" ~> call[p].at # "wait"
=============================================================================
