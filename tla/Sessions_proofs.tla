-------------------------- MODULE Sessions_proofs --------------------------
(***************************************************************************)
(* Theorems about logins, controlling terminals and job control, for any   *)
(* tasks, devices, terminals, windows, logins and jobs.                    *)
(***************************************************************************)
EXTENDS Sessions, FiniteSetTheorems, TLAPS

At(p) == pc[p].at

\* Where a program can be: before it has a group of its own, on the way to a
\* terminal, in a shell, in a job that is being set up.
Before == {"bsd", "wait", "single", "level", "revoke", "setsid"}
Opens == {"open", "unit", "slot", "ctty"}
ShellAt == {"sh", "group", "front", "more", "waitj", "back"}
JobAt == {"jgroup", "jfront", "jexec"}
Places == Before \cup Opens \cup ShellAt \cup JobAt \cup {"none", "exec", "prog", "exit"}
LoginAt == (Before \cup Opens) \ {"wait"}

Task == [st : {"free", "live", "zombie", "done"}, img : Images \cup {None},
         gid : TaskIds, sid : TaskIds, ctty : Terminals, ctl : BOOLEAN,
         parent : TaskIds, fd : Terminals]
Image == [main : TaskIds, ctty : Terminals, window : Windows \cup {None}, has : SUBSET Devices]
Terminal == [active : BOOLEAN, dev : Devices, gid : TaskIds, sid : TaskIds]
Device == [ready : BOOLEAN, open : BOOLEAN, index : Terminals]
Count == [starts : 0 .. Starts, presses : 0 .. Presses, forks : 0 .. Forks]
Place == [at : Places, child : TaskIds, kind : Jobs \cup {"none", "single", "multi"},
          unit : 0 .. Beyond, index : TaskIds \cup Terminals]

\* What a place says of the locals of the program that is there.
PlaceOK(e) ==
  /\ e.at \in Before \cup Opens => e.index \in Terminals
  /\ e.at \in {"group", "front"} \cup JobAt => e.index \in TaskIds
  /\ e.at \in {"unit", "slot"} => e.unit \in Ptys
  /\ e.at \in LoginAt => e.kind \in {"single", "multi"}
  /\ e.at \in {"single", "level", "revoke"} => e.kind = "single"
  /\ e.at \in {"group", "front", "waitj"} \cup JobAt => e.kind \in Jobs

Alive(t, e) == /\ t.st = "live" <=> e.at # "none"
               /\ t.st = "live" => t.img \in Images

Typed ==
  /\ task \in [TaskIds -> Task] /\ image \in [Images -> Image]
  /\ tty \in [Terminals -> Terminal] /\ device \in [Devices -> Device]
  /\ level \in {0, 1} /\ press \subseteq Images /\ used \in Count
  /\ pc \in [TaskIds -> Place]
  /\ \A p \in TaskIds : PlaceOK(pc[p]) /\ Alive(task[p], pc[p])

-----------------------------------------------------------------------------
(* Types *)

LEMMA Consts ==
  /\ MaxTask \in Nat /\ MaxImage \in Nat /\ MaxUnit \in Nat /\ MaxTerm \in Nat
  /\ Starts \in Nat /\ Presses \in Nat /\ Forks \in Nat
  /\ 0 \in TaskIds /\ TaskIds \subseteq Nat /\ Images \subseteq Nat \ {0}
  /\ 0 \in Terminals /\ Terminals \subseteq Nat
  /\ Console \in Devices /\ Ptys \subseteq Devices /\ Devices \subseteq 0 .. Beyond
  /\ Beyond \notin Devices /\ Console \notin Ptys /\ Ptys \subseteq Nat
  /\ Jobs \cap {"none", "single", "multi"} = {}
<1>1. MaxUnit \in Nat /\ MaxTask \in Nat /\ MaxTerm \in Nat /\ MaxImage \in Nat
  BY SessionsAssumption
<1> QED BY <1>1, SessionsAssumption
        DEF TaskIds, Images, Terminals, Console, Devices, Ptys, Beyond

LEMMA TypedInit == Init => Typed
<1> USE Consts
<1>1. Free \in Task
  BY DEF Free, Task, None
<1>2. NoImage \in Image
  BY DEF NoImage, Image, None
<1>3. Away \in Place /\ PlaceOK(Away) /\ Away.at = "none" /\ Free.st = "free"
  BY DEF Away, Place, PlaceOK, Places, Before, Opens, LoginAt, JobAt, None, Beyond, Free
<1>4. NoTty \in [Terminals -> Terminal] /\ NoDevice \in [Devices -> Device]
  BY DEF NoTty, NoDevice, Terminal, Device, Console
<1>5. [starts |-> 0, presses |-> 0, forks |-> 0] \in Count
  BY DEF Count
<1> QED BY <1>1, <1>2, <1>3, <1>4, <1>5 DEF Init, Typed, NoTask, Alive

LEMMA TypedOK == Typed => TypeOK
  BY DEF Typed, TypeOK, Alive, Task, Image, Terminal, Device, Count, Live

\* Typed', in parts that a step proves one by one.
LEMMA TypedNext ==
  ASSUME task' \in [TaskIds -> Task], image' \in [Images -> Image],
         tty' \in [Terminals -> Terminal], device' \in [Devices -> Device],
         level' \in {0, 1}, press' \subseteq Images, used' \in Count,
         pc' \in [TaskIds -> Place],
         \A p \in TaskIds : PlaceOK(pc'[p]) /\ Alive(task'[p], pc'[p])
  PROVE  Typed'
  BY DEF Typed, PlaceOK, Alive

-----------------------------------------------------------------------------
(* What steps do to the tables *)

\* A slot keeps its task, or is cleared for another to take.
Stays(m) == task'[m] = task[m] \/ (task[m].st = "done" /\ task'[m] = Free)

LEMMA ClearedSlots ==
  ASSUME Typed, NEW n \in TaskIds, NEW k \in TaskIds, IsNew(n, k), NEW e \in Task,
         task' = [Cleared(n, k) EXCEPT ![n] = e]
  PROVE  /\ task' \in [TaskIds -> Task] /\ task'[n] = e
         /\ \A m \in TaskIds \ {n} : Stays(m)
         /\ task[n].st = "free" /\ At(n) = "none" /\ n >= k
<1> USE Consts
<1>1. Free \in Task
  BY DEF Free, Task, None
<1>2. Cleared(n, k) \in [TaskIds -> Task]
  BY <1>1 DEF Typed, Cleared
<1>3. \A m \in TaskIds \ {n} : task'[m] = Cleared(n, k)[m]
  BY <1>2
<1>4. \A m \in TaskIds : Cleared(n, k)[m] = task[m]
                         \/ (task[m].st = "done" /\ Cleared(n, k)[m] = Free)
  BY DEF Cleared
<1>5. task[n].st = "free" /\ At(n) = "none" /\ n >= k
  BY DEF IsNew, Typed, Alive, At
<1> QED BY <1>2, <1>3, <1>4, <1>5 DEF Stays

\* fork() by p: c has all of its parent's but the control of a terminal.
Spawns(p, c) ==
  /\ c # p /\ task[c].st = "free" /\ At(c) = "none" /\ c >= task[p].gid
  /\ task'[c] = [task[p] EXCEPT !.ctl = FALSE, !.parent = p]
  /\ \A m \in TaskIds \ {c} : Stays(m)

LEMMA DupSpawns ==
  ASSUME Typed, NEW p \in TaskIds, NEW c \in TaskIds, Live(p), IsNew(c, task[p].gid),
         task' = Dup(p, c)
  PROVE  Spawns(p, c) /\ task' \in [TaskIds -> Task] /\ task'[p] = task[p] /\ task'[c].st = "live"
<1> DEFINE e == [task[p] EXCEPT !.ctl = FALSE, !.parent = p]
<1>1. task[p] \in Task /\ task[p].gid \in TaskIds
  BY DEF Typed, Task
<1>2. e \in Task /\ e.st = task[p].st
  BY <1>1 DEF Task
<1>3. task' = [Cleared(c, task[p].gid) EXCEPT ![c] = e]
  BY DEF Dup
<1> HIDE DEF e
<1>4. /\ task' \in [TaskIds -> Task] /\ task'[c] = e
      /\ \A m \in TaskIds \ {c} : Stays(m)
      /\ task[c].st = "free" /\ At(c) = "none" /\ c >= task[p].gid
  BY <1>1, <1>2, <1>3, ClearedSlots
<1>5. c # p
  BY <1>4 DEF Live
<1>6. task'[p] = task[p] /\ task'[c].st = "live"
  BY <1>2, <1>4, <1>5 DEF Stays, Live
<1> QED BY <1>4, <1>5, <1>6 DEF Spawns, e

\* The image p leaves is as it was, or gone with p.
Remains(p, j) == image'[j] = image[j] \/ (j = task[p].img /\ Leaves(p) /\ image'[j] = NoImage)

LEMMA LeftImages ==
  ASSUME Typed, NEW p \in TaskIds, Live(p)
  PROVE  /\ Left(p) \in [Images -> Image]
         /\ \A j \in Images : Left(p)[j] = image[j]
                              \/ (j = task[p].img /\ Leaves(p) /\ Left(p)[j] = NoImage)
<1> USE Consts
<1>1. NoImage \in Image
  BY DEF NoImage, Image, None
<1>2. task[p].img \in Images
  BY DEF Typed, Alive, Live
<1> QED BY <1>1, <1>2 DEF Typed, Left

\* execve() by p to the Win32 process i.
Execs(p, i) ==
  /\ i # task[p].img /\ ~Used(i)
  /\ task'[p] = [task[p] EXCEPT !.img = i, !.fd = task[p].ctty]
  /\ \A m \in TaskIds \ {p} : task'[m] = task[m]
  /\ image'[i] = [main |-> p, ctty |-> task[p].ctty,
                  window |-> image[task[p].img].window, has |-> image[task[p].img].has]
  /\ \A j \in Images \ {i} : Remains(p, j)

LEMMA ExecExecs ==
  ASSUME Typed, NEW p \in TaskIds, NEW i \in Images, Live(p), Exec(p, i)
  PROVE  /\ Execs(p, i)
         /\ task' \in [TaskIds -> Task] /\ image' \in [Images -> Image] /\ press' \subseteq Images
<1> USE Consts
<1>1. task[p] \in Task /\ task[p].img \in Images /\ task[p].st = "live"
  BY DEF Typed, Alive, Live
<1>2. ~Used(i) /\ i # task[p].img
  BY DEF Exec, IsFresh, Used
<1> DEFINE t == [task[p] EXCEPT !.img = i, !.fd = task[p].ctty]
           e == [main |-> p, ctty |-> task[p].ctty,
                 window |-> image[task[p].img].window, has |-> image[task[p].img].has]
<1>3. t \in Task /\ e \in Image
  <2>1. image[task[p].img] \in Image
    BY <1>1 DEF Typed
  <2> QED BY <1>1, <2>1 DEF Task, Image
<1>4. task' = [task EXCEPT ![p] = t]
  BY <1>1 DEF Exec, Typed, Task
<1>5. image' = [Left(p) EXCEPT ![i] = e]
  BY DEF Exec
<1> HIDE DEF t, e
<1>6. task' \in [TaskIds -> Task] /\ task'[p] = t /\ \A m \in TaskIds \ {p} : task'[m] = task[m]
  BY <1>3, <1>4 DEF Typed
<1>7. /\ image' \in [Images -> Image] /\ image'[i] = e
      /\ \A j \in Images \ {i} : Remains(p, j)
  BY <1>3, <1>5, LeftImages DEF Remains
<1>8. press' \subseteq Images
  BY DEF Exec, Unpressed, Typed
<1> QED BY <1>2, <1>6, <1>7, <1>8 DEF Execs, t, e

LEMMA PlaceFields ==
  /\ Away \in Place /\ Free \in Task /\ NoImage \in Image
  /\ \A e \in Place : /\ e.at \in Places /\ e.child \in TaskIds /\ e.unit \in 0 .. Beyond
                      /\ e.kind \in Jobs \cup {"none", "single", "multi"}
                      /\ e.index \in TaskIds \cup Terminals
  /\ \A t \in Task : /\ t.gid \in TaskIds /\ t.sid \in TaskIds /\ t.parent \in TaskIds
                     /\ t.ctty \in Terminals /\ t.fd \in Terminals /\ t.ctl \in BOOLEAN
                     /\ t.img \in Images \cup {None}
                     /\ t.st \in {"free", "live", "zombie", "done"}
  /\ \A e \in Image : /\ e.main \in TaskIds /\ e.ctty \in Terminals
                      /\ e.window \in Windows \cup {None} /\ e.has \in SUBSET Devices
  /\ \A e \in Terminal : e.active \in BOOLEAN /\ e.dev \in Devices
                         /\ e.gid \in TaskIds /\ e.sid \in TaskIds
  /\ \A e \in Device : e.ready \in BOOLEAN /\ e.open \in BOOLEAN /\ e.index \in Terminals
<1> USE Consts
<1>1. Away \in Place
  BY DEF Away, Place, Places, Before, Opens, None, Beyond
<1> QED BY <1>1 DEF Place, Task, Image, Terminal, Device, Free, NoImage, None

\* A program that is at a, with no locals.
LEMMA AwayAt ==
  ASSUME NEW a \in Places
  PROVE  LET e == [Away EXCEPT !.at = a]
         IN  /\ e \in Place /\ e.at = a /\ e.kind = "none"
             /\ e.child = 0 /\ e.unit = 0 /\ e.index = 0
  BY PlaceFields DEF Place, Away, None

\* The type of each entry.
LEMMA Entries ==
  ASSUME Typed
  PROVE  /\ \A p \in TaskIds : /\ pc[p] \in Place /\ task[p] \in Task
                               /\ PlaceOK(pc[p]) /\ Alive(task[p], pc[p])
                               /\ Live(p) <=> At(p) # "none"
         /\ \A i \in Images : image[i] \in Image
         /\ \A i \in Terminals : tty[i] \in Terminal
         /\ \A d \in Devices : device[d] \in Device
  BY DEF Typed, Alive, Live, At

\* A program that runs goes on to e; slots of tasks and images are as they were.
LEMMA Moves ==
  ASSUME Typed, NEW p \in TaskIds, Live(p), NEW e \in Place, PlaceOK(e), e.at # "none",
         pc' = [pc EXCEPT ![p] = e], task' \in [TaskIds -> Task],
         \A m \in TaskIds : task'[m].st = task[m].st \/ (task[m].st # "live" /\ task'[m].st # "live"),
         \A m \in TaskIds : task[m].st = "live" => task'[m].img \in Images
  PROVE  /\ pc' \in [TaskIds -> Place]
         /\ pc'[p] = e /\ \A m \in TaskIds \ {p} : pc'[m] = pc[m]
         /\ \A m \in TaskIds : PlaceOK(pc'[m]) /\ Alive(task'[m], pc'[m])
<1>1. pc' \in [TaskIds -> Place] /\ pc'[p] = e /\ \A m \in TaskIds \ {p} : pc'[m] = pc[m]
  BY DEF Typed
<1>2. \A m \in TaskIds : PlaceOK(pc'[m])
  BY <1>1 DEF Typed
<1>3. \A m \in TaskIds : Alive(task'[m], pc'[m])
  BY <1>1 DEF Typed, Alive, Live
<1> QED BY <1>1, <1>2, <1>3

\* The same where no task changes.
LEMMA MovesOnly ==
  ASSUME Typed, NEW p \in TaskIds, Live(p), NEW e \in Place, PlaceOK(e), e.at # "none",
         pc' = [pc EXCEPT ![p] = e], task' = task
  PROVE  /\ pc' \in [TaskIds -> Place]
         /\ pc'[p] = e /\ \A m \in TaskIds \ {p} : pc'[m] = pc[m]
         /\ \A m \in TaskIds : PlaceOK(pc'[m]) /\ Alive(task'[m], pc'[m])
<1>1. task' \in [TaskIds -> Task]
  BY DEF Typed
<1>2. \A m \in TaskIds : task[m].st = "live" => task'[m].img \in Images
  BY DEF Typed, Alive
<1> QED BY <1>1, <1>2, Moves

LEMMA StartTyped == ASSUME Typed, NEW w \in Windows, Start(w) PROVE Typed'
<1> USE Consts
<1>1. PICK n \in TaskIds, i \in Images :
        /\ used.starts < Starts /\ IsNew(n, 0) /\ IsFresh(i)
        /\ task' = [Cleared(n, 0) EXCEPT ![n] = [Free EXCEPT !.st = "live", !.img = i]]
        /\ image' = [image EXCEPT ![i] = [main |-> n, ctty |-> 0, window |-> w, has |-> {}]]
        /\ pc' = [pc EXCEPT ![n] = [Away EXCEPT !.at = "bsd",
                                     !.kind = IF level = 0 THEN "single" ELSE "multi"]]
        /\ used' = [used EXCEPT !.starts = @ + 1]
        /\ UNCHANGED <<tty, device, level, press>>
  BY DEF Start
<1> DEFINE t == [Free EXCEPT !.st = "live", !.img = i]
           e == [Away EXCEPT !.at = "bsd", !.kind = IF level = 0 THEN "single" ELSE "multi"]
<1>2. t \in Task /\ t.st = "live" /\ t.img = i
  BY DEF Free, Task, None
<1>3. e \in Place /\ PlaceOK(e) /\ e.at = "bsd"
  <2> DEFINE k == IF level = 0 THEN "single" ELSE "multi"
  <2>1. k \in {"single", "multi"}
    OBVIOUS
  <2> HIDE DEF k
  <2>2. "bsd" \in Places
    BY DEF Places, Before
  <2>3. e \in Place /\ e.at = "bsd" /\ e.kind = k /\ e.index = 0
    BY <2>1, <2>2, PlaceFields DEF k, Place, Away, None
  <2>4. PlaceOK(e)
    BY <2>1, <2>3 DEF PlaceOK, Before, Opens, LoginAt, JobAt
  <2> QED BY <2>3, <2>4
<1> HIDE DEF t, e
<1>4. task' = [Cleared(n, 0) EXCEPT ![n] = t] /\ pc' = [pc EXCEPT ![n] = e]
  BY <1>1 DEF t, e
<1>5. /\ task' \in [TaskIds -> Task] /\ task'[n] = t
      /\ \A m \in TaskIds \ {n} : Stays(m)
  BY <1>1, <1>2, <1>4, ClearedSlots
<1>6. pc' \in [TaskIds -> Place] /\ pc'[n] = e /\ \A m \in TaskIds \ {n} : pc'[m] = pc[m]
  BY <1>3, <1>4 DEF Typed
<1>7. \A m \in TaskIds : PlaceOK(pc'[m]) /\ Alive(task'[m], pc'[m])
  <2>1. \A m \in TaskIds \ {n} : Alive(task'[m], pc'[m])
    BY <1>5, <1>6 DEF Stays, Free, Alive, Typed
  <2>2. Alive(task'[n], pc'[n])
    BY <1>2, <1>3, <1>5, <1>6 DEF Alive
  <2>3. \A m \in TaskIds : PlaceOK(pc'[m])
    BY <1>3, <1>6 DEF Typed
  <2> QED BY <2>1, <2>2, <2>3
<1>8. image' \in [Images -> Image]
  <2>1. [main |-> n, ctty |-> 0, window |-> w, has |-> {}] \in Image
    BY DEF Image
  <2> QED BY <2>1, <1>1 DEF Typed
<1>9. used' \in Count
  BY <1>1 DEF Typed, Count
<1> QED BY <1>1, <1>5, <1>6, <1>7, <1>8, <1>9, TypedNext DEF Typed

LEMMA BsdForkTyped == ASSUME Typed, NEW p \in TaskIds, BsdFork(p) PROVE Typed'
<1> USE Consts
<1>1. PICK c \in TaskIds :
        /\ At(p) = "bsd" /\ IsNew(c, task[p].gid) /\ task' = Dup(p, c)
        /\ pc' = [pc EXCEPT ![p].at = "wait", ![p].child = c,
                    ![c] = [Away EXCEPT !.at = IF pc[p].kind = "single" THEN "single" ELSE "setsid",
                                        !.kind = pc[p].kind]]
        /\ UNCHANGED <<image, tty, device, level, press, used>>
  BY DEF BsdFork, At
<1>2. Live(p) /\ pc[p] \in Place /\ PlaceOK(pc[p]) /\ task[p].img \in Images
  BY <1>1, Entries DEF Alive, Live
<1>3. Spawns(p, c) /\ task' \in [TaskIds -> Task] /\ task'[p] = task[p] /\ task'[c].st = "live"
  BY <1>1, <1>2, DupSpawns
<1> DEFINE d == [pc[p] EXCEPT !.at = "wait", !.child = c]
           e == [Away EXCEPT !.at = IF pc[p].kind = "single" THEN "single" ELSE "setsid",
                             !.kind = pc[p].kind]
<1>4. d \in Place /\ PlaceOK(d) /\ d.at = "wait"
  BY <1>1, <1>2 DEF Place, Places, Before, Opens, JobAt, ShellAt, PlaceOK, LoginAt, At
<1>5. e \in Place /\ PlaceOK(e) /\ e.at # "none"
  <2> DEFINE k == pc[p].kind
             a == IF pc[p].kind = "single" THEN "single" ELSE "setsid"
  <2>1. k \in {"single", "multi"} /\ a \in {"single", "setsid"} /\ (a = "single" => k = "single")
    BY <1>1, <1>2 DEF PlaceOK, LoginAt, Before, At
  <2>2. a \in Places
    BY <2>1 DEF Places, Before
  <2>3. e \in Place /\ e.at = a /\ e.kind = k /\ e.index = 0
    BY <2>1, <2>2, PlaceFields DEF Place, Away, None
  <2> HIDE DEF k, a, e
  <2>4. PlaceOK(e)
    BY <2>1, <2>3 DEF PlaceOK, Before, Opens, LoginAt, JobAt
  <2> QED BY <2>1, <2>2, <2>3, <2>4
<1> HIDE DEF d, e
<1>6. /\ pc' \in [TaskIds -> Place] /\ pc'[p] = d /\ pc'[c] = e
      /\ \A m \in TaskIds \ {p, c} : pc'[m] = pc[m]
  <2>1. pc' = [pc EXCEPT ![p] = d, ![c] = e]
    BY <1>1, <1>2, <1>3 DEF d, e, Typed, Spawns
  <2> QED BY <1>3, <1>4, <1>5, <2>1 DEF Typed, Spawns
<1>7. \A m \in TaskIds : PlaceOK(pc'[m]) /\ Alive(task'[m], pc'[m])
  <2>1. \A m \in TaskIds \ {p, c} : Alive(task'[m], pc'[m])
    BY <1>3, <1>6 DEF Spawns, Stays, Free, Alive, Typed
  <2>2. Alive(task'[p], pc'[p])
    BY <1>2, <1>3, <1>4, <1>6 DEF Alive, Live
  <2>3. Alive(task'[c], pc'[c])
    <3>1. task'[c].img = task[p].img
      BY <1>3 DEF Spawns, Typed, Task
    <3> QED BY <1>2, <1>3, <1>5, <1>6, <3>1 DEF Alive
  <2>4. \A m \in TaskIds : PlaceOK(pc'[m])
    BY <1>4, <1>5, <1>6 DEF Typed
  <2> QED BY <2>1, <2>2, <2>3, <2>4
<1> QED BY <1>1, <1>3, <1>6, <1>7, TypedNext DEF Typed

\* A step of p that only moves p, in place and within the login.
LEMMA StepTyped ==
  ASSUME Typed, NEW p \in TaskIds, Live(p), NEW e \in Place, PlaceOK(e), e.at # "none",
         pc' = [pc EXCEPT ![p] = e], task' = task, image' \in [Images -> Image],
         tty' \in [Terminals -> Terminal], device' \in [Devices -> Device],
         level' \in {0, 1}, press' \subseteq Images, used' = used
  PROVE  Typed'
<1>1. /\ pc' \in [TaskIds -> Place]
      /\ \A m \in TaskIds : PlaceOK(pc'[m]) /\ Alive(task'[m], pc'[m])
  BY MovesOnly
<1> QED BY <1>1, TypedNext DEF Typed

LEMMA AttachTyped ==
  ASSUME Typed, NEW d \in Devices, NEW i \in Terminals, NEW r \in BOOLEAN, Attach(d, i, r)
  PROVE  /\ tty' \in [Terminals -> Terminal] /\ device' \in [Devices -> Device]
         /\ tty'[i].active /\ tty'[i].dev = d /\ tty'[i].gid = tty[i].gid /\ tty'[i].sid = tty[i].sid
         /\ device'[d].ready = r /\ device'[d].index = i /\ device'[d].open = device[d].open
         /\ \A j \in Terminals \ {i} : tty'[j] = tty[j]
         /\ \A f \in Devices \ {d} : device'[f] = device[f]
<1>1. tty[i] \in Terminal /\ device[d] \in Device
  BY DEF Typed
<1> QED BY <1>1 DEF Attach, Typed, Terminal, Device

\* char_revoke() of device d: it closes the device and gives the terminal it
\* names back, or it does nothing.
Closes(d) ==
  /\ device[d].open
  /\ device' = [device EXCEPT ![d].open = FALSE, ![d].ready = FALSE]
  /\ tty' = [tty EXCEPT ![device[d].index].active = FALSE]

LEMMA RevokeCloses ==
  ASSUME NEW d, NEW i, char_revoke(d, i)
  PROVE  /\ Closes(d) \/ UNCHANGED <<tty, device>>
         /\ device[d].open /\ d \in image[i].has => Closes(d)
         /\ ~device[d].open => UNCHANGED <<tty, device>>
  BY DEF char_revoke, Closes

LEMMA ClosesTyped ==
  ASSUME Typed, NEW d \in Devices, Closes(d)
  PROVE  /\ tty' \in [Terminals -> Terminal] /\ device' \in [Devices -> Device]
         /\ device[d].open /\ device[d].index \in Terminals
         /\ device'[d].open = FALSE /\ device'[d].ready = FALSE
         /\ device'[d].index = device[d].index
         /\ \A f \in Devices \ {d} : device'[f] = device[f]
         /\ \A j \in Terminals : tty'[j].dev = tty[j].dev /\ tty'[j].gid = tty[j].gid
                                 /\ tty'[j].sid = tty[j].sid
                                 /\ tty'[j].active = (tty[j].active /\ j # device[d].index)
<1>1. device[d] \in Device /\ \A j \in Terminals : tty[j] \in Terminal
  BY DEF Typed
<1> QED BY <1>1 DEF Closes, Typed, Terminal, Device

LEMMA TtyInitTyped == ASSUME Typed, NEW p \in TaskIds, tty_init(p) PROVE Typed'
<1> USE Consts
<1> DEFINE e == [pc[p] EXCEPT !.at = "level"]
<1>1. Live(p) /\ At(p) = "single" /\ pc[p] \in Place /\ PlaceOK(pc[p])
  BY Entries DEF tty_init, At
<1>2. e \in Place /\ PlaceOK(e) /\ e.at # "none"
  BY <1>1 DEF Place, Places, Before, Opens, LoginAt, JobAt, PlaceOK, At
<1>3. pc' = [pc EXCEPT ![p] = e] /\ UNCHANGED <<task, image, level, press, used>>
  BY DEF tty_init, Typed
<1>4. tty' \in [Terminals -> Terminal] /\ device' \in [Devices -> Device]
  <2>1. CASE UNCHANGED <<tty, device>>
    BY <2>1 DEF Typed
  <2>2. CASE \E i \in Terminals : IsTerm(i) /\ Attach(Console, i, device[Console].ready)
    <3>1. PICK i \in Terminals : Attach(Console, i, device[Console].ready)
      BY <2>2
    <3>2. device[Console].ready \in BOOLEAN
      BY Entries, PlaceFields
    <3> QED BY <3>1, <3>2, AttachTyped
  <2> QED BY <2>1, <2>2 DEF tty_init
<1> HIDE DEF e
<1> QED BY <1>1, <1>2, <1>3, <1>4, StepTyped DEF Typed

LEMMA SetLevelTyped == ASSUME Typed, NEW p \in TaskIds, SetLevel(p) PROVE Typed'
<1> DEFINE e == [pc[p] EXCEPT !.at = "revoke"]
<1>1. Live(p) /\ At(p) = "level" /\ pc[p] \in Place /\ PlaceOK(pc[p])
  BY Entries DEF SetLevel, At
<1>2. e \in Place /\ PlaceOK(e) /\ e.at # "none"
  BY <1>1 DEF Place, Places, Before, Opens, LoginAt, JobAt, PlaceOK, At
<1>3. pc' = [pc EXCEPT ![p] = e] /\ level' = 1 /\ UNCHANGED <<task, image, tty, device, press, used>>
  BY DEF SetLevel, Typed
<1> HIDE DEF e
<1> QED BY <1>1, <1>2, <1>3, StepTyped DEF Typed

LEMMA RevokeTyped == ASSUME Typed, NEW p \in TaskIds, sys_revoke(p) PROVE Typed'
<1> USE Consts
<1> DEFINE e == [pc[p] EXCEPT !.at = "setsid"]
<1>1. Live(p) /\ At(p) = "revoke" /\ pc[p] \in Place /\ PlaceOK(pc[p])
  BY Entries DEF sys_revoke, At
<1>2. e \in Place /\ PlaceOK(e) /\ e.at # "none"
  BY <1>1 DEF Place, Places, Before, Opens, LoginAt, JobAt, PlaceOK, At
<1>3. pc' = [pc EXCEPT ![p] = e] /\ UNCHANGED <<task, image, level, press, used>>
  BY DEF sys_revoke, Typed
<1>4. tty' \in [Terminals -> Terminal] /\ device' \in [Devices -> Device]
  BY RevokeCloses, ClosesTyped DEF sys_revoke, Typed
<1> HIDE DEF e
<1> QED BY <1>1, <1>2, <1>3, <1>4, StepTyped DEF Typed

LEMMA SetsidTyped == ASSUME Typed, NEW p \in TaskIds, vfs_setsid(p) PROVE Typed'
<1> DEFINE e == [pc[p] EXCEPT !.at = "open"]
<1>1. Live(p) /\ At(p) = "setsid" /\ pc[p] \in Place /\ PlaceOK(pc[p]) /\ task[p] \in Task
  BY Entries DEF vfs_setsid, At
<1>2. e \in Place /\ PlaceOK(e) /\ e.at # "none"
  BY <1>1 DEF Place, Places, Before, Opens, LoginAt, JobAt, PlaceOK, At
<1>3. pc' = [pc EXCEPT ![p] = e] /\ UNCHANGED <<image, tty, device, level, press, used>>
  BY DEF vfs_setsid, Typed
<1>4. /\ task' \in [TaskIds -> Task]
      /\ \A m \in TaskIds : task'[m].st = task[m].st /\ task'[m].img = task[m].img
  BY <1>1 DEF vfs_setsid, Typed, Task
<1> HIDE DEF e
<1>5. \A m \in TaskIds : task[m].st = "live" => task'[m].img \in Images
  BY <1>4 DEF Typed, Alive
<1>6. /\ pc' \in [TaskIds -> Place]
      /\ \A m \in TaskIds : PlaceOK(pc'[m]) /\ Alive(task'[m], pc'[m])
  BY <1>1, <1>2, <1>3, <1>4, <1>5, Moves
<1> QED BY <1>3, <1>4, <1>6, TypedNext DEF Typed

LEMMA OpenConsoleTyped == ASSUME Typed, NEW p \in TaskIds, OpenConsole(p) PROVE Typed'
<1> USE Consts
<1> DEFINE e == [pc[p] EXCEPT !.at = IF device[Console].ready THEN "ctty" ELSE "exec",
                              !.unit = Console, !.index = device[Console].index]
<1>1. Live(p) /\ At(p) = "open" /\ pc[p] \in Place /\ PlaceOK(pc[p])
  BY Entries DEF OpenConsole, At
<1>2. device[Console].index \in Terminals /\ Console \in 0 .. Beyond
  BY Entries, PlaceFields
<1>3. e.at \in {"ctty", "exec"} /\ e.kind = pc[p].kind /\ e.index \in Terminals /\ e \in Place
  BY <1>1, <1>2 DEF Place, Places, Opens
<1>4. pc[p].kind \in {"single", "multi"}
  BY <1>1 DEF PlaceOK, LoginAt, Opens, Before, At
<1>5. pc' = [pc EXCEPT ![p] = e] /\ UNCHANGED <<task, image, tty, device, level, press, used>>
  BY DEF OpenConsole, Typed
<1> HIDE DEF e
<1>6. PlaceOK(e) /\ e.at # "none"
  BY <1>3, <1>4 DEF PlaceOK, Before, Opens, LoginAt, JobAt
<1> QED BY <1>1, <1>3, <1>5, <1>6, StepTyped DEF Typed

LEMMA FindUnitTyped == ASSUME Typed, NEW p \in TaskIds, FindUnit(p) PROVE Typed'
<1> USE Consts
<1>1. Live(p) /\ At(p) = "open" /\ pc[p] \in Place /\ PlaceOK(pc[p])
      /\ pc[p].index \in Terminals /\ pc[p].kind \in {"single", "multi"}
  BY Entries DEF FindUnit, At, PlaceOK, LoginAt, Opens, Before
<1>2. UNCHANGED <<task, image, tty, device, level, press, used>>
  BY DEF FindUnit
<1>3. CASE \E u \in Ptys : pc' = [pc EXCEPT ![p].at = "unit", ![p].unit = u]
  <2>1. PICK u \in Ptys : pc' = [pc EXCEPT ![p].at = "unit", ![p].unit = u]
    BY <1>3
  <2> DEFINE e == [pc[p] EXCEPT !.at = "unit", !.unit = u]
  <2>2. e \in Place /\ PlaceOK(e) /\ e.at # "none"
    BY <1>1 DEF Place, Places, Before, Opens, LoginAt, JobAt, PlaceOK, At
  <2>3. pc' = [pc EXCEPT ![p] = e]
    BY <2>1 DEF Typed
  <2> HIDE DEF e
  <2> QED BY <1>1, <1>2, <2>2, <2>3, StepTyped DEF Typed
<1>4. CASE pc' = [pc EXCEPT ![p].at = "ctty", ![p].unit = Beyond]
  <2> DEFINE e == [pc[p] EXCEPT !.at = "ctty", !.unit = Beyond]
  <2>0. Beyond \in 0 .. Beyond
    BY DEF Beyond
  <2>1. e \in Place /\ PlaceOK(e) /\ e.at # "none"
    BY <1>1, <2>0 DEF Place, Places, Before, Opens, LoginAt, JobAt, PlaceOK, At
  <2>2. pc' = [pc EXCEPT ![p] = e]
    BY <1>4 DEF Typed
  <2> HIDE DEF e
  <2> QED BY <1>1, <1>2, <2>1, <2>2, StepTyped DEF Typed
<1> QED BY <1>3, <1>4 DEF FindUnit

LEMMA FindTermTyped == ASSUME Typed, NEW p \in TaskIds, FindTerm(p) PROVE Typed'
<1> USE Consts
<1>1. Live(p) /\ At(p) = "unit" /\ pc[p] \in Place /\ PlaceOK(pc[p]) /\ pc[p].unit \in Ptys
      /\ pc[p].kind \in {"single", "multi"}
  BY Entries DEF FindTerm, At, PlaceOK, LoginAt, Opens, Before
<1>2. UNCHANGED <<task, image, tty, device, level, press, used>>
  BY DEF FindTerm
<1>3. \E a \in {"slot", "ctty"}, i \in Terminals : pc' = [pc EXCEPT ![p].at = a, ![p].index = i]
  <2>1. device[pc[p].unit].index \in Terminals
    BY <1>1, Entries, PlaceFields
  <2> QED BY <2>1 DEF FindTerm
<1>4. PICK a \in {"slot", "ctty"}, i \in Terminals : pc' = [pc EXCEPT ![p].at = a, ![p].index = i]
  BY <1>3
<1> DEFINE e == [pc[p] EXCEPT !.at = a, !.index = i]
<1>5. e \in Place /\ PlaceOK(e) /\ e.at # "none"
  BY <1>1 DEF Place, Places, Before, Opens, LoginAt, JobAt, PlaceOK, At
<1>6. pc' = [pc EXCEPT ![p] = e]
  BY <1>4 DEF Typed
<1> HIDE DEF e
<1> QED BY <1>1, <1>2, <1>5, <1>6, StepTyped DEF Typed

LEMMA TtyAttachTyped == ASSUME Typed, NEW p \in TaskIds, tty_attach(p) PROVE Typed'
<1> USE Consts
<1> DEFINE e == [pc[p] EXCEPT !.at = "ctty"]
<1>1. Live(p) /\ At(p) = "slot" /\ pc[p] \in Place /\ PlaceOK(pc[p])
      /\ pc[p].unit \in Ptys /\ pc[p].index \in Terminals
  BY Entries DEF tty_attach, At, PlaceOK, Opens
<1>2. e \in Place /\ PlaceOK(e) /\ e.at # "none"
  BY <1>1 DEF Place, Places, Before, Opens, LoginAt, JobAt, PlaceOK, At
<1>3. pc' = [pc EXCEPT ![p] = e] /\ UNCHANGED <<task, image, level, press, used>>
  BY DEF tty_attach, Typed
<1>4. tty' \in [Terminals -> Terminal] /\ device' \in [Devices -> Device]
  <2>1. Attach(pc[p].unit, pc[p].index, TRUE)
    BY DEF tty_attach
  <2>2. pc[p].unit \in Devices
    BY <1>1
  <2> QED BY <1>1, <2>1, <2>2, AttachTyped
<1> HIDE DEF e
<1> QED BY <1>1, <1>2, <1>3, <1>4, StepTyped DEF Typed

\* The terminal becomes the controlling one of p.
Controlled(p, d, i) ==
  /\ ~task[p].ctl /\ device[d].ready
  /\ task'[p] = [task[p] EXCEPT !.ctl = TRUE, !.ctty = i]
  /\ \A m \in TaskIds \ {p} : task'[m] = task[m]
  /\ tty'[i] = [tty[i] EXCEPT !.sid = task[p].sid, !.gid = task[p].gid]
  /\ \A j \in Terminals \ {i} : tty'[j] = tty[j]
  /\ device'[d] = [device[d] EXCEPT !.open = TRUE]
  /\ \A f \in Devices \ {d} : device'[f] = device[f]
  /\ image'[task[p].img] = [image[task[p].img] EXCEPT !.has = @ \cup {d}]
  /\ \A j \in Images \ {task[p].img} : image'[j] = image[j]

LEMMA CtlTyped ==
  ASSUME Typed, NEW p \in TaskIds, Live(p), NEW d \in 0 .. Beyond, NEW i \in Terminals,
         TIOCSCTTY(p, d, i)
  PROVE  /\ task' \in [TaskIds -> Task] /\ image' \in [Images -> Image]
         /\ tty' \in [Terminals -> Terminal] /\ device' \in [Devices -> Device]
         /\ Controls(p, d, i) => d \in Devices /\ Controlled(p, d, i)
         /\ ~Controls(p, d, i) => UNCHANGED <<task, image, tty, device>>
<1> USE Consts
<1>1. CASE ~Controls(p, d, i)
  BY <1>1 DEF TIOCSCTTY, Typed
<1>2. CASE Controls(p, d, i)
  <2>1. d \in Devices
    <3>1. d # Beyond
      BY <1>2 DEF Controls
    <3> QED BY <3>1, SessionsAssumption DEF Devices, Ptys, Beyond, Console
  <2>2. /\ device' = [device EXCEPT ![d].open = TRUE]
        /\ image' = [image EXCEPT ![task[p].img].has = @ \cup {d}]
        /\ tty' = [tty EXCEPT ![i].sid = task[p].sid, ![i].gid = task[p].gid]
        /\ task' = [task EXCEPT ![p].ctl = TRUE, ![p].ctty = i]
    BY <1>2 DEF TIOCSCTTY
  <2>3. /\ task[p] \in Task /\ task[p].sid \in TaskIds /\ task[p].gid \in TaskIds
        /\ task[p].img \in Images /\ image[task[p].img] \in Image
        /\ tty[i] \in Terminal /\ device[d] \in Device
    BY <2>1, Entries, PlaceFields DEF Alive, Live
  <2>4. task' \in [TaskIds -> Task] /\ image' \in [Images -> Image]
    BY <2>1, <2>2, <2>3 DEF Typed, Task, Image
  <2>5. tty' \in [Terminals -> Terminal] /\ device' \in [Devices -> Device]
    BY <2>1, <2>2, <2>3 DEF Typed, Terminal, Device
  <2>6. /\ task'[p] = [task[p] EXCEPT !.ctl = TRUE, !.ctty = i]
        /\ \A m \in TaskIds \ {p} : task'[m] = task[m]
    BY <2>2, <2>3 DEF Typed
  <2>7. /\ tty'[i] = [tty[i] EXCEPT !.sid = task[p].sid, !.gid = task[p].gid]
        /\ \A j \in Terminals \ {i} : tty'[j] = tty[j]
    BY <2>2, <2>3 DEF Typed
  <2>8. /\ device'[d] = [device[d] EXCEPT !.open = TRUE]
        /\ \A f \in Devices \ {d} : device'[f] = device[f]
    BY <2>1, <2>2, <2>3 DEF Typed
  <2>9. /\ image'[task[p].img] = [image[task[p].img] EXCEPT !.has = @ \cup {d}]
        /\ \A j \in Images \ {task[p].img} : image'[j] = image[j]
    BY <2>2, <2>3 DEF Typed
  <2>10. ~task[p].ctl /\ device[d].ready
    BY <1>2 DEF Controls
  <2> QED BY <1>2, <2>1, <2>4, <2>5, <2>6, <2>7, <2>8, <2>9, <2>10 DEF Controlled
<1> QED BY <1>1, <1>2

LEMMA GettyTyped == ASSUME Typed, NEW p \in TaskIds, Getty(p) PROVE Typed'
<1> USE Consts
<1> DEFINE e == [pc[p] EXCEPT !.at = "exec"]
<1>1. Live(p) /\ At(p) = "ctty" /\ pc[p] \in Place /\ PlaceOK(pc[p])
      /\ pc[p].unit \in 0 .. Beyond /\ pc[p].index \in Terminals
  BY Entries, PlaceFields DEF Getty, At, PlaceOK, Opens
<1>2. e \in Place /\ PlaceOK(e) /\ e.at # "none"
  BY <1>1 DEF Place, Places, Before, Opens, LoginAt, JobAt, PlaceOK, At
<1>3. pc' = [pc EXCEPT ![p] = e] /\ UNCHANGED <<level, press, used>>
  BY DEF Getty, Typed
<1> HIDE DEF e
<1>4. TIOCSCTTY(p, pc[p].unit, pc[p].index)
  BY DEF Getty
<1>5. /\ task' \in [TaskIds -> Task] /\ image' \in [Images -> Image]
      /\ tty' \in [Terminals -> Terminal] /\ device' \in [Devices -> Device]
      /\ Controls(p, pc[p].unit, pc[p].index) => Controlled(p, pc[p].unit, pc[p].index)
      /\ ~Controls(p, pc[p].unit, pc[p].index) => UNCHANGED <<task, image, tty, device>>
  BY <1>1, <1>4, CtlTyped
<1>6. \A m \in TaskIds : task'[m].st = task[m].st /\ task'[m].img = task[m].img
  <2>1. task[p] \in Task
    BY Entries
  <2>2. CASE UNCHANGED task
    BY <2>2
  <2>3. CASE Controlled(p, pc[p].unit, pc[p].index)
    <3>1. task'[p] = [task[p] EXCEPT !.ctl = TRUE, !.ctty = pc[p].index]
      BY <2>3 DEF Controlled
    <3>2. task'[p].st = task[p].st /\ task'[p].img = task[p].img
      BY <2>1, <3>1 DEF Task
    <3> QED BY <2>3, <3>2 DEF Controlled
  <2> QED BY <1>5, <2>2, <2>3
<1>7. \A m \in TaskIds : task[m].st = "live" => task'[m].img \in Images
  BY <1>6 DEF Typed, Alive
<1>8. /\ pc' \in [TaskIds -> Place]
      /\ \A m \in TaskIds : PlaceOK(pc'[m]) /\ Alive(task'[m], pc'[m])
  BY <1>1, <1>2, <1>3, <1>5, <1>6, <1>7, Moves
<1> QED BY <1>3, <1>5, <1>8, TypedNext DEF Typed

\* execve() by p, which goes on at a.
LEMMA ExecStepTyped ==
  ASSUME Typed, NEW p \in TaskIds, Live(p), NEW i \in Images, Exec(p, i),
         NEW a \in {"sh", "prog"}, pc' = [pc EXCEPT ![p] = [Away EXCEPT !.at = a]],
         UNCHANGED <<tty, device, level, used>>
  PROVE  Typed'
<1> USE Consts
<1> DEFINE e == [Away EXCEPT !.at = a]
<1>1. e \in Place /\ e.at = a /\ PlaceOK(e) /\ e.at # "none"
  BY PlaceFields
     DEF Place, Places, ShellAt, Away, None, PlaceOK, Before, Opens, LoginAt, JobAt
<1> HIDE DEF e
<1>2. pc' = [pc EXCEPT ![p] = e]
  BY DEF e
<1>3. /\ Execs(p, i)
      /\ task' \in [TaskIds -> Task] /\ image' \in [Images -> Image] /\ press' \subseteq Images
  BY ExecExecs
<1>4. /\ \A m \in TaskIds : task'[m].st = task[m].st
      /\ \A m \in TaskIds : task[m].st = "live" => task'[m].img \in Images
  <2>1. task[p] \in Task
    BY Entries
  <2>2. task'[p].st = task[p].st /\ task'[p].img = i
    BY <1>3, <2>1 DEF Execs, Task
  <2> QED BY <1>3, <2>2, Entries DEF Execs, Alive
<1>5. /\ pc' \in [TaskIds -> Place]
      /\ \A m \in TaskIds : PlaceOK(pc'[m]) /\ Alive(task'[m], pc'[m])
  BY <1>1, <1>2, <1>3, <1>4, Moves
<1> QED BY <1>3, <1>5, TypedNext DEF Typed

LEMMA ShellTyped == ASSUME Typed, NEW p \in TaskIds, Shell(p) PROVE Typed'
<1> USE Consts
<1>1. Live(p) /\ At(p) = "exec"
  BY Entries DEF Shell, At
<1>2. UNCHANGED <<tty, device, level, used>>
  BY DEF Shell
<1>3. CASE \E i \in Images : Exec(p, i) /\ pc' = [pc EXCEPT ![p] = [Away EXCEPT !.at = "sh"]]
  BY <1>1, <1>2, <1>3, ExecStepTyped
<1>4. CASE UNCHANGED <<task, image, press>> /\ pc' = [pc EXCEPT ![p] = [Away EXCEPT !.at = "exit"]]
  <2> DEFINE e == [Away EXCEPT !.at = "exit"]
  <2>1. e \in Place /\ PlaceOK(e) /\ e.at # "none"
    BY PlaceFields DEF Place, Places, Away, None, PlaceOK, Before, Opens, LoginAt, JobAt
  <2>2. pc' = [pc EXCEPT ![p] = e]
    BY <1>4
  <2> HIDE DEF e
  <2> QED BY <1>1, <1>2, <1>4, <2>1, <2>2, StepTyped DEF Typed
<1> QED BY <1>3, <1>4 DEF Shell

LEMMA ForkTyped == ASSUME Typed, NEW p \in TaskIds, NEW kind \in Jobs, Fork(p, kind) PROVE Typed'
<1> USE Consts
<1>1. PICK c \in TaskIds :
        /\ used.forks < Forks /\ IsNew(c, task[p].gid)
        /\ \/ pc[p].at = "sh"
           \/ pc[p].at = "more" /\ kind = "pipe"
        /\ task' = Dup(p, c)
        /\ LET g == IF pc[p].at = "more" THEN pc[p].child ELSE c
           IN pc' = [pc EXCEPT
                       ![p] = [Away EXCEPT !.at = "group", !.child = c, !.index = g, !.kind = kind],
                       ![c] = [Away EXCEPT !.at = "jgroup", !.index = g, !.kind = kind]]
        /\ used' = [used EXCEPT !.forks = @ + 1]
        /\ UNCHANGED <<image, tty, device, level, press>>
  BY DEF Fork
<1>2. Live(p) /\ pc[p] \in Place /\ task[p].img \in Images
  BY <1>1, Entries DEF Alive, Live, At
<1>3. Spawns(p, c) /\ task' \in [TaskIds -> Task] /\ task'[p] = task[p] /\ task'[c].st = "live"
  BY <1>1, <1>2, DupSpawns
<1>4. PICK g \in TaskIds :
        pc' = [pc EXCEPT
                 ![p] = [Away EXCEPT !.at = "group", !.child = c, !.index = g, !.kind = kind],
                 ![c] = [Away EXCEPT !.at = "jgroup", !.index = g, !.kind = kind]]
  BY <1>1, <1>2, PlaceFields
<1> DEFINE d == [Away EXCEPT !.at = "group", !.child = c, !.index = g, !.kind = kind]
           e == [Away EXCEPT !.at = "jgroup", !.index = g, !.kind = kind]
<1>5. d \in Place /\ PlaceOK(d) /\ d.at # "none"
  BY PlaceFields
     DEF Place, Places, ShellAt, Away, None, PlaceOK, Before, Opens, LoginAt, JobAt
<1>6. e \in Place /\ PlaceOK(e) /\ e.at # "none"
  BY PlaceFields
     DEF Place, Places, ShellAt, Away, None, PlaceOK, Before, Opens, LoginAt, JobAt
<1>7. pc' = [pc EXCEPT ![p] = d, ![c] = e]
  BY <1>4
<1> HIDE DEF d, e
<1>8. /\ pc' \in [TaskIds -> Place] /\ pc'[p] = d /\ pc'[c] = e
      /\ \A m \in TaskIds \ {p, c} : pc'[m] = pc[m]
  BY <1>3, <1>5, <1>6, <1>7 DEF Typed, Spawns
<1>9. \A m \in TaskIds : PlaceOK(pc'[m]) /\ Alive(task'[m], pc'[m])
  <2>1. \A m \in TaskIds \ {p, c} : Alive(task'[m], pc'[m])
    BY <1>3, <1>8 DEF Spawns, Stays, Free, Alive, Typed
  <2>2. Alive(task'[p], pc'[p])
    BY <1>2, <1>3, <1>5, <1>8 DEF Alive, Live
  <2>3. Alive(task'[c], pc'[c])
    <3>1. task'[c].img = task[p].img
      BY <1>3 DEF Spawns, Typed, Task
    <3> QED BY <1>2, <1>3, <1>6, <1>8, <3>1 DEF Alive
  <2>4. \A m \in TaskIds : PlaceOK(pc'[m])
    BY <1>5, <1>6, <1>8 DEF Typed
  <2> QED BY <2>1, <2>2, <2>3, <2>4
<1>10. used' \in Count
  <2>1. used.forks < Forks /\ used' = [used EXCEPT !.forks = @ + 1]
    BY <1>1
  <2> QED BY <2>1 DEF Typed, Count
<1> QED BY <1>1, <1>3, <1>8, <1>9, <1>10, TypedNext DEF Typed

\* sys_setpgid() by p: the task c it sets, and where p goes on.
Sets(p) == IF At(p) = "group" THEN pc[p].child ELSE p
After(p) ==
  IF At(p) = "jgroup" THEN [pc[p] EXCEPT !.at = IF Fore(pc[p].kind) THEN "jfront" ELSE "jexec"]
  ELSE IF Fore(pc[p].kind) THEN [pc[p] EXCEPT !.at = "front"]
  ELSE [Away EXCEPT !.at = "sh"]

LEMMA SetpgidMoves ==
  ASSUME Typed, NEW p \in TaskIds, sys_setpgid(p)
  PROVE  /\ Live(p) /\ At(p) \in {"group", "jgroup"} /\ Sets(p) \in TaskIds /\ pc[p].index \in TaskIds
         /\ task' \in [TaskIds -> Task]
         /\ task'[Sets(p)] = [task[Sets(p)] EXCEPT !.gid = pc[p].index]
         /\ \A m \in TaskIds \ {Sets(p)} : task'[m] = task[m]
         /\ After(p) \in Place /\ pc' = [pc EXCEPT ![p] = After(p)]
         /\ UNCHANGED <<image, tty, device, level, press, used>>
<1> USE Consts
<1>1. At(p) \in {"group", "jgroup"} /\ UNCHANGED <<image, tty, device, level, press, used>>
  BY DEF sys_setpgid, At
<1>2. Live(p) /\ pc[p] \in Place /\ pc[p].child \in TaskIds /\ pc[p].index \in TaskIds
  BY <1>1, Entries, PlaceFields DEF PlaceOK, JobAt, At
<1>3. Sets(p) \in TaskIds
  BY <1>2 DEF Sets
<1>4. task' = [task EXCEPT ![Sets(p)].gid = pc[p].index]
  BY DEF sys_setpgid, Sets, At
<1>5. /\ task' \in [TaskIds -> Task]
      /\ task'[Sets(p)] = [task[Sets(p)] EXCEPT !.gid = pc[p].index]
      /\ \A m \in TaskIds \ {Sets(p)} : task'[m] = task[m]
  <2>1. [task[Sets(p)] EXCEPT !.gid = pc[p].index] \in Task
    BY <1>2, <1>3, Entries DEF Task
  <2> QED BY <1>3, <1>4, <2>1 DEF Typed
<1>6. After(p) \in Place
  BY <1>1, <1>2, PlaceFields DEF After, Place, Places, ShellAt, JobAt, Away, None
<1>7. pc' = [pc EXCEPT ![p] = After(p)]
  BY DEF sys_setpgid, After, At, Typed
<1> QED BY <1>1, <1>2, <1>3, <1>5, <1>6, <1>7

LEMMA SetpgidTyped == ASSUME Typed, NEW p \in TaskIds, sys_setpgid(p) PROVE Typed'
<1> USE Consts
<1>1. /\ Live(p) /\ At(p) \in {"group", "jgroup"} /\ Sets(p) \in TaskIds /\ pc[p].index \in TaskIds
      /\ task' \in [TaskIds -> Task]
      /\ task'[Sets(p)] = [task[Sets(p)] EXCEPT !.gid = pc[p].index]
      /\ \A m \in TaskIds \ {Sets(p)} : task'[m] = task[m]
      /\ After(p) \in Place /\ pc' = [pc EXCEPT ![p] = After(p)]
      /\ UNCHANGED <<image, tty, device, level, press, used>>
  BY SetpgidMoves
<1>2. /\ \A m \in TaskIds : task'[m].st = task[m].st
      /\ \A m \in TaskIds : task[m].st = "live" => task'[m].img \in Images
  <2>1. task[Sets(p)] \in Task
    BY <1>1, Entries
  <2>2. task'[Sets(p)].st = task[Sets(p)].st /\ task'[Sets(p)].img = task[Sets(p)].img
    BY <1>1, <2>1 DEF Task
  <2> QED BY <1>1, <2>2, Entries DEF Alive
<1>3. PlaceOK(After(p)) /\ After(p).at # "none"
  <2>1. pc[p] \in Place /\ pc[p].kind \in Jobs
    BY <1>1, Entries DEF PlaceOK, JobAt, At
  <2> QED BY <1>1, <2>1 DEF After, PlaceOK, Place, Before, Opens, LoginAt, JobAt, Away
<1>4. /\ pc' \in [TaskIds -> Place]
      /\ \A m \in TaskIds : PlaceOK(pc'[m]) /\ Alive(task'[m], pc'[m])
  BY <1>1, <1>2, <1>3, Moves
<1> QED BY <1>1, <1>4, TypedNext DEF Typed

\* tcsetpgrp() by p for the group g.
LEMMA GroupTyped ==
  ASSUME Typed, NEW p \in TaskIds, NEW g \in TaskIds, TIOCSPGRP(p, g)
  PROVE  /\ tty' \in [Terminals -> Terminal]
         /\ tty'[task[p].fd] = [tty[task[p].fd] EXCEPT !.gid = g]
         /\ \A j \in Terminals \ {task[p].fd} : tty'[j] = tty[j]
         /\ UNCHANGED <<device, level, used>>
<1>1. task[p].fd \in Terminals /\ tty[task[p].fd] \in Terminal
  BY Entries, PlaceFields
<1>2. tty' = [tty EXCEPT ![task[p].fd].gid = g] /\ UNCHANGED <<device, level, used>>
  BY DEF TIOCSPGRP
<1>3. [tty[task[p].fd] EXCEPT !.gid = g] \in Terminal
  BY <1>1 DEF Terminal
<1> QED BY <1>1, <1>2, <1>3 DEF Typed

LEMMA FrontTyped == ASSUME Typed, NEW p \in TaskIds, Front(p) PROVE Typed'
<1> USE Consts
<1> DEFINE a == IF pc[p].at = "jfront" THEN "jexec"
                ELSE IF pc[p].kind = "pipe" /\ pc[p].child = pc[p].index THEN "more" ELSE "waitj"
           e == [pc[p] EXCEPT !.at = a]
<1>1. /\ At(p) \in {"front", "jfront"} /\ TIOCSPGRP(p, pc[p].index)
      /\ UNCHANGED <<task, image, press>>
  BY DEF Front, At
<1>2. /\ Live(p) /\ pc[p] \in Place /\ PlaceOK(pc[p])
      /\ pc[p].index \in TaskIds /\ pc[p].kind \in Jobs
  BY <1>1, Entries DEF PlaceOK, JobAt, At
<1>3. pc' = [pc EXCEPT ![p] = e]
  BY DEF Front, Typed
<1>4. a \in {"jexec", "more", "waitj"}
  OBVIOUS
<1> HIDE DEF a
<1>5. e \in Place /\ PlaceOK(e) /\ e.at # "none"
  BY <1>2, <1>4 DEF Place, Places, ShellAt, PlaceOK, Before, Opens, LoginAt, JobAt
<1>6. tty' \in [Terminals -> Terminal] /\ UNCHANGED <<device, level, used>>
  BY <1>1, <1>2, GroupTyped
<1> HIDE DEF e
<1> QED BY <1>1, <1>2, <1>3, <1>5, <1>6, StepTyped DEF Typed

LEMMA BackTyped == ASSUME Typed, NEW p \in TaskIds, Back(p) PROVE Typed'
<1> USE Consts
<1> DEFINE e == [Away EXCEPT !.at = "sh"]
<1>1. At(p) = "back" /\ TIOCSPGRP(p, task[p].gid) /\ UNCHANGED <<task, image, press>>
  BY DEF Back, At
<1>2. Live(p) /\ task[p].gid \in TaskIds
  BY <1>1, Entries, PlaceFields
<1>3. e \in Place /\ PlaceOK(e) /\ e.at # "none"
  BY PlaceFields
     DEF Place, Places, ShellAt, Away, None, PlaceOK, Before, Opens, LoginAt, JobAt
<1>4. pc' = [pc EXCEPT ![p] = e]
  BY DEF Back
<1> HIDE DEF e
<1>5. tty' \in [Terminals -> Terminal] /\ UNCHANGED <<device, level, used>>
  BY <1>1, <1>2, GroupTyped
<1> QED BY <1>1, <1>2, <1>3, <1>4, <1>5, StepTyped DEF Typed

LEMMA JobExecTyped == ASSUME Typed, NEW p \in TaskIds, JobExec(p) PROVE Typed'
<1> USE Consts
<1>1. Live(p) /\ At(p) = "jexec" /\ UNCHANGED <<tty, device, level, used>>
  BY Entries DEF JobExec, At
<1>2. CASE pc[p].kind = "sub"
  <2> DEFINE e == [Away EXCEPT !.at = "prog"]
  <2>1. e \in Place /\ PlaceOK(e) /\ e.at # "none"
    BY PlaceFields DEF Place, Places, Away, None, PlaceOK, Before, Opens, LoginAt, JobAt
  <2>2. pc' = [pc EXCEPT ![p] = e] /\ UNCHANGED <<task, image, press>>
    BY <1>2 DEF JobExec
  <2> HIDE DEF e
  <2> QED BY <1>1, <2>1, <2>2, StepTyped DEF Typed
<1>3. CASE pc[p].kind # "sub"
  <2> DEFINE a == IF pc[p].kind \in {"shell", "daemon"} THEN "sh" ELSE "prog"
  <2>1. a \in {"sh", "prog"} /\ pc' = [pc EXCEPT ![p] = [Away EXCEPT !.at = a]]
    BY <1>3 DEF JobExec
  <2>2. PICK i \in Images : Exec(p, i)
    BY <1>3 DEF JobExec
  <2> HIDE DEF a
  <2> QED BY <1>1, <2>1, <2>2, ExecStepTyped
<1> QED BY <1>2, <1>3

LEMMA ReapTyped == ASSUME Typed, NEW p \in TaskIds, NEW c \in TaskIds, Reap(p, c) PROVE Typed'
<1> USE Consts
<1>1. /\ task[c].st = "zombie" /\ task' = [task EXCEPT ![c] = [Free EXCEPT !.st = "done"]]
      /\ UNCHANGED <<image, tty, device, level, press, used>>
  BY DEF Reap
<1>2. [Free EXCEPT !.st = "done"] \in Task /\ [Free EXCEPT !.st = "done"].st = "done"
  BY DEF Free, Task, None
<1>3. task' \in [TaskIds -> Task] /\ task'[c].st = "done" /\ \A m \in TaskIds \ {c} : task'[m] = task[m]
  BY <1>1, <1>2 DEF Typed
<1>4. CASE UNCHANGED pc
  <2>1. \A m \in TaskIds : Alive(task'[m], pc'[m])
    BY <1>1, <1>3, <1>4 DEF Typed, Alive
  <2>2. pc' \in [TaskIds -> Place] /\ \A m \in TaskIds : PlaceOK(pc'[m])
    BY <1>4 DEF Typed
  <2> QED BY <1>1, <1>3, <2>1, <2>2, TypedNext DEF Typed
<1>5. CASE \E a \in {"back", "exit"} : At(p) \in {"waitj", "wait"} /\ pc' = [pc EXCEPT ![p].at = a]
  <2>1. PICK a \in {"back", "exit"} : At(p) \in {"waitj", "wait"} /\ pc' = [pc EXCEPT ![p].at = a]
    BY <1>5
  <2> DEFINE e == [pc[p] EXCEPT !.at = a]
  <2>2. Live(p) /\ pc[p] \in Place
    BY <2>1, Entries
  <2>3. e \in Place /\ PlaceOK(e) /\ e.at # "none"
    BY <2>2 DEF Place, Places, ShellAt, PlaceOK, Before, Opens, LoginAt, JobAt
  <2>4. pc' = [pc EXCEPT ![p] = e]
    BY <2>1 DEF Typed
  <2> HIDE DEF e
  <2>5. \A m \in TaskIds : task[m].st = "live" => task'[m].img \in Images
    BY <1>1, <1>3 DEF Typed, Alive
  <2>6. /\ pc' \in [TaskIds -> Place]
        /\ \A m \in TaskIds : PlaceOK(pc'[m]) /\ Alive(task'[m], pc'[m])
    BY <1>1, <1>3, <2>2, <2>3, <2>4, <2>5, Moves
  <2> QED BY <1>1, <1>3, <2>6, TypedNext DEF Typed
<1> QED BY <1>4, <1>5 DEF Reap, At

\* __exit() of a process that leaves others: a zombie is left of it.
Zombie(p) == [Free EXCEPT !.st = "zombie", !.gid = task[p].gid,
                          !.parent = IF Live(task[p].parent) THEN task[p].parent ELSE 1]

LEMMA ExitDies ==
  ASSUME Typed, NEW p \in TaskIds, sys_exit(p)
  PROVE  /\ Live(p) /\ At(p) \in {"sh", "prog", "exit"} /\ Zombie(p) \in Task
         /\ Zombie(p).st = "zombie" /\ Zombie(p).gid = task[p].gid
         /\ Zombie(p).parent = IF Live(task[p].parent) THEN task[p].parent ELSE 1
         /\ \E q \in TaskIds \ {p} : Live(q)
         /\ task' \in [TaskIds -> Task] /\ task'[p] = Zombie(p)
         /\ \A m \in TaskIds \ {p} : task'[m] = task[m]
         /\ tty' \in [Terminals -> Terminal] /\ device' \in [Devices -> Device]
         /\ level' = level
<1> USE Consts
<1>1. At(p) \in {"sh", "prog", "exit"} /\ level' = level
  BY DEF sys_exit, Ends, At
<1>2. Live(p) /\ task[p] \in Task /\ task[p].parent \in TaskIds /\ task[p].gid \in TaskIds
      /\ task[p].img \in Images
  BY <1>1, Entries, PlaceFields DEF Alive, Live
<1>3. PICK q \in TaskIds \ {p} : Live(q)
  BY DEF sys_exit, Last
<1>4. 1 \in TaskIds
  <2>1. p \in Nat /\ q \in Nat /\ p # q /\ p <= MaxTask /\ q <= MaxTask
    BY DEF TaskIds
  <2> QED BY <2>1 DEF TaskIds
<1> DEFINE r == IF Live(task[p].parent) THEN task[p].parent ELSE 1
<1>5. r \in TaskIds
  BY <1>2, <1>4
<1> HIDE DEF r
<1>6. Zombie(p) = [Free EXCEPT !.st = "zombie", !.gid = task[p].gid, !.parent = r]
  BY DEF Zombie, r
<1>7. /\ Zombie(p) \in Task /\ Zombie(p).st = "zombie" /\ Zombie(p).gid = task[p].gid
      /\ Zombie(p).parent = r
  BY <1>2, <1>5, <1>6 DEF Free, Task, None
<1>8. task' = [task EXCEPT ![p] = Zombie(p)]
  BY DEF sys_exit, Zombie
<1>9. task' \in [TaskIds -> Task] /\ task'[p] = Zombie(p) /\ \A m \in TaskIds \ {p} : task'[m] = task[m]
  BY <1>7, <1>8 DEF Typed
<1>10. tty' \in [Terminals -> Terminal] /\ device' \in [Devices -> Device]
  <2>1. CASE UNCHANGED <<tty, device>>
    BY <2>1 DEF Typed
  <2>2. CASE char_revoke(tty[image[task[p].img].ctty].dev, task[p].img)
    <3>1. tty[image[task[p].img].ctty].dev \in Devices
      BY <1>2, Entries, PlaceFields
    <3>2. \/ UNCHANGED <<tty, device>>
          \/ Closes(tty[image[task[p].img].ctty].dev)
      BY <2>2, RevokeCloses
    <3> QED BY <2>1, <3>1, <3>2, ClosesTyped
  <2> QED BY <2>1, <2>2 DEF sys_exit
<1> QED BY <1>1, <1>2, <1>3, <1>7, <1>9, <1>10 DEF r

LEMMA GoneTyped ==
  ASSUME Typed, NEW p \in TaskIds, vfs_shmexit(p)
  PROVE  /\ Live(p) /\ At(p) \in {"sh", "prog", "exit"} /\ \A q \in TaskIds \ {p} : ~Live(q)
         /\ task' \in [TaskIds -> Task] /\ \A m \in TaskIds : task'[m] = Free
         /\ tty' \in [Terminals -> Terminal] /\ device' \in [Devices -> Device]
         /\ tty' = NoTty /\ device' = NoDevice /\ level' = 0
<1> USE Consts
<1>1. At(p) \in {"sh", "prog", "exit"} /\ \A q \in TaskIds \ {p} : ~Live(q)
  BY DEF vfs_shmexit, Ends, Last, At
<1>2. Live(p)
  BY <1>1, Entries
<1>3. task' = NoTask /\ tty' = NoTty /\ device' = NoDevice /\ level' = 0
  BY DEF vfs_shmexit
<1>4. task' \in [TaskIds -> Task] /\ \A m \in TaskIds : task'[m] = Free
  BY <1>3, PlaceFields DEF NoTask
<1>5. NoTty \in [Terminals -> Terminal] /\ NoDevice \in [Devices -> Device]
  BY DEF NoTty, NoDevice, Terminal, Device, Console
<1> QED BY <1>1, <1>2, <1>3, <1>4, <1>5

LEMMA ExitTyped ==
  ASSUME Typed, NEW p \in TaskIds, Exit(p)
  PROVE  /\ Typed' /\ Live(p) /\ At(p) \in {"sh", "prog", "exit"} /\ used' = used
         /\ pc'[p] = Away /\ ~Live(p)' /\ At(p)' = "none"
         /\ \A m \in TaskIds \ {p} : pc'[m] = pc[m]
         /\ \A j \in Images : Remains(p, j)
<1> USE Consts
<1>1. Live(p) /\ At(p) \in {"sh", "prog", "exit"}
  BY ExitDies, GoneTyped DEF Exit
<1>2. image' = Left(p) /\ press' = Unpressed(p) /\ used' = used /\ pc' = [pc EXCEPT ![p] = Away]
  BY DEF Exit
<1>3. image' \in [Images -> Image] /\ \A j \in Images : Remains(p, j)
  BY <1>1, <1>2, LeftImages DEF Remains
<1>4. press' \subseteq Images /\ used' \in Count
  BY <1>2 DEF Unpressed, Typed
<1>5. /\ pc' \in [TaskIds -> Place] /\ pc'[p] = Away
      /\ \A m \in TaskIds \ {p} : pc'[m] = pc[m]
  BY <1>2, PlaceFields DEF Typed
<1>6. PlaceOK(Away) /\ Away.at = "none"
  BY DEF PlaceOK, Away, Before, Opens, LoginAt, JobAt
<1>7. \A m \in TaskIds : PlaceOK(pc'[m])
  BY <1>5, <1>6 DEF Typed
<1>8. CASE sys_exit(p)
  <2>1. /\ Zombie(p) \in Task /\ Zombie(p).st = "zombie"
        /\ task' \in [TaskIds -> Task] /\ task'[p] = Zombie(p)
        /\ \A m \in TaskIds \ {p} : task'[m] = task[m]
        /\ tty' \in [Terminals -> Terminal] /\ device' \in [Devices -> Device]
        /\ level' = level
    BY <1>8, ExitDies
  <2>2. Alive(task'[p], pc'[p]) /\ ~Live(p)' /\ At(p)' = "none"
    BY <2>1, <1>5, <1>6 DEF Alive, Live, At
  <2>3. \A m \in TaskIds \ {p} : Alive(task'[m], pc'[m])
    BY <2>1, <1>5 DEF Typed
  <2>4. \A m \in TaskIds : Alive(task'[m], pc'[m])
    BY <2>2, <2>3
  <2>5. level' \in {0, 1}
    BY <2>1 DEF Typed
  <2> QED BY <2>1, <2>2, <2>4, <2>5, <1>1, <1>2, <1>3, <1>4, <1>5, <1>7, TypedNext
<1>9. CASE vfs_shmexit(p)
  <2>1. /\ \A q \in TaskIds \ {p} : ~Live(q)
        /\ task' \in [TaskIds -> Task] /\ \A m \in TaskIds : task'[m] = Free
        /\ tty' \in [Terminals -> Terminal] /\ device' \in [Devices -> Device]
        /\ level' = 0
    BY <1>9, GoneTyped
  <2>2. \A m \in TaskIds : Alive(task'[m], pc'[m])
    BY <2>1, <1>5, <1>6 DEF Alive, Free, Typed, Live
  <2>3. ~Live(p)' /\ At(p)' = "none"
    BY <2>1, <1>5, <1>6 DEF Live, At, Free
  <2> QED BY <2>1, <2>2, <2>3, <1>1, <1>2, <1>3, <1>4, <1>5, <1>7, TypedNext
<1> QED BY <1>8, <1>9 DEF Exit

LEMMA CtrlCTyped == ASSUME Typed, NEW w \in Windows, CtrlC(w) PROVE Typed'
<1> USE Consts
<1>1. /\ used.presses < Presses
      /\ press' = press \cup {i \in Images : Used(i) /\ image[i].window = w}
      /\ used' = [used EXCEPT !.presses = @ + 1]
      /\ UNCHANGED <<task, image, tty, device, level, pc>>
  BY DEF CtrlC
<1>2. used' \in Count
  BY <1>1 DEF Typed, Count
<1>3. press' \subseteq Images
  BY <1>1 DEF Typed
<1> QED BY <1>1, <1>2, <1>3, TypedNext DEF Typed

\* The handler's thread stops what runs in m, or nothing.
LEMMA HandlerMoves ==
  ASSUME Typed, NEW i \in Images, ConControlHandler(i)
  PROVE  /\ press' = press \ {i} /\ UNCHANGED <<task, image, tty, device, level, used>>
         /\ \/ pc' = pc
            \/ \E m \in TaskIds : /\ At(m) \in {"bsd", "wait", "prog"} /\ Live(m)
                                  /\ pc' = [pc EXCEPT ![m] = [Away EXCEPT !.at = "exit"]]
<1>1. press' = press \ {i} /\ UNCHANGED <<task, image, tty, device, level, used>>
  BY DEF ConControlHandler
<1>2. image[i].main \in TaskIds
  BY Entries, PlaceFields
<1> DEFINE m == image[i].main
<1>3. CASE Used(i) /\ Strikes(i) /\ pc[m].at \in {"bsd", "wait", "prog"}
  <2>1. Live(m)
    BY <1>2, <1>3, Entries DEF At
  <2> QED BY <1>1, <1>2, <1>3, <2>1 DEF ConControlHandler, At
<1>4. CASE ~(Used(i) /\ Strikes(i) /\ pc[m].at \in {"bsd", "wait", "prog"})
  BY <1>1, <1>4 DEF ConControlHandler
<1> QED BY <1>3, <1>4

LEMMA HandlerTyped == ASSUME Typed, NEW i \in Images, ConControlHandler(i) PROVE Typed'
<1>1. /\ press' = press \ {i} /\ UNCHANGED <<task, image, tty, device, level, used>>
      /\ \/ pc' = pc
         \/ \E m \in TaskIds : /\ At(m) \in {"bsd", "wait", "prog"} /\ Live(m)
                               /\ pc' = [pc EXCEPT ![m] = [Away EXCEPT !.at = "exit"]]
  BY HandlerMoves
<1>2. press' \subseteq Images
  BY <1>1 DEF Typed
<1>3. CASE pc' = pc
  BY <1>1, <1>2, <1>3, TypedNext DEF Typed
<1>4. CASE \E m \in TaskIds : Live(m) /\ pc' = [pc EXCEPT ![m] = [Away EXCEPT !.at = "exit"]]
  <2>1. PICK m \in TaskIds : Live(m) /\ pc' = [pc EXCEPT ![m] = [Away EXCEPT !.at = "exit"]]
    BY <1>4
  <2> DEFINE e == [Away EXCEPT !.at = "exit"]
  <2>2. e \in Place /\ PlaceOK(e) /\ e.at # "none"
    BY PlaceFields DEF Place, Places, Away, None, PlaceOK, Before, Opens, LoginAt, JobAt
  <2>3. pc' = [pc EXCEPT ![m] = e]
    BY <2>1
  <2> HIDE DEF e
  <2> QED BY <1>1, <1>2, <2>1, <2>2, <2>3, StepTyped DEF Typed
<1> QED BY <1>1, <1>3, <1>4

LEMMA TypedStep == Typed /\ [Next]_vars => Typed'
<1> SUFFICES ASSUME Typed, [Next]_vars PROVE Typed'
  OBVIOUS
<1>1. CASE UNCHANGED vars
  BY <1>1 DEF vars, Typed
<1>2. ASSUME NEW w \in Windows, Start(w) \/ CtrlC(w) PROVE Typed'
  BY <1>2, StartTyped, CtrlCTyped
<1>3. ASSUME NEW p \in TaskIds, Login(p) PROVE Typed'
  BY <1>3, BsdForkTyped, TtyInitTyped, SetLevelTyped, RevokeTyped, SetsidTyped, OpenConsoleTyped,
     FindUnitTyped, FindTermTyped, TtyAttachTyped, GettyTyped, ShellTyped DEF Login
<1>4. ASSUME NEW p \in TaskIds, Job(p) PROVE Typed'
  BY <1>4, ForkTyped, SetpgidTyped, FrontTyped, JobExecTyped, BackTyped, ExitTyped, ReapTyped DEF Job
<1>5. ASSUME NEW i \in Images, ConControlHandler(i) PROVE Typed'
  BY <1>5, HandlerTyped
<1> QED BY <1>1, <1>2, <1>3, <1>4, <1>5 DEF Next

LEMMA AlwaysTyped == Spec => []Typed
  BY TypedInit, TypedStep, PTL DEF Spec

\* Slots of tasks, images, terminals and devices keep their types, and a task
\* lives exactly as long as its program is somewhere, in a Win32 process.
THEOREM TypeCorrect == Spec => []TypeOK
  BY AlwaysTyped, TypedOK, PTL

-----------------------------------------------------------------------------
(* Process groups: a process has no group, a group of its own, or, between   *)
(* fork() and setpgid(), its parent's.                                       *)

OwnAt == Opens \cup ShellAt \cup {"exec", "prog", "jfront", "jexec"}
Forking == {"group", "front"}

\* p has its parent's group, and its parent waits to give it one.
Inherits(p) == \E r \in TaskIds : /\ At(r) = "group" /\ pc[r].child = p
                                  /\ task[p].gid = task[r].gid

GroupOf(p) ==
  /\ At(p) \in Before => task[p].gid = 0 /\ task[p].sid = 0
  /\ At(p) \in OwnAt => task[p].gid = p
  /\ At(p) = "exit" => task[p].gid \in {0, p}
  /\ At(p) = "jgroup" => task[p].gid = p \/ Inherits(p)
  /\ Live(p) /\ task[p].gid = 0 => task[p].sid = 0
  /\ task[p].st = "zombie" => task[p].gid \in {0, p}

\* What r has forked is there until r has put it in its place.
ChildOf(r) ==
  At(r) \in Forking =>
    LET c == pc[r].child
    IN /\ pc[r].index = c /\ c > r /\ task[c].st \in {"live", "zombie"} /\ task[c].parent = r
       /\ Live(c) => task[c].sid = task[r].sid /\ At(c) \notin Before \cup Opens \cup {"exec"}

Indexed(p) ==
  /\ At(p) \in {"jgroup", "jfront"} => pc[p].index = p
  /\ At(p) = "waitj" => pc[p].index = pc[p].child /\ pc[p].child > p
  /\ At(p) # "more"

Grouped == \A p \in TaskIds : GroupOf(p) /\ ChildOf(p) /\ Indexed(p)

LEMMA GroupedApart == Typed /\ Grouped => GroupsApart
<1> SUFFICES ASSUME Typed, Grouped, NEW p \in TaskIds, NEW q \in TaskIds, Live(p), Live(q),
                    task[p].gid = task[q].gid, p # q
             PROVE  task[p].sid = task[q].sid
  BY DEF GroupsApart
<1> DEFINE own(m) == task[m].gid = m \/ (task[m].gid = 0 /\ task[m].sid = 0)
<1>1. \A m \in TaskIds : Live(m) => own(m) \/ (At(m) = "jgroup" /\ Inherits(m))
  <2> SUFFICES ASSUME NEW m \in TaskIds, Live(m)
               PROVE  own(m) \/ (At(m) = "jgroup" /\ Inherits(m))
    OBVIOUS
  <2>1. GroupOf(m) /\ At(m) # "none" /\ At(m) \in Places
    BY Entries, PlaceFields DEF Grouped, At
  <2> QED BY <2>1 DEF GroupOf, Places, OwnAt, JobAt
<1>2. \A m \in TaskIds : Live(m) /\ At(m) = "jgroup" /\ Inherits(m) =>
        \E r \in TaskIds : /\ Live(r) /\ own(r) /\ task[m].gid = task[r].gid
                           /\ task[m].sid = task[r].sid
  <2> SUFFICES ASSUME NEW m \in TaskIds, Live(m), At(m) = "jgroup", Inherits(m)
               PROVE  \E r \in TaskIds : /\ Live(r) /\ own(r) /\ task[m].gid = task[r].gid
                                         /\ task[m].sid = task[r].sid
    OBVIOUS
  <2>1. PICK r \in TaskIds : At(r) = "group" /\ pc[r].child = m /\ task[m].gid = task[r].gid
    BY DEF Inherits
  <2>2. Live(r) /\ own(r)
    <3>1. Live(r)
      BY <2>1, Entries
    <3>2. At(r) # "jgroup"
      BY <2>1
    <3> QED BY <3>1, <3>2, <1>1
  <2>3. task[m].sid = task[r].sid
    BY <2>1 DEF Grouped, ChildOf, Forking
  <2> QED BY <2>1, <2>2, <2>3
<1>3. \A m \in TaskIds : Live(m) =>
        \E r \in TaskIds : /\ Live(r) /\ own(r) /\ task[m].gid = task[r].gid
                           /\ task[m].sid = task[r].sid
  BY <1>1, <1>2
<1> HIDE DEF own
<1>4. PICK r \in TaskIds : Live(r) /\ own(r) /\ task[p].gid = task[r].gid /\ task[p].sid = task[r].sid
  BY <1>3
<1>5. PICK s \in TaskIds : Live(s) /\ own(s) /\ task[q].gid = task[s].gid /\ task[q].sid = task[s].sid
  BY <1>3
<1>6. task[r].sid = task[s].sid
  <2>1. task[r].gid = task[s].gid
    BY <1>4, <1>5
  <2>2. /\ task[r].gid = 0 => task[r].sid = 0
        /\ task[s].gid = 0 => task[s].sid = 0
    BY <1>4, <1>5 DEF Grouped, GroupOf
  <2> QED BY <1>4, <1>5, <2>1, <2>2 DEF own
<1> QED BY <1>4, <1>5, <1>6

\* What groups are told by: the entries of m in the table, and where m is.
SameTask(m) == /\ task'[m].st = task[m].st /\ task'[m].gid = task[m].gid
               /\ task'[m].sid = task[m].sid /\ task'[m].parent = task[m].parent
\* The slot of m is nobody's.
Vacant(m) == /\ ~Live(m) /\ task'[m].st \notin {"live", "zombie"}
             /\ \A r \in TaskIds : At(r) \in Forking => pc[r].child # m
KeepsTasks(S) == \A m \in TaskIds \ S : SameTask(m) \/ Vacant(m)
KeepsPlaces(S) == \A m \in TaskIds \ S : pc'[m] = pc[m]

LEMMA StaysVacant ==
  ASSUME Typed, Grouped, NEW m \in TaskIds, Stays(m)
  PROVE  SameTask(m) \/ Vacant(m)
<1>1. CASE task'[m] = task[m]
  BY <1>1 DEF SameTask
<1>2. CASE task[m].st = "done" /\ task'[m] = Free
  <2>1. \A r \in TaskIds : At(r) \in Forking => pc[r].child # m
    BY <1>2 DEF Grouped, ChildOf
  <2> QED BY <1>2, <2>1 DEF Vacant, Live, Free
<1> QED BY <1>1, <1>2 DEF Stays

\* Steps of p that are of no account: p keeps its group, and goes on.
Quiet(a, b) ==
  \/ a \in Before /\ b \in Before \cup {"exit"}
  \/ a \in Opens \cup {"exec"} /\ b \in Opens \cup {"exec", "sh", "exit"}
  \/ a \in {"sh", "waitj", "back", "jfront", "jexec", "prog", "exit"}
     /\ b \in {"sh", "back", "jexec", "prog", "exit"} /\ (a = "exit" => b = "exit")

LEMMA OthersGrouped ==
  ASSUME Typed, Grouped, NEW S, NEW m \in TaskIds \ S, KeepsTasks(S), KeepsPlaces(S), Typed'
  PROVE  /\ At(m)' = At(m)
         /\ Live(m) \/ task'[m].st = "zombie" => SameTask(m)
         /\ At(m) # "jgroup" => GroupOf(m)' /\ Indexed(m)'
         /\ Indexed(m)'
<1>1. pc'[m] = pc[m] /\ At(m)' = At(m)
  BY DEF KeepsPlaces, At
<1>2. Live(m) \/ task'[m].st = "zombie" => SameTask(m)
  BY DEF KeepsTasks, Vacant
<1>3. Indexed(m)'
  BY <1>1 DEF Grouped, Indexed, At
<1>4. At(m) # "none" => Live(m)
  BY Entries
<1>5. Live(m)' => Live(m)
  BY <1>1, Entries DEF Typed, Alive, Live, At
<1>6. At(m) # "jgroup" => GroupOf(m)'
  <2>1. GroupOf(m)
    BY DEF Grouped
  <2>2. At(m) \in Before \cup OwnAt \cup {"exit"} => Live(m)
    BY <1>4 DEF Before, OwnAt, Opens, ShellAt
  <2> QED BY <1>1, <1>2, <1>4, <1>5, <2>1, <2>2 DEF GroupOf, SameTask, Live
<1> QED BY <1>1, <1>2, <1>3, <1>6

\* A child stays its parent's, living or dead.
SameChild(c) == /\ task[c].st \in {"live", "zombie"} => task'[c].st \in {"live", "zombie"}
                /\ task'[c].parent = task[c].parent
                /\ Live(c)' => Live(c) /\ task'[c].sid = task[c].sid
                /\ Live(c)' => \/ At(c)' = At(c)
                               \/ At(c)' \notin Before \cup Opens \cup {"exec"}

LEMMA ChildKept ==
  ASSUME Typed, Grouped, NEW r \in TaskIds, pc'[r] = pc[r], task'[r].sid = task[r].sid,
         \A c \in TaskIds : c = pc[r].child /\ At(r) \in Forking => SameChild(c)
  PROVE  ChildOf(r)'
<1>1. At(r)' = At(r)
  BY DEF At
<1> SUFFICES ASSUME At(r) \in Forking PROVE ChildOf(r)'
  BY <1>1 DEF ChildOf
<1>2. pc[r].child \in TaskIds
  BY Entries, PlaceFields
<1> PICK c \in TaskIds : c = pc[r].child
  BY <1>2
<1>3. /\ pc[r].index = c /\ c > r /\ task[c].st \in {"live", "zombie"} /\ task[c].parent = r
      /\ Live(c) => task[c].sid = task[r].sid /\ At(c) \notin Before \cup Opens \cup {"exec"}
  BY DEF Grouped, ChildOf
<1>4. SameChild(c)
  OBVIOUS
<1>5. Live(c)' => At(c)' \notin Before \cup Opens \cup {"exec"} /\ task'[c].sid = task'[r].sid
  BY <1>3, <1>4 DEF SameChild
<1>6. pc'[r].index = c /\ pc'[r].child = c
  BY <1>3
<1>7. task'[c].st \in {"live", "zombie"} /\ task'[c].parent = r
  BY <1>3, <1>4 DEF SameChild
<1> QED BY <1>3, <1>5, <1>6, <1>7 DEF ChildOf, Live

LEMMA InheritsKept ==
  ASSUME Typed, Typed', Grouped, NEW S, NEW m \in TaskIds \ S, KeepsTasks(S), KeepsPlaces(S),
         At(m) = "jgroup",
         \A r \in TaskIds : r \in S /\ At(r) = "group" /\ pc[r].child = m =>
           task'[r].gid = task[r].gid /\ pc'[r] = pc[r]
  PROVE  GroupOf(m)'
<1>1. At(m)' = At(m) /\ Live(m)
  <2>1. At(m)' = At(m)
    BY DEF KeepsPlaces, At
  <2> QED BY <2>1, Entries
<1>2. SameTask(m) /\ GroupOf(m)
  BY <1>1, OthersGrouped DEF Grouped
<1>3. Inherits(m) => Inherits(m)'
  <2> SUFFICES ASSUME Inherits(m) PROVE Inherits(m)'
    OBVIOUS
  <2>1. PICK r \in TaskIds : At(r) = "group" /\ pc[r].child = m /\ task[m].gid = task[r].gid
    BY DEF Inherits
  <2>2. Live(r)
    BY <2>1, Entries
  <2>3. task'[r].gid = task[r].gid /\ pc'[r] = pc[r]
    <3>1. CASE r \in S
      BY <2>1, <3>1
    <3>2. CASE r \notin S
      BY <2>2, <3>2, OthersGrouped DEF KeepsPlaces, SameTask
    <3> QED BY <3>1, <3>2
  <2> QED BY <1>2, <2>1, <2>3 DEF Inherits, SameTask, At
<1> QED BY <1>1, <1>2, <1>3 DEF GroupOf, SameTask, Live, Before, OwnAt, Opens, ShellAt

\* Others than those of S, whose children are not of S or stay theirs.
LEMMA OthersKept ==
  ASSUME Typed, Typed', Grouped, NEW S, NEW m \in TaskIds \ S, KeepsTasks(S), KeepsPlaces(S),
         \A r \in TaskIds : r \in S /\ At(r) = "group" /\ pc[r].child = m =>
           task'[r].gid = task[r].gid /\ pc'[r] = pc[r],
         \A c \in TaskIds : c \in S /\ At(m) \in Forking /\ c = pc[m].child => SameChild(c)
  PROVE  GroupOf(m)' /\ ChildOf(m)' /\ Indexed(m)'
<1>1. Indexed(m)' /\ (At(m) # "jgroup" => GroupOf(m)')
  BY OthersGrouped
<1>2. At(m) = "jgroup" => GroupOf(m)'
  BY InheritsKept
<1>3. ASSUME At(m) \in Forking PROVE ChildOf(m)'
  <2>1. Live(m)
    BY <1>3, Entries DEF Forking
  <2>2. SameTask(m) /\ pc'[m] = pc[m]
    BY <2>1, OthersGrouped DEF KeepsPlaces
  <2>3. ASSUME NEW c \in TaskIds, c = pc[m].child PROVE SameChild(c)
    <3>1. CASE c \in S
      BY <1>3, <2>3, <3>1
    <3>2. CASE c \notin S
      <4>1. SameTask(c) /\ At(c)' = At(c)
        BY <1>3, <2>3, <3>2 DEF KeepsTasks, KeepsPlaces, Vacant, At
      <4> QED BY <4>1 DEF SameTask, SameChild, Live
    <3> QED BY <3>1, <3>2
  <2> QED BY <2>2, <2>3, ChildKept DEF SameTask
<1>4. At(m) \notin Forking => ChildOf(m)'
  BY DEF KeepsPlaces, At, ChildOf
<1> QED BY <1>1, <1>2, <1>3, <1>4

LEMMA AllGrouped ==
  ASSUME Typed, Typed', Grouped, KeepsTasks({}), pc' = pc
  PROVE  Grouped'
<1>1. KeepsPlaces({})
  BY DEF KeepsPlaces
<1>2. ASSUME NEW m \in TaskIds PROVE GroupOf(m)' /\ ChildOf(m)' /\ Indexed(m)'
  <2>1. \A r \in TaskIds : r \in {} => FALSE
    OBVIOUS
  <2> QED BY <1>1, <2>1, OthersKept
<1> QED BY <1>2 DEF Grouped

LEMMA QuietGrouped ==
  ASSUME Typed, Typed', Grouped, NEW p \in TaskIds, Live(p), Quiet(At(p), At(p)'),
         KeepsTasks({}), KeepsPlaces({p})
  PROVE  Grouped'
<1>1. SameTask(p) /\ KeepsTasks({p}) /\ GroupOf(p) /\ At(p) \notin Forking \cup {"jgroup", "none"}
      /\ At(p)' \notin Forking \cup {"jgroup", "jfront", "waitj", "more"}
  <2>1. SameTask(p) /\ KeepsTasks({p}) /\ GroupOf(p)
    BY DEF KeepsTasks, Vacant, Grouped
  <2> QED BY <2>1 DEF Quiet, Forking, Before, Opens
<1>2. GroupOf(p)' /\ ChildOf(p)' /\ Indexed(p)'
  <2>1. GroupOf(p)'
    <3>1. Live(p)' /\ task'[p].gid = task[p].gid /\ task'[p].sid = task[p].sid
      BY <1>1 DEF SameTask, Live
    <3>2. /\ At(p)' \in Before => At(p) \in Before
          /\ At(p)' \in OwnAt => At(p) \in OwnAt
          /\ At(p)' = "exit" => At(p) \in Before \cup OwnAt \cup {"exit"}
      BY DEF Quiet, Before, OwnAt, Opens, ShellAt
    <3>3. task'[p].st # "zombie"
      BY <3>1 DEF Live
    <3> QED BY <1>1, <3>1, <3>2, <3>3 DEF GroupOf
  <2> QED BY <1>1, <2>1 DEF ChildOf, Indexed
<1>3. ASSUME NEW m \in TaskIds, m # p PROVE GroupOf(m)' /\ ChildOf(m)' /\ Indexed(m)'
  <2>1. \A r \in TaskIds : r \in {p} => At(r) # "group"
    BY <1>1 DEF Forking
  <2>2. ASSUME At(m) \in Forking, pc[m].child = p PROVE SameChild(p)
    <3>1. At(p) \notin Before \cup Opens \cup {"exec"}
      BY <2>2 DEF Grouped, ChildOf
    <3>2. At(p)' \notin Before \cup Opens \cup {"exec"}
      BY <3>1 DEF Quiet, Before, Opens
    <3> QED BY <1>1, <3>2 DEF SameChild, SameTask, Live
  <2>3. \A c \in TaskIds : c \in {p} /\ At(m) \in Forking /\ c = pc[m].child => SameChild(c)
    BY <2>2
  <2> QED BY <1>1, <1>3, <2>1, <2>3, OthersKept
<1> QED BY <1>2, <1>3 DEF Grouped

\* No task and no place changes.
LEMMA SameGrouped ==
  ASSUME Grouped, UNCHANGED <<task, pc>>
  PROVE  Grouped'
  BY DEF Grouped, GroupOf, ChildOf, Indexed, Inherits, At, Live

LEMMA LoginQuiet ==
  ASSUME Typed, NEW p \in TaskIds,
         \/ tty_init(p) \/ SetLevel(p) \/ sys_revoke(p) \/ OpenConsole(p) \/ FindUnit(p)
         \/ FindTerm(p) \/ tty_attach(p)
  PROVE  task' = task /\ KeepsPlaces({p}) /\ Quiet(At(p), At(p)') /\ Live(p)
<1>1. task' = task
  BY DEF tty_init, SetLevel, sys_revoke, OpenConsole, FindUnit, FindTerm, tty_attach
<1>2. KeepsPlaces({p}) /\ Quiet(At(p), At(p)')
  <2>1. CASE tty_init(p) \/ SetLevel(p) \/ sys_revoke(p)
    BY <2>1 DEF tty_init, SetLevel, sys_revoke, KeepsPlaces, Quiet, At, Before, Typed, Place
  <2>2. CASE OpenConsole(p) \/ FindUnit(p)
    BY <2>2 DEF OpenConsole, FindUnit, KeepsPlaces, Quiet, At, Opens, Typed, Place
  <2>3. CASE FindTerm(p) \/ tty_attach(p)
    BY <2>3 DEF FindTerm, tty_attach, KeepsPlaces, Quiet, At, Opens, Typed, Place
  <2> QED BY <2>1, <2>2, <2>3
<1>3. Live(p)
  <2>1. At(p) # "none"
    BY <1>2 DEF Quiet, Before, Opens
  <2> QED BY <2>1, Entries
<1> QED BY <1>1, <1>2, <1>3

\* Getty: what of its task and place groups are told by stays.
LEMMA GettyQuiet ==
  ASSUME Typed, NEW p \in TaskIds, Getty(p)
  PROVE  /\ \A m \in TaskIds : SameTask(m) /\ task'[m].img = task[m].img /\ task'[m].fd = task[m].fd
         /\ KeepsPlaces({p}) /\ At(p) = "ctty" /\ At(p)' = "exec" /\ Live(p)
         /\ Controls(p, pc[p].unit, pc[p].index) =>
              pc[p].unit \in Devices /\ pc[p].index \in Terminals
              /\ Controlled(p, pc[p].unit, pc[p].index)
         /\ ~Controls(p, pc[p].unit, pc[p].index) => UNCHANGED <<task, image, tty, device>>
<1>1. Live(p) /\ At(p) = "ctty" /\ pc[p] \in Place
      /\ pc[p].unit \in 0 .. Beyond /\ pc[p].index \in Terminals
  BY Entries, PlaceFields DEF Getty, At, PlaceOK, Opens
<1>2. KeepsPlaces({p}) /\ At(p)' = "exec"
  BY <1>1 DEF Getty, KeepsPlaces, At, Typed, Place
<1>3. TIOCSCTTY(p, pc[p].unit, pc[p].index)
  BY DEF Getty
<1>4. /\ Controls(p, pc[p].unit, pc[p].index) =>
           pc[p].unit \in Devices /\ Controlled(p, pc[p].unit, pc[p].index)
      /\ ~Controls(p, pc[p].unit, pc[p].index) => UNCHANGED <<task, image, tty, device>>
  BY <1>1, <1>3, CtlTyped
<1>5. \A m \in TaskIds : SameTask(m) /\ task'[m].img = task[m].img /\ task'[m].fd = task[m].fd
  <2>1. task[p] \in Task
    BY Entries
  <2>2. CASE UNCHANGED task
    BY <2>2 DEF SameTask
  <2>3. CASE Controlled(p, pc[p].unit, pc[p].index)
    <3>1. task'[p] = [task[p] EXCEPT !.ctl = TRUE, !.ctty = pc[p].index]
      BY <2>3 DEF Controlled
    <3>2. SameTask(p) /\ task'[p].img = task[p].img /\ task'[p].fd = task[p].fd
      BY <2>1, <3>1 DEF Task, SameTask
    <3> QED BY <2>3, <3>2 DEF Controlled, SameTask
  <2> QED BY <1>4, <2>2, <2>3
<1> QED BY <1>1, <1>2, <1>4, <1>5

\* execve(), and steps that end a program.
LEMMA ExecQuiet ==
  ASSUME Typed, NEW p \in TaskIds, NEW i \in Images, Live(p), Exec(p, i)
  PROVE  \A m \in TaskIds : SameTask(m)
<1>1. Execs(p, i) /\ task[p] \in Task
  BY ExecExecs, Entries
<1>2. task'[p] = [task[p] EXCEPT !.img = i, !.fd = task[p].ctty]
  BY <1>1 DEF Execs
<1>3. SameTask(p)
  BY <1>1, <1>2 DEF Task, SameTask
<1> QED BY <1>1, <1>3 DEF Execs, SameTask

LEMMA ShellQuiet ==
  ASSUME Typed, NEW p \in TaskIds, Shell(p)
  PROVE  /\ \A m \in TaskIds : SameTask(m)
         /\ KeepsPlaces({p}) /\ At(p) = "exec" /\ At(p)' \in {"sh", "exit"} /\ Live(p)
<1>1. At(p) = "exec" /\ Live(p)
  BY Entries DEF Shell, At
<1>2. \A m \in TaskIds : SameTask(m)
  BY <1>1, ExecQuiet DEF Shell, SameTask
<1>3. KeepsPlaces({p}) /\ At(p)' \in {"sh", "exit"}
  BY DEF Shell, KeepsPlaces, At, Typed, Away
<1> QED BY <1>1, <1>2, <1>3

LEMMA JobExecQuiet ==
  ASSUME Typed, NEW p \in TaskIds, JobExec(p)
  PROVE  /\ \A m \in TaskIds : SameTask(m)
         /\ KeepsPlaces({p}) /\ At(p) = "jexec" /\ Live(p)
         /\ At(p)' = IF pc[p].kind \in {"shell", "daemon"} THEN "sh" ELSE "prog"
<1>1. At(p) = "jexec" /\ Live(p)
  BY Entries DEF JobExec, At
<1>2. \A m \in TaskIds : SameTask(m)
  BY <1>1, ExecQuiet DEF JobExec, SameTask
<1>3. KeepsPlaces({p}) /\ At(p)' = IF pc[p].kind \in {"shell", "daemon"} THEN "sh" ELSE "prog"
  BY DEF JobExec, KeepsPlaces, At, Typed, Away
<1> QED BY <1>1, <1>2, <1>3

LEMMA FrontQuiet ==
  ASSUME Typed, NEW p \in TaskIds, Front(p)
  PROVE  /\ task' = task /\ KeepsPlaces({p}) /\ At(p) \in {"front", "jfront"} /\ Live(p)
         /\ At(p)' = IF At(p) = "jfront" THEN "jexec"
                     ELSE IF pc[p].kind = "pipe" /\ pc[p].child = pc[p].index THEN "more" ELSE "waitj"
         /\ pc'[p].child = pc[p].child /\ pc'[p].index = pc[p].index /\ pc'[p].kind = pc[p].kind
<1>1. At(p) \in {"front", "jfront"} /\ Live(p) /\ task' = task /\ pc[p] \in Place
  BY Entries DEF Front, At
<1>2. /\ KeepsPlaces({p})
      /\ At(p)' = IF At(p) = "jfront" THEN "jexec"
                  ELSE IF pc[p].kind = "pipe" /\ pc[p].child = pc[p].index THEN "more" ELSE "waitj"
      /\ pc'[p].child = pc[p].child /\ pc'[p].index = pc[p].index /\ pc'[p].kind = pc[p].kind
  BY <1>1 DEF Front, KeepsPlaces, At, Typed, Place
<1> QED BY <1>1, <1>2

LEMMA BackQuiet ==
  ASSUME Typed, NEW p \in TaskIds, Back(p)
  PROVE  task' = task /\ KeepsPlaces({p}) /\ At(p) = "back" /\ At(p)' = "sh" /\ Live(p)
<1>1. At(p) = "back" /\ Live(p) /\ task' = task
  BY Entries DEF Back, At
<1>2. KeepsPlaces({p}) /\ At(p)' = "sh"
  BY DEF Back, KeepsPlaces, At, Typed, Away
<1> QED BY <1>1, <1>2

LEMMA ReapQuiet ==
  ASSUME Typed, NEW p \in TaskIds, NEW c \in TaskIds, Reap(p, c)
  PROVE  /\ task[c].st = "zombie" /\ task[c].parent = p /\ task'[c] = [Free EXCEPT !.st = "done"]
         /\ task'[c].st = "done" /\ ~Live(c) /\ Live(p) /\ p # c
         /\ \A m \in TaskIds \ {c} : task'[m] = task[m]
         /\ UNCHANGED <<image, tty, device, level, press, used>>
         /\ \/ At(p) \in {"sh", "waitj"} /\ pc' = pc
            \/ /\ At(p) = "waitj" /\ At(p)' = "back" /\ Gone(p, c, pc[p].index)
               /\ KeepsPlaces({p})
            \/ At(p) = "wait" /\ At(p)' = "exit" /\ KeepsPlaces({p})
<1>1. /\ task[c].st = "zombie" /\ task[c].parent = p
      /\ task' = [task EXCEPT ![c] = [Free EXCEPT !.st = "done"]]
      /\ UNCHANGED <<image, tty, device, level, press, used>>
  BY DEF Reap
<1>2. task'[c] = [Free EXCEPT !.st = "done"] /\ task'[c].st = "done"
      /\ \A m \in TaskIds \ {c} : task'[m] = task[m]
  BY <1>1 DEF Typed, Free
<1>3. \/ At(p) \in {"sh", "waitj"} /\ pc' = pc
      \/ /\ At(p) = "waitj" /\ At(p)' = "back" /\ Gone(p, c, pc[p].index)
         /\ KeepsPlaces({p})
      \/ At(p) = "wait" /\ At(p)' = "exit" /\ KeepsPlaces({p})
  <2>1. CASE pc[p].at = "sh" /\ UNCHANGED pc
    BY <2>1 DEF At
  <2>2. CASE /\ pc[p].at = "waitj"
             /\ pc' = IF Gone(p, c, pc[p].index) THEN [pc EXCEPT ![p].at = "back"] ELSE pc
    <3>1. CASE Gone(p, c, pc[p].index)
      BY <2>2, <3>1 DEF At, KeepsPlaces, Typed, Place
    <3>2. CASE ~Gone(p, c, pc[p].index)
      BY <2>2, <3>2 DEF At
    <3> QED BY <3>1, <3>2
  <2>3. CASE pc[p].at = "wait" /\ pc' = [pc EXCEPT ![p].at = "exit"]
    BY <2>3 DEF At, KeepsPlaces, Typed, Place
  <2> QED BY <2>1, <2>2, <2>3 DEF Reap
<1>4. Live(p) /\ ~Live(c)
  <2>1. At(p) # "none"
    BY <1>3
  <2> QED BY <1>1, <2>1, Entries DEF Live
<1> QED BY <1>1, <1>2, <1>3, <1>4

LEMMA ReapGrouped ==
  ASSUME Typed, Typed', Grouped, NEW p \in TaskIds, NEW c \in TaskIds, Reap(p, c) PROVE Grouped'
<1>1. /\ task[c].st = "zombie" /\ task[c].parent = p
      /\ task'[c].st = "done" /\ ~Live(c) /\ Live(p)
      /\ \A m \in TaskIds \ {c} : task'[m] = task[m]
      /\ \/ At(p) \in {"sh", "waitj"} /\ pc' = pc
         \/ At(p) = "waitj" /\ At(p)' = "back" /\ KeepsPlaces({p})
         \/ At(p) = "wait" /\ At(p)' = "exit" /\ KeepsPlaces({p})
  BY ReapQuiet
<1>2. KeepsTasks({})
  <2>1. Vacant(c)
    <3>1. \A r \in TaskIds : At(r) \in Forking => pc[r].child # c
      BY <1>1 DEF Grouped, ChildOf, Forking
    <3> QED BY <1>1, <3>1 DEF Vacant
  <2> QED BY <1>1, <2>1 DEF KeepsTasks, SameTask
<1>3. CASE pc' = pc
  BY <1>2, <1>3, AllGrouped
<1>4. CASE At(p) = "waitj" /\ At(p)' = "back" /\ KeepsPlaces({p})
  BY <1>1, <1>2, <1>4, QuietGrouped DEF Quiet
<1>5. CASE At(p) = "wait" /\ At(p)' = "exit" /\ KeepsPlaces({p})
  BY <1>1, <1>2, <1>5, QuietGrouped DEF Quiet, Before
<1> QED BY <1>1, <1>3, <1>4, <1>5

LEMMA HandlerGrouped ==
  ASSUME Typed, Typed', Grouped, NEW i \in Images, ConControlHandler(i) PROVE Grouped'
<1>1. /\ task' = task
      /\ \/ pc' = pc
         \/ \E m \in TaskIds : /\ At(m) \in {"bsd", "wait", "prog"} /\ Live(m)
                               /\ pc' = [pc EXCEPT ![m] = [Away EXCEPT !.at = "exit"]]
  BY HandlerMoves
<1>2. KeepsTasks({})
  BY <1>1 DEF KeepsTasks, SameTask
<1>3. CASE pc' = pc
  BY <1>2, <1>3, AllGrouped
<1>4. ASSUME NEW m \in TaskIds, At(m) \in {"bsd", "wait", "prog"}, Live(m),
             pc' = [pc EXCEPT ![m] = [Away EXCEPT !.at = "exit"]]
      PROVE  Grouped'
  <2>1. At(m)' = "exit" /\ KeepsPlaces({m})
    BY <1>4 DEF At, Away, KeepsPlaces, Typed
  <2> QED BY <1>2, <1>4, <2>1, QuietGrouped DEF Quiet, Before
<1> QED BY <1>1, <1>3, <1>4

LEMMA FrontGrouped ==
  ASSUME Typed, Typed', Grouped, "pipe" \notin Jobs, NEW p \in TaskIds, Front(p) PROVE Grouped'
<1>1. /\ task' = task /\ KeepsPlaces({p}) /\ At(p) \in {"front", "jfront"} /\ Live(p)
      /\ At(p)' = IF At(p) = "jfront" THEN "jexec"
                  ELSE IF pc[p].kind = "pipe" /\ pc[p].child = pc[p].index THEN "more" ELSE "waitj"
      /\ pc'[p].child = pc[p].child /\ pc'[p].index = pc[p].index
  BY FrontQuiet
<1>2. KeepsTasks({}) /\ KeepsTasks({p})
  BY <1>1 DEF KeepsTasks, SameTask
<1>3. CASE At(p) = "jfront"
  BY <1>1, <1>2, <1>3, QuietGrouped DEF Quiet
<1>4. CASE At(p) = "front"
  <2>1. At(p)' = "waitj"
    <3>1. pc[p].kind # "pipe"
      BY <1>4, Entries DEF PlaceOK, At
    <3> QED BY <1>1, <1>4, <3>1
  <2>2. GroupOf(p)' /\ ChildOf(p)' /\ Indexed(p)'
    <3>1. GroupOf(p) /\ ChildOf(p)
      BY DEF Grouped
    <3>2. GroupOf(p)'
      BY <1>1, <1>4, <2>1, <3>1 DEF GroupOf, Before, OwnAt, Opens, ShellAt, Live
    <3>3. Indexed(p)'
      BY <1>1, <1>4, <2>1, <3>1 DEF ChildOf, Indexed, Forking
    <3> QED BY <2>1, <3>2, <3>3 DEF ChildOf, Forking
  <2>3. ASSUME NEW m \in TaskIds, m # p PROVE GroupOf(m)' /\ ChildOf(m)' /\ Indexed(m)'
    <3>1. SameChild(p)
      BY <1>1, <2>1 DEF SameChild, Live, Before, Opens
    <3>2. \A r \in TaskIds : r \in {p} => At(r) # "group"
      BY <1>4
    <3>3. \A c \in TaskIds : c \in {p} => SameChild(c)
      BY <3>1
    <3> QED BY <1>1, <1>2, <2>3, <3>2, <3>3, OthersKept
  <2> QED BY <2>2, <2>3 DEF Grouped
<1> QED BY <1>1, <1>3, <1>4

LEMMA SetsidGrouped ==
  ASSUME Typed, Typed', Grouped, NEW p \in TaskIds, vfs_setsid(p) PROVE Grouped'
<1> USE Consts
<1>1. At(p) = "setsid" /\ Live(p) /\ GroupOf(p) /\ task[p] \in Task
  BY Entries DEF vfs_setsid, At, Grouped
<1>2. task[p].gid = 0 /\ task[p].sid = 0
  BY <1>1 DEF GroupOf, Before
<1>3. /\ KeepsTasks({p}) /\ task'[p].gid = p /\ task'[p].sid = p
      /\ task'[p].st = task[p].st /\ task'[p].parent = task[p].parent
  <2>1. CASE task[p].gid = p
    BY <1>2, <2>1 DEF vfs_setsid, KeepsTasks, SameTask
  <2>2. CASE task[p].gid # p
    <3>1. task' = [task EXCEPT ![p].gid = p, ![p].sid = p]
      BY <2>2 DEF vfs_setsid
    <3>2. /\ task'[p].gid = p /\ task'[p].sid = p
          /\ task'[p].st = task[p].st /\ task'[p].parent = task[p].parent
      BY <1>1, <3>1 DEF Typed, Task
    <3>3. \A m \in TaskIds \ {p} : task'[m] = task[m]
      BY <3>1 DEF Typed
    <3> QED BY <3>2, <3>3 DEF KeepsTasks, SameTask
  <2> QED BY <2>1, <2>2
<1>4. At(p)' = "open" /\ KeepsPlaces({p})
  BY DEF vfs_setsid, KeepsPlaces, At, Typed, Place
<1>5. GroupOf(p)' /\ ChildOf(p)' /\ Indexed(p)'
  <2>1. Live(p)' /\ task'[p].st # "zombie"
    BY <1>1, <1>3 DEF Live
  <2> QED BY <1>3, <1>4, <2>1
          DEF GroupOf, ChildOf, Indexed, Forking, Before, OwnAt, Opens
<1>6. ASSUME NEW m \in TaskIds, m # p PROVE GroupOf(m)' /\ ChildOf(m)' /\ Indexed(m)'
  <2>1. \A r \in TaskIds : r \in {p} => At(r) # "group"
    BY <1>1
  <2>2. ~(At(m) \in Forking /\ pc[m].child = p)
    BY <1>1 DEF Grouped, ChildOf, Before
  <2>3. \A c \in TaskIds : c \in {p} /\ At(m) \in Forking /\ c = pc[m].child => SameChild(c)
    BY <2>2
  <2> QED BY <1>3, <1>4, <1>6, <2>1, <2>3, OthersKept
<1> QED BY <1>5, <1>6 DEF Grouped

\* What Start, and fork() in bsd and in ksh, make of tasks and places.
LEMMA StartStep ==
  ASSUME Typed, NEW w \in Windows, Start(w)
  PROVE  \E n \in TaskIds, i \in Images :
           /\ task[n].st = "free" /\ At(n) = "none" /\ ~Used(i)
           /\ \A m \in TaskIds \ {n} : Stays(m)
           /\ task'[n] = [Free EXCEPT !.st = "live", !.img = i]
           /\ task'[n].gid = 0 /\ task'[n].sid = 0 /\ task'[n].st = "live" /\ task'[n].img = i
           /\ task'[n].ctl = FALSE /\ task'[n].ctty = 0
           /\ At(n)' = "bsd" /\ pc'[n].kind = (IF level = 0 THEN "single" ELSE "multi")
           /\ KeepsPlaces({n})
           /\ image'[i] = [main |-> n, ctty |-> 0, window |-> w, has |-> {}]
           /\ \A j \in Images \ {i} : image'[j] = image[j]
           /\ used.starts < Starts /\ used'.starts = used.starts + 1
           /\ "boot" \in Scene \/ level = 1 \/ \A p \in TaskIds : ~Live(p)
           /\ UNCHANGED <<tty, device, level, press>>
<1> USE Consts
<1>1. PICK n \in TaskIds, i \in Images :
        /\ used.starts < Starts /\ IsNew(n, 0) /\ IsFresh(i)
        /\ "boot" \in Scene \/ level = 1 \/ \A p \in TaskIds : ~Live(p)
        /\ task' = [Cleared(n, 0) EXCEPT ![n] = [Free EXCEPT !.st = "live", !.img = i]]
        /\ image' = [image EXCEPT ![i] = [main |-> n, ctty |-> 0, window |-> w, has |-> {}]]
        /\ pc' = [pc EXCEPT ![n] = [Away EXCEPT !.at = "bsd",
                                     !.kind = IF level = 0 THEN "single" ELSE "multi"]]
        /\ used' = [used EXCEPT !.starts = @ + 1]
        /\ UNCHANGED <<tty, device, level, press>>
  BY DEF Start
<1>2. [Free EXCEPT !.st = "live", !.img = i] \in Task
  BY DEF Free, Task, None
<1>3. /\ task'[n] = [Free EXCEPT !.st = "live", !.img = i]
      /\ \A m \in TaskIds \ {n} : Stays(m)
      /\ task[n].st = "free" /\ At(n) = "none"
  BY <1>1, <1>2, ClearedSlots
<1>4. /\ task'[n].gid = 0 /\ task'[n].sid = 0 /\ task'[n].st = "live" /\ task'[n].img = i
      /\ task'[n].ctl = FALSE /\ task'[n].ctty = 0
  BY <1>3 DEF Free
<1>5. /\ At(n)' = "bsd" /\ pc'[n].kind = (IF level = 0 THEN "single" ELSE "multi")
      /\ KeepsPlaces({n})
  BY <1>1 DEF At, Away, KeepsPlaces, Typed
<1>6. ~Used(i)
  BY <1>1 DEF IsFresh
<1>7. /\ image'[i] = [main |-> n, ctty |-> 0, window |-> w, has |-> {}]
      /\ \A j \in Images \ {i} : image'[j] = image[j]
  BY <1>1 DEF Typed
<1>8. used'.starts = used.starts + 1
  <2>1. used' = [used EXCEPT !.starts = @ + 1]
    BY <1>1
  <2> QED BY <2>1 DEF Typed, Count
<1> QED BY <1>1, <1>3, <1>4, <1>5, <1>6, <1>7, <1>8

\* The entries of a forked task c.
Copied(p, c) ==
  /\ task'[c].st = "live" /\ task'[c].gid = task[p].gid /\ task'[c].sid = task[p].sid
  /\ task'[c].img = task[p].img /\ task'[c].ctty = task[p].ctty /\ task'[c].fd = task[p].fd
  /\ task'[c].ctl = FALSE /\ task'[c].parent = p /\ task'[p] = task[p]

LEMMA Spawned ==
  ASSUME Typed, NEW p \in TaskIds, NEW c \in TaskIds, Live(p), Spawns(p, c)
  PROVE  Copied(p, c)
<1>1. task[p] \in Task /\ task[p].st = "live"
  BY Entries DEF Live
<1>2. task'[c] = [task[p] EXCEPT !.ctl = FALSE, !.parent = p]
  BY DEF Spawns
<1>3. task'[p] = task[p]
  BY <1>1 DEF Spawns, Stays
<1> QED BY <1>1, <1>2, <1>3 DEF Task, Copied

LEMMA BsdForkStep ==
  ASSUME Typed, NEW p \in TaskIds, BsdFork(p)
  PROVE  \E c \in TaskIds :
           /\ At(p) = "bsd" /\ Live(p) /\ Spawns(p, c)
           /\ At(p)' = "wait" /\ pc'[p].kind = pc[p].kind
           /\ At(c)' = (IF pc[p].kind = "single" THEN "single" ELSE "setsid")
           /\ pc'[c].kind = pc[p].kind /\ pc'[c].index = 0 /\ pc'[c].unit = 0
           /\ KeepsPlaces({p, c}) /\ pc[p].kind \in {"single", "multi"}
           /\ UNCHANGED <<image, tty, device, level, press, used>>
<1>1. PICK c \in TaskIds :
        /\ At(p) = "bsd" /\ IsNew(c, task[p].gid) /\ task' = Dup(p, c)
        /\ pc' = [pc EXCEPT ![p].at = "wait", ![p].child = c,
                    ![c] = [Away EXCEPT !.at = IF pc[p].kind = "single" THEN "single" ELSE "setsid",
                                        !.kind = pc[p].kind]]
        /\ UNCHANGED <<image, tty, device, level, press, used>>
  BY DEF BsdFork, At
<1>2. Live(p) /\ pc[p] \in Place /\ pc[p].kind \in {"single", "multi"}
  BY <1>1, Entries DEF PlaceOK, LoginAt, Before, At
<1>3. Spawns(p, c) /\ c # p
  BY <1>1, <1>2, DupSpawns DEF Spawns
<1> DEFINE d == [pc[p] EXCEPT !.at = "wait", !.child = c]
           e == [Away EXCEPT !.at = IF pc[p].kind = "single" THEN "single" ELSE "setsid",
                             !.kind = pc[p].kind]
<1>4. pc' = [pc EXCEPT ![p] = d, ![c] = e]
  BY <1>1, <1>2, <1>3 DEF Typed
<1>5. d.at = "wait" /\ d.kind = pc[p].kind
  BY <1>2 DEF Place
<1>6. /\ e.at = (IF pc[p].kind = "single" THEN "single" ELSE "setsid")
      /\ e.kind = pc[p].kind /\ e.index = 0 /\ e.unit = 0
  BY DEF Away
<1> HIDE DEF d, e
<1>7. pc'[p] = d /\ pc'[c] = e /\ KeepsPlaces({p, c})
  BY <1>3, <1>4 DEF Typed, KeepsPlaces
<1>8. /\ At(p)' = "wait" /\ pc'[p].kind = pc[p].kind
      /\ At(c)' = (IF pc[p].kind = "single" THEN "single" ELSE "setsid")
      /\ pc'[c].kind = pc[p].kind /\ pc'[c].index = 0 /\ pc'[c].unit = 0
  BY <1>5, <1>6, <1>7 DEF At
<1> QED BY <1>1, <1>2, <1>3, <1>7, <1>8

LEMMA ForkStep ==
  ASSUME Typed, NEW p \in TaskIds, NEW kind \in Jobs, Fork(p, kind)
  PROVE  \E c \in TaskIds :
           /\ At(p) = "sh" \/ (At(p) = "more" /\ kind = "pipe")
           /\ Live(p) /\ Spawns(p, c)
           /\ At(p)' = "group" /\ pc'[p].child = c /\ pc'[p].kind = kind
           /\ At(c)' = "jgroup" /\ pc'[c].kind = kind /\ pc'[c].index = pc'[p].index
           /\ At(p) = "sh" => pc'[p].index = c
           /\ KeepsPlaces({p, c})
           /\ used'.starts = used.starts
           /\ UNCHANGED <<image, tty, device, level, press>>
<1> DEFINE g(c) == IF pc[p].at = "more" THEN pc[p].child ELSE c
           d(c) == [Away EXCEPT !.at = "group", !.child = c, !.index = g(c), !.kind = kind]
           e(c) == [Away EXCEPT !.at = "jgroup", !.index = g(c), !.kind = kind]
<1>1. PICK c \in TaskIds :
        /\ used.forks < Forks /\ IsNew(c, task[p].gid)
        /\ \/ pc[p].at = "sh"
           \/ pc[p].at = "more" /\ kind = "pipe"
        /\ task' = Dup(p, c)
        /\ pc' = [pc EXCEPT ![p] = d(c), ![c] = e(c)]
        /\ used' = [used EXCEPT !.forks = @ + 1]
        /\ UNCHANGED <<image, tty, device, level, press>>
  BY DEF Fork
<1>2. Live(p)
  BY <1>1, Entries DEF At
<1>3. Spawns(p, c) /\ c # p
  BY <1>1, <1>2, DupSpawns DEF Spawns
<1> HIDE DEF g
<1>4. d(c).at = "group" /\ d(c).child = c /\ d(c).kind = kind /\ d(c).index = g(c)
  BY DEF Away
<1>5. e(c).at = "jgroup" /\ e(c).kind = kind /\ e(c).index = g(c)
  BY DEF Away
<1> HIDE DEF d, e
<1>6. pc'[p] = d(c) /\ pc'[c] = e(c) /\ KeepsPlaces({p, c})
  BY <1>1, <1>3 DEF Typed, KeepsPlaces
<1>7. At(p) = "sh" => g(c) = c
  BY DEF g, At
<1>8. used'.starts = used.starts
  BY <1>1 DEF Typed, Count
<1>9. At(p) = "sh" \/ (At(p) = "more" /\ kind = "pipe")
  BY <1>1 DEF At
<1> QED BY <1>1, <1>2, <1>3, <1>4, <1>5, <1>6, <1>7, <1>8, <1>9 DEF At

\* Slots that are free are no child's.
LEMMA FreeNoChild ==
  ASSUME Typed, Grouped, NEW n \in TaskIds, task[n].st = "free"
  PROVE  \A r \in TaskIds : At(r) \in Forking => pc[r].child # n
  BY DEF Grouped, ChildOf

LEMMA StaysKeeps ==
  ASSUME Typed, Grouped, NEW n, \A m \in TaskIds \ {n} : Stays(m)
  PROVE  KeepsTasks({n})
  BY StaysVacant DEF KeepsTasks

LEMMA StartGrouped ==
  ASSUME Typed, Typed', Grouped, NEW w \in Windows, Start(w) PROVE Grouped'
<1> USE Consts
<1>1. PICK n \in TaskIds :
           /\ task[n].st = "free" /\ At(n) = "none"
           /\ \A m \in TaskIds \ {n} : Stays(m)
           /\ task'[n].gid = 0 /\ task'[n].sid = 0 /\ task'[n].st = "live"
           /\ At(n)' = "bsd" /\ KeepsPlaces({n})
  BY StartStep
<1>2. KeepsTasks({n})
  BY <1>1, StaysKeeps
<1>3. GroupOf(n)' /\ ChildOf(n)' /\ Indexed(n)'
  BY <1>1 DEF GroupOf, ChildOf, Indexed, Before, OwnAt, Opens, ShellAt, Forking
<1>4. ASSUME NEW m \in TaskIds, m # n PROVE GroupOf(m)' /\ ChildOf(m)' /\ Indexed(m)'
  <2>1. \A r \in TaskIds : r \in {n} => At(r) # "group"
    BY <1>1
  <2>2. \A c \in TaskIds : c \in {n} /\ At(m) \in Forking /\ c = pc[m].child => SameChild(c)
    BY <1>1, FreeNoChild
  <2> QED BY <1>1, <1>2, <1>4, <2>1, <2>2, OthersKept
<1> QED BY <1>3, <1>4 DEF Grouped

LEMMA SpawnKeeps ==
  ASSUME Typed, Grouped, NEW p \in TaskIds, NEW c \in TaskIds, Live(p), Spawns(p, c)
  PROVE  KeepsTasks({p, c}) /\ c # p /\ \A r \in TaskIds : At(r) \in Forking => pc[r].child # c
<1>1. KeepsTasks({c}) /\ c # p
  BY StaysKeeps DEF Spawns
<1>2. \A r \in TaskIds : At(r) \in Forking => pc[r].child # c
  BY FreeNoChild DEF Spawns
<1> QED BY <1>1, <1>2 DEF KeepsTasks

LEMMA BsdForkGrouped ==
  ASSUME Typed, Typed', Grouped, NEW p \in TaskIds, BsdFork(p) PROVE Grouped'
<1> USE Consts
<1>1. PICK c \in TaskIds :
           /\ At(p) = "bsd" /\ Live(p) /\ Spawns(p, c)
           /\ At(p)' = "wait"
           /\ At(c)' \in {"single", "setsid"}
           /\ KeepsPlaces({p, c})
  BY BsdForkStep
<1>2. /\ task'[c].st = "live" /\ task'[c].gid = task[p].gid /\ task'[c].sid = task[p].sid
      /\ task'[p] = task[p]
  <2>1. Copied(p, c)
    BY <1>1, Spawned
  <2> QED BY <2>1 DEF Copied
<1>3. KeepsTasks({p, c}) /\ c # p /\ \A r \in TaskIds : At(r) \in Forking => pc[r].child # c
  BY <1>1, SpawnKeeps
<1>4. task[p].gid = 0 /\ task[p].sid = 0 /\ task[p].st = "live"
  BY <1>1 DEF Grouped, GroupOf, Before, Live
<1>5. GroupOf(p)' /\ ChildOf(p)' /\ Indexed(p)'
  BY <1>1, <1>2, <1>4 DEF GroupOf, ChildOf, Indexed, Before, OwnAt, Opens, ShellAt, Forking
<1>6. GroupOf(c)' /\ ChildOf(c)' /\ Indexed(c)'
  BY <1>1, <1>2, <1>4 DEF GroupOf, ChildOf, Indexed, Before, OwnAt, Opens, ShellAt, Forking
<1>7. ASSUME NEW m \in TaskIds, m \notin {p, c} PROVE GroupOf(m)' /\ ChildOf(m)' /\ Indexed(m)'
  <2>1. \A r \in TaskIds : r \in {p, c} => At(r) # "group"
    BY <1>1 DEF Spawns
  <2>2. ~(At(m) \in Forking /\ pc[m].child = p)
    BY <1>1, <1>4 DEF Grouped, ChildOf, Before, Live
  <2>3. \A k \in TaskIds : k \in {p, c} /\ At(m) \in Forking /\ k = pc[m].child => SameChild(k)
    BY <1>3, <2>2
  <2> QED BY <1>1, <1>3, <1>7, <2>1, <2>3, OthersKept
<1> QED BY <1>5, <1>6, <1>7 DEF Grouped

LEMMA ForkGrouped ==
  ASSUME Typed, Typed', Grouped, NEW p \in TaskIds, NEW kind \in Jobs, Fork(p, kind) PROVE Grouped'
<1> USE Consts
<1>1. PICK c \in TaskIds :
           /\ At(p) = "sh" \/ (At(p) = "more" /\ kind = "pipe")
           /\ Live(p) /\ Spawns(p, c)
           /\ At(p)' = "group" /\ pc'[p].child = c
           /\ At(c)' = "jgroup" /\ pc'[c].index = pc'[p].index
           /\ At(p) = "sh" => pc'[p].index = c
           /\ KeepsPlaces({p, c})
  BY ForkStep
<1>2. At(p) = "sh" /\ pc'[p].index = c /\ task[p].gid = p /\ task[p].st = "live"
  BY <1>1 DEF Grouped, Indexed, GroupOf, OwnAt, ShellAt, Live
<1>3. /\ task'[c].st = "live" /\ task'[c].gid = task[p].gid /\ task'[c].sid = task[p].sid
      /\ task'[c].parent = p /\ task'[p] = task[p]
  <2>1. Copied(p, c)
    BY <1>1, Spawned
  <2> QED BY <2>1 DEF Copied
<1>4. KeepsTasks({p, c}) /\ c # p /\ \A r \in TaskIds : At(r) \in Forking => pc[r].child # c
  BY <1>1, SpawnKeeps
<1>5. c > p
  BY <1>1, <1>2, <1>4 DEF Spawns
<1>6. GroupOf(p)' /\ ChildOf(p)' /\ Indexed(p)'
  <2>1. GroupOf(p)'
    BY <1>1, <1>2, <1>3 DEF Grouped, GroupOf, Before, OwnAt, Opens, ShellAt, Live
  <2>2. ChildOf(p)'
    BY <1>1, <1>2, <1>3, <1>5 DEF ChildOf, Before, Opens, Live
  <2> QED BY <1>1, <2>1, <2>2 DEF Indexed
<1>7. GroupOf(c)' /\ ChildOf(c)' /\ Indexed(c)'
  <2>1. GroupOf(p)
    BY DEF Grouped
  <2>2. Inherits(c)'
    BY <1>1, <1>3 DEF Inherits
  <2>3. GroupOf(c)'
    BY <1>1, <1>2, <1>3, <2>1, <2>2 DEF GroupOf, Before, OwnAt, Opens, ShellAt, Live
  <2> QED BY <1>1, <1>2, <2>3 DEF ChildOf, Forking, Indexed
<1>8. ASSUME NEW m \in TaskIds, m \notin {p, c} PROVE GroupOf(m)' /\ ChildOf(m)' /\ Indexed(m)'
  <2>1. \A r \in TaskIds : r \in {p, c} => At(r) # "group"
    BY <1>1, <1>2 DEF Spawns
  <2>2. SameChild(p)
    BY <1>1, <1>2, <1>3 DEF SameChild, Live, Before, Opens
  <2>3. \A k \in TaskIds : k \in {p, c} /\ At(m) \in Forking /\ k = pc[m].child => SameChild(k)
    BY <1>4, <2>2
  <2> QED BY <1>1, <1>4, <1>8, <2>1, <2>3, OthersKept
<1> QED BY <1>6, <1>7, <1>8 DEF Grouped

LEMMA ExitGrouped ==
  ASSUME Typed, Typed', Grouped, NEW p \in TaskIds, Exit(p) PROVE Grouped'
<1>1. /\ Live(p) /\ At(p) \in {"sh", "prog", "exit"} /\ At(p)' = "none" /\ ~Live(p)'
      /\ \A m \in TaskIds \ {p} : pc'[m] = pc[m]
  BY ExitTyped
<1>2. CASE sys_exit(p)
  <2>1. /\ Zombie(p).st = "zombie" /\ Zombie(p).gid = task[p].gid
        /\ Zombie(p).parent = IF Live(task[p].parent) THEN task[p].parent ELSE 1
        /\ task'[p] = Zombie(p)
        /\ \A m \in TaskIds \ {p} : task'[m] = task[m]
    BY <1>2, ExitDies
  <2>2. KeepsTasks({p}) /\ KeepsPlaces({p})
    BY <1>1, <2>1 DEF KeepsTasks, SameTask, KeepsPlaces
  <2>3. GroupOf(p)' /\ ChildOf(p)' /\ Indexed(p)'
    <3>1. task[p].gid \in {0, p}
      BY <1>1 DEF Grouped, GroupOf, OwnAt, ShellAt
    <3> QED BY <1>1, <2>1, <3>1
            DEF GroupOf, ChildOf, Indexed, Forking, Before, OwnAt, Opens, ShellAt
  <2>4. ASSUME NEW m \in TaskIds, m # p PROVE GroupOf(m)' /\ ChildOf(m)' /\ Indexed(m)'
    <3>1. \A r \in TaskIds : r \in {p} => At(r) # "group"
      BY <1>1
    <3>2. At(m) \in Forking /\ pc[m].child = p => SameChild(p)
      <4> SUFFICES ASSUME At(m) \in Forking, pc[m].child = p PROVE SameChild(p)
        OBVIOUS
      <4>1. task[p].parent = m /\ Live(m)
        BY Entries DEF Grouped, ChildOf, Forking
      <4> QED BY <1>1, <2>1, <4>1 DEF SameChild
    <3>3. \A c \in TaskIds : c \in {p} /\ At(m) \in Forking /\ c = pc[m].child => SameChild(c)
      BY <3>2
    <3> QED BY <2>2, <2>4, <3>1, <3>3, OthersKept
  <2> QED BY <2>3, <2>4 DEF Grouped
<1>3. CASE vfs_shmexit(p)
  <2>1. \A m \in TaskIds : task'[m] = Free /\ At(m)' = "none"
    <3>1. /\ \A m \in TaskIds : task'[m] = Free
          /\ \A q \in TaskIds \ {p} : ~Live(q)
      BY <1>3, GoneTyped
    <3>2. \A m \in TaskIds \ {p} : At(m)' = "none"
      BY <1>1, <3>1, Entries DEF At
    <3> QED BY <1>1, <3>1, <3>2
  <2> QED BY <2>1 DEF Grouped, GroupOf, ChildOf, Indexed, Free, Forking, Before, OwnAt, Opens,
                      ShellAt, Live
<1> QED BY <1>2, <1>3 DEF Exit

\* In the parent's setpgid(), or in the child's own, the job gets its group.
LEMMA SetpgidGrouped ==
  ASSUME Typed, Typed', Grouped, NEW p \in TaskIds, sys_setpgid(p) PROVE Grouped'
<1> USE Consts
<1>1. /\ Live(p) /\ At(p) \in {"group", "jgroup"} /\ Sets(p) \in TaskIds
      /\ task'[Sets(p)] = [task[Sets(p)] EXCEPT !.gid = pc[p].index]
      /\ \A m \in TaskIds \ {Sets(p)} : task'[m] = task[m]
      /\ pc' = [pc EXCEPT ![p] = After(p)]
  BY SetpgidMoves
<1>2. PICK c \in TaskIds : c = Sets(p)
  BY <1>1
<1>3. pc[p].index = c /\ task[c].st \in {"live", "zombie"}
  <2>1. CASE At(p) = "group"
    BY <1>2, <2>1 DEF Grouped, ChildOf, Forking, Sets
  <2>2. CASE At(p) = "jgroup"
    BY <1>1, <1>2, <2>2 DEF Grouped, Indexed, Sets, Live
  <2> QED BY <1>1, <2>1, <2>2
<1>4. /\ task'[c].gid = c /\ task'[c].st = task[c].st /\ task'[c].sid = task[c].sid
      /\ task'[c].parent = task[c].parent
      /\ \A m \in TaskIds \ {c} : task'[m] = task[m]
  <2>1. task[c] \in Task
    BY Entries
  <2> QED BY <1>1, <1>2, <1>3, <2>1 DEF Task
<1>5. /\ At(p)' \in {"front", "sh", "jfront", "jexec"} /\ KeepsPlaces({p})
      /\ At(p)' = "front" => /\ At(p) = "group" /\ pc'[p].index = pc[p].index
                             /\ pc'[p].child = pc[p].child
      /\ At(p)' = "jfront" => At(p) = "jgroup" /\ pc'[p].index = pc[p].index
      /\ At(p)' = "sh" => At(p) = "group"
      /\ At(p)' = "jexec" => At(p) = "jgroup"
  <2>1. pc'[p] = After(p) /\ KeepsPlaces({p}) /\ pc[p] \in Place
    BY <1>1, Entries DEF Typed, KeepsPlaces
  <2>2. CASE At(p) = "group"
    <3>1. After(p) = IF Fore(pc[p].kind) THEN [pc[p] EXCEPT !.at = "front"] ELSE [Away EXCEPT !.at = "sh"]
      BY <2>2 DEF After
    <3> QED BY <2>1, <2>2, <3>1 DEF At, Place, Away
  <2>3. CASE At(p) = "jgroup"
    <3>1. After(p) = [pc[p] EXCEPT !.at = IF Fore(pc[p].kind) THEN "jfront" ELSE "jexec"]
      BY <2>3 DEF After
    <3> QED BY <2>1, <2>3, <3>1 DEF At, Place
  <2> QED BY <1>1, <2>2, <2>3
<1>6. c # p => At(p) = "group" /\ pc[p].child = c /\ c > p /\ task[c].parent = p
                /\ At(c) \notin Before \cup Opens \cup {"exec"}
  <2> SUFFICES ASSUME c # p
               PROVE  At(p) = "group" /\ pc[p].child = c /\ c > p /\ task[c].parent = p
                      /\ At(c) \notin Before \cup Opens \cup {"exec"}
    OBVIOUS
  <2>1. At(p) = "group" /\ pc[p].child = c
    BY <1>1, <1>2 DEF Sets
  <2>2. c > p /\ task[c].parent = p /\ (Live(c) => At(c) \notin Before \cup Opens \cup {"exec"})
    BY <2>1 DEF Grouped, ChildOf, Forking
  <2>3. ~Live(c) => At(c) = "none"
    BY Entries
  <2> QED BY <2>1, <2>2, <2>3 DEF Before, Opens
<1>7. c = p => At(p) = "jgroup"
  <2>1. At(p) = "group" => pc[p].child > p /\ pc[p].child = Sets(p)
    BY DEF Grouped, ChildOf, Forking, Sets
  <2> QED BY <1>1, <1>2, <2>1
<1>8. KeepsTasks({p, c}) /\ KeepsPlaces({p, c})
  BY <1>4, <1>5 DEF KeepsTasks, SameTask, KeepsPlaces
<1>9. At(p) = "group" => c # p
  BY <1>7
<1>10. GroupOf(p)' /\ ChildOf(p)' /\ Indexed(p)'
  <2>1. task'[p].gid = p /\ Live(p)' /\ task'[p].sid = task[p].sid /\ task'[p].st = task[p].st
        /\ (task[p].gid = 0 => task[p].sid = 0)
    <3>1. CASE c = p
      BY <1>1, <1>4, <3>1 DEF Live, Grouped, GroupOf
    <3>2. CASE c # p
      BY <1>1, <1>4, <1>6, <3>2 DEF Live, Grouped, GroupOf, OwnAt, ShellAt
    <3> QED BY <3>1, <3>2
  <2>2. GroupOf(p)'
    <3>1. p = 0 => task[p].sid = 0
      <4>1. At(p) = "group" => task[p].gid = p
        BY DEF Grouped, GroupOf, OwnAt, ShellAt
      <4>2. At(p) = "jgroup" => (task[p].gid = p \/ \E r \in TaskIds : p > r)
        <5> SUFFICES ASSUME At(p) = "jgroup", task[p].gid # p PROVE \E r \in TaskIds : p > r
          OBVIOUS
        <5>1. Inherits(p)
          BY DEF Grouped, GroupOf
        <5>2. PICK r \in TaskIds : At(r) = "group" /\ pc[r].child = p
          BY <5>1 DEF Inherits
        <5> QED BY <5>2 DEF Grouped, ChildOf, Forking
      <4> QED BY <1>1, <1>4, <2>1, <4>1, <4>2 DEF Grouped, GroupOf
    <3> QED BY <1>5, <2>1, <3>1 DEF GroupOf, Before, OwnAt, Opens, ShellAt, Live
  <2>3. ChildOf(p)'
    <3> SUFFICES ASSUME At(p)' = "front" PROVE ChildOf(p)'
      BY <1>5 DEF ChildOf, Forking
    <3>1. ChildOf(p) /\ c # p /\ pc[p].child = c /\ pc'[p].child = c /\ pc'[p].index = c
      BY <1>3, <1>5, <1>6, <1>9 DEF Grouped
    <3>2. At(c)' = At(c)
      BY <1>5, <3>1 DEF KeepsPlaces, At
    <3>3. Live(c) => task[c].sid = task[p].sid
      BY <1>5, <3>1 DEF ChildOf, Forking
    <3> QED BY <1>3, <1>4, <1>6, <3>1, <3>2, <3>3 DEF ChildOf, Live
  <2>4. Indexed(p)'
    BY <1>3, <1>5, <1>6, <1>7 DEF Indexed
  <2> QED BY <2>2, <2>3, <2>4
<1>11. ASSUME c # p PROVE GroupOf(c)' /\ ChildOf(c)' /\ Indexed(c)'
  <2>1. At(c)' = At(c) /\ pc'[c] = pc[c] /\ At(c) \notin Before \cup Opens \cup {"exec"}
    BY <1>5, <1>6, <1>11 DEF KeepsPlaces, At
  <2>2. GroupOf(c)'
    BY <1>4, <1>6, <1>11, <2>1 DEF GroupOf, Live
  <2>3. Indexed(c)'
    BY <2>1 DEF Grouped, Indexed, At
  <2>4. \A k \in TaskIds : k = pc[c].child /\ At(c) \in Forking => SameChild(k)
    <3> SUFFICES ASSUME NEW k \in TaskIds, k = pc[c].child, At(c) \in Forking PROVE SameChild(k)
      OBVIOUS
    <3>1. k > c
      BY DEF Grouped, ChildOf
    <3>2. k # c /\ k # p
      BY <1>6, <1>11, <3>1
    <3>3. task'[k] = task[k] /\ At(k)' = At(k)
      BY <1>4, <1>5, <3>2 DEF KeepsPlaces, At
    <3> QED BY <3>3 DEF SameChild, Live
  <2> QED BY <1>4, <2>1, <2>2, <2>3, <2>4, ChildKept
<1>12. ASSUME NEW m \in TaskIds, m \notin {p, c} PROVE GroupOf(m)' /\ ChildOf(m)' /\ Indexed(m)'
  <2>1. ASSUME NEW r \in TaskIds, r \in {p, c}, At(r) = "group", pc[r].child = m
        PROVE  task'[r].gid = task[r].gid /\ pc'[r] = pc[r]
    <3>1. r = c /\ c # p
      BY <1>6, <1>7, <1>12, <2>1
    <3>2. task[c].gid = c
      BY <2>1, <3>1 DEF Grouped, GroupOf, OwnAt, ShellAt
    <3> QED BY <1>4, <1>5, <3>1, <3>2 DEF KeepsPlaces
  <2>2. ASSUME NEW k \in TaskIds, k \in {p, c}, At(m) \in Forking, k = pc[m].child
        PROVE  SameChild(k)
    <3>1. k > m /\ task[k].parent = m
      BY <2>2 DEF Grouped, ChildOf
    <3>2. k = p
      BY <1>6, <1>12, <2>2, <3>1
    <3>3. At(p)' \notin Before \cup Opens \cup {"exec"}
      BY <1>5 DEF Before, Opens
    <3>4. task'[p].st = task[p].st /\ task'[p].sid = task[p].sid /\ task'[p].parent = task[p].parent
      BY <1>4
    <3> QED BY <3>2, <3>3, <3>4 DEF SameChild, Live
  <2> QED BY <1>8, <1>12, <2>1, <2>2, OthersKept
<1> QED BY <1>10, <1>11, <1>12 DEF Grouped

LEMMA GroupedInit == Init => Grouped
  BY DEF Init, Grouped, GroupOf, ChildOf, Indexed, NoTask, Free, Away, At, Live, Forking, Before,
         OwnAt, Opens, ShellAt

\* Steps of one program that keep what groups are told by of every task.
LEMMA SameTasksGrouped ==
  ASSUME Typed, Typed', Grouped, NEW p \in TaskIds, Live(p), Quiet(At(p), At(p)'),
         \A m \in TaskIds : SameTask(m), KeepsPlaces({p})
  PROVE  Grouped'
<1>1. KeepsTasks({})
  BY DEF KeepsTasks
<1> QED BY <1>1, QuietGrouped

LEMMA LoginGrouped ==
  ASSUME Typed, Typed', Grouped, NEW p \in TaskIds, Login(p) PROVE Grouped'
<1>1. CASE BsdFork(p)
  BY <1>1, BsdForkGrouped
<1>2. CASE vfs_setsid(p)
  BY <1>2, SetsidGrouped
<1>3. CASE \/ tty_init(p) \/ SetLevel(p) \/ sys_revoke(p) \/ OpenConsole(p) \/ FindUnit(p)
           \/ FindTerm(p) \/ tty_attach(p)
  <2>1. task' = task /\ KeepsPlaces({p}) /\ Quiet(At(p), At(p)') /\ Live(p)
    BY <1>3, LoginQuiet
  <2>2. \A m \in TaskIds : SameTask(m)
    BY <2>1 DEF SameTask
  <2> QED BY <2>1, <2>2, SameTasksGrouped
<1>4. CASE Getty(p)
  <2>1. /\ \A m \in TaskIds : SameTask(m)
        /\ KeepsPlaces({p}) /\ At(p) = "ctty" /\ At(p)' = "exec" /\ Live(p)
    BY <1>4, GettyQuiet
  <2>2. Quiet(At(p), At(p)')
    BY <2>1 DEF Quiet, Opens
  <2> QED BY <2>1, <2>2, SameTasksGrouped
<1>5. CASE Shell(p)
  <2>1. /\ \A m \in TaskIds : SameTask(m)
        /\ KeepsPlaces({p}) /\ At(p) = "exec" /\ At(p)' \in {"sh", "exit"} /\ Live(p)
    BY <1>5, ShellQuiet
  <2>2. Quiet(At(p), At(p)')
    BY <2>1 DEF Quiet, Opens
  <2> QED BY <2>1, <2>2, SameTasksGrouped
<1> QED BY <1>1, <1>2, <1>3, <1>4, <1>5 DEF Login

LEMMA JobGrouped ==
  ASSUME Typed, Typed', Grouped, "pipe" \notin Jobs, NEW p \in TaskIds, Job(p) PROVE Grouped'
<1>1. ASSUME NEW kind \in Jobs, Fork(p, kind) PROVE Grouped'
  BY <1>1, ForkGrouped
<1>2. CASE sys_setpgid(p)
  BY <1>2, SetpgidGrouped
<1>3. CASE Front(p)
  BY <1>3, FrontGrouped
<1>4. CASE JobExec(p)
  <2>1. /\ \A m \in TaskIds : SameTask(m)
        /\ KeepsPlaces({p}) /\ At(p) = "jexec" /\ At(p)' \in {"sh", "prog"} /\ Live(p)
    BY <1>4, JobExecQuiet
  <2>2. Quiet(At(p), At(p)')
    BY <2>1 DEF Quiet
  <2> QED BY <2>1, <2>2, SameTasksGrouped
<1>5. CASE Back(p)
  <2>1. task' = task /\ KeepsPlaces({p}) /\ At(p) = "back" /\ At(p)' = "sh" /\ Live(p)
    BY <1>5, BackQuiet
  <2>2. Quiet(At(p), At(p)') /\ \A m \in TaskIds : SameTask(m)
    BY <2>1 DEF Quiet, SameTask
  <2> QED BY <2>1, <2>2, SameTasksGrouped
<1>6. CASE Exit(p)
  BY <1>6, ExitGrouped
<1>7. ASSUME NEW c \in TaskIds, Reap(p, c) PROVE Grouped'
  BY <1>7, ReapGrouped
<1> QED BY <1>1, <1>2, <1>3, <1>4, <1>5, <1>6, <1>7 DEF Job

LEMMA GroupedStep ==
  ASSUME "pipe" \notin Jobs, Typed, Grouped, [Next]_vars
  PROVE  Grouped'
<1>1. Typed'
  BY TypedStep
<1>2. CASE UNCHANGED vars
  BY <1>2, SameGrouped DEF vars
<1>3. ASSUME NEW w \in Windows, Start(w) \/ CtrlC(w) PROVE Grouped'
  BY <1>1, <1>3, StartGrouped, SameGrouped DEF CtrlC
<1>4. ASSUME NEW p \in TaskIds, Login(p) \/ Job(p) PROVE Grouped'
  BY <1>1, <1>4, LoginGrouped, JobGrouped
<1>5. ASSUME NEW i \in Images, ConControlHandler(i) PROVE Grouped'
  BY <1>1, <1>5, HandlerGrouped
<1> QED BY <1>2, <1>3, <1>4, <1>5 DEF Next

LEMMA AlwaysGrouped ==
  ASSUME "pipe" \notin Jobs
  PROVE  Spec => [](Typed /\ Grouped)
<1>1. Init => Typed /\ Grouped
  BY TypedInit, GroupedInit
<1>2. Typed /\ Grouped /\ [Next]_vars => (Typed /\ Grouped)'
  BY TypedStep, GroupedStep
<1> QED BY <1>1, <1>2, PTL DEF Spec

\* A process group is of one session, however often its number is used again:
\* setpgid() of parent and child race, and a job's child is in its parent's
\* group until one of them has run.  (A "pipe" does not have this: its second
\* process joins a group whose first process may be gone.)
THEOREM GroupsOfOneSession ==
  ASSUME "pipe" \notin Jobs
  PROVE  Spec => []GroupsApart
<1>1. Typed /\ Grouped => GroupsApart
  BY GroupedApart
<1> QED BY <1>1, AlwaysGrouped, PTL

-----------------------------------------------------------------------------
(* Terminals: whose they are *)

\* Logins open /dev/ptm and boot one at a time, and the shell is there to be
\* executed; besides the console's there is a terminal for each pty.
Calm == Scene \subseteq {"left"} /\ MaxUnit <= MaxTerm

\* Device and terminal name each other.
Attached(d, i) == /\ device[d].ready /\ device[d].index = i
                  /\ tty[i].active /\ tty[i].dev = d

\* A login boots; it is between the choice of a unit and its device being
\* ready; it has one it has yet to control; it controls a terminal.
Boots(p) == At(p) \in LoginAt /\ pc[p].kind = "single"
Claims(p) == At(p) \in {"unit", "slot"}
HasUnit(p) == At(p) = "ctty" /\ pc[p].unit # Beyond
Leads(p) == Live(p) /\ task[p].ctl

BootOK(p) == Boots(p) =>
  /\ device[Console].ready /\ ~device[Console].open
  /\ At(p) \in {"bsd", "single", "level"} => level = 0
  /\ At(p) \in {"bsd", "single"} => \A i \in Terminals : ~tty[i].active
  /\ At(p) \notin {"bsd", "single"} => Attached(Console, device[Console].index)
ClaimOK(p) ==
  /\ Claims(p) => ~device[pc[p].unit].ready /\ pc[p].kind = "multi"
  /\ At(p) = "slot" => ~tty[pc[p].index].active
OpenOK(p) == HasUnit(p) =>
  /\ Attached(pc[p].unit, pc[p].index) /\ ~device[pc[p].unit].open
  /\ pc[p].unit = Console <=> pc[p].kind = "single"
LeadOK(p) == Leads(p) =>
  /\ At(p) \in ShellAt \cup {"exec"}
  /\ tty[task[p].ctty].active /\ device[tty[task[p].ctty].dev].open
  /\ tty[task[p].ctty].dev \in image[task[p].img].has
  /\ At(p) # "exec" => image[task[p].img].ctty = task[p].ctty
\* Before sysctl() of the one that boots nobody else does anything.
LevelOK(p) == level = 0 /\ Live(p) =>
  (Boots(p) /\ At(p) \in {"bsd", "single", "level"}) \/ At(p) \in {"wait", "exit"}
SlotOK(p) == BootOK(p) /\ ClaimOK(p) /\ OpenOK(p) /\ LeadOK(p) /\ LevelOK(p)

Apart(p, q) == p # q =>
  /\ ~(Boots(p) /\ Boots(q)) /\ ~(Claims(p) /\ Claims(q))
  /\ HasUnit(p) /\ HasUnit(q) => pc[p].unit # pc[q].unit
  /\ Leads(p) /\ Leads(q) => task[p].ctty # task[q].ctty

Matched ==
  /\ \A i \in Terminals : tty[i].active => Attached(tty[i].dev, i)
  /\ \A d \in Devices : device[d].open \/ (device[d].ready /\ d # Console)
                        => Attached(d, device[d].index)

\* A terminal in use is someone's: of its session's leader, of the login that
\* has its device, or of the one that boots.
Holds(q, i) ==
  /\ Live(q)
  /\ \/ Leads(q) /\ task[q].ctty = i
     \/ HasUnit(q) /\ pc[q].index = i
     \/ /\ Boots(q) /\ At(q) \in {"level", "revoke", "setsid", "open"}
        /\ device[Console].index = i
Held == \A i \in Terminals : tty[i].active => \E q \in TaskIds : Holds(q, i)
Nobody == (\A p \in TaskIds : ~Live(p)) => tty = NoTty /\ device = NoDevice /\ level = 0

Slots == /\ Matched /\ Held /\ Nobody
         /\ \A p \in TaskIds : SlotOK(p)
         /\ \A p, q \in TaskIds : Apart(p, q)

LEMMA SlotsExclusive == Slots => Exclusive /\ Paired
<1>1. Slots => Exclusive
  BY DEF Slots, Apart, Leads, Exclusive
<1>2. Slots => Paired
  BY Consts DEF Slots, Matched, Attached, Paired
<1> QED BY <1>1, <1>2

\* What a task shows of itself.
SameView(m) ==
  /\ pc'[m] = pc[m] /\ Live(m)' = Live(m)
  /\ Live(m) => /\ task'[m].ctl = task[m].ctl /\ task'[m].ctty = task[m].ctty
                /\ image'[task'[m].img].ctty = image[task[m].img].ctty
                /\ image[task[m].img].has \subseteq image'[task'[m].img].has
SameViews(S) == \A m \in TaskIds \ S : SameView(m)
\* Devices and terminals are as they were, but for sessions and groups.
Rests == /\ device' = device
         /\ \A i \in Terminals : tty'[i].active = tty[i].active /\ tty'[i].dev = tty[i].dev
\* The secure level is raised by the one that boots only.
Raised(m) == level' = level \/ (level' = 1 /\ ~Boots(m))

LEMMA ViewSame ==
  ASSUME NEW m \in TaskIds, SameView(m)
  PROVE  /\ At(m)' = At(m) /\ Boots(m)' = Boots(m) /\ Claims(m)' = Claims(m)
         /\ HasUnit(m)' = HasUnit(m) /\ Leads(m)' = Leads(m)
  BY DEF SameView, At, Boots, Claims, HasUnit, Leads

LEMMA ApartKept ==
  ASSUME NEW m \in TaskIds, NEW n \in TaskIds, SameView(m), SameView(n), Apart(m, n)
  PROVE  Apart(m, n)'
<1>1. SUFFICES ASSUME m # n PROVE Apart(m, n)'
  BY DEF Apart
<1>2. /\ Boots(m)' = Boots(m) /\ Claims(m)' = Claims(m) /\ HasUnit(m)' = HasUnit(m)
      /\ Leads(m)' = Leads(m) /\ pc'[m] = pc[m]
      /\ Leads(m) => task'[m].ctty = task[m].ctty
  BY ViewSame DEF SameView, Leads
<1>3. /\ Boots(n)' = Boots(n) /\ Claims(n)' = Claims(n) /\ HasUnit(n)' = HasUnit(n)
      /\ Leads(n)' = Leads(n) /\ pc'[n] = pc[n]
      /\ Leads(n) => task'[n].ctty = task[n].ctty
  BY ViewSame DEF SameView, Leads
<1> QED BY <1>1, <1>2, <1>3 DEF Apart

LEMMA SlotKept ==
  ASSUME Typed, NEW m \in TaskIds, SameView(m), Rests, Raised(m), SlotOK(m)
  PROVE  SlotOK(m)'
<1>1. /\ At(m)' = At(m) /\ Boots(m)' = Boots(m) /\ Claims(m)' = Claims(m) /\ Live(m)' = Live(m)
      /\ HasUnit(m)' = HasUnit(m) /\ Leads(m)' = Leads(m) /\ pc'[m] = pc[m]
      /\ device' = device /\ (level' = level \/ (level' = 1 /\ ~Boots(m)))
  BY ViewSame DEF SameView, Rests, Raised
<1>2. \A i \in Terminals : tty'[i].active = tty[i].active /\ tty'[i].dev = tty[i].dev
  BY DEF Rests
<1>3. BootOK(m)'
  <2>1. device[Console].index \in Terminals
    BY Consts, Entries, PlaceFields
  <2> QED BY <1>1, <1>2, <2>1 DEF SlotOK, BootOK, Attached
<1>4. ClaimOK(m)'
  <2>1. At(m) = "slot" => pc[m].index \in Terminals
    BY Entries DEF PlaceOK, Opens, At
  <2> QED BY <1>1, <1>2, <2>1 DEF SlotOK, ClaimOK
<1>5. OpenOK(m)'
  <2>1. HasUnit(m) => pc[m].index \in Terminals
    BY Entries DEF PlaceOK, Opens, At, HasUnit
  <2> QED BY <1>1, <1>2, <2>1 DEF SlotOK, OpenOK, Attached
<1>6. LeadOK(m)'
  <2>1. task[m].ctty \in Terminals
    BY Entries, PlaceFields
  <2>2. Leads(m) => /\ task'[m].ctty = task[m].ctty
                    /\ image'[task'[m].img].ctty = image[task[m].img].ctty
                    /\ image[task[m].img].has \subseteq image'[task'[m].img].has
    BY DEF SameView, Leads
  <2> QED BY <1>1, <1>2, <2>1, <2>2 DEF SlotOK, LeadOK
<1>7. LevelOK(m)'
  BY <1>1 DEF SlotOK, LevelOK
<1> QED BY <1>3, <1>4, <1>5, <1>6, <1>7 DEF SlotOK

LEMMA HoldsKept ==
  ASSUME NEW m \in TaskIds, SameView(m), NEW i, Holds(m, i),
         device'[Console].index = device[Console].index
  PROVE  Holds(m, i)'
<1>1. /\ At(m)' = At(m) /\ Boots(m)' = Boots(m) /\ HasUnit(m)' = HasUnit(m)
      /\ Leads(m)' = Leads(m) /\ Live(m)' = Live(m) /\ pc'[m] = pc[m]
      /\ Leads(m) => task'[m].ctty = task[m].ctty
  BY ViewSame DEF SameView, Leads
<1> QED BY <1>1 DEF Holds

\* Steps of the tasks in S, of which devices and terminals take no part.
LEMMA RestSlots ==
  ASSUME Typed, Slots, NEW S \in SUBSET TaskIds, Rests, SameViews(S),
         \A m \in TaskIds \ S : Raised(m),
         \A q \in S : SlotOK(q)' /\ \A m \in TaskIds : Apart(q, m)',
         \E q \in TaskIds : Live(q)',
         \A q \in S : \A i \in Terminals : Holds(q, i) => \E r \in TaskIds : Holds(r, i)'
  PROVE  Slots'
<1>1. Matched'
  <2>1. /\ device' = device
        /\ \A i \in Terminals : tty'[i].active = tty[i].active /\ tty'[i].dev = tty[i].dev
    BY DEF Rests
  <2>2. \A d \in Devices : device[d].index \in Terminals
    BY Entries, PlaceFields
  <2> QED BY <2>1, <2>2 DEF Slots, Matched, Attached
<1>2. Held'
  <2> SUFFICES ASSUME NEW i \in Terminals, tty'[i].active PROVE \E q \in TaskIds : Holds(q, i)'
    BY DEF Held
  <2>1. PICK q \in TaskIds : Holds(q, i)
    BY DEF Slots, Held, Rests
  <2>2. CASE q \in S
    BY <2>1, <2>2
  <2>3. CASE q \notin S
    BY <2>1, <2>3, HoldsKept DEF SameViews, Rests
  <2> QED BY <2>2, <2>3
<1>3. Nobody'
  BY DEF Nobody
<1>4. \A m \in TaskIds : SlotOK(m)'
  <2>1. ASSUME NEW m \in TaskIds \ S PROVE SlotOK(m)'
    BY <2>1, SlotKept DEF SameViews, Slots
  <2> QED BY <2>1
<1>5. ASSUME NEW m \in TaskIds, NEW n \in TaskIds PROVE Apart(m, n)'
  <2>1. CASE m \in S
    BY <2>1
  <2>2. CASE n \in S
    <3>1. Apart(n, m)'
      BY <2>2
    <3> QED BY <3>1 DEF Apart
  <2>3. CASE m \notin S /\ n \notin S
    <3>1. SameView(m) /\ SameView(n) /\ Apart(m, n)
      BY <2>3 DEF SameViews, Slots
    <3> QED BY <3>1, ApartKept
  <2> QED BY <2>1, <2>2, <2>3
<1> QED BY <1>1, <1>2, <1>3, <1>4, <1>5 DEF Slots

\* A step of p alone.
LEMMA OneSlots ==
  ASSUME Typed, Slots, NEW p \in TaskIds, Rests, SameViews({p}),
         \A m \in TaskIds \ {p} : Raised(m), SlotOK(p)', \E q \in TaskIds : Live(q)',
         Boots(p)' => Boots(p),
         Claims(p)' => \A q \in TaskIds \ {p} : ~Claims(q),
         HasUnit(p)' => \A q \in TaskIds \ {p} : HasUnit(q) => pc[q].unit # pc'[p].unit,
         Leads(p)' => Leads(p) /\ task'[p].ctty = task[p].ctty,
         \A i \in Terminals : Holds(p, i) => Holds(p, i)'
  PROVE  Slots'
<1>1. ASSUME NEW m \in TaskIds PROVE Apart(p, m)'
  <2> SUFFICES ASSUME m # p PROVE Apart(p, m)'
    BY DEF Apart
  <2>1. /\ Boots(m)' = Boots(m) /\ Claims(m)' = Claims(m) /\ HasUnit(m)' = HasUnit(m)
        /\ Leads(m)' = Leads(m) /\ pc'[m] = pc[m]
        /\ Leads(m) => task'[m].ctty = task[m].ctty
    BY ViewSame DEF SameViews, SameView, Leads
  <2>2. Apart(p, m)
    BY DEF Slots
  <2> QED BY <2>1, <2>2 DEF Apart
<1>2. \A q \in {p} : SlotOK(q)' /\ \A m \in TaskIds : Apart(q, m)'
  BY <1>1
<1>3. \A q \in {p} : \A i \in Terminals : Holds(q, i) => \E r \in TaskIds : Holds(r, i)'
  OBVIOUS
<1> QED BY <1>2, <1>3, RestSlots

\* Steps in a shell or a job, and the end of a program.
Plain(a, b) == \/ a \in ShellAt /\ b \in ShellAt
               \/ a \in JobAt \cup {"prog"} /\ b \in JobAt \cup {"prog", "sh", "exit"}
               \/ a \in {"bsd", "wait", "prog"} /\ b = "exit"

LEMMA PlainSlots ==
  ASSUME Typed, Slots, NEW p \in TaskIds, Rests, SameViews({p}), level' = level,
         Live(p), Live(p)', Plain(At(p), At(p)'),
         task'[p].ctl = task[p].ctl, task'[p].ctty = task[p].ctty,
         image'[task'[p].img].ctty = image[task[p].img].ctty \/ At(p) \notin ShellAt,
         image[task[p].img].has \subseteq image'[task'[p].img].has
  PROVE  Slots'
<1>1. /\ ~Boots(p)' /\ ~Claims(p)' /\ ~HasUnit(p)' /\ At(p)' \notin {"slot"}
  BY DEF Plain, Boots, Claims, HasUnit, LoginAt, Before, Opens, ShellAt, JobAt
<1>2. Leads(p)' => Leads(p) /\ At(p) \in ShellAt /\ At(p)' \in ShellAt
  <2>1. Leads(p)' => Leads(p)
    BY DEF Leads
  <2>2. Leads(p) => At(p) \in ShellAt \cup {"exec"}
    BY DEF Slots, SlotOK, LeadOK
  <2> QED BY <2>1, <2>2 DEF Plain, ShellAt, JobAt
<1>3. SlotOK(p)'
  <2>1. BootOK(p)' /\ ClaimOK(p)' /\ OpenOK(p)'
    BY <1>1 DEF BootOK, ClaimOK, OpenOK
  <2>2. LeadOK(p)'
    <3> SUFFICES ASSUME Leads(p)' PROVE LeadOK(p)'
      BY DEF LeadOK
    <3>1. LeadOK(p) /\ Leads(p) /\ At(p) \in ShellAt /\ At(p)' \in ShellAt
      BY <1>2 DEF Slots, SlotOK
    <3>2. task[p].ctty \in Terminals /\ At(p) # "exec"
      BY <3>1, Entries, PlaceFields DEF ShellAt
    <3> QED BY <3>1, <3>2 DEF LeadOK, Rests
  <2>3. LevelOK(p)'
    <3>1. LevelOK(p)
      BY DEF Slots, SlotOK
    <3> QED BY <3>1 DEF LevelOK, Plain, ShellAt, JobAt
  <2> QED BY <2>1, <2>2, <2>3 DEF SlotOK
<1>4. ASSUME NEW i \in Terminals, Holds(p, i) PROVE Holds(p, i)'
  <2>1. ~HasUnit(p) /\ At(p) \notin {"level", "revoke", "setsid", "open"}
    BY DEF Plain, HasUnit, ShellAt, JobAt
  <2>2. Leads(p) /\ task[p].ctty = i
    BY <1>4, <2>1 DEF Holds
  <2> QED BY <2>2 DEF Holds, Leads
<1>5. /\ \E q \in TaskIds : Live(q)'
      /\ \A m \in TaskIds \ {p} : Raised(m)
  BY DEF Raised
<1> QED BY <1>1, <1>2, <1>3, <1>4, <1>5, OneSlots

LEMMA StaysView ==
  ASSUME NEW m \in TaskIds, pc'[m] = pc[m], Stays(m), image' = image
  PROVE  SameView(m)
  BY DEF Stays, SameView, Live, Free

LEMMA StaysViews ==
  ASSUME NEW S, KeepsPlaces(S), \A m \in TaskIds \ S : Stays(m), image' = image
  PROVE  SameViews(S)
  BY StaysView DEF KeepsPlaces, SameViews

\* What others see of a Win32 process that p has left: they are in it still.
LEMMA RemainsView ==
  ASSUME NEW p \in TaskIds, NEW m \in TaskIds \ {p}, Live(m), Remains(p, task[m].img)
  PROVE  image'[task[m].img] = image[task[m].img]
  BY DEF Remains, Leaves

LEMMA ExecViews ==
  ASSUME Typed, NEW p \in TaskIds, NEW i \in Images, Live(p), Exec(p, i), KeepsPlaces({p})
  PROVE  /\ SameViews({p}) /\ Live(p)'
         /\ task'[p].ctl = task[p].ctl /\ task'[p].ctty = task[p].ctty
         /\ image'[task'[p].img].ctty = task[p].ctty
         /\ image'[task'[p].img].has = image[task[p].img].has
<1>1. Execs(p, i) /\ task[p] \in Task
  BY ExecExecs, Entries
<1>2. task'[p].ctl = task[p].ctl /\ task'[p].ctty = task[p].ctty /\ task'[p].img = i /\ Live(p)'
  <2>1. task'[p] = [task[p] EXCEPT !.img = i, !.fd = task[p].ctty]
    BY <1>1 DEF Execs
  <2> QED BY <1>1, <2>1 DEF Task, Live
<1>3. ASSUME NEW m \in TaskIds \ {p} PROVE SameView(m)
  <2>1. task'[m] = task[m] /\ pc'[m] = pc[m]
    BY <1>1 DEF Execs, KeepsPlaces
  <2>2. ASSUME Live(m) PROVE image'[task[m].img] = image[task[m].img]
    <3>1. task[m].img \in Images \ {i}
      BY <1>1, <2>2, Entries DEF Alive, Live, Execs, Used
    <3> QED BY <1>1, <2>2, <3>1, RemainsView DEF Execs
  <2> QED BY <2>1, <2>2 DEF SameView, Live
<1>4. image'[i].ctty = task[p].ctty /\ image'[i].has = image[task[p].img].has
  BY <1>1 DEF Execs
<1> QED BY <1>2, <1>3, <1>4 DEF SameViews

\* Steps that change groups only.
LEMMA GroupRests ==
  ASSUME Typed, NEW p \in TaskIds, NEW g \in TaskIds, TIOCSPGRP(p, g)
  PROVE  Rests
<1>1. /\ tty'[task[p].fd] = [tty[task[p].fd] EXCEPT !.gid = g]
      /\ \A j \in Terminals \ {task[p].fd} : tty'[j] = tty[j]
      /\ device' = device
  BY GroupTyped
<1>2. task[p].fd \in Terminals /\ tty[task[p].fd] \in Terminal
  BY Entries, PlaceFields
<1> QED BY <1>1, <1>2 DEF Rests, Terminal

LEMMA FrontSlots ==
  ASSUME Typed, Slots, NEW p \in TaskIds, Front(p) PROVE Slots'
<1>1. /\ task' = task /\ KeepsPlaces({p}) /\ At(p) \in {"front", "jfront"} /\ Live(p)
      /\ At(p)' \in {"jexec", "more", "waitj"} /\ (At(p)' = "jexec" <=> At(p) = "jfront")
  BY FrontQuiet
<1>2. image' = image /\ level' = level /\ TIOCSPGRP(p, pc[p].index)
  BY DEF Front, TIOCSPGRP
<1>3. pc[p].index \in TaskIds
  BY <1>1, Entries DEF PlaceOK, JobAt, At
<1>4. Rests /\ SameViews({p})
  BY <1>1, <1>2, <1>3, GroupRests, StaysViews DEF Stays
<1>5. Plain(At(p), At(p)')
  BY <1>1 DEF Plain, ShellAt, JobAt
<1> QED BY <1>1, <1>2, <1>4, <1>5, PlainSlots DEF Live

LEMMA BackSlots ==
  ASSUME Typed, Slots, NEW p \in TaskIds, Back(p) PROVE Slots'
<1>1. task' = task /\ KeepsPlaces({p}) /\ At(p) = "back" /\ At(p)' = "sh" /\ Live(p)
  BY BackQuiet
<1>2. image' = image /\ level' = level /\ TIOCSPGRP(p, task[p].gid)
  BY DEF Back, TIOCSPGRP
<1>3. task[p].gid \in TaskIds
  BY Entries, PlaceFields
<1>4. Rests /\ SameViews({p})
  BY <1>1, <1>2, <1>3, GroupRests, StaysViews DEF Stays
<1>5. Plain(At(p), At(p)')
  BY <1>1 DEF Plain, ShellAt, JobAt
<1> QED BY <1>1, <1>2, <1>4, <1>5, PlainSlots DEF Live

LEMMA JobExecSlots ==
  ASSUME Typed, Slots, NEW p \in TaskIds, JobExec(p) PROVE Slots'
<1>1. KeepsPlaces({p}) /\ At(p) = "jexec" /\ At(p)' \in {"sh", "prog"} /\ Live(p)
  BY JobExecQuiet
<1>2. Rests /\ level' = level
  BY DEF JobExec, Rests
<1>3. Plain(At(p), At(p)') /\ At(p) \notin ShellAt
  BY <1>1 DEF Plain, ShellAt, JobAt
<1>4. /\ SameViews({p}) /\ Live(p)'
      /\ task'[p].ctl = task[p].ctl /\ task'[p].ctty = task[p].ctty
      /\ image'[task'[p].img].has = image[task[p].img].has
  <2>1. CASE task' = task /\ image' = image
    BY <1>1, <2>1, StaysViews DEF Stays, Live
  <2>2. ASSUME NEW i \in Images, Exec(p, i)
        PROVE  /\ SameViews({p}) /\ Live(p)'
               /\ task'[p].ctl = task[p].ctl /\ task'[p].ctty = task[p].ctty
               /\ image'[task'[p].img].has = image[task[p].img].has
    BY <1>1, <2>2, ExecViews
  <2> QED BY <2>1, <2>2 DEF JobExec
<1> QED BY <1>1, <1>2, <1>3, <1>4, PlainSlots

LEMMA SetpgidSlots ==
  ASSUME Typed, Slots, NEW p \in TaskIds, sys_setpgid(p) PROVE Slots'
<1>1. /\ Live(p) /\ At(p) \in {"group", "jgroup"}
      /\ pc' = [pc EXCEPT ![p] = After(p)] /\ After(p) \in Place
      /\ UNCHANGED <<image, tty, device, level, press, used>>
  BY SetpgidMoves
<1>2. PICK c \in TaskIds : /\ task'[c] = [task[c] EXCEPT !.gid = pc[p].index]
                           /\ \A m \in TaskIds \ {c} : task'[m] = task[m]
  BY SetpgidMoves
<1>3. /\ task'[c].st = task[c].st /\ task'[c].img = task[c].img
      /\ task'[c].ctl = task[c].ctl /\ task'[c].ctty = task[c].ctty
  BY <1>2, Entries DEF Task
<1>4. KeepsPlaces({p}) /\ pc'[p] = After(p)
  BY <1>1 DEF KeepsPlaces, Typed
<1>5. Plain(At(p), At(p)')
  <2>1. pc[p] \in Place
    BY Entries
  <2>2. CASE At(p) = "group"
    <3>1. After(p) = IF Fore(pc[p].kind) THEN [pc[p] EXCEPT !.at = "front"] ELSE [Away EXCEPT !.at = "sh"]
      BY <2>2 DEF After
    <3> QED BY <1>4, <2>1, <2>2, <3>1 DEF At, Place, Away, Plain, ShellAt
  <2>3. CASE At(p) = "jgroup"
    <3>1. After(p) = [pc[p] EXCEPT !.at = IF Fore(pc[p].kind) THEN "jfront" ELSE "jexec"]
      BY <2>3 DEF After
    <3> QED BY <1>4, <2>1, <2>3, <3>1 DEF At, Place, Plain, JobAt
  <2> QED BY <1>1, <2>2, <2>3
<1>6. ASSUME NEW m \in TaskIds
      PROVE  /\ Live(m)' = Live(m) /\ task'[m].img = task[m].img
             /\ task'[m].ctl = task[m].ctl /\ task'[m].ctty = task[m].ctty
  BY <1>2, <1>3 DEF Live
<1>7. SameViews({p})
  BY <1>1, <1>4, <1>6 DEF SameViews, SameView, KeepsPlaces
<1> QED BY <1>1, <1>5, <1>6, <1>7, PlainSlots DEF Rests

LEMMA ReapSlots ==
  ASSUME Typed, Slots, NEW p \in TaskIds, NEW c \in TaskIds, Reap(p, c) PROVE Slots'
<1>1. /\ task'[c].st = "done" /\ ~Live(c) /\ Live(p) /\ p # c
      /\ \A m \in TaskIds \ {c} : task'[m] = task[m]
      /\ UNCHANGED <<image, tty, device, level, press, used>>
      /\ \/ At(p) \in {"sh", "waitj"} /\ pc' = pc
         \/ /\ At(p) = "waitj" /\ At(p)' = "back" /\ KeepsPlaces({p})
         \/ At(p) = "wait" /\ At(p)' = "exit" /\ KeepsPlaces({p})
  BY ReapQuiet
<1>2. Plain(At(p), At(p)') /\ KeepsPlaces({p})
  <2>1. pc' = pc => At(p)' = At(p) /\ KeepsPlaces({p})
    BY DEF At, KeepsPlaces
  <2> QED BY <1>1, <2>1 DEF Plain, ShellAt, JobAt
<1>3. SameViews({p})
  BY <1>1, <1>2 DEF SameViews, SameView, KeepsPlaces, Live
<1>4. Rests /\ Live(p)' /\ task'[p] = task[p]
  BY <1>1 DEF Rests, Live
<1> QED BY <1>1, <1>2, <1>3, <1>4, PlainSlots

LEMMA SameSlots ==
  ASSUME Slots, UNCHANGED <<task, pc, image, tty, device, level>>
  PROVE  Slots'
  BY DEF Slots, Matched, Held, Nobody, SlotOK, Apart, Holds, Attached, BootOK, ClaimOK, OpenOK,
         LeadOK, LevelOK, Boots, Claims, HasUnit, Leads, At, Live

LEMMA HandlerSlots ==
  ASSUME Typed, Slots, NEW i \in Images, ConControlHandler(i) PROVE Slots'
<1>1. /\ UNCHANGED <<task, image, tty, device, level, used>>
      /\ \/ pc' = pc
         \/ \E m \in TaskIds : /\ At(m) \in {"bsd", "wait", "prog"} /\ Live(m)
                               /\ pc' = [pc EXCEPT ![m] = [Away EXCEPT !.at = "exit"]]
  BY HandlerMoves
<1>2. CASE pc' = pc
  BY <1>1, <1>2, SameSlots
<1>3. ASSUME NEW m \in TaskIds, At(m) \in {"bsd", "wait", "prog"}, Live(m),
             pc' = [pc EXCEPT ![m] = [Away EXCEPT !.at = "exit"]]
      PROVE  Slots'
  <2>1. At(m)' = "exit" /\ KeepsPlaces({m})
    BY <1>3 DEF At, KeepsPlaces, Typed, Away
  <2>2. Plain(At(m), At(m)') /\ SameViews({m}) /\ Rests /\ Live(m)'
    BY <1>1, <1>3, <2>1, StaysViews DEF Plain, Rests, Stays, Live
  <2> QED BY <1>1, <1>3, <2>2, PlainSlots
<1> QED BY <1>1, <1>2, <1>3

\* Steps of a login on its way to a terminal that leave the devices alone.
LEMMA LoginSlots ==
  ASSUME Typed, Slots, NEW p \in TaskIds, Rests, SameViews({p}), Live(p), Live(p)',
         At(p) \in {"level", "revoke", "setsid", "open", "unit"},
         At(p)' \in Opens \cup {"revoke", "setsid"},
         task'[p].ctl = task[p].ctl, pc'[p].kind = pc[p].kind,
         level' = IF At(p) = "level" THEN 1 ELSE level,
         ClaimOK(p)', OpenOK(p)',
         Claims(p)' => \A q \in TaskIds \ {p} : ~Claims(q),
         HasUnit(p)' => \A q \in TaskIds \ {p} : HasUnit(q) => pc[q].unit # pc'[p].unit,
         Boots(p) => \/ At(p)' \in {"revoke", "setsid", "open"}
                     \/ At(p)' = "ctty" /\ pc'[p].unit = Console /\ pc'[p].index = device[Console].index
  PROVE  Slots'
<1>1. ~Leads(p) /\ ~Leads(p)'
  <2>1. Leads(p) => At(p) \in ShellAt \cup {"exec"}
    BY DEF Slots, SlotOK, LeadOK
  <2> QED BY <2>1 DEF Leads, ShellAt
<1>2. Boots(p)' => Boots(p)
  BY DEF Boots, LoginAt, Before, Opens
<1>3. BootOK(p)'
  <2> SUFFICES ASSUME Boots(p)' PROVE BootOK(p)'
    BY DEF BootOK
  <2>1. /\ device[Console].ready /\ ~device[Console].open
        /\ Attached(Console, device[Console].index)
    BY <1>2 DEF Slots, SlotOK, BootOK
  <2>2. device[Console].index \in Terminals /\ At(p)' \notin {"bsd", "single", "level"}
    BY Consts, Entries, PlaceFields DEF Opens
  <2> QED BY <2>1, <2>2 DEF BootOK, Rests, Attached
<1>4. SlotOK(p)'
  <2>1. LevelOK(p)'
    BY DEF Slots, SlotOK, LevelOK
  <2> QED BY <1>1, <1>3, <2>1 DEF SlotOK, LeadOK
<1>5. ASSUME NEW m \in TaskIds \ {p} PROVE Raised(m)
  <2>1. At(p) = "level" => ~Boots(m)
    <3>1. At(p) = "level" => Boots(p)
      BY Entries DEF PlaceOK, Boots, LoginAt, Before, At
    <3> QED BY <3>1 DEF Slots, Apart
  <2> QED BY <2>1 DEF Raised
<1>6. ASSUME NEW i \in Terminals, Holds(p, i) PROVE Holds(p, i)'
  <2>1. Boots(p) /\ device[Console].index = i
    BY <1>1, <1>6 DEF Holds, HasUnit
  <2>2. CASE At(p)' \in {"revoke", "setsid", "open"}
    <3>1. Boots(p)'
      BY <2>1, <2>2 DEF Boots, LoginAt, Before, Opens
    <3> QED BY <2>1, <2>2, <3>1 DEF Holds, Rests
  <2>3. CASE At(p)' = "ctty" /\ pc'[p].unit = Console /\ pc'[p].index = device[Console].index
    BY Consts, <2>1, <2>3 DEF Holds, HasUnit
  <2> QED BY <2>1, <2>2, <2>3
<1> QED BY <1>1, <1>2, <1>4, <1>5, <1>6, OneSlots

\* The view where no task and no process changes.
LEMMA QuietViews ==
  ASSUME NEW p \in TaskIds, task' = task, image' = image, KeepsPlaces({p})
  PROVE  SameViews({p}) /\ Live(p)' = Live(p) /\ task'[p] = task[p]
  BY StaysViews DEF Stays, Live

LEMMA SetLevelSlots ==
  ASSUME Typed, Slots, NEW p \in TaskIds, SetLevel(p) PROVE Slots'
<1>1. task' = task /\ KeepsPlaces({p}) /\ Live(p)
  BY LoginQuiet
<1>2. At(p) = "level" /\ level' = 1 /\ At(p)' = "revoke" /\ pc'[p].kind = pc[p].kind
  BY Entries DEF SetLevel, At, Typed, Place
<1>3. Rests /\ image' = image
  BY DEF SetLevel, Rests
<1>4. ClaimOK(p)' /\ OpenOK(p)' /\ ~Claims(p)' /\ ~HasUnit(p)'
  BY <1>2 DEF ClaimOK, OpenOK, Claims, HasUnit
<1> QED BY <1>1, <1>2, <1>3, <1>4, QuietViews, LoginSlots

LEMMA RevokeSlots ==
  ASSUME Typed, Slots, NEW p \in TaskIds, sys_revoke(p) PROVE Slots'
<1>1. task' = task /\ KeepsPlaces({p}) /\ Live(p)
  BY LoginQuiet
<1>2. At(p) = "revoke" /\ level' = level /\ At(p)' = "setsid" /\ pc'[p].kind = pc[p].kind
  BY Entries DEF sys_revoke, At, Typed, Place
<1>3. Rests /\ image' = image
  <2>1. Boots(p)
    BY <1>2, Entries DEF PlaceOK, Boots, LoginAt, Before, At
  <2>2. ~device[Console].open
    BY <2>1 DEF Slots, SlotOK, BootOK
  <2> QED BY <2>2, RevokeCloses DEF sys_revoke, Rests
<1>4. ClaimOK(p)' /\ OpenOK(p)' /\ ~Claims(p)' /\ ~HasUnit(p)'
  BY <1>2 DEF ClaimOK, OpenOK, Claims, HasUnit
<1> QED BY <1>1, <1>2, <1>3, <1>4, QuietViews, LoginSlots

LEMMA SetsidSlots ==
  ASSUME Typed, Slots, NEW p \in TaskIds, vfs_setsid(p) PROVE Slots'
<1>1. /\ At(p) = "setsid" /\ level' = level /\ At(p)' = "open" /\ pc'[p].kind = pc[p].kind
      /\ Live(p) /\ KeepsPlaces({p}) /\ task[p] \in Task
  BY Entries DEF vfs_setsid, At, Typed, Place, KeepsPlaces
<1>2. Rests /\ image' = image
  BY DEF vfs_setsid, Rests
<1>3. ClaimOK(p)' /\ OpenOK(p)' /\ ~Claims(p)' /\ ~HasUnit(p)'
  BY <1>1 DEF ClaimOK, OpenOK, Claims, HasUnit
<1>4. SameViews({p})
  <2>1. \A m \in TaskIds \ {p} : task'[m] = task[m]
    BY DEF vfs_setsid, Typed
  <2> QED BY <1>1, <1>2, <2>1, StaysViews DEF Stays
<1>5. Live(p)' /\ task'[p].ctl = task[p].ctl
  <2>1. task'[p] = task[p] \/ task'[p] = [task[p] EXCEPT !.gid = p, !.sid = p]
    BY DEF vfs_setsid, Typed
  <2> QED BY <1>1, <2>1 DEF Live, Task
<1>6. At(p)' \in Opens
  BY <1>1 DEF Opens
<1> QED BY <1>1, <1>2, <1>3, <1>4, <1>5, <1>6, LoginSlots

LEMMA OpenConsoleSlots ==
  ASSUME Typed, Slots, NEW p \in TaskIds, OpenConsole(p) PROVE Slots'
<1>1. task' = task /\ KeepsPlaces({p}) /\ Live(p)
  BY LoginQuiet
<1>2. Boots(p)
  BY DEF OpenConsole, Boots, At, LoginAt, Before, Opens
<1>3. /\ device[Console].ready /\ ~device[Console].open
      /\ Attached(Console, device[Console].index)
  BY <1>2 DEF OpenConsole, Slots, SlotOK, BootOK, At
<1>4. /\ At(p) = "open" /\ level' = level /\ At(p)' = "ctty" /\ pc'[p].kind = "single"
      /\ pc'[p].unit = Console /\ pc'[p].index = device[Console].index /\ pc[p].kind = "single"
  BY <1>3, Entries DEF OpenConsole, At, Typed, Place
<1>5. Rests /\ image' = image
  BY DEF OpenConsole, Rests
<1>6. ClaimOK(p)' /\ ~Claims(p)'
  BY <1>4 DEF ClaimOK, Claims
<1>7. OpenOK(p)'
  <2>1. device' = device /\ tty' = tty
    BY DEF OpenConsole
  <2> QED BY <1>3, <1>4, <2>1 DEF OpenOK, Attached
<1>8. ASSUME NEW q \in TaskIds \ {p}, HasUnit(q) PROVE pc[q].unit # pc'[p].unit
  <2>1. pc[q].unit = Console => pc[q].kind = "single"
    BY <1>8 DEF Slots, SlotOK, OpenOK
  <2>2. ~Boots(q)
    BY <1>2 DEF Slots, Apart
  <2> QED BY <1>4, <1>8, <2>1, <2>2 DEF HasUnit, Boots, LoginAt, Before, Opens
<1>9. At(p)' \in Opens
  BY <1>4 DEF Opens
<1> QED BY <1>1, <1>4, <1>5, <1>6, <1>7, <1>8, <1>9, QuietViews, LoginSlots

LEMMA FindUnitSlots ==
  ASSUME Typed, Slots, Calm, NEW p \in TaskIds, FindUnit(p) PROVE Slots'
<1>1. task' = task /\ KeepsPlaces({p}) /\ Live(p)
  BY LoginQuiet
<1>2. /\ At(p) = "open" /\ pc[p].kind = "multi" /\ level' = level /\ pc'[p].kind = pc[p].kind
      /\ \/ At(p)' = "unit" /\ pc'[p].unit \in Ptys /\ ~device[pc'[p].unit].ready
         \/ At(p)' = "ctty" /\ pc'[p].unit = Beyond
  BY Entries DEF FindUnit, At, Typed, Place, IsUnit
<1>3. /\ \A q \in TaskIds : ~Claims(q)
      /\ ~Boots(p)
  BY <1>2 DEF FindUnit, Calm, Claims, Boots, At
<1>4. Rests /\ image' = image /\ device' = device
  BY DEF FindUnit, Rests
<1>5. ClaimOK(p)' /\ OpenOK(p)' /\ ~HasUnit(p)'
  BY <1>2, <1>4 DEF ClaimOK, OpenOK, Claims, HasUnit
<1>6. At(p)' \in Opens
  BY <1>2 DEF Opens
<1> QED BY <1>1, <1>2, <1>3, <1>4, <1>5, <1>6, QuietViews, LoginSlots

\* As long as a unit is free a terminal is.
LEMMA TerminalLeft ==
  ASSUME Typed, Matched, Calm, NEW u \in Ptys, ~device[u].ready
  PROVE  \E i \in Terminals : ~tty[i].active
<1>0. MaxTerm \in Nat /\ MaxUnit \in Nat
  BY Consts
<1> SUFFICES ASSUME \A i \in Terminals : tty[i].active PROVE FALSE
  OBVIOUS
<1> DEFINE f == [i \in Terminals |-> tty[i].dev]
           T == Devices \ {u}
<1>1. f \in [Terminals -> T]
  <2>1. ASSUME NEW i \in Terminals PROVE tty[i].dev \in T
    <3>1. tty[i].dev \in Devices
      BY Entries, PlaceFields
    <3>2. device[tty[i].dev].ready
      BY DEF Matched, Attached
    <3> QED BY <3>1, <3>2
  <2> QED BY <2>1
<1>2. ASSUME NEW x \in Terminals, NEW y \in Terminals, f[x] = f[y] PROVE x = y
  <2>1. device[tty[x].dev].index = x /\ device[tty[y].dev].index = y
    BY DEF Matched, Attached
  <2> QED BY <1>2, <2>1
<1>3. IsFiniteSet(Terminals) /\ Cardinality(Terminals) = MaxTerm + 1
  <2>1. IsFiniteSet(0 .. MaxTerm) /\ Cardinality(0 .. MaxTerm) = MaxTerm + 1
    BY <1>0, FS_Interval
  <2> QED BY <2>1 DEF Terminals
<1>4. IsFiniteSet(T) /\ Cardinality(T) = MaxUnit
  <2>1. IsFiniteSet(0 .. MaxUnit) /\ Cardinality(0 .. MaxUnit) = MaxUnit + 1
    BY <1>0, FS_Interval
  <2>2. Devices = 0 .. MaxUnit /\ u \in 0 .. MaxUnit
    BY <1>0 DEF Devices, Ptys, Console
  <2>3. IsFiniteSet((0 .. MaxUnit) \ {u}) /\ Cardinality((0 .. MaxUnit) \ {u}) = MaxUnit
    <3> DEFINE S == 0 .. MaxUnit
    <3>1. IsFiniteSet(S) /\ Cardinality(S) = MaxUnit + 1 /\ u \in S
      BY <2>1, <2>2
    <3> HIDE DEF S
    <3>2. IsFiniteSet(S \ {u}) /\ Cardinality(S \ {u}) = Cardinality(S) - 1
      BY <3>1, FS_RemoveElement
    <3>3. Cardinality(S \ {u}) = MaxUnit
      BY <1>0, <3>1, <3>2
    <3> QED BY <3>2, <3>3 DEF S
  <2> QED BY <2>2, <2>3
<1>5. Cardinality(T) < Cardinality(Terminals)
  BY <1>0, <1>3, <1>4 DEF Calm
<1> HIDE DEF f, T
<1>6. \E x, y \in Terminals : x # y /\ f[x] = f[y]
  BY <1>1, <1>3, <1>4, <1>5, FS_PigeonHole
<1> QED BY <1>2, <1>6

LEMMA FindTermSlots ==
  ASSUME Typed, Slots, Calm, NEW p \in TaskIds, FindTerm(p) PROVE Slots'
<1>1. task' = task /\ KeepsPlaces({p}) /\ Live(p)
  BY LoginQuiet
<1>2. At(p) = "unit" /\ pc[p].unit \in Ptys /\ ~device[pc[p].unit].ready /\ pc[p].kind = "multi"
  <2>1. At(p) = "unit" /\ ClaimOK(p)
    BY DEF FindTerm, At, Slots, SlotOK
  <2> QED BY <2>1, Entries DEF ClaimOK, Claims, PlaceOK, At
<1>3. PICK i \in Terminals : ~tty[i].active /\ pc' = [pc EXCEPT ![p].at = "slot", ![p].index = i]
  BY <1>2, TerminalLeft DEF FindTerm, Slots, IsTerm
<1>4. /\ At(p)' = "slot" /\ pc'[p].kind = pc[p].kind /\ pc'[p].unit = pc[p].unit /\ pc'[p].index = i
  BY <1>3, Entries DEF At, Typed, Place
<1>5. Rests /\ image' = image /\ device' = device /\ tty' = tty /\ level' = level
  BY DEF FindTerm, Rests
<1>6. ClaimOK(p)' /\ OpenOK(p)' /\ ~HasUnit(p)'
  BY <1>2, <1>3, <1>4, <1>5 DEF ClaimOK, OpenOK, Claims, HasUnit
<1>7. ~Boots(p) /\ \A q \in TaskIds \ {p} : ~Claims(q)
  BY <1>2 DEF Boots, Slots, Apart, Claims
<1>8. At(p)' \in Opens
  BY <1>4 DEF Opens
<1> QED BY <1>1, <1>2, <1>4, <1>5, <1>6, <1>7, <1>8, QuietViews, LoginSlots

LEMMA ShellSlots ==
  ASSUME Typed, Slots, Calm, NEW p \in TaskIds, Shell(p) PROVE Slots'
<1>1. KeepsPlaces({p}) /\ At(p) = "exec" /\ Live(p)
  BY ShellQuiet
<1>2. PICK i \in Images : Exec(p, i) /\ pc' = [pc EXCEPT ![p] = [Away EXCEPT !.at = "sh"]]
  BY DEF Shell, Calm
<1>3. At(p)' = "sh" /\ level' = level /\ Rests
  BY <1>2 DEF Shell, At, Typed, Away, Rests
<1>4. /\ SameViews({p}) /\ Live(p)'
      /\ task'[p].ctl = task[p].ctl /\ task'[p].ctty = task[p].ctty
      /\ image'[task'[p].img].ctty = task[p].ctty
      /\ image'[task'[p].img].has = image[task[p].img].has
  BY <1>1, <1>2, ExecViews
<1>5. ~Boots(p)' /\ ~Claims(p)' /\ ~HasUnit(p)' /\ Leads(p)' = Leads(p)
  BY <1>1, <1>3, <1>4 DEF Boots, Claims, HasUnit, Leads, LoginAt, Before, Opens
<1>6. SlotOK(p)'
  <2>1. BootOK(p)' /\ ClaimOK(p)' /\ OpenOK(p)'
    BY <1>3, <1>5 DEF BootOK, ClaimOK, OpenOK
  <2>2. LeadOK(p)'
    <3> SUFFICES ASSUME Leads(p) PROVE LeadOK(p)'
      BY <1>5 DEF LeadOK
    <3>1. LeadOK(p) /\ task[p].ctty \in Terminals
      BY Entries, PlaceFields DEF Slots, SlotOK
    <3> QED BY <1>3, <1>4, <3>1 DEF LeadOK, Rests, ShellAt
  <2>3. LevelOK(p)'
    <3>1. LevelOK(p)
      BY DEF Slots, SlotOK
    <3> QED BY <1>1, <1>3, <3>1 DEF LevelOK
  <2> QED BY <2>1, <2>2, <2>3 DEF SlotOK
<1>7. ASSUME NEW j \in Terminals, Holds(p, j) PROVE Holds(p, j)'
  <2>1. Leads(p) /\ task[p].ctty = j
    BY <1>1, <1>7 DEF Holds, HasUnit
  <2> QED BY <1>4, <1>5, <2>1 DEF Holds
<1>8. \A m \in TaskIds : Raised(m)
  BY <1>3 DEF Raised
<1> QED BY <1>3, <1>4, <1>5, <1>6, <1>7, <1>8, OneSlots

\* A task that has nothing to do with devices.
Idle(q) == ~Boots(q) /\ ~Claims(q) /\ ~HasUnit(q) /\ ~Leads(q)

LEMMA IdleSlot ==
  ASSUME NEW q \in TaskIds, Idle(q)', LevelOK(q)'
  PROVE  SlotOK(q)' /\ \A m \in TaskIds : Apart(q, m)'
  BY DEF Idle, SlotOK, BootOK, ClaimOK, OpenOK, LeadOK, Apart, Claims

LEMMA SpawnViews ==
  ASSUME Typed, NEW p \in TaskIds, NEW c \in TaskIds, Live(p), Spawns(p, c), KeepsPlaces({p, c}),
         image' = image
  PROVE  SameViews({p, c}) /\ c # p /\ task'[p] = task[p] /\ ~Live(c) /\ ~Leads(c)' /\ Live(c)'
<1>1. Copied(p, c)
  BY Spawned
<1>2. SameViews({p, c})
  BY StaysViews DEF Spawns
<1> QED BY <1>1, <1>2 DEF Spawns, Copied, Leads, Live

LEMMA ForkSlots ==
  ASSUME Typed, Slots, NEW p \in TaskIds, NEW kind \in Jobs, Fork(p, kind) PROVE Slots'
<1>1. PICK c \in TaskIds :
           /\ At(p) \in {"sh", "more"} /\ Live(p) /\ Spawns(p, c)
           /\ At(p)' = "group" /\ At(c)' = "jgroup" /\ KeepsPlaces({p, c})
           /\ UNCHANGED <<image, tty, device, level, press>>
  BY ForkStep
<1>2. /\ SameViews({p, c}) /\ c # p /\ task'[p] = task[p] /\ ~Live(c) /\ ~Leads(c)'
      /\ Live(p)' /\ Rests
  BY <1>1, SpawnViews DEF Live, Rests
<1>3. level # 0
  <2>1. LevelOK(p)
    BY DEF Slots, SlotOK
  <2> QED BY <1>1, <2>1 DEF LevelOK
<1>4. SlotOK(c)' /\ \A m \in TaskIds : Apart(c, m)'
  <2>1. Idle(c)' /\ LevelOK(c)'
    BY <1>1, <1>2, <1>3 DEF Idle, Boots, Claims, HasUnit, LevelOK, LoginAt, Before, Opens
  <2> QED BY <2>1, IdleSlot
<1>5. ~Boots(p)' /\ ~Claims(p)' /\ ~HasUnit(p)' /\ Leads(p)' = Leads(p)
  BY <1>1, <1>2 DEF Boots, Claims, HasUnit, Leads, Live, LoginAt, Before, Opens
<1>6. SlotOK(p)'
  <2>1. BootOK(p)' /\ ClaimOK(p)' /\ OpenOK(p)' /\ LevelOK(p)'
    BY <1>1, <1>3, <1>5 DEF BootOK, ClaimOK, OpenOK, LevelOK
  <2>2. LeadOK(p) /\ At(p) # "exec" /\ At(p)' \in ShellAt
    BY <1>1 DEF Slots, SlotOK, ShellAt
  <2>3. LeadOK(p)'
    BY <1>1, <1>2, <1>5, <2>2 DEF LeadOK
  <2> QED BY <2>1, <2>3 DEF SlotOK
<1>7. ASSUME NEW m \in TaskIds PROVE Apart(p, m)'
  <2>1. CASE m = c
    BY <1>4, <2>1 DEF Apart
  <2>2. CASE m \notin {p, c}
    <3>1. Leads(m)' = Leads(m) /\ (Leads(m) => task'[m].ctty = task[m].ctty) /\ Apart(p, m)
      BY <1>2, <2>2, ViewSame DEF SameViews, SameView, Leads, Slots
    <3> QED BY <1>2, <1>5, <2>2, <3>1 DEF Apart
  <2> QED BY <2>1, <2>2 DEF Apart
<1>8. ASSUME NEW j \in Terminals, Holds(p, j) PROVE Holds(p, j)'
  <2>1. Leads(p) /\ task[p].ctty = j
    BY <1>1, <1>8 DEF Holds, HasUnit
  <2> QED BY <1>2, <1>5, <2>1 DEF Holds
<1>9. ~\E j \in Terminals : Holds(c, j)
  BY <1>2 DEF Holds
<1>10. \A m \in TaskIds : Raised(m)
  BY <1>1 DEF Raised
<1> QED
  <2>1. \A q \in {p, c} : SlotOK(q)' /\ \A m \in TaskIds : Apart(q, m)'
    BY <1>4, <1>6, <1>7
  <2>2. \A q \in {p, c} : \A j \in Terminals : Holds(q, j) => \E r \in TaskIds : Holds(r, j)'
    BY <1>8, <1>9
  <2> QED BY <1>2, <1>10, <2>1, <2>2, RestSlots

LEMMA BsdForkSlots ==
  ASSUME Typed, Slots, NEW p \in TaskIds, BsdFork(p) PROVE Slots'
<1>1. PICK c \in TaskIds :
           /\ At(p) = "bsd" /\ Live(p) /\ Spawns(p, c) /\ At(p)' = "wait"
           /\ At(c)' = (IF pc[p].kind = "single" THEN "single" ELSE "setsid")
           /\ pc'[c].kind = pc[p].kind /\ KeepsPlaces({p, c}) /\ pc[p].kind \in {"single", "multi"}
           /\ UNCHANGED <<image, tty, device, level, press, used>>
  BY BsdForkStep
<1>2. /\ SameViews({p, c}) /\ c # p /\ task'[p] = task[p] /\ ~Live(c) /\ ~Leads(c)'
      /\ Live(p)' /\ Rests
  BY <1>1, SpawnViews DEF Live, Rests
<1>3. SlotOK(p) /\ ~Leads(p)
  BY <1>1 DEF Slots, SlotOK, LeadOK, ShellAt
<1>4. SlotOK(p)' /\ \A m \in TaskIds : Apart(p, m)'
  <2>1. Idle(p)' /\ LevelOK(p)'
    BY <1>1, <1>2, <1>3 DEF Idle, Boots, Claims, HasUnit, LevelOK, LoginAt, Leads, Live
  <2> QED BY <2>1, IdleSlot
<1>5. ~Claims(c)' /\ ~HasUnit(c)' /\ Boots(c)' = (pc[p].kind = "single") /\ (Boots(c)' => Boots(p))
  BY <1>1 DEF Boots, Claims, HasUnit, LoginAt, Before, Opens
<1>6. SlotOK(c)'
  <2>1. ClaimOK(c)' /\ OpenOK(c)' /\ LeadOK(c)'
    BY <1>1, <1>2, <1>5 DEF ClaimOK, OpenOK, LeadOK
  <2>2. BootOK(c)'
    BY <1>1, <1>3, <1>5 DEF BootOK, SlotOK
  <2>3. LevelOK(c)'
    <3>1. level = 0 => pc[p].kind = "single"
      BY <1>1, <1>3 DEF LevelOK, SlotOK, Boots
    <3> QED BY <1>1, <1>5, <3>1 DEF LevelOK
  <2> QED BY <2>1, <2>2, <2>3 DEF SlotOK
<1>7. ASSUME NEW m \in TaskIds PROVE Apart(c, m)'
  <2>1. CASE m = p
    BY <1>4, <2>1 DEF Apart
  <2>2. CASE m \notin {p, c}
    <3>1. Boots(m)' = Boots(m) /\ Apart(p, m)
      BY <1>2, <2>2, ViewSame DEF SameViews, Slots
    <3> QED BY <1>2, <1>5, <2>2, <3>1 DEF Apart
  <2> QED BY <2>1, <2>2 DEF Apart
<1>8. ~\E j \in Terminals : Holds(p, j) \/ Holds(c, j)
  BY <1>1, <1>2, <1>3 DEF Holds, HasUnit
<1>9. \A m \in TaskIds : Raised(m)
  BY <1>1 DEF Raised
<1> QED
  <2>1. \A q \in {p, c} : SlotOK(q)' /\ \A m \in TaskIds : Apart(q, m)'
    BY <1>4, <1>6, <1>7
  <2>2. \A q \in {p, c} : \A j \in Terminals : Holds(q, j) => \E r \in TaskIds : Holds(r, j)'
    BY <1>8
  <2> QED BY <1>2, <1>9, <2>1, <2>2, RestSlots

LEMMA StartSlots ==
  ASSUME Typed, Slots, Calm, NEW w \in Windows, Start(w) PROVE Slots'
<1>1. PICK n \in TaskIds, i \in Images :
           /\ ~Used(i) /\ At(n) = "none" /\ \A m \in TaskIds \ {n} : Stays(m)
           /\ task'[n].st = "live" /\ task'[n].ctl = FALSE
           /\ At(n)' = "bsd" /\ pc'[n].kind = (IF level = 0 THEN "single" ELSE "multi")
           /\ KeepsPlaces({n}) /\ \A j \in Images \ {i} : image'[j] = image[j]
           /\ "boot" \in Scene \/ level = 1 \/ \A p \in TaskIds : ~Live(p)
           /\ UNCHANGED <<tty, device, level, press>>
  BY StartStep
<1>2. SameViews({n})
  <2>1. ASSUME NEW m \in TaskIds \ {n} PROVE SameView(m)
    <3>1. pc'[m] = pc[m] /\ Live(m)' = Live(m) /\ (Live(m) => task'[m] = task[m])
      BY <1>1 DEF KeepsPlaces, Stays, Live, Free
    <3>2. Live(m) => image'[task[m].img] = image[task[m].img]
      BY <1>1, Entries DEF Used, Alive, Live
    <3> QED BY <3>1, <3>2 DEF SameView
  <2> QED BY <2>1 DEF SameViews
<1>3. Live(n)' /\ ~Live(n) /\ ~Leads(n)' /\ ~Claims(n)' /\ ~HasUnit(n)' /\ Rests
  BY <1>1, Entries DEF Live, Leads, Claims, HasUnit, Rests
<1>4. SlotOK(n)' /\ \A m \in TaskIds : Apart(n, m)'
  <2>1. CASE level = 0
    <3>1. \A m \in TaskIds : ~Live(m) /\ At(m) = "none"
      BY <1>1, <2>1, Entries DEF Calm
    <3>2. tty = NoTty /\ device = NoDevice
      BY <3>1 DEF Slots, Nobody
    <3>3. device[Console].ready /\ ~device[Console].open /\ \A j \in Terminals : ~tty[j].active
      BY <3>2, Consts DEF NoTty, NoDevice
    <3>4. Boots(n)'
      BY <1>1, <2>1 DEF Boots, LoginAt, Before
    <3>5. SlotOK(n)'
      BY <1>1, <1>3, <2>1, <3>3, <3>4 DEF SlotOK, BootOK, ClaimOK, OpenOK, LeadOK, LevelOK
    <3>6. ASSUME NEW m \in TaskIds, m # n PROVE ~Boots(m)'
      BY <1>2, <3>1, <3>6, ViewSame DEF SameViews, Boots, LoginAt, Before, Opens
    <3> QED BY <1>3, <3>5, <3>6 DEF Apart
  <2>2. CASE level # 0
    <3>1. Idle(n)' /\ LevelOK(n)'
      BY <1>1, <1>3, <2>2 DEF Idle, LevelOK, Boots
    <3> QED BY <3>1, IdleSlot
  <2> QED BY <2>1, <2>2
<1>5. ~\E j \in Terminals : Holds(n, j)
  BY <1>3 DEF Holds
<1>6. \A m \in TaskIds : Raised(m)
  BY <1>1 DEF Raised
<1> QED
  <2>1. \A q \in {n} : SlotOK(q)' /\ \A m \in TaskIds : Apart(q, m)'
    BY <1>4
  <2>2. \A q \in {n} : \A j \in Terminals : Holds(q, j) => \E r \in TaskIds : Holds(r, j)'
    BY <1>5
  <2> QED BY <1>2, <1>3, <1>6, <2>1, <2>2, RestSlots

\* Steps of p that change devices or terminals, put together.
LEMMA TogetherSlots ==
  ASSUME Slots, NEW p \in TaskIds, SameViews({p}), Matched', Held', \E q \in TaskIds : Live(q)',
         SlotOK(p)', \A m \in TaskIds \ {p} : SlotOK(m)' /\ Apart(p, m)'
  PROVE  Slots'
<1>1. \A m \in TaskIds : SlotOK(m)'
  OBVIOUS
<1>2. ASSUME NEW m \in TaskIds, NEW n \in TaskIds PROVE Apart(m, n)'
  <2>1. CASE m = p \/ n = p
    BY <2>1 DEF Apart
  <2>2. CASE m # p /\ n # p
    BY <2>2, ApartKept DEF SameViews, Slots
  <2> QED BY <2>1, <2>2
<1>3. Nobody'
  BY DEF Nobody
<1> QED BY <1>1, <1>2, <1>3 DEF Slots

\* A leader is in its shell, or about to be.
LEMMA LeadAt ==
  ASSUME Slots, NEW p \in TaskIds, Leads(p)
  PROVE  At(p) \in ShellAt \cup {"exec"}
  BY DEF Slots, SlotOK, LeadOK

LEMMA TtyInitSlots ==
  ASSUME Typed, Slots, NEW p \in TaskIds, tty_init(p) PROVE Slots'
<1> USE Consts
<1>1. task' = task /\ KeepsPlaces({p}) /\ Live(p)
  BY LoginQuiet
<1>2. /\ At(p) = "single" /\ At(p)' = "level" /\ pc'[p].kind = pc[p].kind
      /\ UNCHANGED <<task, image, level>>
  BY Entries DEF tty_init, At, Typed, Place
<1>3. Boots(p) /\ Boots(p)'
  BY <1>2, Entries DEF PlaceOK, Boots, LoginAt, Before, At
<1>4. /\ device[Console].ready /\ ~device[Console].open /\ level = 0
      /\ \A i \in Terminals : ~tty[i].active
  BY <1>2, <1>3 DEF Slots, SlotOK, BootOK
<1>5. PICK i \in Terminals : Attach(Console, i, device[Console].ready)
  BY <1>4 DEF tty_init
<1>6. /\ tty'[i].active /\ tty'[i].dev = Console
      /\ device'[Console].ready /\ device'[Console].index = i
      /\ device'[Console].open = device[Console].open
      /\ \A j \in Terminals \ {i} : tty'[j] = tty[j]
      /\ \A f \in Devices \ {Console} : device'[f] = device[f]
  <2>1. PICK r \in BOOLEAN : r = device[Console].ready
    BY Entries, PlaceFields
  <2>2. Attach(Console, i, r)
    BY <1>5, <2>1
  <2>3. /\ tty'[i].active /\ tty'[i].dev = Console
        /\ device'[Console].ready = r /\ device'[Console].index = i
        /\ device'[Console].open = device[Console].open
        /\ \A j \in Terminals \ {i} : tty'[j] = tty[j]
        /\ \A f \in Devices \ {Console} : device'[f] = device[f]
    BY <2>2, AttachTyped
  <2> QED BY <1>4, <2>1, <2>3
<1>7. SameViews({p}) /\ Live(p)' /\ task'[p] = task[p]
  BY <1>1, <1>2, QuietViews
<1>8. ~Leads(p)'
  BY <1>2, LeadAt DEF Leads, Live, ShellAt
<1>9. ASSUME NEW m \in TaskIds \ {p} PROVE SlotOK(m)' /\ Apart(p, m)'
  <2>1. At(m) \in {"wait", "exit", "none"}
    <3>1. LevelOK(m) /\ ~Boots(m)
      BY <1>3 DEF Slots, SlotOK, Apart
    <3> QED BY <1>4, <3>1, Entries DEF LevelOK
  <2>2. At(m)' = At(m) /\ Leads(m)' = Leads(m)
    BY <1>7, ViewSame DEF SameViews
  <2>3. Idle(m)' /\ LevelOK(m)'
    BY <2>1, <2>2, LeadAt, <1>2, Entries
       DEF Idle, Boots, Claims, HasUnit, LevelOK, LoginAt, Before, Opens, ShellAt, Live
  <2> QED BY <2>3, IdleSlot DEF Apart
<1>10. SlotOK(p)'
  BY <1>2, <1>3, <1>4, <1>6, <1>8
     DEF SlotOK, BootOK, ClaimOK, OpenOK, LeadOK, LevelOK, Claims, HasUnit, Attached
<1>11. Matched'
  <2>1. ASSUME NEW j \in Terminals, tty'[j].active PROVE Attached(tty[j].dev, j)'
    BY <1>4, <1>6, <2>1 DEF Attached
  <2>2. ASSUME NEW d \in Devices, device'[d].open \/ (device'[d].ready /\ d # Console) PROVE FALSE
    <3>1. d # Console /\ (device[d].open \/ device[d].ready) /\ device[d].index \in Terminals
      BY <1>4, <1>6, <2>2, Entries, PlaceFields
    <3> QED BY <1>4, <3>1 DEF Slots, Matched, Attached
  <2> QED BY <2>1, <2>2 DEF Matched
<1>12. Held'
  <2>1. Holds(p, i)'
    BY <1>2, <1>3, <1>6, <1>7 DEF Holds
  <2> QED BY <1>4, <1>6, <2>1 DEF Held
<1> QED BY <1>7, <1>9, <1>10, <1>11, <1>12, TogetherSlots

LEMMA TtyAttachSlots ==
  ASSUME Typed, Slots, NEW p \in TaskIds, tty_attach(p) PROVE Slots'
<1> USE Consts
<1>1. task' = task /\ KeepsPlaces({p}) /\ Live(p)
  BY LoginQuiet
<1>2. /\ At(p) = "slot" /\ At(p)' = "ctty" /\ pc'[p].kind = pc[p].kind
      /\ pc'[p].unit = pc[p].unit /\ pc'[p].index = pc[p].index
      /\ UNCHANGED <<task, image, level>>
  BY Entries DEF tty_attach, At, Typed, Place
<1>3. PICK u \in Ptys, i \in Terminals : u = pc[p].unit /\ i = pc[p].index
  BY <1>2, Entries DEF PlaceOK, Opens, At
<1>4. ~device[u].ready /\ ~tty[i].active /\ pc[p].kind = "multi" /\ level # 0 /\ u # Console
  <2>1. ClaimOK(p) /\ LevelOK(p)
    BY DEF Slots, SlotOK
  <2> QED BY <1>1, <1>2, <1>3, <2>1 DEF ClaimOK, LevelOK, Claims
<1>5. /\ tty'[i].active /\ tty'[i].dev = u
      /\ device'[u].ready /\ device'[u].index = i /\ device'[u].open = device[u].open
      /\ \A j \in Terminals \ {i} : tty'[j] = tty[j]
      /\ \A f \in Devices \ {u} : device'[f] = device[f]
  <2>0. PICK d \in Devices : d = u
    OBVIOUS
  <2>1. PICK r \in BOOLEAN : r = TRUE
    OBVIOUS
  <2>2. Attach(d, i, r)
    BY <1>3, <2>0, <2>1 DEF tty_attach
  <2>3. /\ tty'[i].active /\ tty'[i].dev = d
        /\ device'[d].ready = r /\ device'[d].index = i /\ device'[d].open = device[d].open
        /\ \A j \in Terminals \ {i} : tty'[j] = tty[j]
        /\ \A f \in Devices \ {d} : device'[f] = device[f]
    BY <2>2, AttachTyped
  <2> QED BY <2>0, <2>1, <2>3
<1>6. ~device[u].open
  <2>1. device[u].index \in Terminals /\ u \in Devices
    BY Entries, PlaceFields
  <2> QED BY <1>4, <2>1 DEF Slots, Matched, Attached
<1>7. SameViews({p}) /\ Live(p)' /\ task'[p] = task[p]
  BY <1>1, <1>2, QuietViews
<1>8. ~Leads(p) /\ ~Leads(p)' /\ ~Boots(p) /\ ~Boots(p)' /\ ~Claims(p)' /\ HasUnit(p)' /\ Claims(p)
  <2>1. ~Leads(p)
    BY <1>2, LeadAt DEF ShellAt
  <2> QED BY <1>2, <1>3, <1>4, <1>7, <2>1 DEF Leads, Live, Boots, Claims, HasUnit
\* What was attached still is.
<1>9. ASSUME NEW d \in Devices, NEW j \in Terminals, Attached(d, j)
      PROVE  Attached(d, j)' /\ d # u /\ j # i /\ device'[d] = device[d] /\ tty'[j] = tty[j]
  <2>1. d # u /\ j # i
    BY <1>4, <1>9 DEF Attached
  <2> QED BY <1>5, <1>9, <2>1 DEF Attached
<1>10. ASSUME NEW m \in TaskIds \ {p} PROVE SlotOK(m)' /\ Apart(p, m)'
  <2>1. /\ At(m)' = At(m) /\ Boots(m)' = Boots(m) /\ Claims(m)' = Claims(m) /\ Live(m)' = Live(m)
        /\ HasUnit(m)' = HasUnit(m) /\ Leads(m)' = Leads(m) /\ pc'[m] = pc[m]
    BY <1>7, ViewSame DEF SameViews, SameView
  <2>2. SlotOK(m) /\ ~Claims(m)
    BY <1>8 DEF Slots, Apart
  <2>3. BootOK(m)'
    <3> SUFFICES ASSUME Boots(m) PROVE BootOK(m)'
      BY <2>1 DEF BootOK
    <3>1. Attached(Console, device[Console].index) /\ At(m) \notin {"bsd", "single", "level"}
          /\ device[Console].ready /\ ~device[Console].open
      BY <1>4, <2>2 DEF SlotOK, BootOK
    <3>2. device[Console].index \in Terminals
      BY Entries, PlaceFields
    <3> QED BY <1>9, <2>1, <3>1, <3>2 DEF BootOK
  <2>4. ClaimOK(m)'
    BY <2>1, <2>2 DEF ClaimOK, Claims
  <2>5. OpenOK(m)' /\ (HasUnit(m) => pc[m].unit # u)
    <3> SUFFICES ASSUME HasUnit(m) PROVE OpenOK(m)' /\ pc[m].unit # u
      BY <2>1 DEF OpenOK
    <3>1. pc[m].unit \in Devices /\ pc[m].index \in Terminals
      <4>1. pc[m].unit \in 0 .. Beyond /\ pc[m].unit # Beyond /\ pc[m].index \in Terminals
        BY Entries, PlaceFields DEF HasUnit, PlaceOK, Opens, At
      <4> QED BY <4>1 DEF Devices, Ptys, Console, Beyond
    <3>2. Attached(pc[m].unit, pc[m].index) /\ ~device[pc[m].unit].open
          /\ (pc[m].unit = Console <=> pc[m].kind = "single")
      BY <2>2 DEF SlotOK, OpenOK
    <3> QED BY <1>9, <2>1, <3>1, <3>2 DEF OpenOK
  <2>6. LeadOK(m)'
    <3> SUFFICES ASSUME Leads(m) PROVE LeadOK(m)'
      BY <2>1 DEF LeadOK
    <3>1. task[m].ctty \in Terminals /\ tty[task[m].ctty].dev \in Devices
      BY Entries, PlaceFields
    <3>2. Attached(tty[task[m].ctty].dev, task[m].ctty)
      BY <2>2, <3>1 DEF SlotOK, LeadOK, Slots, Matched
    <3> QED BY <1>2, <1>9, <2>1, <2>2, <3>1, <3>2 DEF SlotOK, LeadOK
  <2>7. LevelOK(m)'
    BY <1>2, <2>1, <2>2 DEF SlotOK, LevelOK
  <2>8. Apart(p, m)'
    BY <1>2, <1>3, <1>8, <2>1, <2>5 DEF Apart
  <2> QED BY <2>3, <2>4, <2>5, <2>6, <2>7, <2>8 DEF SlotOK
<1>11. SlotOK(p)'
  <2>1. OpenOK(p)'
    BY <1>2, <1>3, <1>4, <1>5, <1>6 DEF OpenOK, Attached
  <2> QED BY <1>2, <1>4, <1>8, <2>1 DEF SlotOK, BootOK, ClaimOK, LeadOK, LevelOK
<1>12. Matched'
  <2>1. ASSUME NEW j \in Terminals, tty'[j].active PROVE Attached(tty[j].dev, j)'
    <3>1. CASE j = i
      BY <1>5, <3>1 DEF Attached
    <3>2. CASE j # i
      <4>1. Attached(tty[j].dev, j) /\ tty[j].dev \in Devices
        BY <1>5, <2>1, <3>2, Entries, PlaceFields DEF Slots, Matched
      <4>2. PICK d \in Devices : d = tty[j].dev /\ Attached(d, j)
        BY <4>1
      <4> QED BY <1>9, <4>2 DEF Attached
    <3> QED BY <3>1, <3>2
  <2>2. ASSUME NEW d \in Devices, device'[d].open \/ (device'[d].ready /\ d # Console)
        PROVE  Attached(d, device[d].index)'
    <3>1. CASE d = u
      BY <1>5, <3>1 DEF Attached
    <3>2. CASE d # u
      <4>1. Attached(d, device[d].index) /\ device[d].index \in Terminals
        BY <1>5, <2>2, <3>2, Entries, PlaceFields DEF Slots, Matched
      <4>2. PICK j \in Terminals : j = device[d].index /\ Attached(d, j)
        BY <4>1
      <4> QED BY <1>9, <4>2 DEF Attached
    <3> QED BY <3>1, <3>2
  <2> QED BY <2>1, <2>2 DEF Matched
<1>13. Held'
  <2> SUFFICES ASSUME NEW j \in Terminals, tty'[j].active PROVE \E q \in TaskIds : Holds(q, j)'
    BY DEF Held
  <2>1. CASE j = i
    BY <1>2, <1>3, <1>7, <1>8, <2>1 DEF Holds
  <2>2. CASE j # i
    <3>1. PICK q \in TaskIds : Holds(q, j)
      BY <1>5, <2>2 DEF Slots, Held
    <3>2. q # p
      BY <1>2, <1>8, <3>1 DEF Holds, HasUnit
    <3>3. device'[Console].index = device[Console].index
      BY <1>4, <1>5
    <3> QED BY <1>7, <3>1, <3>2, <3>3, HoldsKept DEF SameViews
  <2> QED BY <2>1, <2>2
<1> QED BY <1>7, <1>10, <1>11, <1>12, <1>13, TogetherSlots

LEMMA GettySlots ==
  ASSUME Typed, Slots, NEW p \in TaskIds, Getty(p) PROVE Slots'
<1> USE Consts
<1>1. /\ \A m \in TaskIds : SameTask(m) /\ task'[m].img = task[m].img
      /\ KeepsPlaces({p}) /\ At(p) = "ctty" /\ At(p)' = "exec" /\ Live(p)
      /\ Controls(p, pc[p].unit, pc[p].index) =>
           pc[p].unit \in Devices /\ pc[p].index \in Terminals
           /\ Controlled(p, pc[p].unit, pc[p].index)
      /\ ~Controls(p, pc[p].unit, pc[p].index) => UNCHANGED <<task, image, tty, device>>
  BY GettyQuiet
<1>2. ~Leads(p) /\ Live(p)' /\ level' = level
  BY <1>1, LeadAt DEF ShellAt, SameTask, Live, Getty
<1>3. ~Boots(p)' /\ ~Claims(p)' /\ ~HasUnit(p)' /\ level # 0
  <2>1. LevelOK(p)
    BY DEF Slots, SlotOK
  <2> QED BY <1>1, <2>1 DEF Boots, Claims, HasUnit, LoginAt, Before, Opens, LevelOK
<1>4. BootOK(p)' /\ ClaimOK(p)' /\ OpenOK(p)' /\ LevelOK(p)'
  BY <1>1, <1>2, <1>3 DEF BootOK, ClaimOK, OpenOK, LevelOK
<1>5. CASE ~Controls(p, pc[p].unit, pc[p].index)
  <2>1. SameViews({p}) /\ Rests /\ ~Leads(p)'
    BY <1>1, <1>2, <1>5, StaysViews DEF Stays, Rests, Leads, Live
  <2>2. ~HasUnit(p)
    <3>1. HasUnit(p) => device[pc[p].unit].ready /\ pc[p].unit # Beyond
      BY DEF Slots, SlotOK, OpenOK, Attached, HasUnit
    <3> QED BY <1>1, <1>2, <1>5, <3>1 DEF Controls, Leads
  <2>3. ~\E j \in Terminals : Holds(p, j)
    BY <1>1, <1>2, <2>2 DEF Holds
  <2>4. SlotOK(p)' /\ \A m \in TaskIds : Raised(m)
    BY <1>2, <1>4, <2>1 DEF SlotOK, LeadOK, Raised
  <2> QED BY <1>2, <1>3, <2>1, <2>3, <2>4, OneSlots
<1>6. CASE Controls(p, pc[p].unit, pc[p].index)
  <2>1. PICK d \in Devices, i \in Terminals : d = pc[p].unit /\ i = pc[p].index
    BY <1>1, <1>6
  <2>2. HasUnit(p) /\ Attached(d, i) /\ ~device[d].open /\ (d = Console <=> Boots(p))
    <3>1. HasUnit(p)
      BY <1>1, <1>6 DEF HasUnit, Controls
    <3>2. OpenOK(p) /\ (Boots(p) <=> pc[p].kind = "single")
      BY <1>1 DEF Slots, SlotOK, Boots, LoginAt, Opens
    <3> QED BY <2>1, <3>1, <3>2 DEF OpenOK
  <2>3. Controlled(p, d, i)
    BY <1>1, <1>6, <2>1
  <2>4. /\ task'[p].ctl /\ task'[p].ctty = i
        /\ d \in image'[task'[p].img].has
    <3>1. task[p] \in Task /\ image[task[p].img] \in Image /\ task[p].img \in Images
      BY <1>1, Entries DEF Alive, Live
    <3>2. /\ task'[p] = [task[p] EXCEPT !.ctl = TRUE, !.ctty = i]
          /\ image'[task[p].img] = [image[task[p].img] EXCEPT !.has = @ \cup {d}]
      BY <2>3 DEF Controlled
    <3>3. task'[p].img = task[p].img
      BY <1>1
    <3> QED BY <3>1, <3>2, <3>3 DEF Task, Image
  <2>5. /\ \A j \in Terminals : tty'[j].active = tty[j].active /\ tty'[j].dev = tty[j].dev
        /\ \A f \in Devices : device'[f].ready = device[f].ready /\ device'[f].index = device[f].index
        /\ \A f \in Devices \ {d} : device'[f] = device[f]
        /\ device'[d].open
    <3>1. tty[i] \in Terminal /\ device[d] \in Device
      BY Entries
    <3>2. tty'[i].active = tty[i].active /\ tty'[i].dev = tty[i].dev
      BY <2>3, <3>1 DEF Controlled, Terminal
    <3>3. /\ device'[d].ready = device[d].ready /\ device'[d].index = device[d].index
          /\ device'[d].open
      <4>1. device'[d] = [device[d] EXCEPT !.open = TRUE]
        BY <2>3 DEF Controlled
      <4>2. device'[d].ready = device[d].ready /\ device'[d].index = device[d].index
        BY <3>1, <4>1 DEF Device
      <4>3. device'[d].open
        BY <3>1, <4>1 DEF Device
      <4> QED BY <4>2, <4>3
    <3> QED BY <2>3, <3>2, <3>3 DEF Controlled
  <2>6. SameViews({p})
    <3>1. ASSUME NEW m \in TaskIds \ {p} PROVE SameView(m)
      <4>1. task'[m] = task[m] /\ pc'[m] = pc[m]
        BY <1>1, <2>3 DEF Controlled, KeepsPlaces
      <4>2. ASSUME NEW j \in Images
            PROVE  image'[j].ctty = image[j].ctty /\ image[j].has \subseteq image'[j].has
        <5>1. CASE j = task[p].img
          BY <2>3, <5>1, Entries DEF Controlled, Image
        <5>2. CASE j # task[p].img
          BY <2>3, <5>2 DEF Controlled
        <5> QED BY <5>1, <5>2
      <4>3. Live(m) => task[m].img \in Images
        BY Entries DEF Alive, Live
      <4> QED BY <4>1, <4>2, <4>3 DEF SameView, Live
    <3> QED BY <3>1 DEF SameViews
  <2>7. \A e \in Devices, j \in Terminals : Attached(e, j)' = Attached(e, j)
    BY <2>5 DEF Attached
  <2>8. SlotOK(p)'
    <3>1. tty[i].active /\ tty[i].dev = d
      BY <2>2 DEF Attached
    <3> QED BY <1>1, <1>4, <2>4, <2>5, <3>1 DEF SlotOK, LeadOK
  <2>9. ASSUME NEW m \in TaskIds \ {p} PROVE SlotOK(m)' /\ Apart(p, m)'
    <3>1. /\ At(m)' = At(m) /\ Boots(m)' = Boots(m) /\ Claims(m)' = Claims(m) /\ Live(m)' = Live(m)
          /\ HasUnit(m)' = HasUnit(m) /\ Leads(m)' = Leads(m) /\ pc'[m] = pc[m]
          /\ Leads(m) => task'[m].ctty = task[m].ctty
                         /\ image'[task'[m].img].ctty = image[task[m].img].ctty
                         /\ image[task[m].img].has \subseteq image'[task'[m].img].has
      BY <2>6, ViewSame DEF SameViews, SameView, Leads
    <3>2. SlotOK(m) /\ Apart(p, m)
      BY DEF Slots
    <3>3. BootOK(m)'
      <4> SUFFICES ASSUME Boots(m) PROVE BootOK(m)'
        BY <3>1 DEF BootOK
      <4>1. d # Console /\ device[Console].index \in Terminals
        BY <2>2, <3>2, Entries, PlaceFields DEF Apart
      <4> QED BY <1>2, <2>5, <2>7, <3>1, <3>2, <4>1 DEF SlotOK, BootOK
    <3>4. ClaimOK(m)'
      <4>1. Claims(m) => pc[m].unit \in Devices
        BY Entries DEF PlaceOK, Claims, At
      <4>2. At(m) = "slot" => pc[m].index \in Terminals
        BY Entries DEF PlaceOK, Opens, At
      <4> QED BY <2>5, <3>1, <3>2, <4>1, <4>2 DEF SlotOK, ClaimOK
    <3>5. OpenOK(m)'
      <4> SUFFICES ASSUME HasUnit(m) PROVE OpenOK(m)'
        BY <3>1 DEF OpenOK
      <4>1. pc[m].unit \in Devices /\ pc[m].index \in Terminals
        <5>1. pc[m].unit \in 0 .. Beyond /\ pc[m].unit # Beyond /\ pc[m].index \in Terminals
          BY Entries, PlaceFields DEF HasUnit, PlaceOK, Opens, At
        <5> QED BY <5>1 DEF Devices, Ptys, Console, Beyond
      <4>2. pc[m].unit # d
        BY <2>1, <2>2, <3>2 DEF Apart
      <4> QED BY <2>5, <2>7, <3>1, <3>2, <4>1, <4>2 DEF SlotOK, OpenOK
    <3>6. LeadOK(m)' /\ (Leads(m) => task[m].ctty # i)
      <4> SUFFICES ASSUME Leads(m) PROVE LeadOK(m)' /\ task[m].ctty # i
        BY <3>1 DEF LeadOK
      <4>1. task[m].ctty \in Terminals /\ tty[task[m].ctty].dev \in Devices
        BY Entries, PlaceFields
      <4>2. device[tty[task[m].ctty].dev].open
        BY <3>2 DEF SlotOK, LeadOK
      <4>3. tty[task[m].ctty].dev # d
        BY <2>2, <4>2
      <4>4. task[m].ctty # i
        BY <2>2, <4>3 DEF Attached
      <4>5. PICK k \in Terminals : k = task[m].ctty
        BY <4>1
      <4>6. /\ tty'[k].active = tty[k].active /\ tty'[k].dev = tty[k].dev
            /\ device'[tty[k].dev] = device[tty[k].dev]
        BY <2>5, <4>1, <4>3, <4>5
      <4>7. LeadOK(m) /\ task'[m].ctty = k
        BY <3>1, <3>2, <4>5 DEF SlotOK
      <4> QED BY <3>1, <4>4, <4>5, <4>6, <4>7 DEF LeadOK
    <3>7. LevelOK(m)'
      BY <1>2, <3>1, <3>2 DEF SlotOK, LevelOK
    <3>8. Apart(p, m)'
      BY <1>3, <2>4, <3>1, <3>6 DEF Apart
    <3> QED BY <3>3, <3>4, <3>5, <3>6, <3>7, <3>8 DEF SlotOK
  <2>10. Matched'
    <3>1. ASSUME NEW j \in Terminals, tty'[j].active PROVE Attached(tty[j].dev, j)'
      <4>1. PICK e \in Devices : e = tty[j].dev
        BY Entries, PlaceFields
      <4>2. Attached(e, j)'
        BY <2>5, <2>7, <3>1, <4>1 DEF Slots, Matched
      <4> QED BY <2>5, <4>1, <4>2 DEF Attached
    <3>2. ASSUME NEW f \in Devices, device'[f].open \/ (device'[f].ready /\ f # Console)
          PROVE  Attached(f, device[f].index)'
      <4>1. PICK j \in Terminals : j = device[f].index
        BY Entries, PlaceFields
      <4>2. Attached(f, j)
        <5>1. CASE f = d
          BY <2>2, <4>1, <5>1 DEF Attached
        <5>2. CASE f # d
          BY <2>5, <3>2, <4>1, <5>2 DEF Slots, Matched
        <5> QED BY <5>1, <5>2
      <4> QED BY <2>5, <2>7, <4>1, <4>2 DEF Attached
    <3> QED BY <3>1, <3>2 DEF Matched
  <2>11. Held'
    <3> SUFFICES ASSUME NEW j \in Terminals, tty'[j].active PROVE \E q \in TaskIds : Holds(q, j)'
      BY DEF Held
    <3>1. PICK q \in TaskIds : Holds(q, j)
      BY <2>5 DEF Slots, Held
    <3>2. CASE q = p
      <4>1. j = i
        BY <1>1, <1>2, <2>1, <3>1, <3>2 DEF Holds
      <4> QED BY <1>2, <2>4, <4>1 DEF Holds, Leads
    <3>3. CASE q # p
      <4>1. device'[Console].index = device[Console].index
        BY <2>5
      <4> QED BY <2>6, <3>1, <3>3, <4>1, HoldsKept DEF SameViews
    <3> QED BY <3>2, <3>3
  <2> QED BY <1>2, <2>6, <2>8, <2>9, <2>10, <2>11, TogetherSlots
<1> QED BY <1>5, <1>6

\* The exit of a leader closes its device and gives back its terminal.
LEMMA LeaderCloses ==
  ASSUME Typed, Slots, NEW p \in TaskIds, sys_exit(p), Leads(p)
  PROVE  \E i \in Terminals, d \in Devices :
           i = task[p].ctty /\ Attached(d, i) /\ device[d].open /\ Closes(d)
<1>1. Live(p) /\ At(p) \in {"sh", "prog", "exit"}
  BY ExitDies
<1>2. LeadOK(p) /\ At(p) # "exec"
  BY <1>1 DEF Slots, SlotOK
<1>3. PICK i \in Terminals : i = task[p].ctty
  BY Entries, PlaceFields
<1>4. PICK d \in Devices : d = tty[i].dev
  BY Entries, PlaceFields
<1>5. device[d].open /\ d \in image[task[p].img].has /\ image[task[p].img].ctty = i /\ tty[i].active
  BY <1>2, <1>3, <1>4 DEF LeadOK
<1>6. char_revoke(d, task[p].img)
  BY <1>4, <1>5 DEF sys_exit, Leads
<1>7. Closes(d)
  BY <1>5, <1>6, RevokeCloses
<1>8. Attached(d, i)
  BY <1>4, <1>5 DEF Slots, Matched
<1> QED BY <1>3, <1>5, <1>7, <1>8

LEMMA ExitSlots ==
  ASSUME Typed, Slots, NEW p \in TaskIds, Exit(p) PROVE Slots'
<1> USE Consts
<1>1. /\ Live(p) /\ At(p) \in {"sh", "prog", "exit"} /\ ~Live(p)' /\ At(p)' = "none"
      /\ KeepsPlaces({p}) /\ \A j \in Images : Remains(p, j)
  BY ExitTyped DEF KeepsPlaces
<1>2. ~Boots(p)' /\ ~Claims(p)' /\ ~HasUnit(p)' /\ ~Leads(p)' /\ Idle(p)'
  BY <1>1 DEF Boots, Claims, HasUnit, Leads, LoginAt, Before, Opens, Idle
<1>3. SlotOK(p)' /\ \A m \in TaskIds : Apart(p, m)'
  <2>1. LevelOK(p)'
    BY <1>1 DEF LevelOK
  <2> QED BY <1>2, <2>1, IdleSlot
<1>4. CASE vfs_shmexit(p)
  <2>1. /\ \A q \in TaskIds \ {p} : ~Live(q)
        /\ \A m \in TaskIds : task'[m] = Free
        /\ tty' = NoTty /\ device' = NoDevice /\ level' = 0
    BY <1>4, GoneTyped
  <2>2. ASSUME NEW m \in TaskIds PROVE Idle(m)' /\ LevelOK(m)' /\ ~Live(m)'
    <3>1. At(m)' = "none" /\ ~Live(m)'
      <4>1. CASE m = p
        BY <1>1, <4>1
      <4>2. CASE m # p
        BY <1>1, <2>1, <4>2, Entries DEF KeepsPlaces, At, Live, Free
      <4> QED BY <4>1, <4>2
    <3> QED BY <3>1 DEF Idle, Boots, Claims, HasUnit, Leads, LoginAt, Before, Opens, LevelOK
  <2>3. \A m \in TaskIds : SlotOK(m)' /\ \A n \in TaskIds : Apart(m, n)'
    BY <2>2, IdleSlot
  <2>4. Matched' /\ Held'
    BY <2>1 DEF Matched, Held, NoTty, NoDevice
  <2>5. Nobody'
    BY <2>1 DEF Nobody
  <2> QED BY <2>3, <2>4, <2>5 DEF Slots
<1>5. CASE sys_exit(p)
  <2>1. /\ \A m \in TaskIds \ {p} : task'[m] = task[m]
        /\ \E q \in TaskIds \ {p} : Live(q)
        /\ level' = level
    BY <1>5, ExitDies
  <2>2. SameViews({p}) /\ \E q \in TaskIds : Live(q)'
    <3>1. ASSUME NEW m \in TaskIds \ {p} PROVE SameView(m)
      <4>1. task'[m] = task[m] /\ pc'[m] = pc[m]
        BY <1>1, <2>1 DEF KeepsPlaces
      <4>2. Live(m) => image'[task[m].img] = image[task[m].img]
        BY <1>1, RemainsView, Entries DEF Alive, Live
      <4> QED BY <4>1, <4>2 DEF SameView, Live
    <3>2. \E q \in TaskIds : Live(q)'
      BY <2>1 DEF Live
    <3> QED BY <3>1, <3>2 DEF SameViews
  <2>3. CASE ~Leads(p)
    <3>1. Rests
      BY <1>1, <1>5, <2>3 DEF sys_exit, Leads, Rests
    <3>2. ~\E j \in Terminals : Holds(p, j)
      BY <1>1, <2>3 DEF Holds, HasUnit
    <3>3. \A m \in TaskIds : Raised(m)
      BY <2>1 DEF Raised
    <3> QED BY <1>2, <1>3, <2>2, <3>1, <3>2, <3>3, OneSlots
  <2>4. CASE Leads(p)
    <3>1. PICK i \in Terminals, d \in Devices :
            i = task[p].ctty /\ Attached(d, i) /\ device[d].open /\ Closes(d)
      BY <1>5, <2>4, LeaderCloses
    <3>2. /\ ~device'[d].open /\ ~device'[d].ready
          /\ \A f \in Devices \ {d} : device'[f] = device[f]
          /\ \A f \in Devices : device'[f].index = device[f].index
          /\ \A j \in Terminals : tty'[j].dev = tty[j].dev
                                  /\ tty'[j].active = (tty[j].active /\ j # i)
      <4>1. device[d].index = i
        BY <3>1 DEF Attached
      <4>2. /\ device'[d].open = FALSE /\ device'[d].ready = FALSE
            /\ device'[d].index = device[d].index
            /\ \A f \in Devices \ {d} : device'[f] = device[f]
            /\ \A j \in Terminals : tty'[j].dev = tty[j].dev
                                    /\ tty'[j].active = (tty[j].active /\ j # device[d].index)
        BY <3>1, ClosesTyped
      <4> QED BY <4>1, <4>2
    \* Another device and its terminal stay attached.
    <3>3. ASSUME NEW f \in Devices, NEW j \in Terminals, Attached(f, j), f # d \/ j # i
          PROVE  Attached(f, j)' /\ f # d /\ j # i /\ device'[f] = device[f]
      <4>1. f # d /\ j # i
        BY <3>1, <3>3 DEF Attached
      <4> QED BY <3>2, <3>3, <4>1 DEF Attached
    <3>4. ASSUME NEW m \in TaskIds \ {p} PROVE SlotOK(m)'
      <4>1. /\ At(m)' = At(m) /\ Boots(m)' = Boots(m) /\ Claims(m)' = Claims(m) /\ Live(m)' = Live(m)
            /\ HasUnit(m)' = HasUnit(m) /\ Leads(m)' = Leads(m) /\ pc'[m] = pc[m]
            /\ Leads(m) => task'[m].ctty = task[m].ctty
                           /\ image'[task'[m].img].ctty = image[task[m].img].ctty
                           /\ image[task[m].img].has \subseteq image'[task'[m].img].has
        BY <2>2, ViewSame DEF SameViews, SameView, Leads
      <4>2. SlotOK(m) /\ Apart(p, m)
        BY DEF Slots
      <4>3. BootOK(m)'
        <5> SUFFICES ASSUME Boots(m) PROVE BootOK(m)'
          BY <4>1 DEF BootOK
        <5>1. /\ device[Console].ready /\ ~device[Console].open /\ d # Console
              /\ At(m) \in {"bsd", "single", "level"} => level = 0
              /\ At(m) \in {"bsd", "single"} => \A j \in Terminals : ~tty[j].active
              /\ At(m) \notin {"bsd", "single"} => Attached(Console, device[Console].index)
          BY <3>1, <4>2 DEF SlotOK, BootOK
        <5>2. device[Console].index \in Terminals
          BY Entries, PlaceFields
        <5>3. device'[Console] = device[Console]
          BY <3>2, <5>1
        <5>4. Attached(Console, device[Console].index) => Attached(Console, device[Console].index)'
          BY <3>3, <5>1, <5>2, <5>3 DEF Attached
        <5> QED BY <2>1, <3>2, <4>1, <5>1, <5>3, <5>4 DEF BootOK
      <4>4. ClaimOK(m)'
        <5>1. Claims(m) => pc[m].unit \in Devices
          BY Entries DEF PlaceOK, Claims, At
        <5>2. At(m) = "slot" => pc[m].index \in Terminals
          BY Entries DEF PlaceOK, Opens, At
        <5>3. \A f \in Devices : ~device[f].ready => ~device'[f].ready
          BY <3>2
        <5> QED BY <3>2, <4>1, <4>2, <5>1, <5>2, <5>3 DEF SlotOK, ClaimOK
      <4>5. OpenOK(m)'
        <5> SUFFICES ASSUME HasUnit(m) PROVE OpenOK(m)'
          BY <4>1 DEF OpenOK
        <5>1. PICK f \in Devices, j \in Terminals : f = pc[m].unit /\ j = pc[m].index
          <6>1. pc[m].unit \in 0 .. Beyond /\ pc[m].unit # Beyond /\ pc[m].index \in Terminals
            BY Entries, PlaceFields DEF HasUnit, PlaceOK, Opens, At
          <6> QED BY <6>1 DEF Devices, Ptys, Console, Beyond
        <5>2. Attached(f, j) /\ ~device[f].open /\ (f = Console <=> pc[m].kind = "single") /\ f # d
          BY <3>1, <4>2, <5>1 DEF SlotOK, OpenOK
        <5>3. Attached(f, j)' /\ device'[f] = device[f]
          BY <3>3, <5>2
        <5> QED BY <4>1, <5>1, <5>2, <5>3 DEF OpenOK
      <4>6. LeadOK(m)'
        <5> SUFFICES ASSUME Leads(m) PROVE LeadOK(m)'
          BY <4>1 DEF LeadOK
        <5>1. PICK j \in Terminals : j = task[m].ctty
          BY Entries, PlaceFields
        <5>2. PICK f \in Devices : f = tty[j].dev
          BY Entries, PlaceFields
        <5>3. LeadOK(m) /\ task'[m].ctty = j /\ j # i
          BY <2>4, <3>1, <4>1, <4>2, <5>1 DEF SlotOK, Apart
        <5>4. Attached(f, j)
          BY <5>1, <5>2, <5>3 DEF LeadOK, Slots, Matched
        <5>5. device'[f] = device[f] /\ Attached(f, j)'
          BY <3>3, <5>3, <5>4
        <5>6. tty'[j].active /\ tty'[j].dev = f
          BY <5>5 DEF Attached
        <5> QED BY <4>1, <5>1, <5>2, <5>3, <5>5, <5>6 DEF LeadOK
      <4>7. LevelOK(m)'
        BY <2>1, <4>1, <4>2 DEF SlotOK, LevelOK
      <4> QED BY <4>3, <4>4, <4>5, <4>6, <4>7 DEF SlotOK
    <3>5. Matched'
      <4>1. ASSUME NEW j \in Terminals, tty'[j].active PROVE Attached(tty[j].dev, j)'
        <5>1. PICK f \in Devices : f = tty[j].dev
          BY Entries, PlaceFields
        <5>2. Attached(f, j) /\ j # i
          BY <3>2, <4>1, <5>1 DEF Slots, Matched
        <5>3. Attached(f, j)'
          BY <3>3, <5>2
        <5> QED BY <3>2, <5>1, <5>3 DEF Attached
      <4>2. ASSUME NEW f \in Devices, device'[f].open \/ (device'[f].ready /\ f # Console)
            PROVE  Attached(f, device[f].index)'
        <5>1. PICK j \in Terminals : j = device[f].index
          BY Entries, PlaceFields
        <5>2. f # d /\ Attached(f, j)
          BY <3>2, <4>2, <5>1 DEF Slots, Matched
        <5>3. Attached(f, j)'
          BY <3>3, <5>2
        <5> QED BY <3>2, <5>1, <5>3 DEF Attached
      <4> QED BY <4>1, <4>2 DEF Matched
    <3>6. Held'
      <4> SUFFICES ASSUME NEW j \in Terminals, tty'[j].active PROVE \E q \in TaskIds : Holds(q, j)'
        BY DEF Held
      <4>1. PICK q \in TaskIds : Holds(q, j)
        BY <3>2 DEF Slots, Held
      <4>2. q # p
        BY <1>1, <3>1, <3>2, <4>1 DEF Holds, HasUnit
      <4>3. device'[Console].index = device[Console].index
        BY <3>2
      <4> QED BY <2>2, <4>1, <4>2, <4>3, HoldsKept DEF SameViews
    <3> QED BY <1>3, <2>2, <3>4, <3>5, <3>6, TogetherSlots
  <2> QED BY <2>3, <2>4
<1> QED BY <1>4, <1>5 DEF Exit

LEMMA SlotsInit == Init => Slots
<1> SUFFICES ASSUME Init PROVE Slots
  OBVIOUS
<1>1. \A p \in TaskIds : ~Live(p) /\ At(p) = "none"
  BY DEF Init, NoTask, Free, Away, Live, At
<1>2. \A p \in TaskIds : ~Boots(p) /\ ~Claims(p) /\ ~HasUnit(p) /\ ~Leads(p)
  BY <1>1 DEF Boots, Claims, HasUnit, Leads, LoginAt, Before, Opens
<1>3. \A p \in TaskIds : SlotOK(p)
  BY <1>1, <1>2 DEF SlotOK, BootOK, ClaimOK, OpenOK, LeadOK, LevelOK
<1>4. \A p, q \in TaskIds : Apart(p, q)
  BY <1>2 DEF Apart
<1>5. Matched /\ Held /\ Nobody
  BY DEF Init, Matched, Held, Nobody, NoTty, NoDevice
<1> QED BY <1>3, <1>4, <1>5 DEF Slots

LEMMA SlotsStep ==
  ASSUME Calm, Typed, Slots, [Next]_vars
  PROVE  Slots'
<1>1. CASE UNCHANGED vars
  BY <1>1, SameSlots DEF vars
<1>2. ASSUME NEW w \in Windows, Start(w) \/ CtrlC(w) PROVE Slots'
  BY <1>2, StartSlots, SameSlots DEF CtrlC
<1>3. ASSUME NEW p \in TaskIds, Login(p) PROVE Slots'
  BY <1>3, BsdForkSlots, TtyInitSlots, SetLevelSlots, RevokeSlots, SetsidSlots, OpenConsoleSlots,
     FindUnitSlots, FindTermSlots, TtyAttachSlots, GettySlots, ShellSlots DEF Login
<1>4. ASSUME NEW p \in TaskIds, Job(p) PROVE Slots'
  BY <1>4, ForkSlots, SetpgidSlots, FrontSlots, JobExecSlots, BackSlots, ExitSlots, ReapSlots DEF Job
<1>5. ASSUME NEW i \in Images, ConControlHandler(i) PROVE Slots'
  BY <1>5, HandlerSlots
<1> QED BY <1>1, <1>2, <1>3, <1>4, <1>5 DEF Next

LEMMA AlwaysSlots ==
  ASSUME Calm
  PROVE  Spec => [](Typed /\ Slots)
<1>1. Init => Typed /\ Slots
  BY TypedInit, SlotsInit
<1>2. Typed /\ Slots /\ [Next]_vars => (Typed /\ Slots)'
  BY TypedStep, SlotsStep
<1> QED BY <1>1, <1>2, PTL DEF Spec

\* A session has its terminal to itself: what a login got from pdo_attach() and
\* tty_attach() is nobody else's until char_revoke() has given it back, and the
\* tables of devices and terminals agree.  (Two logins that open /dev/ptm at
\* the same time, or boot at the same time, do not have this.)
THEOREM TerminalsExclusive ==
  ASSUME Calm
  PROVE  Spec => [](Exclusive /\ Paired)
<1>1. Slots => Exclusive /\ Paired
  BY SlotsExclusive
<1> QED BY <1>1, AlwaysSlots, PTL

\* Steps that give no terminal back.
LEMMA AttachKeeps ==
  ASSUME Typed, NEW d \in Devices, NEW i \in Terminals, NEW r \in BOOLEAN, Attach(d, i, r),
         NEW j \in Terminals, tty[j].active
  PROVE  tty'[j].active
  BY AttachTyped

LEMMA LoginKeeps ==
  ASSUME Typed, Slots, NEW p \in TaskIds, Login(p), NEW j \in Terminals, tty[j].active
  PROVE  tty'[j].active
<1> USE Consts
<1>1. CASE \/ BsdFork(p) \/ SetLevel(p) \/ vfs_setsid(p) \/ OpenConsole(p) \/ FindUnit(p)
           \/ FindTerm(p) \/ Shell(p)
  BY <1>1 DEF BsdFork, SetLevel, vfs_setsid, OpenConsole, FindUnit, FindTerm, Shell
<1>2. CASE tty_init(p)
  <2>1. CASE UNCHANGED tty
    BY <2>1
  <2>2. ASSUME NEW i \in Terminals, Attach(Console, i, device[Console].ready) PROVE tty'[j].active
    <3>1. PICK r \in BOOLEAN : r = device[Console].ready
      BY Entries, PlaceFields
    <3>2. Attach(Console, i, r)
      BY <2>2, <3>1
    <3> QED BY <3>2, AttachKeeps
  <2> QED BY <1>2, <2>1, <2>2 DEF tty_init
<1>3. CASE sys_revoke(p)
  <2>1. Boots(p)
    BY <1>3, Entries DEF sys_revoke, PlaceOK, Boots, LoginAt, Before, At
  <2>2. ~device[Console].open
    BY <2>1 DEF Slots, SlotOK, BootOK
  <2> QED BY <1>3, <2>2, RevokeCloses DEF sys_revoke
<1>4. CASE tty_attach(p)
  <2>1. At(p) = "slot"
    BY <1>4 DEF tty_attach, At
  <2>2. PICK d \in Devices, i \in Terminals : d = pc[p].unit /\ i = pc[p].index
    BY <2>1, Entries DEF PlaceOK, Opens, At
  <2>3. PICK r \in BOOLEAN : r = TRUE
    OBVIOUS
  <2>4. Attach(d, i, r)
    BY <1>4, <2>2, <2>3 DEF tty_attach
  <2> QED BY <2>4, AttachKeeps
<1>5. CASE Getty(p)
  <2>1. CASE ~Controls(p, pc[p].unit, pc[p].index)
    BY <1>5, <2>1, GettyQuiet
  <2>2. CASE Controls(p, pc[p].unit, pc[p].index)
    <3>1. PICK i \in Terminals : i = pc[p].index
      BY <1>5, <2>2, GettyQuiet
    <3>2. /\ tty'[i] = [tty[i] EXCEPT !.sid = task[p].sid, !.gid = task[p].gid]
          /\ \A k \in Terminals \ {i} : tty'[k] = tty[k]
      BY <1>5, <2>2, <3>1, GettyQuiet DEF Controlled
    <3>3. tty[i] \in Terminal
      BY Entries
    <3>4. tty'[i].active = tty[i].active
      BY <3>2, <3>3 DEF Terminal
    <3> QED BY <3>2, <3>4
  <2> QED BY <2>1, <2>2
<1> QED BY <1>1, <1>2, <1>3, <1>4, <1>5 DEF Login

LEMMA JobKeeps ==
  ASSUME Typed, NEW p \in TaskIds, Job(p), ~Exit(p), NEW j \in Terminals, tty[j].active
  PROVE  tty'[j].active
<1>1. ASSUME NEW kind \in Jobs, Fork(p, kind) PROVE tty'[j].active
  BY <1>1 DEF Fork
<1>2. ASSUME NEW c \in TaskIds, Reap(p, c) PROVE tty'[j].active
  BY <1>2 DEF Reap
<1>3. CASE sys_setpgid(p) \/ JobExec(p)
  BY <1>3 DEF sys_setpgid, JobExec
<1>4. CASE Front(p)
  <2>1. pc[p].index \in TaskIds /\ TIOCSPGRP(p, pc[p].index)
    BY <1>4, Entries DEF Front, PlaceOK, JobAt
  <2> QED BY <2>1, GroupRests DEF Rests
<1>5. CASE Back(p)
  <2>1. task[p].gid \in TaskIds /\ TIOCSPGRP(p, task[p].gid)
    BY <1>5, Entries, PlaceFields DEF Back
  <2> QED BY <2>1, GroupRests DEF Rests
<1> QED BY <1>1, <1>2, <1>3, <1>4, <1>5 DEF Job

LEMMA ExitGivesBack ==
  ASSUME Typed, Slots, NEW p \in TaskIds, Exit(p),
         NEW i \in Terminals, tty[i].active, ~tty'[i].active
  PROVE  Live(p) /\ task[p].ctl /\ task[p].ctty = i /\ pc'[p] = Away
<1>1. Live(p) /\ At(p) \in {"sh", "prog", "exit"} /\ pc'[p] = Away
  BY ExitTyped
<1>2. CASE sys_exit(p)
  <2>1. task[p].ctl
    BY <1>2 DEF sys_exit
  <2>2. PICK j \in Terminals, d \in Devices : j = task[p].ctty /\ Attached(d, j) /\ Closes(d)
    BY <1>1, <1>2, <2>1, LeaderCloses DEF Leads
  <2>3. tty'[i].active = (tty[i].active /\ i # j)
    BY <2>2, ClosesTyped DEF Attached
  <2> QED BY <1>1, <2>1, <2>2, <2>3
<1>3. CASE vfs_shmexit(p)
  <2>1. \A q \in TaskIds \ {p} : ~Live(q)
    BY <1>3, GoneTyped
  <2>2. PICK q \in TaskIds : Holds(q, i)
    BY DEF Slots, Held
  <2>3. q = p
    BY <2>1, <2>2 DEF Holds
  <2> QED BY <1>1, <2>2, <2>3 DEF Holds, HasUnit, Leads
<1> QED BY <1>2, <1>3 DEF Exit

\* What RevokesOwn says of a step.
GivesBack ==
  \A i \in Terminals : tty[i].active /\ ~tty'[i].active =>
    \E p \in TaskIds : Live(p) /\ task[p].ctl /\ task[p].ctty = i /\ pc'[p] = Away

LEMMA StepGivesBack ==
  ASSUME Typed, Slots, [Next]_vars
  PROVE  GivesBack
<1> SUFFICES ASSUME NEW i \in Terminals, tty[i].active, ~tty'[i].active
             PROVE  \E p \in TaskIds : Live(p) /\ task[p].ctl /\ task[p].ctty = i /\ pc'[p] = Away
  BY DEF GivesBack
<1>1. ~UNCHANGED vars
  BY DEF vars
<1>2. ~\E w \in Windows : Start(w) \/ CtrlC(w)
  BY DEF Start, CtrlC
<1>3. ~\E j \in Images : ConControlHandler(j)
  BY DEF ConControlHandler
<1>4. ~\E p \in TaskIds : Login(p)
  BY LoginKeeps
<1>5. PICK p \in TaskIds : Job(p)
  BY <1>1, <1>2, <1>3, <1>4 DEF Next
<1>6. Exit(p)
  BY <1>5, JobKeeps
<1> QED BY <1>6, ExitGivesBack

\* A terminal is given back by the exit of the process that controls it, and by
\* nothing else: __exit() revokes the device of __CTTY of its Win32 process,
\* and that is the task's; the last exit clears the table, and whose terminals
\* are in use then is the one that exits.
THEOREM RevokedByOwner ==
  ASSUME Calm
  PROVE  Spec => RevokesOwn
<1> DEFINE Own == \A i \in Terminals : tty[i].active /\ ~tty'[i].active =>
                    \E p \in TaskIds : /\ Live(p) /\ task[p].ctl /\ task[p].ctty = i
                                       /\ pc'[p] = Away
<1>1. Typed /\ Slots /\ [Next]_vars => [Own]_vars
  BY StepGivesBack DEF GivesBack
<1>2. Spec => [](Typed /\ Slots)
  BY AlwaysSlots
<1> QED BY <1>1, <1>2, PTL DEF Spec, RevokesOwn

-----------------------------------------------------------------------------
(* The foreground: shells that wait for shells *)

\* Jobs of one process, and no shell in the background.
Plainly == {"pipe", "daemon"} \cap Jobs = {}
\* A login that opens /dev/ptm finds a unit.
UnitLeft == \A p \in TaskIds : At(p) = "open" /\ pc[p].kind = "multi" =>
                                 \E u \in Ptys : ~device[u].ready

\* Who may use the terminal, a shell or a job that is being set up in the
\* foreground, and who has given it to a child.
OnTerm(p) == At(p) \in ShellAt \/ (At(p) \in JobAt /\ Fore(pc[p].kind))
Waits(p) == At(p) \in {"group", "front", "waitj"} /\ Fore(pc[p].kind)
OnSame(p, q) == OnTerm(p) /\ OnTerm(q) /\ task[p].fd = task[q].fd

UnitOK(p) == /\ At(p) = "ctty" => pc[p].unit # Beyond
             /\ At(p) = "exec" => task[p].ctl
ForeOK(p) == At(p) \in {"front", "waitj", "jfront"} => Fore(pc[p].kind)
SidOK(p) == Leads(p) => tty[task[p].ctty].sid = task[p].sid
\* The leader whose terminal p uses.
Root(l, p) == Leads(l) /\ task[l].ctty = task[p].fd /\ At(l) \in ShellAt /\ l <= p
TermOK(p) == OnTerm(p) =>
  /\ task[p].ctty = task[p].fd /\ tty[task[p].fd].active /\ tty[task[p].fd].sid = task[p].sid
  /\ \E l \in TaskIds : Root(l, p)
\* Of two on a terminal the first waits, for a child that is on it.
InLine(p, q) == OnSame(p, q) /\ p < q =>
  Waits(p) /\ OnSame(p, pc[p].child) /\ pc[p].child <= q

Chain == /\ \A p \in TaskIds : UnitOK(p) /\ ForeOK(p) /\ SidOK(p) /\ TermOK(p)
         /\ \A p, q \in TaskIds : InLine(p, q)

\* m keeps its place in the line.
Line(m) ==
  /\ OnTerm(m)' = OnTerm(m) /\ Leads(m)' = Leads(m)
  /\ OnTerm(m) => /\ task'[m].fd = task[m].fd /\ task'[m].ctty = task[m].ctty
                  /\ task'[m].sid = task[m].sid /\ Waits(m)' = Waits(m)
                  /\ Waits(m) => pc'[m].child = pc[m].child
  /\ Leads(m) => /\ task'[m].ctty = task[m].ctty /\ task'[m].sid = task[m].sid
                 /\ At(m) \in ShellAt => At(m)' \in ShellAt
  /\ ForeOK(m)' /\ UnitOK(m)'

\* A step in which p may leave the line.
LEMMA LeaveChain ==
  ASSUME Typed, Chain, NEW p \in TaskIds,
         \A j \in Terminals : tty'[j].sid = tty[j].sid,
         \A m \in TaskIds : OnTerm(m)' /\ tty[task[m].fd].active => tty'[task[m].fd].active,
         \A m \in TaskIds \ {p} : Line(m),
         OnTerm(p)' => /\ OnTerm(p) /\ task'[p].fd = task[p].fd
                       /\ task'[p].ctty = task[p].ctty /\ task'[p].sid = task[p].sid,
         Leads(p)' => Leads(p) /\ task'[p].ctty = task[p].ctty /\ task'[p].sid = task[p].sid,
         Leads(p) /\ At(p) \in ShellAt /\ (\E m \in TaskIds : OnTerm(m)' /\ task[m].fd = task[p].ctty)
           => Leads(p)' /\ At(p)' \in ShellAt,
         (\E q \in TaskIds : p < q /\ OnSame(p, q))
           => OnTerm(p)' /\ Waits(p)' /\ pc'[p].child = pc[p].child,
         ForeOK(p)', UnitOK(p)'
  PROVE  Chain'
<1>1. ASSUME NEW m \in TaskIds
      PROVE  /\ OnTerm(m)' => /\ OnTerm(m) /\ task'[m].fd = task[m].fd
                              /\ task'[m].ctty = task[m].ctty /\ task'[m].sid = task[m].sid
             /\ Leads(m)' => Leads(m) /\ task'[m].ctty = task[m].ctty /\ task'[m].sid = task[m].sid
             /\ UnitOK(m)' /\ ForeOK(m)'
  BY DEF Line
<1>2. ASSUME NEW m \in TaskIds PROVE SidOK(m)'
  <2>1. task[m].ctty \in Terminals
    BY Entries, PlaceFields
  <2> QED BY <1>1, <2>1 DEF Chain, SidOK
<1>3. ASSUME NEW m \in TaskIds PROVE TermOK(m)'
  <2> SUFFICES ASSUME OnTerm(m)' PROVE TermOK(m)'
    BY DEF TermOK
  <2>1. TermOK(m) /\ OnTerm(m) /\ task[m].fd \in Terminals
    BY <1>1, Entries, PlaceFields DEF Chain
  <2>2. PICK l \in TaskIds : Root(l, m)
    BY <2>1 DEF TermOK
  <2>3. Leads(l)' /\ At(l)' \in ShellAt
    <3>1. CASE l = p
      BY <1>1, <2>2, <3>1 DEF Root
    <3>2. CASE l # p
      BY <2>2, <3>2 DEF Root, Line
    <3> QED BY <3>1, <3>2
  <2>4. Root(l, m)'
    BY <1>1, <2>2, <2>3 DEF Root
  <2> QED BY <1>1, <2>1, <2>4 DEF TermOK
<1>4. ASSUME NEW m \in TaskIds, NEW n \in TaskIds, (\E q \in TaskIds : m < q /\ OnSame(m, q))
      PROVE  Waits(m)' /\ pc'[m].child = pc[m].child
  <2>1. OnTerm(m) /\ Waits(m)
    BY <1>4 DEF Chain, InLine, OnSame
  <2> QED BY <1>4, <2>1 DEF Line
<1>5. ASSUME NEW m \in TaskIds, NEW n \in TaskIds PROVE InLine(m, n)'
  <2> SUFFICES ASSUME OnSame(m, n)', m < n
               PROVE  (Waits(m) /\ OnSame(m, pc[m].child) /\ pc[m].child <= n)'
    BY DEF InLine
  <2>1. OnSame(m, n)
    BY <1>1 DEF OnSame
  <2>2. PICK c \in TaskIds : c = pc[m].child
    BY Entries, PlaceFields
  <2>3. Waits(m) /\ OnSame(m, c) /\ c <= n
    BY <2>1, <2>2 DEF Chain, InLine
  <2>4. Waits(m)' /\ pc'[m].child = c
    BY <1>4, <2>1, <2>2
  <2>5. OnTerm(c)'
    <3>1. CASE c # p
      BY <2>3, <3>1 DEF OnSame, Line
    <3>2. CASE c = p /\ n = p
      BY <3>2 DEF OnSame
    <3>3. CASE c = p /\ n # p
      <4>1. p < n /\ OnSame(p, n)
        BY <2>1, <2>3, <3>3, Consts DEF OnSame, TaskIds
      <4> QED BY <3>3, <4>1
    <3> QED BY <3>1, <3>2, <3>3
  <2>6. OnSame(m, c)'
    BY <1>1, <2>3, <2>5 DEF OnSame
  <2> QED BY <2>3, <2>4, <2>6
<1> QED BY <1>1, <1>2, <1>3, <1>5 DEF Chain

\* A step in which all keep their places.
LEMMA LinesChain ==
  ASSUME Typed, Chain, \A m \in TaskIds : Line(m),
         \A j \in Terminals : tty'[j].sid = tty[j].sid /\ (tty[j].active => tty'[j].active)
  PROVE  Chain'
<1>1. PICK p \in TaskIds : p = 0
  BY Consts
<1>2. Line(p) /\ \A m \in TaskIds \ {p} : Line(m)
  OBVIOUS
<1>3. (\E q \in TaskIds : p < q /\ OnSame(p, q))
        => OnTerm(p)' /\ Waits(p)' /\ pc'[p].child = pc[p].child
  <2>1. (\E q \in TaskIds : p < q /\ OnSame(p, q)) => OnTerm(p) /\ Waits(p)
    BY DEF Chain, InLine, OnSame
  <2> QED BY <1>2, <2>1 DEF Line
<1>4. \A m \in TaskIds : task[m].fd \in Terminals
  BY Entries, PlaceFields
<1>5. /\ OnTerm(p)' => /\ OnTerm(p) /\ task'[p].fd = task[p].fd
                       /\ task'[p].ctty = task[p].ctty /\ task'[p].sid = task[p].sid
      /\ Leads(p)' => Leads(p) /\ task'[p].ctty = task[p].ctty /\ task'[p].sid = task[p].sid
      /\ Leads(p) /\ At(p) \in ShellAt => Leads(p)' /\ At(p)' \in ShellAt
      /\ ForeOK(p)' /\ UnitOK(p)'
  BY <1>2 DEF Line
<1> QED BY <1>2, <1>3, <1>4, <1>5, LeaveChain

\* Tasks of which a step changes nothing but the group.
LEMMA FieldsLine ==
  ASSUME Chain, NEW m \in TaskIds, pc'[m] = pc[m], Live(m)' = Live(m),
         Live(m) => /\ task'[m].ctl = task[m].ctl /\ task'[m].ctty = task[m].ctty
                    /\ task'[m].fd = task[m].fd /\ task'[m].sid = task[m].sid,
         Typed
  PROVE  Line(m)
<1>1. At(m)' = At(m) /\ OnTerm(m)' = OnTerm(m) /\ Waits(m)' = Waits(m) /\ Leads(m)' = Leads(m)
  BY DEF At, OnTerm, Waits, Leads
<1>2. OnTerm(m) \/ Leads(m) \/ At(m) = "exec" => Live(m)
  BY Entries DEF OnTerm, Leads, ShellAt, JobAt
<1>3. ForeOK(m)' /\ UnitOK(m)'
  BY <1>1, <1>2 DEF Chain, ForeOK, UnitOK
<1> QED BY <1>1, <1>2, <1>3 DEF Line

LEMMA StaysLine ==
  ASSUME Typed, Chain, NEW m \in TaskIds, pc'[m] = pc[m], Stays(m)
  PROVE  Line(m)
<1>1. Live(m)' = Live(m) /\ (Live(m) => task'[m] = task[m])
  BY DEF Stays, Live, Free
<1> QED BY <1>1, FieldsLine

\* Tasks that are in no line.
LEMMA OffLine ==
  ASSUME NEW m \in TaskIds, ~OnTerm(m), ~OnTerm(m)', ~Leads(m), ~Leads(m)', UnitOK(m)',
         At(m)' # "jfront"
  PROVE  Line(m)
<1>1. ForeOK(m)'
  BY DEF ForeOK, OnTerm, ShellAt
<1>2. OnTerm(m)' = OnTerm(m)
  BY DEF OnTerm
<1>3. Leads(m)' = Leads(m)
  BY DEF Leads
<1> QED BY <1>1, <1>2, <1>3 DEF Line

\* A login that has no terminal yet, and goes on.
LEMMA BeforeChain ==
  ASSUME Typed, Slots, Chain, NEW p \in TaskIds, KeepsPlaces({p}),
         \A m \in TaskIds \ {p} : Stays(m), task'[p].ctl = task[p].ctl, Live(p),
         At(p) \in Before \cup Opens, At(p)' \in Before \cup Opens,
         At(p)' = "ctty" => pc'[p].unit # Beyond,
         \A j \in Terminals : tty'[j].sid = tty[j].sid /\ (tty[j].active => tty'[j].active)
  PROVE  Chain'
<1>1. \A m \in TaskIds \ {p} : Line(m)
  BY StaysLine DEF KeepsPlaces
<1>2. ~OnTerm(p) /\ ~OnTerm(p)' /\ At(p)' \notin {"jfront", "exec"}
  BY DEF OnTerm, Before, Opens, ShellAt, JobAt
<1>3. ~Leads(p)
  BY LeadAt DEF Before, Opens, ShellAt
<1>4. ~Leads(p)'
  BY <1>3 DEF Leads
<1>5. UnitOK(p)'
  BY <1>2 DEF UnitOK, At
<1>6. Line(p)
  BY <1>2, <1>3, <1>4, <1>5, OffLine
<1> QED BY <1>1, <1>6, LinesChain

LEMMA AttachSid ==
  ASSUME Typed, NEW d \in Devices, NEW i \in Terminals, NEW r \in BOOLEAN, Attach(d, i, r)
  PROVE  \A j \in Terminals : tty'[j].sid = tty[j].sid
<1>1. ASSUME NEW j \in Terminals PROVE tty'[j].sid = tty[j].sid
  <2>1. CASE j = i
    BY <2>1, AttachTyped
  <2>2. CASE j # i
    BY <2>2, AttachTyped
  <2> QED BY <2>1, <2>2
<1> QED BY <1>1

\* What these steps leave of the terminals.
LEMMA LoginTty ==
  ASSUME Typed, Slots, NEW p \in TaskIds, Login(p), ~Getty(p)
  PROVE  \A j \in Terminals : tty'[j].sid = tty[j].sid /\ (tty[j].active => tty'[j].active)
<1> USE Consts
<1>1. \A j \in Terminals : tty[j].active => tty'[j].active
  BY LoginKeeps
<1>2. \A j \in Terminals : tty'[j].sid = tty[j].sid
  <2>1. CASE UNCHANGED tty
    BY <2>1
  <2>2. CASE tty_init(p)
    <3>1. ASSUME NEW i \in Terminals, Attach(Console, i, device[Console].ready)
          PROVE  \A j \in Terminals : tty'[j].sid = tty[j].sid
      <4>1. PICK r \in BOOLEAN : r = device[Console].ready
        BY Entries, PlaceFields
      <4>2. Attach(Console, i, r)
        BY <3>1, <4>1
      <4> QED BY <4>2, AttachSid
    <3> QED BY <2>1, <2>2, <3>1 DEF tty_init
  <2>3. CASE sys_revoke(p)
    <3>1. Boots(p)
      BY <2>3, Entries DEF sys_revoke, PlaceOK, Boots, LoginAt, Before, At
    <3>2. ~device[Console].open
      BY <3>1 DEF Slots, SlotOK, BootOK
    <3> QED BY <2>3, <3>2, RevokeCloses DEF sys_revoke
  <2>4. CASE tty_attach(p)
    <3>1. At(p) = "slot"
      BY <2>4 DEF tty_attach, At
    <3>2. PICK d \in Devices, i \in Terminals : d = pc[p].unit /\ i = pc[p].index
      BY <3>1, Entries DEF PlaceOK, Opens, At
    <3>3. PICK r \in BOOLEAN : r = TRUE
      OBVIOUS
    <3>4. Attach(d, i, r)
      BY <2>4, <3>2, <3>3 DEF tty_attach
    <3> QED BY <3>4, AttachSid
  <2> QED BY <2>1, <2>2, <2>3, <2>4
        DEF Login, BsdFork, SetLevel, vfs_setsid, OpenConsole, FindUnit, FindTerm, Shell
<1> QED BY <1>1, <1>2

LEMMA OpeningChain ==
  ASSUME Typed, Slots, Calm, UnitLeft, Chain, NEW p \in TaskIds,
         \/ tty_init(p) \/ SetLevel(p) \/ sys_revoke(p) \/ vfs_setsid(p)
         \/ OpenConsole(p) \/ FindUnit(p) \/ FindTerm(p) \/ tty_attach(p)
  PROVE  Chain'
<1>1. \A j \in Terminals : tty'[j].sid = tty[j].sid /\ (tty[j].active => tty'[j].active)
  <2>1. ~Getty(p)
    BY DEF tty_init, SetLevel, sys_revoke, vfs_setsid, OpenConsole, FindUnit, FindTerm, tty_attach,
           Getty
  <2> QED BY <2>1, LoginTty DEF Login
<1>2. /\ At(p) \in Before \cup Opens /\ Live(p) /\ pc[p] \in Place
      /\ KeepsPlaces({p})
  BY Entries DEF tty_init, SetLevel, sys_revoke, vfs_setsid, OpenConsole, FindUnit, FindTerm,
                 tty_attach, At, KeepsPlaces, Typed, Before, Opens
<1>3. \A m \in TaskIds \ {p} : Stays(m)
  BY DEF tty_init, SetLevel, sys_revoke, vfs_setsid, OpenConsole, FindUnit, FindTerm, tty_attach,
         Stays, Typed
<1>4. task'[p].ctl = task[p].ctl
  <2>1. task'[p] = task[p] \/ task'[p] = [task[p] EXCEPT !.gid = p, !.sid = p]
    BY DEF tty_init, SetLevel, sys_revoke, vfs_setsid, OpenConsole, FindUnit, FindTerm, tty_attach,
           Typed
  <2> QED BY <2>1, Entries DEF Task
<1>5. At(p)' \in Before \cup Opens /\ (At(p)' = "ctty" => pc'[p].unit # Beyond)
  <2>1. CASE tty_init(p) \/ SetLevel(p) \/ sys_revoke(p) \/ vfs_setsid(p)
    BY <1>2, <2>1 DEF tty_init, SetLevel, sys_revoke, vfs_setsid, At, Typed, Place, Before, Opens
  <2>2. CASE OpenConsole(p)
    <3>1. Boots(p)
      BY <2>2 DEF OpenConsole, Boots, At, LoginAt, Before, Opens
    <3>2. device[Console].ready
      BY <3>1 DEF Slots, SlotOK, BootOK
    <3>3. pc'[p] = [pc[p] EXCEPT !.at = "ctty", !.unit = Console, !.index = device[Console].index]
      BY <2>2, <3>2 DEF OpenConsole, Typed
    <3> QED BY <1>2, <3>3, Consts DEF At, Place, Opens
  <2>3. CASE FindUnit(p)
    <3>1. \E u \in Ptys : ~device[u].ready
      BY <2>3 DEF FindUnit, UnitLeft, At
    <3>2. \E u \in Ptys : pc' = [pc EXCEPT ![p].at = "unit", ![p].unit = u]
      BY <2>3, <3>1 DEF FindUnit
    <3> QED BY <1>2, <3>2 DEF At, Typed, Place, Opens
  <2>4. CASE FindTerm(p)
    <3>1. PICK u \in Ptys : u = pc[p].unit
      BY <2>4, Entries DEF FindTerm, PlaceOK
    <3>2. ~device[u].ready
      BY <2>4, <3>1 DEF FindTerm, Slots, SlotOK, ClaimOK, Claims, At
    <3>3. \E i \in Terminals : ~tty[i].active
      BY <3>2, TerminalLeft DEF Slots
    <3>4. \E i \in Terminals : pc' = [pc EXCEPT ![p].at = "slot", ![p].index = i]
      BY <2>4, <3>3 DEF FindTerm
    <3> QED BY <1>2, <3>4 DEF At, Typed, Place, Opens
  <2>5. CASE tty_attach(p)
    <3>1. pc[p].unit \in Ptys
      BY <2>5, Entries DEF tty_attach, PlaceOK
    <3>2. pc'[p] = [pc[p] EXCEPT !.at = "ctty"]
      BY <2>5 DEF tty_attach, Typed
    <3> QED BY <1>2, <3>1, <3>2, Consts DEF At, Place, Opens
  <2> QED BY <2>1, <2>2, <2>3, <2>4, <2>5
<1> QED BY <1>1, <1>2, <1>3, <1>4, <1>5, BeforeChain

\* A program on a terminal that goes on there, or one that is on none.
Fielded(p) == /\ Live(p) /\ Live(p)' /\ task'[p].ctl = task[p].ctl /\ task'[p].ctty = task[p].ctty
              /\ task'[p].fd = task[p].fd /\ task'[p].sid = task[p].sid

LEMMA SteadyLine ==
  ASSUME NEW p \in TaskIds, Fielded(p), OnTerm(p)' <=> OnTerm(p), Waits(p)' <=> Waits(p),
         Waits(p) => pc'[p].child = pc[p].child, Leads(p) /\ At(p) \in ShellAt => At(p)' \in ShellAt,
         ForeOK(p)', At(p)' \notin {"ctty", "exec"}
  PROVE  Line(p)
<1>1. UnitOK(p)'
  BY DEF UnitOK, At
<1>2. OnTerm(p)' = OnTerm(p)
  BY DEF OnTerm
<1>3. Leads(p)' = Leads(p)
  BY DEF Leads, Fielded
<1>4. Waits(p)' = Waits(p)
  BY DEF Waits
<1> QED BY <1>1, <1>2, <1>3, <1>4 DEF Line, Fielded

LEMMA SetpgidChain ==
  ASSUME Typed, Slots, Chain, NEW p \in TaskIds, sys_setpgid(p) PROVE Chain'
<1>1. /\ Live(p) /\ At(p) \in {"group", "jgroup"}
      /\ pc' = [pc EXCEPT ![p] = After(p)]
      /\ UNCHANGED <<image, tty, device, level, press, used>>
  BY SetpgidMoves
<1>2. PICK c \in TaskIds : /\ task'[c] = [task[c] EXCEPT !.gid = pc[p].index]
                           /\ \A m \in TaskIds \ {c} : task'[m] = task[m]
  BY SetpgidMoves
<1>3. /\ task'[c].st = task[c].st /\ task'[c].sid = task[c].sid /\ task'[c].fd = task[c].fd
      /\ task'[c].ctl = task[c].ctl /\ task'[c].ctty = task[c].ctty
  BY <1>2, Entries DEF Task
<1>4. ASSUME NEW m \in TaskIds
      PROVE  /\ Live(m)' = Live(m) /\ task'[m].ctl = task[m].ctl /\ task'[m].ctty = task[m].ctty
             /\ task'[m].fd = task[m].fd /\ task'[m].sid = task[m].sid
  BY <1>2, <1>3 DEF Live
<1>5. ASSUME NEW m \in TaskIds \ {p} PROVE Line(m)
  <2>1. pc'[m] = pc[m]
    BY <1>1 DEF Typed
  <2> QED BY <1>4, <2>1, FieldsLine
<1>6. pc'[p] = After(p) /\ pc[p] \in Place
  BY <1>1, Entries DEF Typed
<1>7. CASE At(p) = "group"
  <2>1. After(p) = IF Fore(pc[p].kind) THEN [pc[p] EXCEPT !.at = "front"] ELSE [Away EXCEPT !.at = "sh"]
    BY <1>7 DEF After
  <2>2. /\ OnTerm(p)' <=> OnTerm(p)
        /\ Waits(p)' <=> Waits(p)
        /\ Waits(p) => pc'[p].child = pc[p].child
        /\ At(p)' \in ShellAt /\ ForeOK(p)' /\ At(p)' \notin {"ctty", "exec"}
    <3>1. CASE Fore(pc[p].kind)
      <4>1. At(p)' = "front" /\ pc'[p].kind = pc[p].kind /\ pc'[p].child = pc[p].child
        BY <1>6, <2>1, <3>1 DEF At, Place
      <4>2. Fore(pc[p].kind)'
        BY <3>1, <4>1 DEF Fore
      <4> QED BY <1>7, <3>1, <4>1, <4>2 DEF OnTerm, Waits, ForeOK, ShellAt
    <3>2. CASE ~Fore(pc[p].kind)
      <4>1. At(p)' = "sh"
        BY <1>6, <2>1, <3>2 DEF At, Away
      <4> QED BY <1>7, <3>2, <4>1 DEF OnTerm, Waits, ForeOK, ShellAt
    <3> QED BY <3>1, <3>2
  <2> QED BY <1>1, <1>4, <1>5, <2>2, SteadyLine, LinesChain DEF Fielded
<1>8. CASE At(p) = "jgroup"
  <2>1. After(p) = [pc[p] EXCEPT !.at = IF Fore(pc[p].kind) THEN "jfront" ELSE "jexec"]
    BY <1>8 DEF After
  <2>2. At(p)' = (IF Fore(pc[p].kind) THEN "jfront" ELSE "jexec") /\ pc'[p].kind = pc[p].kind
    BY <1>6, <2>1 DEF At, Place
  <2>3. Fore(pc[p].kind)' <=> Fore(pc[p].kind)
    BY <2>2 DEF Fore
  <2>4. OnTerm(p)' <=> OnTerm(p)
    BY <1>8, <2>2, <2>3 DEF OnTerm, ShellAt, JobAt
  <2>5. ~Waits(p) /\ ~Waits(p)' /\ ForeOK(p)' /\ At(p)' \notin {"ctty", "exec"}
    BY <1>8, <2>2, <2>3 DEF Waits, ForeOK
  <2>6. ~Leads(p)
    BY <1>8, LeadAt DEF ShellAt
  <2> QED BY <1>1, <1>4, <1>5, <2>4, <2>5, <2>6, SteadyLine, LinesChain DEF Fielded
<1> QED BY <1>1, <1>7, <1>8

\* A terminal's foreground group changes, and p goes on.
LEMMA GroupChain ==
  ASSUME Typed, Chain, NEW p \in TaskIds, NEW g \in TaskIds, TIOCSPGRP(p, g), task' = task,
         KeepsPlaces({p}), Live(p),
         OnTerm(p)' <=> OnTerm(p), Waits(p)' <=> Waits(p),
         Waits(p) => pc'[p].child = pc[p].child, Leads(p) /\ At(p) \in ShellAt => At(p)' \in ShellAt,
         ForeOK(p)', At(p)' \notin {"ctty", "exec"}
  PROVE  Chain'
<1>1. ASSUME NEW j \in Terminals PROVE tty'[j].sid = tty[j].sid /\ (tty[j].active => tty'[j].active)
  <2>1. tty'[j] = tty[j] \/ tty'[j] = [tty[j] EXCEPT !.gid = g]
    BY GroupTyped
  <2> QED BY <2>1, Entries DEF Terminal
<1>2. ASSUME NEW m \in TaskIds \ {p} PROVE Line(m)
  BY StaysLine DEF KeepsPlaces, Stays
<1>3. Fielded(p)
  BY DEF Fielded, Live
<1> QED BY <1>1, <1>2, <1>3, SteadyLine, LinesChain

LEMMA FrontChain ==
  ASSUME Typed, Slots, Plainly, Chain, NEW p \in TaskIds, Front(p) PROVE Chain'
<1>1. /\ task' = task /\ KeepsPlaces({p}) /\ At(p) \in {"front", "jfront"} /\ Live(p)
      /\ At(p)' = IF At(p) = "jfront" THEN "jexec"
                  ELSE IF pc[p].kind = "pipe" /\ pc[p].child = pc[p].index THEN "more" ELSE "waitj"
      /\ pc'[p].child = pc[p].child /\ pc'[p].kind = pc[p].kind
  BY FrontQuiet
<1>2. pc[p].kind # "pipe" /\ pc[p].index \in TaskIds
  BY <1>1, Entries DEF PlaceOK, JobAt, At, Plainly
<1>3. TIOCSPGRP(p, pc[p].index)
  BY DEF Front
<1>4. Fore(pc[p].kind) /\ Fore(pc[p].kind)'
  BY <1>1 DEF Chain, ForeOK, Fore
<1>5. At(p)' = IF At(p) = "jfront" THEN "jexec" ELSE "waitj"
  BY <1>1, <1>2
<1>6. OnTerm(p) /\ OnTerm(p)' /\ ForeOK(p)' /\ At(p)' \notin {"ctty", "exec"}
  BY <1>1, <1>4, <1>5 DEF OnTerm, ForeOK, ShellAt, JobAt
<1>7. Waits(p)' <=> Waits(p)
  BY <1>1, <1>4, <1>5 DEF Waits
<1>8. Leads(p) /\ At(p) \in ShellAt => At(p)' \in ShellAt
  BY <1>1, <1>5 DEF ShellAt
<1> QED BY <1>1, <1>2, <1>3, <1>6, <1>7, <1>8, GroupChain

LEMMA BackChain ==
  ASSUME Typed, Chain, NEW p \in TaskIds, Back(p) PROVE Chain'
<1>1. task' = task /\ KeepsPlaces({p}) /\ At(p) = "back" /\ At(p)' = "sh" /\ Live(p)
  BY BackQuiet
<1>2. TIOCSPGRP(p, task[p].gid) /\ task[p].gid \in TaskIds
  BY Entries, PlaceFields DEF Back
<1>3. /\ OnTerm(p) /\ OnTerm(p)' /\ ForeOK(p)' /\ At(p)' \notin {"ctty", "exec"}
      /\ ~Waits(p) /\ ~Waits(p)' /\ At(p)' \in ShellAt
  BY <1>1 DEF OnTerm, ForeOK, ShellAt, Waits
<1> QED BY <1>1, <1>2, <1>3, GroupChain

LEMMA HandlerChain ==
  ASSUME Typed, Slots, Chain, NEW i \in Images, ConControlHandler(i) PROVE Chain'
<1>1. UNCHANGED <<task, image, tty, device, level, used>>
  BY HandlerMoves
<1>2. \A m \in TaskIds : Stays(m)
  BY <1>1 DEF Stays
<1>3. CASE pc' = pc
  <2>1. \A m \in TaskIds : Line(m)
    BY <1>2, <1>3, StaysLine
  <2> QED BY <1>1, <2>1, LinesChain
<1>4. ASSUME NEW m \in TaskIds, At(m) \in {"bsd", "wait", "prog"}, Live(m),
             pc' = [pc EXCEPT ![m] = [Away EXCEPT !.at = "exit"]]
      PROVE  Chain'
  <2>1. At(m)' = "exit" /\ \A n \in TaskIds \ {m} : pc'[n] = pc[n]
    BY <1>4 DEF At, Typed, Away
  <2>2. ~OnTerm(m) /\ ~OnTerm(m)' /\ UnitOK(m)' /\ At(m)' # "jfront"
    BY <1>4, <2>1 DEF OnTerm, UnitOK, ShellAt, JobAt
  <2>3. ~Leads(m)
    BY <1>4, LeadAt DEF ShellAt
  <2>4. ~Leads(m)'
    BY <1>1, <2>3 DEF Leads, Live
  <2>5. Line(m)
    BY <2>2, <2>3, <2>4, OffLine
  <2>6. \A n \in TaskIds \ {m} : Line(n)
    BY <1>2, <2>1, StaysLine
  <2> QED BY <1>1, <2>5, <2>6, LinesChain
<1> QED BY <1>3, <1>4, HandlerMoves

LEMMA CtrlCChain ==
  ASSUME Typed, Chain, NEW w \in Windows, CtrlC(w) PROVE Chain'
<1>1. UNCHANGED <<task, tty, pc>>
  BY DEF CtrlC
<1>2. \A m \in TaskIds : Line(m)
  BY <1>1, StaysLine DEF Stays
<1> QED BY <1>1, <1>2, LinesChain

LEMMA StartChain ==
  ASSUME Typed, Chain, NEW w \in Windows, Start(w) PROVE Chain'
<1>1. PICK n \in TaskIds :
           /\ At(n) = "none" /\ \A m \in TaskIds \ {n} : Stays(m)
           /\ task'[n].ctl = FALSE /\ At(n)' = "bsd" /\ KeepsPlaces({n}) /\ UNCHANGED tty
  BY StartStep
<1>2. \A m \in TaskIds \ {n} : Line(m)
  BY <1>1, StaysLine DEF KeepsPlaces
<1>3. ~OnTerm(n) /\ ~OnTerm(n)' /\ UnitOK(n)' /\ At(n)' # "jfront"
  BY <1>1 DEF OnTerm, UnitOK, ShellAt, JobAt
<1>4. ~Leads(n) /\ ~Leads(n)'
  BY <1>1, Entries DEF Leads
<1>5. Line(n)
  BY <1>3, <1>4, OffLine
<1> QED BY <1>1, <1>2, <1>5, LinesChain

LEMMA BsdForkChain ==
  ASSUME Typed, Slots, Chain, NEW p \in TaskIds, BsdFork(p) PROVE Chain'
<1>1. PICK c \in TaskIds :
           /\ At(p) = "bsd" /\ Live(p) /\ Spawns(p, c) /\ At(p)' = "wait"
           /\ At(c)' \in {"single", "setsid"} /\ KeepsPlaces({p, c}) /\ UNCHANGED <<image, tty>>
  BY BsdForkStep
<1>2. /\ c # p /\ task'[p] = task[p] /\ ~Live(c) /\ ~Leads(c)' /\ Live(c)'
      /\ \A m \in TaskIds \ {c} : Stays(m)
  BY <1>1, SpawnViews DEF Spawns
<1>3. \A m \in TaskIds \ {p, c} : Line(m)
  BY <1>1, <1>2, StaysLine DEF KeepsPlaces
<1>4. ~Leads(p) /\ ~Leads(p)' /\ ~Leads(c)
  <2>1. ~Leads(p)
    BY <1>1, LeadAt DEF ShellAt
  <2> QED BY <1>2, <2>1 DEF Leads, Live
<1>5. At(c) = "none"
  BY <1>1 DEF Spawns
<1>6. Line(p)
  <2>1. ~OnTerm(p) /\ ~OnTerm(p)' /\ UnitOK(p)' /\ At(p)' # "jfront"
    BY <1>1 DEF OnTerm, UnitOK, ShellAt, JobAt
  <2> QED BY <1>4, <2>1, OffLine
<1>7. Line(c)
  <2>1. ~OnTerm(c) /\ ~OnTerm(c)' /\ UnitOK(c)' /\ At(c)' # "jfront"
    BY <1>1, <1>5 DEF OnTerm, UnitOK, ShellAt, JobAt
  <2> QED BY <1>2, <1>4, <2>1, OffLine
<1> QED BY <1>1, <1>3, <1>6, <1>7, LinesChain

\* The job a shell waits for joins the line behind it.
LEMMA JoinChain ==
  ASSUME Typed, Grouped, Slots, Chain, NEW p \in TaskIds, NEW c \in TaskIds,
         At(p) = "sh", Live(p), Spawns(p, c), At(p)' = "group", pc'[p].child = c,
         Fore(pc[p].kind)', At(c)' = "jgroup", Fore(pc[c].kind)', KeepsPlaces({p, c}),
         UNCHANGED <<image, tty, device>>
  PROVE  Chain'
<1> USE Consts
<1>1. /\ c # p /\ task'[p] = task[p] /\ ~Live(c) /\ ~Leads(c)' /\ Live(c)'
      /\ \A m \in TaskIds \ {c} : Stays(m)
      /\ Copied(p, c) /\ At(c) = "none" /\ c >= task[p].gid
  BY SpawnViews, Spawned DEF Spawns
<1>2. c > p
  <2>1. task[p].gid = p
    BY DEF Grouped, GroupOf, OwnAt, ShellAt
  <2> QED BY <1>1, <2>1 DEF TaskIds
<1>3. \A m \in TaskIds \ {p, c} : Line(m)
  BY <1>1, StaysLine DEF KeepsPlaces
<1>4. OnTerm(p) /\ ~Waits(p) /\ ~OnTerm(c)
  BY <1>1 DEF OnTerm, Waits, ShellAt, JobAt
<1>5. \A q \in TaskIds : p < q => ~OnSame(p, q)
  BY <1>4 DEF Chain, InLine
<1>6. OnTerm(p)' /\ Waits(p)' /\ OnTerm(c)'
  BY DEF OnTerm, Waits, ShellAt, JobAt
<1>7. task'[p].fd = task[p].fd /\ task'[c].fd = task[p].fd /\ task'[c].ctty = task[p].ctty
      /\ task'[c].sid = task[p].sid
  BY <1>1 DEF Copied
<1>8. ASSUME NEW m \in TaskIds \ {c}
      PROVE  /\ OnTerm(m)' => /\ OnTerm(m) /\ task'[m].fd = task[m].fd
                              /\ task'[m].ctty = task[m].ctty /\ task'[m].sid = task[m].sid
             /\ Leads(m)' = Leads(m) /\ (Leads(m) => task'[m].ctty = task[m].ctty /\ task'[m].sid = task[m].sid)
             /\ Leads(m) /\ At(m) \in ShellAt => At(m)' \in ShellAt
             /\ UnitOK(m)' /\ ForeOK(m)'
  <2>1. CASE m = p
    <3>1. UnitOK(p)' /\ ForeOK(p)' /\ At(p)' \in ShellAt
      BY DEF UnitOK, ForeOK, ShellAt
    <3>2. Leads(p)' = Leads(p)
      BY <1>1 DEF Leads, Live
    <3> QED BY <1>1, <1>4, <2>1, <3>1, <3>2
  <2>2. CASE m # p
    BY <1>3, <2>2 DEF Line
  <2> QED BY <2>1, <2>2
<1>9. UnitOK(c)' /\ ForeOK(c)'
  BY DEF UnitOK, ForeOK
<1>10. ASSUME NEW m \in TaskIds PROVE SidOK(m)'
  <2>1. CASE m = c
    BY <1>1, <2>1 DEF SidOK
  <2>2. CASE m # c
    BY <1>8, <2>2 DEF Chain, SidOK
  <2> QED BY <2>1, <2>2
<1>11. ASSUME NEW l \in TaskIds, NEW m \in TaskIds \ {c}, Root(l, m), task'[m].fd = task[m].fd
       PROVE  Root(l, m)'
  <2>1. l # c
    BY <1>1, <1>11 DEF Root, Leads
  <2> QED BY <1>8, <1>11, <2>1 DEF Root
<1>12. ASSUME NEW m \in TaskIds \ {c} PROVE TermOK(m)'
  <2> SUFFICES ASSUME OnTerm(m)' PROVE TermOK(m)'
    BY DEF TermOK
  <2>1. TermOK(m) /\ OnTerm(m) /\ task'[m].fd = task[m].fd
    BY <1>8 DEF Chain
  <2>2. PICK l \in TaskIds : Root(l, m)
    BY <2>1 DEF TermOK
  <2>3. Root(l, m)'
    BY <1>11, <2>1, <2>2
  <2> QED BY <1>8, <2>1, <2>3 DEF TermOK
<1>14. TermOK(c)'
  <2>1. TermOK(p)'
    BY <1>1, <1>12
  <2>2. PICK l \in TaskIds : Root(l, p)'
    BY <1>6, <2>1 DEF TermOK
  <2>3. Root(l, c)'
    BY <1>2, <1>7, <2>2 DEF Root, TaskIds
  <2> QED BY <1>1, <1>6, <1>7, <2>1, <2>3 DEF TermOK
<1>13. ASSUME NEW m \in TaskIds, NEW n \in TaskIds PROVE InLine(m, n)'
  <2> SUFFICES ASSUME OnSame(m, n)', m < n
               PROVE  (Waits(m) /\ OnSame(m, pc[m].child) /\ pc[m].child <= n)'
    BY DEF InLine
  <2>1. ASSUME m # c, n # c PROVE OnSame(m, n) /\ m # p
    <3>1. OnSame(m, n)
      BY <1>8, <2>1 DEF OnSame
    <3> QED BY <1>5, <3>1
  <2>2. ASSUME m # p, m # c, NEW q \in TaskIds, OnSame(m, q), m < q, q <= n
        PROVE  (Waits(m) /\ OnSame(m, pc[m].child) /\ pc[m].child <= n)'
    <3>1. PICK k \in TaskIds : k = pc[m].child
      BY Entries, PlaceFields
    <3>2. Waits(m) /\ OnSame(m, k) /\ k <= q
      BY <2>2, <3>1 DEF Chain, InLine
    <3>3. Waits(m)' /\ pc'[m].child = k /\ OnTerm(m)' /\ task'[m].fd = task[m].fd
      BY <1>3, <2>2, <3>1, <3>2 DEF Line, OnSame
    <3>4. k # c
      BY <1>4, <3>2 DEF OnSame
    <3>5. OnTerm(k)' /\ task'[k].fd = task[k].fd
      <4>1. CASE k = p
        BY <1>6, <1>7, <4>1
      <4>2. CASE k # p
        BY <1>3, <3>2, <3>4, <4>2 DEF Line, OnSame
      <4> QED BY <4>1, <4>2
    <3>6. OnSame(m, k)'
      BY <3>2, <3>3, <3>5 DEF OnSame
    <3>7. k <= n
      BY <2>2, <3>2 DEF TaskIds
    <3> QED BY <3>3, <3>6, <3>7
  <2>3. CASE m = c
    <3>1. n # c /\ n # p
      BY <1>2, <2>3 DEF TaskIds
    <3>2. OnTerm(n)' /\ task'[n].fd = task[p].fd
      BY <1>7, <2>3 DEF OnSame
    <3>3. OnSame(p, n)
      BY <1>4, <1>8, <3>1, <3>2 DEF OnSame
    <3>4. p < n
      BY <1>2, <2>3 DEF TaskIds
    <3> QED BY <1>5, <3>3, <3>4
  <2>4. CASE m = p
    <3>1. n = c
      BY <2>1, <2>4, <1>1
    <3>2. OnSame(p, c)'
      BY <2>4, <3>1
    <3> QED BY <1>6, <2>4, <3>1, <3>2
  <2>5. CASE m \notin {p, c} /\ n = c
    <3>1. OnTerm(m) /\ task[m].fd = task[p].fd
      BY <1>7, <1>8, <2>5 DEF OnSame
    <3>2. OnSame(m, p) /\ OnSame(p, m)
      BY <1>4, <3>1 DEF OnSame
    <3>3. ~(p < m)
      BY <1>5, <3>2
    <3>4. m < p /\ p <= n
      BY <1>2, <2>5, <3>3 DEF TaskIds
    <3> QED BY <2>2, <2>5, <3>2, <3>4
  <2>6. CASE m \notin {p, c} /\ n # c
    <3>1. n <= n
      BY DEF TaskIds
    <3> QED BY <2>1, <2>2, <2>6, <3>1
  <2> QED BY <2>3, <2>4, <2>5, <2>6
<1> QED BY <1>8, <1>9, <1>10, <1>12, <1>13, <1>14 DEF Chain

LEMMA ForkChain ==
  ASSUME Typed, Grouped, Slots, Plainly, Chain, NEW p \in TaskIds, NEW kind \in Jobs, Fork(p, kind)
  PROVE  Chain'
<1>1. PICK c \in TaskIds :
           /\ At(p) = "sh" \/ (At(p) = "more" /\ kind = "pipe")
           /\ Live(p) /\ Spawns(p, c)
           /\ At(p)' = "group" /\ pc'[p].child = c /\ pc'[p].kind = kind
           /\ At(c)' = "jgroup" /\ pc'[c].kind = kind /\ KeepsPlaces({p, c})
           /\ UNCHANGED <<image, tty, device, level, press>>
  BY ForkStep
<1>2. At(p) = "sh" /\ ~Leads(c)
  <2>1. ~Live(c)
    BY <1>1, SpawnViews
  <2> QED BY <1>1, <2>1 DEF Grouped, Indexed, Leads
<1>3. CASE Fore(kind)
  <2>1. Fore(pc[p].kind)' /\ Fore(pc[c].kind)'
    BY <1>1, <1>3 DEF Fore
  <2> QED BY <1>1, <1>2, <2>1, JoinChain
<1>4. CASE ~Fore(kind)
  <2>1. ~Fore(pc[p].kind)' /\ ~Fore(pc[c].kind)'
    BY <1>1, <1>4 DEF Fore
  <2>2. /\ c # p /\ task'[p] = task[p] /\ ~Leads(c)' /\ Live(p)'
        /\ \A m \in TaskIds \ {c} : Stays(m)
    BY <1>1, SpawnViews DEF Spawns, Live
  <2>3. \A m \in TaskIds \ {p, c} : Line(m)
    BY <1>1, <2>2, StaysLine DEF KeepsPlaces
  <2>4. Line(p)
    <3>1. /\ OnTerm(p) /\ OnTerm(p)' /\ ~Waits(p) /\ ~Waits(p)' /\ ForeOK(p)'
          /\ At(p)' \in ShellAt /\ At(p)' \notin {"ctty", "exec"}
      BY <1>1, <1>2, <2>1 DEF OnTerm, Waits, ForeOK, ShellAt
    <3>2. Fielded(p)
      BY <1>1, <2>2 DEF Fielded
    <3> QED BY <3>1, <3>2, SteadyLine
  <2>5. Line(c)
    <3>1. At(c) = "none"
      BY <1>1 DEF Spawns
    <3>2. ~OnTerm(c) /\ ~OnTerm(c)' /\ UnitOK(c)' /\ At(c)' # "jfront"
      BY <1>1, <2>1, <3>1 DEF OnTerm, UnitOK, ShellAt, JobAt
    <3> QED BY <1>2, <2>2, <3>2, OffLine
  <2> QED BY <1>1, <2>3, <2>4, <2>5, LinesChain
<1> QED BY <1>3, <1>4

\* A job's program is on the terminal only if it is a shell.
LEMMA JobExecChain ==
  ASSUME Typed, Slots, Plainly, Chain, NEW p \in TaskIds, JobExec(p) PROVE Chain'
<1>1. /\ KeepsPlaces({p}) /\ At(p) = "jexec" /\ Live(p)
      /\ At(p)' = IF pc[p].kind \in {"shell", "daemon"} THEN "sh" ELSE "prog"
  BY JobExecQuiet
<1>2. UNCHANGED <<tty, device>> /\ pc[p].kind \in Jobs /\ pc[p].kind # "daemon"
  BY <1>1, Entries DEF JobExec, PlaceOK, JobAt, At, Plainly
<1>3. /\ \A m \in TaskIds \ {p} : task'[m] = task[m]
      /\ Live(p)' /\ task'[p].ctl = task[p].ctl /\ task'[p].ctty = task[p].ctty
      /\ task'[p].sid = task[p].sid
      /\ pc[p].kind # "sub" => task'[p].fd = task[p].ctty
  <2>1. CASE pc[p].kind = "sub"
    <3>1. task' = task
      BY <2>1 DEF JobExec
    <3> QED BY <1>1, <2>1, <3>1 DEF Live
  <2>2. CASE pc[p].kind # "sub"
    <3>1. PICK i \in Images : Exec(p, i)
      BY <2>2 DEF JobExec
    <3>2. Execs(p, i)
      BY <1>1, <3>1, ExecExecs
    <3> QED BY <1>1, <3>2, Entries DEF Execs, Task, Live
  <2> QED BY <2>1, <2>2
<1>4. ~Leads(p) /\ ~Leads(p)'
  <2>1. ~Leads(p)
    BY <1>1, LeadAt DEF ShellAt
  <2> QED BY <1>1, <1>3, <2>1 DEF Leads
<1>5. \A m \in TaskIds \ {p} : Line(m)
  BY <1>1, <1>3, StaysLine DEF KeepsPlaces, Stays
<1>6. ~Waits(p) /\ ~Waits(p)' /\ ForeOK(p)' /\ At(p)' \notin {"ctty", "exec"}
  BY <1>1 DEF Waits, ForeOK
<1>7. CASE pc[p].kind = "shell"
  <2>1. At(p)' = "sh" /\ OnTerm(p)' /\ OnTerm(p)
    BY <1>1, <1>7 DEF OnTerm, ShellAt, JobAt, Fore
  <2>2. task[p].ctty = task[p].fd
    BY <2>1 DEF Chain, TermOK
  <2>3. Fielded(p)
    BY <1>1, <1>3, <1>7, <2>2 DEF Fielded
  <2>4. Line(p)
    BY <1>4, <1>6, <2>1, <2>3, SteadyLine
  <2> QED BY <1>2, <1>5, <2>4, LinesChain
<1>8. CASE pc[p].kind # "shell"
  <2>1. ~OnTerm(p)' /\ UnitOK(p)'
    BY <1>1, <1>2, <1>8 DEF OnTerm, UnitOK, ShellAt, JobAt
  <2>2. ~\E q \in TaskIds : p < q /\ OnSame(p, q)
    BY <1>6 DEF Chain, InLine
  <2>3. \A m \in TaskIds : OnTerm(m)' /\ tty[task[m].fd].active => tty'[task[m].fd].active
    BY <1>2
  <2> QED BY <1>2, <1>4, <1>5, <1>6, <2>1, <2>2, <2>3, LeaveChain
<1> QED BY <1>7, <1>8

\* wait4(): the shell is alone on its terminal when its job is gone.
LEMMA ReapChain ==
  ASSUME Typed, Grouped, Slots, Chain, NEW p \in TaskIds, NEW c \in TaskIds, Reap(p, c) PROVE Chain'
<1> USE Consts
<1>1. /\ task[c].st = "zombie" /\ task'[c].st = "done" /\ ~Live(c) /\ Live(p) /\ p # c
      /\ \A m \in TaskIds \ {c} : task'[m] = task[m]
      /\ UNCHANGED <<image, tty, device, level, press, used>>
      /\ \/ At(p) \in {"sh", "waitj"} /\ pc' = pc
         \/ /\ At(p) = "waitj" /\ At(p)' = "back" /\ Gone(p, c, pc[p].index)
            /\ KeepsPlaces({p})
         \/ At(p) = "wait" /\ At(p)' = "exit" /\ KeepsPlaces({p})
  BY ReapQuiet
<1>2. ASSUME NEW m \in TaskIds, pc'[m] = pc[m] PROVE Line(m)
  <2>1. CASE m = c
    <3>1. Live(m)' = Live(m)
      BY <1>1, <2>1 DEF Live
    <3> QED BY <1>1, <1>2, <2>1, <3>1, FieldsLine
  <2>2. CASE m # c
    BY <1>1, <1>2, <2>2, StaysLine DEF Stays
  <2> QED BY <2>1, <2>2
<1>3. CASE pc' = pc
  BY <1>1, <1>2, <1>3, LinesChain
<1>4. task'[p] = task[p] /\ Live(p)'
  BY <1>1 DEF Live
<1>5. CASE At(p) = "wait" /\ At(p)' = "exit" /\ KeepsPlaces({p})
  <2>1. ~OnTerm(p) /\ ~OnTerm(p)' /\ UnitOK(p)' /\ At(p)' # "jfront"
    BY <1>5 DEF OnTerm, UnitOK, ShellAt, JobAt
  <2>2. ~Leads(p)
    BY <1>5, LeadAt DEF ShellAt
  <2>3. ~Leads(p)'
    BY <1>1, <1>4, <2>2 DEF Leads
  <2>4. Line(p)
    BY <2>1, <2>2, <2>3, OffLine
  <2>5. \A m \in TaskIds : Line(m)
    BY <1>2, <1>5, <2>4 DEF KeepsPlaces
  <2> QED BY <1>1, <2>5, LinesChain
<1>6. CASE At(p) = "waitj" /\ At(p)' = "back" /\ Gone(p, c, pc[p].index) /\ KeepsPlaces({p})
  <2>1. ~\E q \in TaskIds : p < q /\ OnSame(p, q)
    <3>1. SUFFICES ASSUME NEW q \in TaskIds, p < q, OnSame(p, q) PROVE FALSE
      OBVIOUS
    <3>2. PICK k \in TaskIds : k = pc[p].child
      BY Entries, PlaceFields
    <3>3. OnTerm(k)
      BY <3>1, <3>2 DEF Chain, InLine, OnSame
    <3>4. Live(k)
      BY <3>3, Entries DEF OnTerm, ShellAt, JobAt
    <3>5. task[c].gid = k /\ k > p
      BY <1>6, <3>2 DEF Gone, Grouped, Indexed
    <3>6. k = c
      BY <1>1, <3>5 DEF Grouped, GroupOf, TaskIds
    <3> QED BY <1>1, <3>4, <3>6
  <2>2. /\ OnTerm(p) /\ At(p)' \in ShellAt /\ ForeOK(p)' /\ UnitOK(p)'
    BY <1>6 DEF OnTerm, ForeOK, UnitOK, ShellAt
  <2>3. Leads(p)' => Leads(p)
    BY <1>1 DEF Leads
  <2>4. Leads(p) => Leads(p)'
    BY <1>4 DEF Leads
  <2>5. \A m \in TaskIds \ {p} : Line(m)
    BY <1>2, <1>6 DEF KeepsPlaces
  <2>6. \A m \in TaskIds : OnTerm(m)' /\ tty[task[m].fd].active => tty'[task[m].fd].active
    BY <1>1
  <2> QED BY <1>1, <1>4, <2>1, <2>2, <2>3, <2>4, <2>5, <2>6, LeaveChain
<1> QED BY <1>1, <1>3, <1>5, <1>6

\* The terminal a shell leaves as the leader is nobody else's.
LEMMA LeaderAlone ==
  ASSUME Typed, Slots, Chain, NEW p \in TaskIds, Leads(p), At(p) \in {"sh", "exec"},
         NEW m \in TaskIds, m # p, OnTerm(m)
  PROVE  task[m].fd # task[p].ctty
<1> USE Consts
<1>1. SUFFICES ASSUME task[m].fd = task[p].ctty PROVE FALSE
  OBVIOUS
<1>2. PICK l \in TaskIds : Root(l, m)
  BY DEF Chain, TermOK
<1>3. l = p
  BY <1>1, <1>2 DEF Root, Slots, Apart
<1>4. At(p) = "sh" /\ p < m
  BY <1>2, <1>3 DEF Root, ShellAt, TaskIds
<1>5. OnTerm(p) /\ ~Waits(p)
  BY <1>4 DEF OnTerm, Waits, ShellAt
<1>6. OnSame(p, m)
  BY <1>1, <1>5 DEF Chain, TermOK, OnSame
<1> QED BY <1>4, <1>5, <1>6 DEF Chain, InLine

LEMMA ShellChain ==
  ASSUME Typed, Slots, Calm, Chain, NEW p \in TaskIds, Shell(p) PROVE Chain'
<1> USE Consts
<1>1. KeepsPlaces({p}) /\ At(p) = "exec" /\ Live(p)
  BY ShellQuiet
<1>2. PICK i \in Images : Exec(p, i) /\ pc' = [pc EXCEPT ![p] = [Away EXCEPT !.at = "sh"]]
  BY DEF Shell, Calm
<1>3. At(p)' = "sh" /\ UNCHANGED <<tty, device>>
  BY <1>2 DEF Shell, At, Typed, Away
<1>4. Execs(p, i)
  BY <1>1, <1>2, ExecExecs
<1>5. /\ \A m \in TaskIds \ {p} : task'[m] = task[m]
      /\ Live(p)' /\ task'[p].ctl = task[p].ctl /\ task'[p].ctty = task[p].ctty
      /\ task'[p].sid = task[p].sid /\ task'[p].fd = task[p].ctty
  BY <1>1, <1>4, Entries DEF Execs, Task, Live
<1>6. \A m \in TaskIds \ {p} : Line(m)
  BY <1>1, <1>5, StaysLine DEF KeepsPlaces, Stays
<1>7. Leads(p) /\ Leads(p)' /\ UnitOK(p)' /\ ForeOK(p)' /\ OnTerm(p)' /\ ~OnTerm(p)
  BY <1>1, <1>3, <1>5 DEF Chain, UnitOK, Leads, ForeOK, OnTerm, ShellAt, JobAt
<1>8. ASSUME NEW m \in TaskIds \ {p}, OnTerm(m)'
      PROVE  OnTerm(m) /\ task[m].fd # task[p].ctty /\ task'[m] = task[m]
  <2>1. OnTerm(m)
    BY <1>6, <1>8 DEF Line
  <2> QED BY <1>1, <1>5, <1>7, <2>1, LeaderAlone
<1>9. ASSUME NEW m \in TaskIds PROVE SidOK(m)' /\ UnitOK(m)' /\ ForeOK(m)'
  <2>1. CASE m = p
    BY <1>3, <1>5, <1>7, <2>1 DEF Chain, SidOK
  <2>2. CASE m # p
    BY <1>3, <1>6, <2>2 DEF Chain, SidOK, Line
  <2> QED BY <2>1, <2>2
<1>10. ASSUME NEW m \in TaskIds PROVE TermOK(m)'
  <2>1. CASE m = p
    <3>1. tty[task[p].ctty].active
      BY <1>7 DEF Slots, SlotOK, LeadOK
    <3>2. tty[task[p].ctty].sid = task[p].sid
      BY <1>7 DEF Chain, SidOK
    <3>3. Root(p, p)'
      BY <1>3, <1>5, <1>7 DEF Root, ShellAt, TaskIds
    <3> QED BY <1>3, <1>5, <2>1, <3>1, <3>2, <3>3 DEF TermOK
  <2>2. ASSUME m # p, OnTerm(m)' PROVE TermOK(m)'
    <3>1. TermOK(m) /\ OnTerm(m) /\ task'[m] = task[m] /\ task[m].fd # task[p].ctty
      BY <1>8, <2>2 DEF Chain
    <3>2. PICK l \in TaskIds : Root(l, m)
      BY <3>1 DEF TermOK
    <3>3. l # p
      BY <3>1, <3>2 DEF Root
    <3>4. Root(l, m)'
      BY <1>6, <3>1, <3>2, <3>3 DEF Root, Line
    <3> QED BY <1>3, <3>1, <3>4 DEF TermOK
  <2> QED BY <2>1, <2>2 DEF TermOK
<1>11. ASSUME NEW m \in TaskIds, NEW n \in TaskIds PROVE InLine(m, n)'
  <2> SUFFICES ASSUME OnSame(m, n)', m < n
               PROVE  (Waits(m) /\ OnSame(m, pc[m].child) /\ pc[m].child <= n)'
    BY DEF InLine
  <2>1. m # n
    BY DEF TaskIds
  <2>2. m # p /\ n # p
    BY <1>5, <1>8, <2>1 DEF OnSame
  <2>3. OnSame(m, n)
    BY <1>8, <2>2 DEF OnSame
  <2>4. PICK k \in TaskIds : k = pc[m].child
    BY Entries, PlaceFields
  <2>5. Waits(m) /\ OnSame(m, k) /\ k <= n
    BY <2>3, <2>4 DEF Chain, InLine
  <2>6. k # p
    BY <1>7, <2>5 DEF OnSame
  <2>7. Waits(m)' /\ pc'[m].child = k /\ OnSame(m, k)'
    BY <1>6, <2>2, <2>4, <2>5, <2>6 DEF Line, OnSame
  <2> QED BY <2>5, <2>7
<1> QED BY <1>9, <1>10, <1>11 DEF Chain

\* __exit() of a leader gives back the terminal that nobody else uses by then.
LEMMA ExitChain ==
  ASSUME Typed, Slots, Chain, NEW p \in TaskIds, Exit(p) PROVE Chain'
<1> USE Consts
<1>1. /\ Live(p) /\ At(p) \in {"sh", "prog", "exit"} /\ ~Live(p)' /\ At(p)' = "none"
      /\ \A m \in TaskIds \ {p} : pc'[m] = pc[m]
  BY ExitTyped
<1>2. ~OnTerm(p)' /\ ~Leads(p)' /\ ForeOK(p)' /\ UnitOK(p)'
  BY <1>1 DEF OnTerm, Leads, ForeOK, UnitOK, ShellAt, JobAt
<1>3. CASE sys_exit(p)
  <2>1. \A m \in TaskIds \ {p} : task'[m] = task[m]
    BY <1>3, ExitDies
  <2>2. \A m \in TaskIds \ {p} : Line(m)
    BY <1>1, <2>1, StaysLine DEF Stays
  <2>3. ~\E q \in TaskIds : p < q /\ OnSame(p, q)
    <3>1. ~Waits(p)
      BY <1>1 DEF Waits
    <3> QED BY <3>1 DEF Chain, InLine
  <2>4. ASSUME NEW m \in TaskIds, OnTerm(m)', Leads(p) PROVE task[m].fd # task[p].ctty
    <3>1. m # p /\ OnTerm(m)
      BY <1>2, <2>2, <2>4 DEF Line
    <3>2. At(p) \in {"sh", "exec"}
      BY <1>1, <2>4, LeadAt DEF ShellAt
    <3> QED BY <2>4, <3>1, <3>2, LeaderAlone
  <2>5. /\ \A j \in Terminals : tty'[j].sid = tty[j].sid
        /\ \A m \in TaskIds : OnTerm(m)' /\ tty[task[m].fd].active => tty'[task[m].fd].active
    <3>1. CASE Leads(p)
      <4>1. PICK i \in Terminals, d \in Devices : i = task[p].ctty /\ Attached(d, i) /\ Closes(d)
        BY <1>3, <3>1, LeaderCloses
      <4>2. \A j \in Terminals : /\ tty'[j].sid = tty[j].sid
                                 /\ tty'[j].active = (tty[j].active /\ j # i)
        <5>1. device[d].index = i
          BY <4>1 DEF Attached
        <5>2. /\ \A j \in Terminals : tty'[j].sid = tty[j].sid
              /\ \A j \in Terminals : tty'[j].active = (tty[j].active /\ j # device[d].index)
          BY <4>1, ClosesTyped
        <5> QED BY <5>1, <5>2
      <4>3. \A m \in TaskIds : task[m].fd \in Terminals
        BY Entries, PlaceFields
      <4> QED BY <2>4, <3>1, <4>1, <4>2, <4>3
    <3>2. CASE ~Leads(p)
      <4>1. tty' = tty
        BY <1>1, <1>3, <3>2 DEF sys_exit, Leads
      <4> QED BY <4>1
    <3> QED BY <3>1, <3>2
  <2> QED BY <1>2, <2>2, <2>3, <2>4, <2>5, LeaveChain
<1>4. CASE vfs_shmexit(p)
  <2>1. \A q \in TaskIds \ {p} : ~Live(q)
    BY <1>4, GoneTyped
  <2>2. \A m \in TaskIds : task'[m] = Free
    BY <1>4, GoneTyped
  <2>3. ASSUME NEW m \in TaskIds PROVE At(m)' = "none" /\ ~Live(m)'
    <3>1. m # p => At(m) = "none"
      BY <2>1, Entries
    <3> QED BY <1>1, <2>2, <3>1 DEF At, Live, Free
  <2>4. ASSUME NEW m \in TaskIds
        PROVE ~OnTerm(m)' /\ ~Leads(m)' /\ ForeOK(m)' /\ UnitOK(m)'
    BY <2>3 DEF OnTerm, Leads, ForeOK, UnitOK, ShellAt, JobAt
  <2> QED BY <2>4 DEF Chain, SidOK, TermOK, InLine, OnSame
<1> QED BY <1>3, <1>4 DEF Exit

\* vfs_TIOCSCTTY() of a terminal nobody uses yet.
LEMMA GettyChain ==
  ASSUME Typed, Slots, Chain, NEW p \in TaskIds, Getty(p) PROVE Chain'
<1> USE Consts
<1>1. /\ \A m \in TaskIds : SameTask(m) /\ task'[m].img = task[m].img /\ task'[m].fd = task[m].fd
      /\ KeepsPlaces({p}) /\ At(p) = "ctty" /\ At(p)' = "exec" /\ Live(p)
  BY GettyQuiet
<1>2. HasUnit(p) /\ ~Leads(p) /\ ~OnTerm(p) /\ ~OnTerm(p)'
  <2>1. HasUnit(p)
    BY <1>1 DEF Chain, UnitOK, HasUnit
  <2>2. ~Leads(p)
    BY <1>1, LeadAt DEF ShellAt
  <2> QED BY <1>1, <2>1, <2>2 DEF OnTerm, ShellAt, JobAt
<1>3. Attached(pc[p].unit, pc[p].index) /\ ~device[pc[p].unit].open
  BY <1>2 DEF Slots, SlotOK, OpenOK
<1>4. Controls(p, pc[p].unit, pc[p].index)
  BY <1>1, <1>2, <1>3 DEF Controls, Leads, HasUnit, Attached
<1>5. PICK d \in Devices, i \in Terminals :
        d = pc[p].unit /\ i = pc[p].index /\ Controlled(p, d, i)
  BY <1>4, GettyQuiet
<1>6. /\ tty'[i].active = tty[i].active /\ tty'[i].sid = task[p].sid
      /\ \A j \in Terminals \ {i} : tty'[j] = tty[j]
      /\ \A m \in TaskIds \ {p} : task'[m] = task[m]
      /\ tty[i].dev = d /\ ~device[d].open
  BY <1>3, <1>5, Entries DEF Controlled, Terminal, Attached
<1>7. task'[p].ctl = TRUE /\ task'[p].ctty = i /\ task'[p].sid = task[p].sid
  BY <1>5, Entries DEF Controlled, Task
<1>8. ASSUME NEW m \in TaskIds, Leads(m) PROVE task[m].ctty # i
  <2>1. device[tty[task[m].ctty].dev].open
    BY <1>8 DEF Slots, SlotOK, LeadOK
  <2> QED BY <1>6, <2>1
<1>9. ASSUME NEW m \in TaskIds, OnTerm(m) PROVE task[m].fd # i
  <2>1. PICK l \in TaskIds : Root(l, m)
    BY <1>9 DEF Chain, TermOK
  <2> QED BY <1>8, <2>1 DEF Root
<1>10. \A m \in TaskIds \ {p} : Line(m)
  BY <1>1, <1>6, StaysLine DEF KeepsPlaces, Stays
<1>11. UnitOK(p)' /\ ForeOK(p)'
  BY <1>1, <1>7 DEF UnitOK, ForeOK
<1>12. ASSUME NEW m \in TaskIds PROVE SidOK(m)' /\ UnitOK(m)' /\ ForeOK(m)'
  <2>1. CASE m = p
    BY <1>6, <1>7, <1>11, <2>1 DEF SidOK
  <2>2. CASE m # p
    <3>1. Leads(m)' => Leads(m) /\ task'[m] = task[m] /\ task[m].ctty # i
      BY <1>6, <1>8, <1>10, <2>2 DEF Line
    <3>2. task[m].ctty \in Terminals
      BY Entries, PlaceFields
    <3>3. SidOK(m)'
      BY <1>6, <3>1, <3>2 DEF SidOK, Chain
    <3> QED BY <1>10, <2>2, <3>3 DEF Line
  <2> QED BY <2>1, <2>2
<1>13. ASSUME NEW m \in TaskIds, OnTerm(m)'
       PROVE  /\ OnTerm(m) /\ m # p /\ task'[m] = task[m] /\ task[m].fd # i
              /\ tty'[task[m].fd] = tty[task[m].fd]
  <2>1. OnTerm(m) /\ m # p
    BY <1>2, <1>10, <1>13 DEF Line
  <2>2. task[m].fd \in Terminals
    BY Entries, PlaceFields
  <2> QED BY <1>6, <1>9, <2>1, <2>2
<1>14. ASSUME NEW m \in TaskIds PROVE TermOK(m)'
  <2> SUFFICES ASSUME OnTerm(m)' PROVE TermOK(m)'
    BY DEF TermOK
  <2>1. TermOK(m)
    BY DEF Chain
  <2>2. PICK l \in TaskIds : Root(l, m)
    BY <1>13, <2>1 DEF TermOK
  <2>3. l # p
    BY <1>2, <2>2 DEF Root
  <2>4. Root(l, m)'
    BY <1>10, <1>13, <2>2, <2>3 DEF Root, Line
  <2> QED BY <1>13, <2>1, <2>4 DEF TermOK
<1>15. ASSUME NEW m \in TaskIds, NEW n \in TaskIds PROVE InLine(m, n)'
  <2> SUFFICES ASSUME OnSame(m, n)', m < n
               PROVE  (Waits(m) /\ OnSame(m, pc[m].child) /\ pc[m].child <= n)'
    BY DEF InLine
  <2>1. OnSame(m, n) /\ m # p
    BY <1>13 DEF OnSame
  <2>2. PICK k \in TaskIds : k = pc[m].child
    BY Entries, PlaceFields
  <2>3. Waits(m) /\ OnSame(m, k) /\ k <= n
    BY <2>1, <2>2 DEF Chain, InLine
  <2>4. k # p
    BY <1>2, <2>3 DEF OnSame
  <2>5. Waits(m)' /\ pc'[m].child = k /\ OnSame(m, k)'
    BY <1>10, <2>1, <2>2, <2>3, <2>4 DEF Line, OnSame
  <2> QED BY <2>3, <2>5
<1> QED BY <1>12, <1>14, <1>15 DEF Chain

LEMMA ChainInit == Init => Chain
<1> SUFFICES ASSUME Init PROVE Chain
  OBVIOUS
<1>1. ASSUME NEW m \in TaskIds
      PROVE  ~OnTerm(m) /\ ~Leads(m) /\ ForeOK(m) /\ UnitOK(m)
  BY DEF Init, NoTask, Free, Away, At, Live, OnTerm, Leads, ForeOK, UnitOK, ShellAt, JobAt
<1> QED BY <1>1 DEF Chain, SidOK, TermOK, InLine, OnSame

LEMMA ChainStep ==
  ASSUME Calm, Plainly, Typed, Grouped, Slots, UnitLeft, Chain, [Next]_vars
  PROVE  Chain'
<1>1. CASE UNCHANGED vars
  <2>1. \A m \in TaskIds : Line(m)
    BY <1>1, StaysLine DEF vars, Stays
  <2> QED BY <1>1, <2>1, LinesChain DEF vars
<1>2. ASSUME NEW w \in Windows, Start(w) \/ CtrlC(w) PROVE Chain'
  BY <1>2, StartChain, CtrlCChain
<1>3. ASSUME NEW p \in TaskIds, Login(p) PROVE Chain'
  BY <1>3, BsdForkChain, OpeningChain, GettyChain, ShellChain DEF Login
<1>4. ASSUME NEW p \in TaskIds, Job(p) PROVE Chain'
  <2>1. ASSUME NEW kind \in Jobs, Fork(p, kind) PROVE Chain'
    BY <2>1, ForkChain
  <2>2. ASSUME NEW c \in TaskIds, Reap(p, c) PROVE Chain'
    BY <2>2, ReapChain
  <2> QED BY <1>4, <2>1, <2>2, SetpgidChain, FrontChain, JobExecChain, BackChain, ExitChain DEF Job
<1>5. ASSUME NEW i \in Images, ConControlHandler(i) PROVE Chain'
  BY <1>5, HandlerChain
<1> QED BY <1>1, <1>2, <1>3, <1>4, <1>5 DEF Next

LEMMA AlwaysChain ==
  ASSUME Calm, Plainly
  PROVE  Spec /\ []UnitLeft => [](Typed /\ Grouped /\ Slots /\ Chain)
<1>1. "pipe" \notin Jobs
  BY DEF Plainly
<1>2. Spec => [](Typed /\ Grouped)
  BY <1>1, AlwaysGrouped
<1>3. Spec => [](Typed /\ Slots)
  BY AlwaysSlots
<1>4. Typed /\ Grouped /\ Slots /\ UnitLeft /\ Chain /\ [Next]_vars => Chain'
  BY ChainStep
<1> QED BY <1>2, <1>3, <1>4, ChainInit, PTL DEF Spec

\* What OwnForeground says of a step.
OwnsTerm == \A p \in TaskIds : Front(p) \/ Back(p) =>
              /\ tty[task[p].fd].active
              /\ task[p].sid = tty[task[p].fd].sid

LEMMA ChainOwns == Typed /\ Chain => OwnsTerm
<1> SUFFICES ASSUME Typed, Chain, NEW p \in TaskIds, Front(p) \/ Back(p)
             PROVE  tty[task[p].fd].active /\ task[p].sid = tty[task[p].fd].sid
  BY DEF OwnsTerm
<1>1. At(p) \in {"front", "jfront", "back"}
  BY DEF Front, Back, At
<1>2. OnTerm(p)
  BY <1>1 DEF Chain, ForeOK, OnTerm, ShellAt, JobAt
<1> QED BY <1>2 DEF Chain, TermOK

\* tcsetpgrp() of a shell or a job changes the terminal of its own session, and
\* one that is in use: a shell's leader outlives the shells and jobs that use
\* its terminal, because each of them is waited for, and __exit() gives the
\* terminal back no earlier.  Jobs are of one process and no shell runs in the
\* background; every login finds a unit of /dev/ptm.
THEOREM ForegroundOfOwnSession ==
  ASSUME Calm, Plainly
  PROVE  Spec /\ []UnitLeft => OwnForeground
<1> DEFINE Body == \A p \in TaskIds : Front(p) \/ Back(p) =>
                      /\ tty[task[p].fd].active
                      /\ task[p].sid = tty[task[p].fd].sid
<1>1. Typed /\ Chain => [Body]_vars
  BY ChainOwns DEF OwnsTerm
<1>2. Spec /\ []UnitLeft => [](Typed /\ Grouped /\ Slots /\ Chain)
  BY AlwaysChain
<1> QED BY <1>1, <1>2, PTL DEF OwnForeground

-----------------------------------------------------------------------------
(* Ctrl-C: the task a Win32 process is started for *)

\* Programs on their way to another Win32 process.
Hasty == {"single", "level", "revoke", "setsid", "exec"} \cup Opens \cup JobAt

\* The first task of a Win32 process runs in it as long as any task does; it is
\* not one that is on its way out, and __CTTY is the terminal it knows.
MainOK(p) == Live(p) =>
  LET i == task[p].img
      m == image[i].main
  IN /\ Live(m) /\ task[m].img = i
     /\ At(p) \in Hasty => m # p
     /\ m = p => image[i].ctty = task[p].ctty
Seats == /\ \A p \in TaskIds : MainOK(p)
         /\ \A i \in press : Used(i)

\* m stays in its Win32 process, whose first task is the same.
Sits(m) == /\ Live(m)' /\ task'[m].img = task[m].img
           /\ image'[task[m].img].main = image[task[m].img].main
           /\ image'[task[m].img].ctty = image[task[m].img].ctty
Hastes(m) == /\ At(m)' \in Hasty => At(m) \in Hasty
             /\ task'[m].ctty = task[m].ctty \/ At(m) \in Hasty

LEMMA MainKept ==
  ASSUME Seats, NEW m \in TaskIds, Live(m), Sits(m), Hastes(m), NEW n \in TaskIds,
         n = image[task[m].img].main, Live(n)', task'[n].img = task[n].img
  PROVE  MainOK(m)'
<1>1. /\ Live(n) /\ task[n].img = task[m].img
      /\ At(m) \in Hasty => n # m
      /\ n = m => image[task[m].img].ctty = task[m].ctty
  BY DEF Seats, MainOK
<1>2. image'[task'[m].img].main = n /\ image'[task'[m].img].ctty = image[task[m].img].ctty
  BY DEF Sits
<1>3. /\ At(m)' \in Hasty => n # m
      /\ n = m => image'[task'[m].img].ctty = task'[m].ctty
  BY <1>1, <1>2 DEF Hastes
<1> QED BY <1>1, <1>2, <1>3 DEF MainOK, Sits

LEMMA MainTask ==
  ASSUME Typed, NEW m \in TaskIds, Live(m)
  PROVE  image[task[m].img].main \in TaskIds /\ task[m].img \in Images
<1>1. task[m].img \in Images
  BY Entries DEF Alive, Live
<1> QED BY <1>1, Entries, PlaceFields

\* Steps that start and end no task and no program.
LEMMA StaySeats ==
  ASSUME Typed, Seats, \A m \in TaskIds : Live(m)' = Live(m),
         \A m \in TaskIds : Live(m) => Sits(m) /\ Hastes(m),
         \A i \in press' : i \in press \/ Used(i)
  PROVE  Seats'
<1>1. ASSUME NEW m \in TaskIds PROVE MainOK(m)'
  <2> SUFFICES ASSUME Live(m)' PROVE MainOK(m)'
    BY DEF MainOK
  <2>1. Live(m)
    OBVIOUS
  <2>2. PICK n \in TaskIds : n = image[task[m].img].main
    BY <2>1, MainTask
  <2>3. Live(n)
    BY <2>1, <2>2 DEF Seats, MainOK
  <2>4. Live(n)' /\ task'[n].img = task[n].img
    BY <2>3 DEF Sits
  <2> QED BY <2>1, <2>2, <2>4, MainKept
<1>2. ASSUME NEW i \in press' PROVE Used(i)'
  <2>1. Used(i)
    BY <1>2 DEF Seats
  <2>2. PICK q \in TaskIds : Live(q) /\ task[q].img = i
    BY <2>1 DEF Used
  <2>3. Live(q)' /\ task'[q].img = i
    BY <2>2 DEF Sits
  <2> QED BY <2>3 DEF Used
<1> QED BY <1>1, <1>2 DEF Seats

\* ... and change what tasks run in not at all.
LEMMA QuietSeats ==
  ASSUME Typed, Seats, image' = image, press' \subseteq press,
         \A m \in TaskIds : /\ Live(m)' = Live(m)
                            /\ Live(m) => task'[m].img = task[m].img /\ Hastes(m)
  PROVE  Seats'
<1>1. \A m \in TaskIds : Live(m) => Sits(m)
  BY DEF Sits
<1> QED BY <1>1, StaySeats

LEMMA LoginSeats ==
  ASSUME Typed, Seats, NEW p \in TaskIds,
         \/ tty_init(p) \/ SetLevel(p) \/ sys_revoke(p) \/ vfs_setsid(p) \/ OpenConsole(p)
         \/ FindUnit(p) \/ FindTerm(p) \/ tty_attach(p)
  PROVE  Seats'
<1>1. image' = image /\ press' = press
  BY DEF tty_init, SetLevel, sys_revoke, vfs_setsid, OpenConsole, FindUnit, FindTerm, tty_attach
<1>2. At(p) \in Hasty /\ \A m \in TaskIds \ {p} : pc'[m] = pc[m]
  BY DEF tty_init, SetLevel, sys_revoke, vfs_setsid, OpenConsole, FindUnit, FindTerm, tty_attach,
         Hasty, Opens, At, Typed
<1>3. \A m \in TaskIds : task'[m] = task[m] \/ task'[m] = [task[m] EXCEPT !.gid = p, !.sid = p]
  BY DEF tty_init, SetLevel, sys_revoke, vfs_setsid, OpenConsole, FindUnit, FindTerm, tty_attach,
         Typed
<1>4. \A m \in TaskIds : /\ Live(m)' = Live(m) /\ task'[m].img = task[m].img
                         /\ task'[m].ctty = task[m].ctty
  BY <1>3, Entries DEF Task, Live
<1>5. \A m \in TaskIds : Hastes(m)
  BY <1>2, <1>4 DEF Hastes, At
<1> QED BY <1>1, <1>4, <1>5, QuietSeats

LEMMA GettySeats ==
  ASSUME Typed, Seats, NEW p \in TaskIds, Getty(p) PROVE Seats'
<1>1. /\ \A m \in TaskIds : SameTask(m) /\ task'[m].img = task[m].img
      /\ KeepsPlaces({p}) /\ At(p) = "ctty" /\ Live(p)
      /\ Controls(p, pc[p].unit, pc[p].index) =>
           pc[p].unit \in Devices /\ pc[p].index \in Terminals
           /\ Controlled(p, pc[p].unit, pc[p].index)
      /\ ~Controls(p, pc[p].unit, pc[p].index) => UNCHANGED <<task, image, tty, device>>
  BY GettyQuiet
<1>2. ASSUME NEW j \in Images PROVE image'[j].main = image[j].main /\ image'[j].ctty = image[j].ctty
  <2>1. CASE Controls(p, pc[p].unit, pc[p].index)
    <3>1. PICK d \in Devices : d = pc[p].unit
      BY <1>1, <2>1
    <3>2. image'[j] = image[j] \/ image'[j] = [image[j] EXCEPT !.has = @ \cup {d}]
      BY <1>1, <2>1, <3>1 DEF Controlled
    <3> QED BY <3>2, Entries DEF Image
  <2>2. CASE ~Controls(p, pc[p].unit, pc[p].index)
    BY <1>1, <2>2
  <2> QED BY <2>1, <2>2
<1>3. ASSUME NEW m \in TaskIds \ {p} PROVE task'[m] = task[m] /\ pc'[m] = pc[m]
  BY <1>1 DEF KeepsPlaces, Controlled
<1>4. At(p) \in Hasty
  BY <1>1 DEF Hasty, Opens
<1>5. ASSUME NEW m \in TaskIds, Live(m) PROVE Sits(m) /\ Hastes(m)
  <2>1. task[m].img \in Images /\ task'[m].img = task[m].img /\ Live(m)'
    BY <1>1, <1>5, MainTask DEF SameTask, Live
  <2> QED BY <1>2, <1>3, <1>4, <2>1 DEF Sits, Hastes, At
<1>6. press' = press /\ \A m \in TaskIds : Live(m)' = Live(m)
  BY <1>1 DEF Getty, SameTask, Live
<1> QED BY <1>5, <1>6, StaySeats

\* Steps of jobs and of Ctrl-C that leave tasks where they are.
LEMMA FrontSeats ==
  ASSUME Typed, Seats, NEW p \in TaskIds, Front(p) \/ Back(p) PROVE Seats'
<1>1. task' = task /\ KeepsPlaces({p}) /\ (At(p)' \in Hasty => At(p) \in Hasty)
  <2>1. CASE Front(p)
    BY <2>1, FrontQuiet DEF Hasty, Opens, JobAt
  <2>2. CASE Back(p)
    BY <2>2, BackQuiet DEF Hasty, Opens, JobAt
  <2> QED BY <2>1, <2>2
<1>2. image' = image /\ press' = press
  BY DEF Front, Back
<1>3. \A m \in TaskIds : Live(m)' = Live(m) /\ Hastes(m)
  BY <1>1 DEF Live, Hastes, KeepsPlaces, At
<1> QED BY <1>1, <1>2, <1>3, QuietSeats

LEMMA SetpgidSeats ==
  ASSUME Typed, Seats, NEW p \in TaskIds, sys_setpgid(p) PROVE Seats'
<1>1. /\ Live(p) /\ At(p) \in {"group", "jgroup"}
      /\ pc' = [pc EXCEPT ![p] = After(p)]
      /\ UNCHANGED <<image, tty, device, level, press, used>>
  BY SetpgidMoves
<1>2. PICK c \in TaskIds : /\ task'[c] = [task[c] EXCEPT !.gid = pc[p].index]
                           /\ \A m \in TaskIds \ {c} : task'[m] = task[m]
  BY SetpgidMoves
<1>3. /\ task'[c].st = task[c].st /\ task'[c].img = task[c].img /\ task'[c].ctty = task[c].ctty
  BY <1>2, Entries DEF Task
<1>4. \A m \in TaskIds : /\ Live(m)' = Live(m) /\ task'[m].img = task[m].img
                         /\ task'[m].ctty = task[m].ctty
  BY <1>2, <1>3 DEF Live
<1>5. pc'[p] = After(p) /\ pc[p] \in Place /\ \A m \in TaskIds \ {p} : pc'[m] = pc[m]
  BY <1>1, Entries DEF Typed
<1>6. At(p)' \in Hasty => At(p) \in Hasty
  <2>1. CASE At(p) = "jgroup"
    BY <2>1 DEF Hasty, JobAt
  <2>2. CASE At(p) = "group"
    <3>1. After(p) = IF Fore(pc[p].kind) THEN [pc[p] EXCEPT !.at = "front"] ELSE [Away EXCEPT !.at = "sh"]
      BY <2>2 DEF After
    <3>2. At(p)' \in {"front", "sh"}
      BY <1>5, <3>1 DEF At, Place, Away
    <3> QED BY <3>2 DEF Hasty, JobAt, Opens
  <2> QED BY <1>1, <2>1, <2>2
<1>7. \A m \in TaskIds : Hastes(m)
  BY <1>4, <1>5, <1>6 DEF Hastes, At
<1> QED BY <1>1, <1>4, <1>7, QuietSeats

LEMMA ReapSeats ==
  ASSUME Typed, Seats, NEW p \in TaskIds, NEW c \in TaskIds, Reap(p, c) PROVE Seats'
<1>1. /\ task'[c].st = "done" /\ ~Live(c)
      /\ \A m \in TaskIds \ {c} : task'[m] = task[m]
      /\ UNCHANGED <<image, tty, device, level, press, used>>
      /\ pc' = pc \/ (At(p)' \in {"back", "exit"} /\ KeepsPlaces({p}))
  BY ReapQuiet
<1>2. ASSUME NEW m \in TaskIds
      PROVE  Live(m)' = Live(m) /\ (Live(m) => task'[m] = task[m])
  BY <1>1 DEF Live
<1>3. ASSUME NEW m \in TaskIds, Live(m) PROVE Hastes(m)
  <2>1. At(m)' \in Hasty => At(m) \in Hasty
    BY <1>1 DEF KeepsPlaces, At, Hasty, JobAt, Opens
  <2> QED BY <1>2, <1>3, <2>1 DEF Hastes
<1> QED BY <1>1, <1>2, <1>3, QuietSeats

LEMMA CtrlSeats ==
  ASSUME Typed, Seats, (\E w \in Windows : CtrlC(w)) \/ (\E i \in Images : ConControlHandler(i))
  PROVE  Seats'
<1>1. UNCHANGED <<task, image>> /\ \A i \in press' : i \in press \/ Used(i)
  BY DEF CtrlC, ConControlHandler
<1>2. \A m \in TaskIds : At(m)' = At(m) \/ At(m)' = "exit"
  <2>1. ASSUME NEW i \in Images, ConControlHandler(i) PROVE \A m \in TaskIds : At(m)' = At(m) \/ At(m)' = "exit"
    BY <2>1, HandlerMoves DEF At, Typed, Away
  <2>2. ASSUME NEW w \in Windows, CtrlC(w) PROVE pc' = pc
    BY <2>2 DEF CtrlC
  <2> QED BY <2>1, <2>2 DEF At
<1>3. \A m \in TaskIds : Hastes(m)
  BY <1>1, <1>2 DEF Hastes, Hasty, JobAt, Opens
<1>4. \A m \in TaskIds : Live(m)' = Live(m) /\ (Live(m) => Sits(m))
  BY <1>1 DEF Live, Sits
<1> QED BY <1>1, <1>3, <1>4, StaySeats

LEMMA SpawnSeats ==
  ASSUME Typed, Seats, NEW p \in TaskIds, NEW c \in TaskIds, Live(p), Spawns(p, c),
         KeepsPlaces({p, c}), image' = image, press' = press, At(p)' \in {"wait", "group"}
  PROVE  Seats'
<1>1. /\ c # p /\ task'[p] = task[p] /\ ~Live(c) /\ Live(c)' /\ task'[c].img = task[p].img
      /\ \A m \in TaskIds \ {c} : Stays(m)
  BY SpawnViews, Spawned DEF Spawns, Copied
<1>2. ASSUME NEW m \in TaskIds \ {c}
      PROVE  Live(m)' = Live(m) /\ (Live(m) => task'[m] = task[m] /\ Sits(m) /\ Hastes(m))
  <2>1. Live(m)' = Live(m) /\ (Live(m) => task'[m] = task[m])
    BY <1>1 DEF Stays, Live, Free
  <2>2. At(m)' \in Hasty => At(m) \in Hasty
    BY DEF KeepsPlaces, At, Hasty, JobAt, Opens
  <2> QED BY <2>1, <2>2 DEF Sits, Hastes
<1>3. ASSUME NEW m \in TaskIds \ {c} PROVE MainOK(m)'
  <2> SUFFICES ASSUME Live(m)' PROVE MainOK(m)'
    BY DEF MainOK
  <2>1. Live(m) /\ Sits(m) /\ Hastes(m)
    BY <1>2
  <2>2. PICK n \in TaskIds : n = image[task[m].img].main
    BY <2>1, MainTask
  <2>3. Live(n)
    BY <2>1, <2>2 DEF Seats, MainOK
  <2>4. n # c
    BY <1>1, <2>3
  <2>5. Live(n)' /\ task'[n].img = task[n].img
    BY <1>2, <2>3, <2>4
  <2> QED BY <2>1, <2>2, <2>5, MainKept
<1>4. MainOK(c)'
  <2>1. PICK n \in TaskIds : n = image[task[p].img].main
    BY MainTask
  <2>2. Live(n) /\ task[n].img = task[p].img
    BY <2>1 DEF Seats, MainOK
  <2>3. n # c /\ Live(n)' /\ task'[n].img = task[n].img
    BY <1>1, <1>2, <2>2
  <2> QED BY <1>1, <2>1, <2>2, <2>3 DEF MainOK
<1>5. ASSUME NEW i \in press' PROVE Used(i)'
  <2>1. PICK q \in TaskIds : Live(q) /\ task[q].img = i
    BY <1>5 DEF Seats, Used
  <2>2. q # c /\ Live(q)' /\ task'[q].img = i
    BY <1>1, <1>2, <2>1
  <2> QED BY <2>2 DEF Used
<1> QED BY <1>3, <1>4, <1>5 DEF Seats

LEMMA ForkSeats ==
  ASSUME Typed, Seats, NEW p \in TaskIds, BsdFork(p) \/ \E kind \in Jobs : Fork(p, kind)
  PROVE  Seats'
<1>1. CASE BsdFork(p)
  <2>1. PICK c \in TaskIds :
             /\ Live(p) /\ Spawns(p, c) /\ At(p)' = "wait" /\ KeepsPlaces({p, c})
             /\ UNCHANGED <<image, press>>
    BY <1>1, BsdForkStep
  <2> QED BY <2>1, SpawnSeats
<1>2. ASSUME NEW kind \in Jobs, Fork(p, kind) PROVE Seats'
  <2>1. PICK c \in TaskIds :
             /\ Live(p) /\ Spawns(p, c) /\ At(p)' = "group" /\ KeepsPlaces({p, c})
             /\ UNCHANGED <<image, press>>
    BY <1>2, ForkStep
  <2> QED BY <2>1, SpawnSeats
<1> QED BY <1>1, <1>2

LEMMA StartSeats ==
  ASSUME Typed, Seats, NEW w \in Windows, Start(w) PROVE Seats'
<1>1. PICK n \in TaskIds, i \in Images :
           /\ task[n].st = "free" /\ ~Used(i)
           /\ \A m \in TaskIds \ {n} : Stays(m)
           /\ task'[n].st = "live" /\ task'[n].img = i /\ task'[n].ctty = 0
           /\ At(n)' = "bsd" /\ KeepsPlaces({n})
           /\ image'[i] = [main |-> n, ctty |-> 0, window |-> w, has |-> {}]
           /\ \A j \in Images \ {i} : image'[j] = image[j]
           /\ press' = press
  BY StartStep
<1>2. ~Live(n) /\ Live(n)'
  BY <1>1 DEF Live
<1>3. ASSUME NEW m \in TaskIds \ {n}
      PROVE  /\ Live(m)' = Live(m)
             /\ Live(m) => task'[m] = task[m] /\ task[m].img # i /\ Sits(m) /\ Hastes(m)
  <2>1. Live(m)' = Live(m) /\ (Live(m) => task'[m] = task[m])
    BY <1>1 DEF Stays, Live, Free
  <2>2. Live(m) => task[m].img # i /\ task[m].img \in Images
    BY <1>1, MainTask DEF Used
  <2>3. At(m)' = At(m)
    BY <1>1 DEF KeepsPlaces, At
  <2> QED BY <1>1, <2>1, <2>2, <2>3 DEF Sits, Hastes
<1>4. ASSUME NEW m \in TaskIds \ {n} PROVE MainOK(m)'
  <2> SUFFICES ASSUME Live(m)' PROVE MainOK(m)'
    BY DEF MainOK
  <2>1. Live(m) /\ Sits(m) /\ Hastes(m)
    BY <1>3
  <2>2. PICK k \in TaskIds : k = image[task[m].img].main
    BY <2>1, MainTask
  <2>3. Live(k)
    BY <2>1, <2>2 DEF Seats, MainOK
  <2>4. k # n /\ Live(k)' /\ task'[k].img = task[k].img
    BY <1>2, <1>3, <2>3
  <2> QED BY <2>1, <2>2, <2>4, MainKept
<1>5. MainOK(n)'
  <2>1. image'[i].main = n /\ image'[i].ctty = 0 /\ At(n)' \notin Hasty
    BY <1>1 DEF Hasty, JobAt, Opens
  <2> QED BY <1>1, <1>2, <2>1 DEF MainOK
<1>6. ASSUME NEW j \in press' PROVE Used(j)'
  <2>1. PICK q \in TaskIds : Live(q) /\ task[q].img = j
    BY <1>1, <1>6 DEF Seats, Used
  <2>2. q # n /\ Live(q)' /\ task'[q].img = j
    BY <1>2, <1>3, <2>1
  <2> QED BY <2>2 DEF Used
<1> QED BY <1>4, <1>5, <1>6 DEF Seats

\* A Win32 process that p leaves.
LEMMA LeavesPress ==
  ASSUME Seats, NEW p \in TaskIds, press' = Unpressed(p),
         \A m \in TaskIds \ {p} : Live(m) => Live(m)' /\ task'[m].img = task[m].img,
         NEW j \in press'
  PROVE  Used(j)'
<1>1. PICK q \in TaskIds : j \in press /\ Live(q) /\ task[q].img = j
  BY DEF Seats, Used, Unpressed
<1>2. CASE q # p
  BY <1>1, <1>2 DEF Used
<1>3. CASE q = p
  <2>1. ~Leaves(p)
    BY <1>1, <1>3 DEF Unpressed
  <2>2. PICK r \in TaskIds \ {p} : Live(r) /\ task[r].img = j
    BY <1>1, <1>3, <2>1 DEF Leaves
  <2> QED BY <2>2 DEF Used
<1> QED BY <1>2, <1>3

\* The first task of a Win32 process never leaves it for another one.
LEMMA ExecSeats ==
  ASSUME Typed, Seats, NEW p \in TaskIds, NEW i \in Images, Live(p), Exec(p, i), At(p) \in Hasty,
         At(p)' \notin Hasty, KeepsPlaces({p})
  PROVE  Seats'
<1>1. Execs(p, i) /\ press' = Unpressed(p)
  BY ExecExecs DEF Exec
<1>2. /\ i # task[p].img /\ ~Used(i)
      /\ \A m \in TaskIds \ {p} : task'[m] = task[m]
      /\ \A j \in Images \ {i} : Remains(p, j)
      /\ Live(p)' /\ task'[p].img = i /\ task'[p].ctty = task[p].ctty
      /\ image'[i].main = p /\ image'[i].ctty = task[p].ctty
  BY <1>1, Entries DEF Execs, Live, Task
<1>3. ASSUME NEW m \in TaskIds \ {p}, Live(m) PROVE Live(m)' /\ Sits(m) /\ Hastes(m)
  <2>1. task[m].img # i /\ task[m].img \in Images
    BY <1>2, <1>3, MainTask DEF Used
  <2>2. image'[task[m].img] = image[task[m].img]
    BY <1>2, <1>3, <2>1, RemainsView
  <2> QED BY <1>2, <1>3, <2>2 DEF Sits, Hastes, KeepsPlaces, At, Live
<1>4. ASSUME NEW m \in TaskIds \ {p} PROVE MainOK(m)'
  <2> SUFFICES ASSUME Live(m)' PROVE MainOK(m)'
    BY DEF MainOK
  <2>1. Live(m) /\ Sits(m) /\ Hastes(m)
    BY <1>2, <1>3 DEF Live
  <2>2. PICK k \in TaskIds : k = image[task[m].img].main
    BY <2>1, MainTask
  <2>3. Live(k) /\ task[k].img = task[m].img
    BY <2>1, <2>2 DEF Seats, MainOK
  <2>4. k # p
    BY <2>2, <2>3 DEF Seats, MainOK
  <2>5. Live(k)' /\ task'[k].img = task[k].img
    BY <1>2, <1>3, <2>3, <2>4
  <2> QED BY <2>1, <2>2, <2>5, MainKept
<1>5. MainOK(p)'
  BY <1>2 DEF MainOK
<1>6. ASSUME NEW j \in press' PROVE Used(j)'
  <2>1. \A m \in TaskIds \ {p} : Live(m) => Live(m)' /\ task'[m].img = task[m].img
    BY <1>2, <1>3
  <2> QED BY <1>1, <1>6, <2>1, LeavesPress
<1> QED BY <1>4, <1>5, <1>6 DEF Seats

LEMMA ShellSeats ==
  ASSUME Typed, Seats, NEW p \in TaskIds, Shell(p) PROVE Seats'
<1>1. KeepsPlaces({p}) /\ At(p) = "exec" /\ At(p)' \in {"sh", "exit"} /\ Live(p)
  BY ShellQuiet
<1>2. At(p) \in Hasty /\ At(p)' \notin Hasty
  BY <1>1 DEF Hasty, JobAt, Opens
<1>3. ASSUME NEW i \in Images, Exec(p, i) PROVE Seats'
  BY <1>1, <1>2, <1>3, ExecSeats
<1>4. CASE UNCHANGED <<task, image, press>>
  <2>1. \A m \in TaskIds : Live(m)' = Live(m) /\ task'[m] = task[m] /\ Hastes(m)
    BY <1>1, <1>2, <1>4 DEF Live, Hastes, KeepsPlaces, At
  <2> QED BY <1>4, <2>1, QuietSeats
<1> QED BY <1>3, <1>4 DEF Shell

LEMMA JobExecSeats ==
  ASSUME Typed, Seats, NEW p \in TaskIds, JobExec(p) PROVE Seats'
<1>1. KeepsPlaces({p}) /\ At(p) = "jexec" /\ At(p)' \in {"sh", "prog"} /\ Live(p)
  BY JobExecQuiet
<1>2. At(p) \in Hasty /\ At(p)' \notin Hasty
  BY <1>1 DEF Hasty, JobAt, Opens
<1>3. ASSUME NEW i \in Images, Exec(p, i) PROVE Seats'
  BY <1>1, <1>2, <1>3, ExecSeats
<1>4. CASE UNCHANGED <<task, image, press>>
  <2>1. \A m \in TaskIds : Live(m)' = Live(m) /\ task'[m] = task[m] /\ Hastes(m)
    BY <1>1, <1>2, <1>4 DEF Live, Hastes, KeepsPlaces, At
  <2> QED BY <1>4, <2>1, QuietSeats
<1> QED BY <1>3, <1>4 DEF JobExec

\* The first task of a Win32 process ends with it.
LEMMA ExitSeats ==
  ASSUME Typed, Seats, "left" \notin Scene, NEW p \in TaskIds, Exit(p) PROVE Seats'
<1>1. /\ Live(p) /\ ~Live(p)' /\ \A m \in TaskIds \ {p} : pc'[m] = pc[m]
      /\ \A j \in Images : Remains(p, j)
  BY ExitTyped
<1>2. Leaves(p) \/ image[task[p].img].main # p
  BY DEF Exit, sys_exit, vfs_shmexit, Ends
<1>3. press' = Unpressed(p)
  BY DEF Exit
<1>4. CASE vfs_shmexit(p)
  <2>1. \A q \in TaskIds \ {p} : ~Live(q)
    BY <1>4, GoneTyped
  <2>2. \A m \in TaskIds : ~Live(m)'
    BY <1>4, GoneTyped DEF Live, Free
  <2>3. \A m \in TaskIds : MainOK(m)'
    BY <2>2 DEF MainOK
  <2>4. \A m \in TaskIds \ {p} : Live(m) => Live(m)' /\ task'[m].img = task[m].img
    BY <2>1
  <2>5. \A j \in press' : Used(j)'
    BY <1>3, <2>4, LeavesPress
  <2> QED BY <2>3, <2>5 DEF Seats
<1>5. CASE sys_exit(p)
  <2>1. \A m \in TaskIds \ {p} : task'[m] = task[m]
    BY <1>5, ExitDies
  <2>2. ASSUME NEW m \in TaskIds \ {p}, Live(m) PROVE Live(m)' /\ Sits(m) /\ Hastes(m)
    <3>1. task[m].img \in Images
      BY <2>2, MainTask
    <3>2. image'[task[m].img] = image[task[m].img]
      BY <1>1, <2>2, <3>1, RemainsView
    <3> QED BY <1>1, <2>1, <2>2, <3>2 DEF Sits, Hastes, At, Live
  <2>3. ASSUME NEW m \in TaskIds PROVE MainOK(m)'
    <3> SUFFICES ASSUME Live(m)' PROVE MainOK(m)'
      BY DEF MainOK
    <3>1. m # p /\ Live(m) /\ Sits(m) /\ Hastes(m)
      BY <1>1, <2>1, <2>2 DEF Live
    <3>2. PICK k \in TaskIds : k = image[task[m].img].main
      BY <3>1, MainTask
    <3>3. Live(k) /\ task[k].img = task[m].img
      BY <3>1, <3>2 DEF Seats, MainOK
    <3>4. k # p
      BY <1>2, <3>1, <3>2, <3>3 DEF Leaves
    <3>5. Live(k)' /\ task'[k].img = task[k].img
      BY <2>1, <2>2, <3>3, <3>4
    <3> QED BY <3>1, <3>2, <3>5, MainKept
  <2>4. \A m \in TaskIds \ {p} : Live(m) => Live(m)' /\ task'[m].img = task[m].img
    BY <2>1, <2>2
  <2>5. \A j \in press' : Used(j)'
    BY <1>3, <2>4, LeavesPress
  <2> QED BY <2>3, <2>5 DEF Seats
<1> QED BY <1>4, <1>5 DEF Exit

LEMMA SeatsInit == Init => Seats
  BY DEF Init, Seats, MainOK, NoTask, Free, Live

LEMMA SeatsStep ==
  ASSUME "left" \notin Scene, Typed, Seats, [Next]_vars
  PROVE  Seats'
<1>1. CASE UNCHANGED vars
  BY <1>1 DEF vars, Seats, MainOK, Live, Used, At
<1>2. ASSUME NEW w \in Windows, Start(w) \/ CtrlC(w) PROVE Seats'
  BY <1>2, StartSeats, CtrlSeats
<1>3. ASSUME NEW p \in TaskIds, Login(p) PROVE Seats'
  BY <1>3, ForkSeats, LoginSeats, GettySeats, ShellSeats DEF Login
<1>4. ASSUME NEW p \in TaskIds, Job(p) PROVE Seats'
  <2>1. ASSUME NEW c \in TaskIds, Reap(p, c) PROVE Seats'
    BY <2>1, ReapSeats
  <2> QED BY <1>4, <2>1, ForkSeats, SetpgidSeats, FrontSeats, JobExecSeats, ExitSeats DEF Job
<1>5. ASSUME NEW i \in Images, ConControlHandler(i) PROVE Seats'
  BY <1>5, CtrlSeats
<1> QED BY <1>1, <1>2, <1>3, <1>4, <1>5 DEF Next

LEMMA AlwaysSeats ==
  ASSUME "left" \notin Scene
  PROVE  Spec => [](Typed /\ Seats)
<1>1. Typed /\ Seats /\ [Next]_vars => Seats'
  BY SeatsStep
<1> QED BY <1>1, AlwaysTyped, SeatsInit, PTL DEF Spec

-----------------------------------------------------------------------------
(* Ctrl-C: the foreground group *)

\* A task whose group is the foreground group of the terminal it knows is of
\* that terminal's session: numbers of groups and terminals are used again.
ZeroGroup == \A j \in Terminals : tty[j].gid = 0 => tty[j].sid = 0
Hits(m) == Live(m) /\ At(m) \notin Opens /\ tty[task[m].ctty].gid = task[m].gid
             => tty[task[m].ctty].sid = task[m].sid
\* The child of r is as it was forked, until it has a group.
Unsettled(c) == Live(c) /\ task[c].gid # c
Settles(r) == LET c == pc[r].child
              IN At(r) = "group" /\ Unsettled(c) => At(c) = "jgroup" /\ task[c].ctty = task[r].ctty
Aims == ZeroGroup /\ \A m \in TaskIds : Hits(m) /\ Settles(m)

SameFields(m) == /\ Live(m) /\ task'[m].gid = task[m].gid /\ task'[m].sid = task[m].sid
                 /\ task'[m].ctty = task[m].ctty

LEMMA HitsKept ==
  ASSUME NEW m \in TaskIds, Hits(m), Live(m)' => SameFields(m),
         Live(m)' /\ At(m) \in Opens => At(m)' \in Opens,
         tty'[task[m].ctty].gid = tty[task[m].ctty].gid,
         tty'[task[m].ctty].sid = tty[task[m].ctty].sid
  PROVE  Hits(m)'
<1> SUFFICES ASSUME Live(m)', At(m)' \notin Opens, tty'[task'[m].ctty].gid = task'[m].gid
             PROVE  tty'[task'[m].ctty].sid = task'[m].sid
  BY DEF Hits
<1> QED BY DEF Hits, SameFields

LEMMA SettlesKept ==
  ASSUME NEW r \in TaskIds, Settles(r),
         At(r)' = "group" => /\ At(r) = "group" /\ pc'[r].child = pc[r].child
                             /\ task'[r].ctty = task[r].ctty,
         NEW c \in TaskIds, c = pc[r].child,
         At(r) = "group" /\ Unsettled(c)' =>
           SameFields(c) /\ (At(c) = "jgroup" => At(c)' = "jgroup")
  PROVE  Settles(r)'
<1> SUFFICES ASSUME At(r)' = "group", Unsettled(c)'
             PROVE  At(c)' = "jgroup" /\ task'[c].ctty = task'[r].ctty
  BY DEF Settles
<1>1. Unsettled(c)
  BY DEF Unsettled, SameFields
<1> QED BY <1>1 DEF Settles, SameFields

\* Steps that change no group, no session and no terminal of a task.
LEMMA QuietAims ==
  ASSUME Typed, Aims, \A j \in Terminals : tty'[j].gid = tty[j].gid /\ tty'[j].sid = tty[j].sid,
         \A m \in TaskIds : Live(m)' => SameFields(m) /\ (At(m) \in Opens => At(m)' \in Opens),
         \A m \in TaskIds : Live(m)' /\ At(m) = "jgroup" => At(m)' = "jgroup",
         \A m \in TaskIds : At(m)' = "group" => At(m) = "group" /\ pc'[m].child = pc[m].child,
         Typed'
  PROVE  Aims'
<1>1. ASSUME NEW m \in TaskIds PROVE Hits(m)'
  <2>1. task[m].ctty \in Terminals
    BY Entries, PlaceFields
  <2> QED BY <2>1, HitsKept DEF Aims
<1>2. ASSUME NEW m \in TaskIds PROVE Settles(m)'
  <2>1. PICK c \in TaskIds : c = pc[m].child
    BY Entries, PlaceFields
  <2>2. At(m)' = "group" => Live(m)'
    BY Typed' DEF Typed, Alive, At, Live
  <2>3. At(m)' = "group" => task'[m].ctty = task[m].ctty
    BY <2>2 DEF SameFields
  <2>4. Unsettled(c)' => SameFields(c) /\ (At(c) = "jgroup" => At(c)' = "jgroup")
    BY DEF Unsettled
  <2> QED BY <2>1, <2>3, <2>4, SettlesKept DEF Aims
<1>3. ZeroGroup'
  BY DEF Aims, ZeroGroup
<1> QED BY <1>1, <1>2, <1>3 DEF Aims

\* Logins on their way, and the programs they and their jobs become.
LEMMA MoveAims ==
  ASSUME Typed, Typed', Aims, NEW p \in TaskIds, KeepsPlaces({p}), At(p) # "jgroup", At(p)' # "group",
         At(p) \in Opens => At(p)' \in Opens,
         \A j \in Terminals : tty'[j].gid = tty[j].gid /\ tty'[j].sid = tty[j].sid,
         \A m \in TaskIds : Live(m)' => SameFields(m)
  PROVE  Aims'
<1>1. ASSUME NEW m \in TaskIds
      PROVE  /\ Live(m)' => (At(m) \in Opens => At(m)' \in Opens)
             /\ Live(m)' /\ At(m) = "jgroup" => At(m)' = "jgroup"
             /\ At(m)' = "group" => At(m) = "group" /\ pc'[m].child = pc[m].child
  BY DEF KeepsPlaces, At
<1> QED BY <1>1, QuietAims

LEMMA AttachAims ==
  ASSUME Typed, NEW d \in Devices, NEW i \in Terminals, NEW r \in BOOLEAN, Attach(d, i, r)
  PROVE  \A j \in Terminals : tty'[j].gid = tty[j].gid /\ tty'[j].sid = tty[j].sid
<1>1. ASSUME NEW j \in Terminals PROVE tty'[j].gid = tty[j].gid /\ tty'[j].sid = tty[j].sid
  <2>1. CASE j = i
    BY <2>1, AttachTyped
  <2>2. CASE j # i
    BY <2>2, AttachTyped
  <2> QED BY <2>1, <2>2
<1> QED BY <1>1

LEMMA CloseAims ==
  ASSUME Typed, NEW d \in Devices, NEW i, char_revoke(d, i)
  PROVE  \A j \in Terminals : tty'[j].gid = tty[j].gid /\ tty'[j].sid = tty[j].sid
<1>1. CASE Closes(d)
  BY <1>1, ClosesTyped
<1>2. CASE UNCHANGED <<tty, device>>
  BY <1>2
<1> QED BY <1>1, <1>2, RevokeCloses

LEMMA OpeningAims ==
  ASSUME Typed, Typed', Slots, Aims, NEW p \in TaskIds,
         \/ tty_init(p) \/ SetLevel(p) \/ sys_revoke(p)
         \/ OpenConsole(p) \/ FindUnit(p) \/ FindTerm(p) \/ tty_attach(p)
  PROVE  Aims'
<1> USE Consts
<1>1. task' = task /\ KeepsPlaces({p}) /\ Live(p)
  BY LoginQuiet
<1>2. /\ At(p) # "jgroup" /\ At(p)' # "group" /\ (At(p) \in Opens => At(p)' \in Opens)
  <2>1. \/ At(p) \in {"single", "level", "revoke"} /\ At(p)' \in {"level", "revoke", "setsid"}
        \/ At(p) \in Opens /\ At(p)' \in Opens
    <3>1. pc[p] \in Place
      BY Entries
    <3>2. CASE tty_init(p)
      <4>1. pc'[p] = [pc[p] EXCEPT !.at = "level"] /\ At(p) = "single"
        BY <3>2 DEF tty_init, At, Typed
      <4> QED BY <3>1, <4>1 DEF At, Place
    <3>3. CASE SetLevel(p)
      <4>1. pc'[p] = [pc[p] EXCEPT !.at = "revoke"] /\ At(p) = "level"
        BY <3>3 DEF SetLevel, At, Typed
      <4> QED BY <3>1, <4>1 DEF At, Place
    <3>4. CASE sys_revoke(p)
      <4>1. pc'[p] = [pc[p] EXCEPT !.at = "setsid"] /\ At(p) = "revoke"
        BY <3>4 DEF sys_revoke, At, Typed
      <4> QED BY <3>1, <4>1 DEF At, Place
    <3>5. CASE OpenConsole(p)
      <4>1. Boots(p)
        BY <3>5 DEF OpenConsole, Boots, At, LoginAt, Before, Opens
      <4>2. device[Console].ready
        BY <4>1 DEF Slots, SlotOK, BootOK
      <4>3. /\ pc'[p] = [pc[p] EXCEPT !.at = "ctty", !.unit = Console, !.index = device[Console].index]
            /\ At(p) = "open"
        BY <3>5, <4>2 DEF OpenConsole, Typed, At
      <4> QED BY <3>1, <4>3 DEF At, Place, Opens
    <3>6. CASE FindUnit(p)
      BY <3>1, <3>6 DEF FindUnit, At, Typed, Place, Opens
    <3>7. CASE FindTerm(p)
      BY <3>1, <3>7 DEF FindTerm, At, Typed, Place, Opens
    <3>8. CASE tty_attach(p)
      BY <3>1, <3>8 DEF tty_attach, At, Typed, Place, Opens
    <3> QED BY <3>2, <3>3, <3>4, <3>5, <3>6, <3>7, <3>8
  <2> QED BY <2>1 DEF Opens
<1>3. \A m \in TaskIds : Live(m)' => SameFields(m)
  BY <1>1 DEF SameFields, Live
<1>4. \A j \in Terminals : tty'[j].gid = tty[j].gid /\ tty'[j].sid = tty[j].sid
  <2>1. CASE UNCHANGED tty
    BY <2>1
  <2>2. ASSUME NEW i \in Terminals, Attach(Console, i, device[Console].ready)
        PROVE  \A j \in Terminals : tty'[j].gid = tty[j].gid /\ tty'[j].sid = tty[j].sid
    <3>1. PICK r \in BOOLEAN : r = device[Console].ready
      BY Entries, PlaceFields
    <3>2. Attach(Console, i, r)
      BY <2>2, <3>1
    <3> QED BY <3>2, AttachAims
  <2>3. CASE sys_revoke(p)
    BY <2>1, <2>3, CloseAims DEF sys_revoke
  <2>4. CASE tty_attach(p)
    <3>1. At(p) = "slot"
      BY <2>4 DEF tty_attach, At
    <3>2. PICK d \in Devices, i \in Terminals : d = pc[p].unit /\ i = pc[p].index
      BY <3>1, Entries DEF PlaceOK, Opens, At
    <3>3. PICK r \in BOOLEAN : r = TRUE
      OBVIOUS
    <3>4. Attach(d, i, r)
      BY <2>4, <3>2, <3>3 DEF tty_attach
    <3> QED BY <3>4, AttachAims
  <2> QED BY <2>1, <2>2, <2>3, <2>4 DEF tty_init, SetLevel, OpenConsole, FindUnit, FindTerm
<1> QED BY <1>1, <1>2, <1>3, <1>4, MoveAims

LEMMA ExecAims ==
  ASSUME Typed, Typed', Aims, NEW p \in TaskIds, Shell(p) \/ JobExec(p) PROVE Aims'
<1>1. KeepsPlaces({p}) /\ At(p) \in {"exec", "jexec"} /\ At(p)' \in {"sh", "prog", "exit"} /\ Live(p)
  <2>1. CASE Shell(p)
    BY <2>1, ShellQuiet
  <2>2. CASE JobExec(p)
    BY <2>2, JobExecQuiet
  <2> QED BY <2>1, <2>2
<1>2. tty' = tty
  BY DEF Shell, JobExec
<1>3. ASSUME NEW i \in Images, Exec(p, i) PROVE \A m \in TaskIds : Live(m)' => SameFields(m)
  <2>1. Execs(p, i)
    BY <1>1, <1>3, ExecExecs
  <2>2. task'[p] = [task[p] EXCEPT !.img = i, !.fd = task[p].ctty] /\ task[p] \in Task
    BY <2>1, Entries DEF Execs
  <2>3. task'[p].gid = task[p].gid /\ task'[p].sid = task[p].sid /\ task'[p].ctty = task[p].ctty
    BY <2>2 DEF Task
  <2>4. \A m \in TaskIds \ {p} : task'[m] = task[m]
    BY <2>1 DEF Execs
  <2> QED BY <1>1, <2>3, <2>4 DEF SameFields, Live
<1>4. CASE UNCHANGED <<task, image, press>>
  <2>1. \A m \in TaskIds : Live(m)' => SameFields(m)
    BY <1>4 DEF SameFields, Live
  <2> QED BY <1>1, <1>2, <2>1, MoveAims DEF Opens
<1>5. ASSUME \A m \in TaskIds : Live(m)' => SameFields(m) PROVE Aims'
  BY <1>1, <1>2, <1>5, MoveAims DEF Opens
<1> QED BY <1>3, <1>4, <1>5 DEF Shell, JobExec

LEMMA ReapAims ==
  ASSUME Typed, Typed', Aims, NEW p \in TaskIds, NEW c \in TaskIds, Reap(p, c) PROVE Aims'
<1>1. /\ task'[c].st = "done" /\ ~Live(c) /\ Live(p) /\ p # c
      /\ \A m \in TaskIds \ {c} : task'[m] = task[m]
      /\ UNCHANGED <<image, tty, device, level, press, used>>
      /\ \/ At(p) \in {"sh", "waitj"} /\ pc' = pc
         \/ At(p) = "waitj" /\ At(p)' = "back" /\ KeepsPlaces({p})
         \/ At(p) = "wait" /\ At(p)' = "exit" /\ KeepsPlaces({p})
  BY ReapQuiet
<1>2. \A m \in TaskIds : Live(m)' => SameFields(m)
  BY <1>1 DEF Live, SameFields
<1>3. CASE pc' = pc
  BY <1>1, <1>2, <1>3, QuietAims DEF At
<1>4. CASE At(p) \in {"waitj", "wait"} /\ At(p)' \in {"back", "exit"} /\ KeepsPlaces({p})
  BY <1>1, <1>2, <1>4, MoveAims DEF Opens
<1> QED BY <1>1, <1>3, <1>4

LEMMA ExitAims ==
  ASSUME Typed, Typed', Aims, NEW p \in TaskIds, Exit(p) PROVE Aims'
<1>1. /\ Live(p) /\ At(p) \in {"sh", "prog", "exit"} /\ ~Live(p)' /\ At(p)' = "none"
      /\ \A m \in TaskIds \ {p} : pc'[m] = pc[m]
  BY ExitTyped
<1>2. CASE sys_exit(p)
  <2>1. \A m \in TaskIds \ {p} : task'[m] = task[m]
    BY <1>2, ExitDies
  <2>2. \A m \in TaskIds : Live(m)' => SameFields(m)
    BY <1>1, <2>1 DEF Live, SameFields
  <2>3. \A j \in Terminals : tty'[j].gid = tty[j].gid /\ tty'[j].sid = tty[j].sid
    <3>1. image[task[p].img].ctty \in Terminals
      BY <1>1, MainTask, Entries, PlaceFields
    <3>2. PICK d \in Devices : d = tty[image[task[p].img].ctty].dev
      BY <3>1, Entries, PlaceFields
    <3>3. tty' = tty \/ char_revoke(d, task[p].img)
      BY <1>2, <3>2 DEF sys_exit
    <3> QED BY <3>3, CloseAims
  <2> QED BY <1>1, <2>2, <2>3, MoveAims DEF KeepsPlaces, Opens
<1>3. CASE vfs_shmexit(p)
  <2>1. \A q \in TaskIds \ {p} : ~Live(q)
    BY <1>3, GoneTyped
  <2>2. ASSUME NEW m \in TaskIds PROVE ~Live(m)' /\ At(m)' = "none"
    <3>1. m # p => At(m) = "none"
      BY <2>1, Entries
    <3>2. task'[m] = Free
      BY <1>3, GoneTyped
    <3> QED BY <1>1, <3>1, <3>2 DEF At, Live, Free
  <2>3. ASSUME NEW m \in TaskIds PROVE Hits(m)' /\ Settles(m)'
    BY <2>2 DEF Hits, Settles
  <2>4. ZeroGroup'
    BY <1>3 DEF vfs_shmexit, ZeroGroup, NoTty
  <2> QED BY <2>3, <2>4 DEF Aims
<1> QED BY <1>2, <1>3 DEF Exit

LEMMA CtrlAims ==
  ASSUME Typed, Typed', Aims, (\E w \in Windows : CtrlC(w)) \/ (\E i \in Images : ConControlHandler(i))
  PROVE  Aims'
<1>1. UNCHANGED <<task, tty>>
  BY DEF CtrlC, ConControlHandler
<1>2. \A m \in TaskIds : Live(m)' => SameFields(m)
  BY <1>1 DEF Live, SameFields
<1>3. CASE pc' = pc
  BY <1>1, <1>2, <1>3, QuietAims DEF At
<1>4. ASSUME NEW m \in TaskIds, At(m) \in {"bsd", "wait", "prog"},
             pc' = [pc EXCEPT ![m] = [Away EXCEPT !.at = "exit"]]
      PROVE  Aims'
  <2>1. At(m)' = "exit" /\ KeepsPlaces({m})
    BY <1>4 DEF At, Typed, Away, KeepsPlaces
  <2> QED BY <1>1, <1>2, <1>4, <2>1, MoveAims DEF Opens
<1>5. (\E w \in Windows : CtrlC(w)) => pc' = pc
  BY DEF CtrlC
<1> QED BY <1>3, <1>4, <1>5, HandlerMoves

\* What the other tasks do not lose in a step of p.
LEMMA OtherSettles ==
  ASSUME Typed, Typed', Aims, NEW p \in TaskIds, KeepsPlaces({p}), At(p) # "jgroup",
         NEW r \in TaskIds \ {p}, At(r) = "group" => task'[r].ctty = task[r].ctty,
         \A c \in TaskIds : c = pc[r].child /\ At(r) = "group" /\ Unsettled(c)' => SameFields(c)
  PROVE  Settles(r)'
<1>1. PICK c \in TaskIds : c = pc[r].child
  BY Entries, PlaceFields
<1>2. At(r)' = At(r) /\ pc'[r] = pc[r]
  BY DEF KeepsPlaces, At
<1>3. At(c) = "jgroup" => At(c)' = "jgroup"
  BY DEF KeepsPlaces, At
<1> QED BY <1>1, <1>2, <1>3, SettlesKept DEF Aims

LEMMA SetsidAims ==
  ASSUME Typed, Typed', Grouped, Aims, NEW p \in TaskIds, vfs_setsid(p) PROVE Aims'
<1>1. /\ At(p) = "setsid" /\ At(p)' = "open" /\ Live(p) /\ KeepsPlaces({p})
      /\ tty' = tty /\ \A m \in TaskIds \ {p} : task'[m] = task[m]
  BY Entries DEF vfs_setsid, At, Typed, Place, KeepsPlaces
<1>2. ASSUME NEW m \in TaskIds PROVE Hits(m)'
  <2>1. CASE m = p
    BY <1>1, <2>1 DEF Hits, Opens
  <2>2. CASE m # p
    <3>1. (Live(m)' => SameFields(m)) /\ At(m)' = At(m)
      BY <1>1, <2>2 DEF SameFields, Live, KeepsPlaces, At
    <3> QED BY <1>1, <3>1, HitsKept DEF Aims
  <2> QED BY <2>1, <2>2
<1>3. ASSUME NEW r \in TaskIds PROVE Settles(r)'
  <2>1. CASE r = p
    BY <1>1, <2>1 DEF Settles
  <2>2. CASE r # p
    <3>1. ASSUME NEW c \in TaskIds, c = pc[r].child, At(r) = "group", Unsettled(c)'
          PROVE  SameFields(c)
      <4>1. c # p
        BY <1>1, <3>1 DEF Grouped, ChildOf, Forking, Before
      <4> QED BY <1>1, <3>1, <4>1 DEF SameFields, Unsettled, Live
    <3> QED BY <1>1, <2>2, <3>1, OtherSettles
  <2> QED BY <2>1, <2>2
<1>4. ZeroGroup'
  BY <1>1 DEF Aims, ZeroGroup
<1> QED BY <1>2, <1>3, <1>4 DEF Aims

\* vfs_TIOCSCTTY() makes the group of the session's leader the foreground group.
LEMMA GettyAims ==
  ASSUME Typed, Typed', Grouped, Slots, Chain, Aims, NEW p \in TaskIds, Getty(p) PROVE Aims'
<1>1. /\ \A m \in TaskIds : SameTask(m)
      /\ KeepsPlaces({p}) /\ At(p) = "ctty" /\ At(p)' = "exec" /\ Live(p)
  BY GettyQuiet
<1>2. HasUnit(p) /\ ~Leads(p)
  BY <1>1, LeadAt DEF Chain, UnitOK, HasUnit, ShellAt
<1>3. Attached(pc[p].unit, pc[p].index)
  BY <1>2 DEF Slots, SlotOK, OpenOK
<1>4. Controls(p, pc[p].unit, pc[p].index)
  BY <1>1, <1>2, <1>3 DEF Controls, Leads, HasUnit, Attached
<1>5. PICK d \in Devices, i \in Terminals : Controlled(p, d, i)
  BY <1>4, GettyQuiet
<1>6. /\ tty'[i] = [tty[i] EXCEPT !.sid = task[p].sid, !.gid = task[p].gid]
      /\ \A j \in Terminals \ {i} : tty'[j] = tty[j]
      /\ \A m \in TaskIds \ {p} : task'[m] = task[m]
      /\ task'[p] = [task[p] EXCEPT !.ctl = TRUE, !.ctty = i]
  BY <1>5 DEF Controlled
<1>7. tty'[i].sid = task[p].sid /\ tty'[i].gid = task[p].gid
  BY <1>6, Entries DEF Terminal
<1>8. task'[p].ctty = i /\ task'[p].sid = task[p].sid /\ task'[p].gid = task[p].gid
  BY <1>6, Entries DEF Task
<1>9. GroupsApart
  BY GroupedApart
<1>10. ASSUME NEW m \in TaskIds PROVE Hits(m)'
  <2>1. CASE m = p
    BY <1>7, <1>8, <2>1 DEF Hits
  <2>2. CASE m # p /\ task[m].ctty # i
    <3>1. (Live(m)' => SameFields(m)) /\ At(m)' = At(m)
      BY <1>1, <1>6, <2>2 DEF SameFields, Live, KeepsPlaces, At
    <3>2. task[m].ctty \in Terminals
      BY Entries, PlaceFields
    <3> QED BY <1>6, <2>2, <3>1, <3>2, HitsKept DEF Aims
  <2>3. CASE m # p /\ task[m].ctty = i
    <3> SUFFICES ASSUME Live(m)', tty'[task'[m].ctty].gid = task'[m].gid
                 PROVE  tty'[task'[m].ctty].sid = task'[m].sid
      BY DEF Hits
    <3>1. Live(m) /\ task'[m] = task[m]
      BY <1>6, <2>3 DEF Live
    <3>2. task[m].gid = task[p].gid
      BY <1>7, <2>3, <3>1
    <3>3. task[m].sid = task[p].sid
      BY <1>1, <1>9, <3>1, <3>2 DEF GroupsApart
    <3> QED BY <1>7, <2>3, <3>1, <3>3
  <2> QED BY <2>1, <2>2, <2>3
<1>11. ASSUME NEW r \in TaskIds PROVE Settles(r)'
  <2>1. CASE r = p
    BY <1>1, <2>1 DEF Settles
  <2>2. CASE r # p
    <3>1. ASSUME NEW c \in TaskIds, c = pc[r].child, At(r) = "group", Unsettled(c)'
          PROVE  SameFields(c)
      <4>1. c # p
        BY <1>1, <3>1 DEF Grouped, ChildOf, Forking, Opens
      <4> QED BY <1>6, <3>1, <4>1 DEF SameFields, Unsettled, Live
    <3> QED BY <1>1, <1>6, <2>2, <3>1, OtherSettles
  <2> QED BY <2>1, <2>2
<1>12. ASSUME NEW j \in Terminals, tty'[j].gid = 0 PROVE tty'[j].sid = 0
  <2>1. CASE j = i
    BY <1>1, <1>7, <1>12, <2>1 DEF Grouped, GroupOf
  <2>2. CASE j # i
    BY <1>6, <1>12, <2>2 DEF Aims, ZeroGroup
  <2> QED BY <2>1, <2>2
<1> QED BY <1>10, <1>11, <1>12 DEF Aims, ZeroGroup

\* A group that is not 0 is its leader's, who lives and is of the same session.
LEMMA GroupOwner ==
  ASSUME Typed, Grouped, NEW m \in TaskIds, Live(m), NEW g \in TaskIds, task[m].gid = g, g # 0
  PROVE  Live(g) /\ task[g].sid = task[m].sid
<1>1. GroupOf(m) /\ At(m) \in Places /\ At(m) # "none"
  BY Entries, PlaceFields DEF Grouped, At
<1>2. CASE g = m
  BY <1>2
<1>3. CASE g # m
  <2>1. Inherits(m)
    BY <1>1, <1>3 DEF GroupOf, OwnAt, Places, JobAt
  <2>2. PICK r \in TaskIds : At(r) = "group" /\ pc[r].child = m /\ task[m].gid = task[r].gid
    BY <2>1 DEF Inherits
  <2>3. task[r].gid = r /\ Live(r)
    BY <2>2, Entries DEF Grouped, GroupOf, OwnAt, ShellAt
  <2>4. ChildOf(r) /\ At(r) \in Forking
    BY <2>2 DEF Grouped, Forking
  <2>5. task[m].sid = task[r].sid
    BY <2>2, <2>4 DEF ChildOf
  <2> QED BY <2>2, <2>3, <2>5
<1> QED BY <1>2, <1>3

\* vfs_TIOCSPGRP() of p's terminal, whose session is p's.
LEMMA GroupAims ==
  ASSUME Typed, Typed', Chain, Aims, NEW p \in TaskIds, NEW g \in TaskIds, TIOCSPGRP(p, g),
         task' = task, KeepsPlaces({p}), Live(p), OnTerm(p), At(p) \notin {"group", "jgroup"},
         At(p)' # "group",
         \A m \in TaskIds : Live(m) /\ task[m].gid = g => task[m].sid = task[p].sid,
         g = 0 => task[p].sid = 0
  PROVE  Aims'
<1>1. PICK i \in Terminals : i = task[p].fd
  BY Entries, PlaceFields
<1>2. tty'[i] = [tty[i] EXCEPT !.gid = g] /\ \A j \in Terminals \ {i} : tty'[j] = tty[j]
  BY <1>1, GroupTyped
<1>3. tty'[i].gid = g /\ tty'[i].sid = tty[i].sid
  BY <1>2, Entries DEF Terminal
<1>4. tty[i].sid = task[p].sid
  BY <1>1 DEF Chain, TermOK
<1>5. At(p) \notin Opens
  BY DEF OnTerm, ShellAt, JobAt, Opens
<1>6. ASSUME NEW m \in TaskIds PROVE Hits(m)'
  <2>1. (Live(m)' => SameFields(m)) /\ (At(m) \in Opens => At(m)' \in Opens)
    BY <1>5 DEF SameFields, Live, KeepsPlaces, At
  <2>2. task[m].ctty \in Terminals
    BY Entries, PlaceFields
  <2>3. CASE task[m].ctty # i
    BY <1>2, <2>1, <2>2, <2>3, HitsKept DEF Aims
  <2>4. CASE task[m].ctty = i
    <3> SUFFICES ASSUME Live(m)', tty'[task'[m].ctty].gid = task'[m].gid
                 PROVE  tty'[task'[m].ctty].sid = task'[m].sid
      BY DEF Hits
    <3>1. Live(m) /\ task[m].gid = g
      BY <1>3, <2>1, <2>4 DEF SameFields
    <3> QED BY <1>3, <1>4, <2>4, <3>1
  <2> QED BY <2>3, <2>4
<1>7. ASSUME NEW r \in TaskIds PROVE Settles(r)'
  <2>1. CASE r = p
    BY <2>1 DEF Settles
  <2>2. CASE r # p
    <3>1. \A c \in TaskIds : Unsettled(c)' => SameFields(c)
      BY DEF SameFields, Unsettled, Live
    <3> QED BY <2>2, <3>1, OtherSettles
  <2> QED BY <2>1, <2>2
<1>8. ASSUME NEW j \in Terminals, tty'[j].gid = 0 PROVE tty'[j].sid = 0
  <2>1. CASE j = i
    BY <1>3, <1>4, <1>8, <2>1
  <2>2. CASE j # i
    BY <1>2, <1>8, <2>2 DEF Aims, ZeroGroup
  <2> QED BY <2>1, <2>2
<1> QED BY <1>6, <1>7, <1>8 DEF Aims, ZeroGroup

LEMMA FrontAims ==
  ASSUME Typed, Typed', Grouped, Chain, Aims, NEW p \in TaskIds, Front(p) PROVE Aims'
<1> USE Consts
<1>1. /\ task' = task /\ KeepsPlaces({p}) /\ At(p) \in {"front", "jfront"} /\ Live(p)
      /\ At(p)' \in {"jexec", "more", "waitj"}
  BY FrontQuiet
<1>2. PICK g \in TaskIds : g = pc[p].index
  BY <1>1, Entries DEF PlaceOK, JobAt, At
<1>3. TIOCSPGRP(p, g)
  BY <1>2 DEF Front
<1>4. OnTerm(p)
  BY <1>1 DEF Chain, ForeOK, OnTerm, ShellAt, JobAt
<1>5. CASE At(p) = "front"
  <2>1. /\ pc[p].child = g /\ g > p /\ (Live(g) => task[g].sid = task[p].sid)
    BY <1>2, <1>5 DEF Grouped, ChildOf, Forking
  <2>2. g # 0
    BY <2>1 DEF TaskIds
  <2>3. \A m \in TaskIds : Live(m) /\ task[m].gid = g => task[m].sid = task[p].sid
    BY <2>1, <2>2, GroupOwner
  <2> QED BY <1>1, <1>3, <1>4, <1>5, <2>2, <2>3, GroupAims
<1>6. CASE At(p) = "jfront"
  <2>1. g = p /\ task[p].gid = p
    BY <1>2, <1>6 DEF Grouped, Indexed, GroupOf, OwnAt
  <2>2. g = 0 => task[p].sid = 0
    BY <1>1, <2>1 DEF Grouped, GroupOf
  <2>3. \A m \in TaskIds : Live(m) /\ task[m].gid = g => task[m].sid = task[p].sid
    BY <1>1, <2>1, GroupedApart DEF GroupsApart
  <2> QED BY <1>1, <1>3, <1>4, <1>6, <2>2, <2>3, GroupAims
<1> QED BY <1>1, <1>5, <1>6

LEMMA BackAims ==
  ASSUME Typed, Typed', Grouped, Chain, Aims, NEW p \in TaskIds, Back(p) PROVE Aims'
<1>1. task' = task /\ KeepsPlaces({p}) /\ At(p) = "back" /\ At(p)' = "sh" /\ Live(p)
  BY BackQuiet
<1>2. PICK g \in TaskIds : g = task[p].gid
  BY Entries, PlaceFields
<1>3. TIOCSPGRP(p, g)
  BY <1>2 DEF Back
<1>4. OnTerm(p)
  BY <1>1 DEF OnTerm, ShellAt
<1>5. g = 0 => task[p].sid = 0
  BY <1>1, <1>2 DEF Grouped, GroupOf
<1>6. \A m \in TaskIds : Live(m) /\ task[m].gid = g => task[m].sid = task[p].sid
  BY <1>1, <1>2, GroupedApart DEF GroupsApart
<1> QED BY <1>1, <1>3, <1>4, <1>5, <1>6, GroupAims

\* setpgid() of a task whose group changes: it is as it was forked, so its
\* terminal is its parent's, who uses it.
LEMMA SetpgidAims ==
  ASSUME Typed, Typed', Grouped, Chain, Aims, NEW p \in TaskIds, sys_setpgid(p) PROVE Aims'
<1>1. /\ Live(p) /\ At(p) \in {"group", "jgroup"}
      /\ pc' = [pc EXCEPT ![p] = After(p)]
      /\ UNCHANGED <<image, tty, device, level, press, used>>
  BY SetpgidMoves
<1>2. PICK c \in TaskIds : /\ c = Sets(p)
                           /\ task'[c] = [task[c] EXCEPT !.gid = pc[p].index]
                           /\ \A m \in TaskIds \ {c} : task'[m] = task[m]
  BY SetpgidMoves
<1>3. pc[p].index = c
  BY <1>1, <1>2 DEF Sets, Grouped, ChildOf, Indexed, Forking
<1>4. task'[c].gid = c /\ task'[c].sid = task[c].sid /\ task'[c].ctty = task[c].ctty
      /\ task'[c].st = task[c].st
  BY <1>2, <1>3, Entries DEF Task
<1>5. pc'[p] = After(p) /\ pc[p] \in Place /\ KeepsPlaces({p})
  BY <1>1, Entries DEF Typed, KeepsPlaces
<1>6. At(p)' \notin Opens \cup {"group", "jgroup"}
  <2>1. CASE At(p) = "group"
    <3>1. After(p) = IF Fore(pc[p].kind) THEN [pc[p] EXCEPT !.at = "front"] ELSE [Away EXCEPT !.at = "sh"]
      BY <2>1 DEF After
    <3> QED BY <1>5, <3>1 DEF At, Place, Away, Opens
  <2>2. CASE At(p) = "jgroup"
    <3>1. After(p) = [pc[p] EXCEPT !.at = IF Fore(pc[p].kind) THEN "jfront" ELSE "jexec"]
      BY <2>2 DEF After
    <3> QED BY <1>5, <3>1 DEF At, Place, Opens
  <2> QED BY <1>1, <2>1, <2>2
<1>7. ASSUME NEW m \in TaskIds
      PROVE  At(m) \in Opens <=> At(m)' \in Opens
  <2>1. CASE m = p
    BY <1>1, <1>6, <2>1 DEF Opens
  <2>2. CASE m # p
    BY <1>5, <2>2 DEF KeepsPlaces, At
  <2> QED BY <2>1, <2>2
<1>8. ASSUME NEW m \in TaskIds, m # c \/ task[c].gid = c
      PROVE  Live(m)' => SameFields(m)
  BY <1>2, <1>4, <1>8 DEF SameFields, Live
<1>9. ASSUME NEW m \in TaskIds PROVE Hits(m)'
  <2>1. CASE m # c \/ task[c].gid = c
    BY <1>1, <1>7, <1>8, <2>1, HitsKept DEF Aims
  <2>2. CASE m = c /\ task[c].gid # c
    <3> SUFFICES ASSUME Live(c)' PROVE tty'[task'[c].ctty].sid = task'[c].sid
      BY <2>2 DEF Hits
    <3>1. Live(c) /\ Unsettled(c)
      BY <1>4, <2>2 DEF Live, Unsettled
    <3>2. PICK r \in TaskIds : At(r) = "group" /\ pc[r].child = c
      <4>1. CASE At(p) = "group"
        BY <1>2, <4>1 DEF Sets
      <4>2. CASE At(p) = "jgroup"
        <5>1. c = p
          BY <1>2, <4>2 DEF Sets
        <5>2. Inherits(p)
          BY <2>2, <4>2, <5>1 DEF Grouped, GroupOf
        <5> QED BY <5>1, <5>2 DEF Inherits
      <4> QED BY <1>1, <4>1, <4>2
    <3>3. task[c].ctty = task[r].ctty
      BY <3>1, <3>2 DEF Aims, Settles
    <3>4. task[c].sid = task[r].sid
      BY <3>1, <3>2 DEF Grouped, ChildOf, Forking
    <3>5. OnTerm(r)
      BY <3>2 DEF OnTerm, ShellAt
    <3>6. tty[task[r].ctty].sid = task[r].sid
      BY <3>5 DEF Chain, TermOK
    <3> QED BY <1>1, <1>4, <3>3, <3>4, <3>6
  <2> QED BY <2>1, <2>2
<1>10. ASSUME NEW r \in TaskIds PROVE Settles(r)'
  <2>1. CASE r = p
    BY <1>6, <2>1 DEF Settles
  <2>2. CASE r # p
    <3>1. PICK k \in TaskIds : k = pc[r].child
      BY Entries, PlaceFields
    <3>2. At(r)' = At(r) /\ pc'[r] = pc[r] /\ task'[r].ctty = task[r].ctty
      BY <1>2, <1>4, <1>5, <2>2 DEF KeepsPlaces, At
    <3>3. ASSUME Unsettled(k)'
          PROVE  SameFields(k) /\ (At(k) = "jgroup" => At(k)' = "jgroup")
      <4>1. k # c
        BY <1>4, <3>3 DEF Unsettled
      <4>2. SameFields(k)
        BY <1>8, <3>3, <4>1 DEF Unsettled
      <4>3. At(k) = "jgroup" => k # p
        BY <1>2, <4>1 DEF Sets
      <4> QED BY <1>5, <4>2, <4>3 DEF KeepsPlaces, At
    <3> QED BY <3>1, <3>2, <3>3, SettlesKept DEF Aims
  <2> QED BY <2>1, <2>2
<1>11. ZeroGroup'
  BY <1>1 DEF Aims, ZeroGroup
<1> QED BY <1>9, <1>10, <1>11 DEF Aims

LEMMA StartAims ==
  ASSUME Typed, Typed', Grouped, Aims, NEW w \in Windows, Start(w) PROVE Aims'
<1> USE Consts
<1>1. PICK n \in TaskIds :
           /\ task[n].st = "free" /\ At(n) = "none" /\ \A m \in TaskIds \ {n} : Stays(m)
           /\ task'[n].gid = 0 /\ task'[n].sid = 0 /\ task'[n].ctty = 0
           /\ At(n)' = "bsd" /\ KeepsPlaces({n}) /\ UNCHANGED tty
  BY StartStep
<1>2. ASSUME NEW m \in TaskIds \ {n} PROVE (Live(m)' => SameFields(m)) /\ At(m)' = At(m)
  BY <1>1 DEF Stays, SameFields, Live, Free, KeepsPlaces, At
<1>3. ASSUME NEW m \in TaskIds PROVE Hits(m)'
  <2>1. CASE m = n
    <3>1. tty[0].gid = 0 => tty[0].sid = 0
      BY DEF Aims, ZeroGroup
    <3> QED BY <1>1, <2>1, <3>1 DEF Hits
  <2>2. CASE m # n
    BY <1>1, <1>2, <2>2, HitsKept DEF Aims
  <2> QED BY <2>1, <2>2
<1>4. ASSUME NEW r \in TaskIds PROVE Settles(r)'
  <2>1. CASE r = n
    BY <1>1, <2>1 DEF Settles
  <2>2. CASE r # n
    <3>1. At(r) = "group" => task'[r].ctty = task[r].ctty
      BY <1>1, <2>2, Entries DEF Stays, Live
    <3>2. ASSUME NEW c \in TaskIds, c = pc[r].child, At(r) = "group", Unsettled(c)'
          PROVE  SameFields(c)
      <4>1. c # n
        BY <1>1, <3>2, FreeNoChild DEF Forking
      <4> QED BY <1>2, <3>2, <4>1 DEF Unsettled
    <3> QED BY <1>1, <2>2, <3>1, <3>2, OtherSettles
  <2> QED BY <2>1, <2>2
<1>5. ZeroGroup'
  BY <1>1 DEF Aims, ZeroGroup
<1> QED BY <1>3, <1>4, <1>5 DEF Aims

\* A child has its parent's group, session and terminal.
LEMMA SpawnAims ==
  ASSUME Typed, Typed', Grouped, Aims, NEW p \in TaskIds, NEW c \in TaskIds, Live(p), Spawns(p, c),
         KeepsPlaces({p, c}), UNCHANGED <<image, tty>>, At(p) \in {"bsd", "sh"},
         At(p)' = "wait" \/ (At(p)' = "group" /\ pc'[p].child = c /\ At(c)' = "jgroup"),
         At(c)' # "group"
  PROVE  Aims'
<1>1. /\ c # p /\ task'[p] = task[p] /\ Copied(p, c) /\ At(c) = "none" /\ task[c].st = "free"
      /\ \A m \in TaskIds \ {c} : Stays(m)
  BY SpawnViews, Spawned DEF Spawns
<1>2. ASSUME NEW m \in TaskIds \ {c} PROVE Live(m)' => SameFields(m)
  BY <1>1, <1>2 DEF Stays, SameFields, Live, Free
<1>3. ASSUME NEW m \in TaskIds PROVE Hits(m)'
  <2>1. CASE m = c
    <3>1. Hits(p) /\ At(p) \notin Opens
      BY DEF Aims, Opens
    <3> QED BY <1>1, <2>1, <3>1 DEF Hits, Copied
  <2>2. CASE m # c
    <3>1. At(m) \in Opens => At(m)' \in Opens
      BY <2>2 DEF KeepsPlaces, At, Opens
    <3> QED BY <1>2, <2>2, <3>1, HitsKept DEF Aims
  <2> QED BY <2>1, <2>2
<1>4. ASSUME NEW r \in TaskIds PROVE Settles(r)'
  <2>1. CASE r = c
    BY <2>1 DEF Settles
  <2>2. CASE r = p
    BY <1>1, <2>2 DEF Settles, Copied
  <2>3. CASE r \notin {p, c}
    <3>1. PICK k \in TaskIds : k = pc[r].child
      BY Entries, PlaceFields
    <3>2. At(r)' = At(r) /\ pc'[r] = pc[r] /\ (At(r) = "group" => task'[r].ctty = task[r].ctty)
      BY <1>1, <2>3, Entries DEF KeepsPlaces, At, Stays, Live
    <3>3. ASSUME At(r) = "group", Unsettled(k)'
          PROVE  SameFields(k) /\ (At(k) = "jgroup" => At(k)' = "jgroup")
      <4>1. k # c
        BY <1>1, <3>1, <3>3, FreeNoChild DEF Forking
      <4>2. At(k) = "jgroup" => k # p
        OBVIOUS
      <4> QED BY <1>2, <3>3, <4>1, <4>2 DEF Unsettled, KeepsPlaces, At
    <3> QED BY <3>1, <3>2, <3>3, SettlesKept DEF Aims
  <2> QED BY <2>1, <2>2, <2>3
<1>5. ZeroGroup'
  BY DEF Aims, ZeroGroup
<1> QED BY <1>3, <1>4, <1>5 DEF Aims

LEMMA ForkAims ==
  ASSUME Typed, Typed', Grouped, Aims, NEW p \in TaskIds,
         BsdFork(p) \/ \E kind \in Jobs : Fork(p, kind)
  PROVE  Aims'
<1>1. CASE BsdFork(p)
  <2>1. PICK c \in TaskIds :
             /\ At(p) = "bsd" /\ Live(p) /\ Spawns(p, c) /\ At(p)' = "wait" /\ KeepsPlaces({p, c})
             /\ At(c)' \in {"single", "setsid"} /\ UNCHANGED <<image, tty>>
    BY <1>1, BsdForkStep
  <2> QED BY <2>1, SpawnAims
<1>2. ASSUME NEW kind \in Jobs, Fork(p, kind) PROVE Aims'
  <2>1. PICK c \in TaskIds :
             /\ At(p) = "sh" \/ (At(p) = "more" /\ kind = "pipe")
             /\ Live(p) /\ Spawns(p, c) /\ At(p)' = "group" /\ pc'[p].child = c
             /\ At(c)' = "jgroup" /\ KeepsPlaces({p, c}) /\ UNCHANGED <<image, tty>>
    BY <1>2, ForkStep
  <2>2. At(p) = "sh"
    BY <2>1 DEF Grouped, Indexed
  <2> QED BY <2>1, <2>2, SpawnAims
<1> QED BY <1>1, <1>2

LEMMA AimsInit == Init => Aims
<1> SUFFICES ASSUME Init PROVE Aims
  OBVIOUS
<1>1. ASSUME NEW m \in TaskIds PROVE Hits(m) /\ Settles(m)
  BY DEF Init, NoTask, Free, Away, At, Live, Hits, Settles
<1>2. ZeroGroup
  BY DEF Init, ZeroGroup, NoTty
<1> QED BY <1>1, <1>2 DEF Aims

LEMMA AimsStep ==
  ASSUME Typed, Grouped, Slots, Chain, Aims, [Next]_vars
  PROVE  Aims'
<1>0. Typed'
  BY TypedStep
<1>1. CASE UNCHANGED vars
  BY <1>0, <1>1, QuietAims DEF vars, SameFields, Live, At
<1>2. ASSUME NEW w \in Windows, Start(w) \/ CtrlC(w) PROVE Aims'
  BY <1>0, <1>2, StartAims, CtrlAims
<1>3. ASSUME NEW p \in TaskIds, Login(p) PROVE Aims'
  BY <1>0, <1>3, ForkAims, OpeningAims, SetsidAims, GettyAims, ExecAims DEF Login
<1>4. ASSUME NEW p \in TaskIds, Job(p) PROVE Aims'
  <2>1. ASSUME NEW c \in TaskIds, Reap(p, c) PROVE Aims'
    BY <1>0, <2>1, ReapAims
  <2> QED BY <1>0, <1>4, <2>1, ForkAims, SetpgidAims, FrontAims, ExecAims, BackAims, ExitAims DEF Job
<1>5. ASSUME NEW i \in Images, ConControlHandler(i) PROVE Aims'
  BY <1>0, <1>5, CtrlAims
<1> QED BY <1>1, <1>2, <1>3, <1>4, <1>5 DEF Next

LEMMA AlwaysAims ==
  ASSUME Calm, Plainly
  PROVE  Spec /\ []UnitLeft => [](Typed /\ Aims)
<1>1. Spec /\ []UnitLeft => [](Typed /\ Grouped /\ Slots /\ Chain)
  BY AlwaysChain
<1>2. Typed /\ Grouped /\ Slots /\ Chain /\ Aims /\ [Next]_vars => Aims'
  BY AimsStep
<1> QED BY <1>1, <1>2, AimsInit, PTL DEF Spec

\* What HitOwn says of a step.
HitsOwn == \A i \in Images : ConControlHandler(i) /\ Strikes(i) =>
             LET m == image[i].main
             IN Live(m) => task[m].img = i /\ task[m].sid = tty[image[i].ctty].sid

LEMMA SeatsHit == Typed /\ Seats /\ Aims => HitsOwn
<1> SUFFICES ASSUME Typed, Seats, Aims, NEW i \in Images, ConControlHandler(i), Strikes(i),
                    NEW m \in TaskIds, m = image[i].main
             PROVE  task[m].img = i /\ task[m].sid = tty[image[i].ctty].sid
  BY Entries, PlaceFields DEF HitsOwn
<1>1. PICK p \in TaskIds : Live(p) /\ task[p].img = i
  BY DEF ConControlHandler, Seats, Used
<1>2. Live(m) /\ task[m].img = i
  BY <1>1 DEF Seats, MainOK
<1>3. At(m) \notin Hasty /\ image[i].ctty = task[m].ctty
  BY <1>2 DEF Seats, MainOK
<1>4. At(m) \notin Opens
  BY <1>3 DEF Hasty
<1>5. tty[task[m].ctty].gid = task[m].gid
  BY <1>3 DEF Strikes
<1> QED BY <1>2, <1>3, <1>4, <1>5 DEF Aims, Hits

\* ConControlHandler() raises SIGINT for a task that runs in its Win32 process,
\* and in the session of the terminal whose foreground group it compared:
\* __Process is the task the process was started for, which ends with it, and
\* a group that is in the foreground of the terminal of __CTTY is of that
\* terminal's session.
THEOREM CtrlCHitsOwnSession ==
  ASSUME Calm, Plainly, "left" \notin Scene
  PROVE  Spec /\ []UnitLeft => HitOwn
<1> DEFINE Body == \A i \in Images : ConControlHandler(i) /\ Strikes(i) =>
                     LET m == image[i].main
                     IN Live(m) => task[m].img = i /\ task[m].sid = tty[image[i].ctty].sid
<1>1. Typed /\ Seats /\ Aims => [Body]_vars
  BY SeatsHit DEF HitsOwn
<1>2. Spec => [](Typed /\ Seats)
  BY AlwaysSeats
<1>3. Spec /\ []UnitLeft => [](Typed /\ Aims)
  BY AlwaysAims
<1> QED BY <1>1, <1>2, <1>3, PTL DEF HitOwn

-----------------------------------------------------------------------------
(* Units: why a login finds one *)

\* A login that is to have a pty, and has none yet.
Seeks(p) == pc[p].kind = "multi" /\ At(p) \in {"bsd", "setsid", "open", "unit", "slot"}
Seekers == {p \in TaskIds : Seeks(p)}
Readied == {u \in Ptys : device[u].ready}

\* A login accounts for one unit: the one it seeks, or one that is ready.
Spared == Cardinality(Seekers) + Cardinality(Readied) <= used.starts

LEMMA SetSizes ==
  ASSUME NEW S, NEW T, NEW x, IsFiniteSet(S)
  PROVE  /\ Cardinality(S) \in Nat
         /\ T \subseteq S => IsFiniteSet(T) /\ Cardinality(T) \in Nat
                             /\ Cardinality(T) <= Cardinality(S)
         /\ T \subseteq S \cup {x} => IsFiniteSet(T) /\ Cardinality(T) \in Nat
                                      /\ Cardinality(T) <= Cardinality(S) + 1
         /\ x \in S /\ T \subseteq S \ {x} => Cardinality(T) <= Cardinality(S) - 1
<1>1. \A A, B : IsFiniteSet(A) /\ B \subseteq A => IsFiniteSet(B) /\ Cardinality(B) \in Nat
                                                   /\ Cardinality(B) <= Cardinality(A)
  BY FS_Subset, FS_CardinalityType
<1>2. Cardinality(S) \in Nat
  BY FS_CardinalityType
<1>3. IsFiniteSet(S \cup {x}) /\ Cardinality(S \cup {x}) <= Cardinality(S) + 1
      /\ Cardinality(S \cup {x}) \in Nat
  BY <1>2, FS_AddElement, FS_CardinalityType
<1>4. x \in S => IsFiniteSet(S \ {x}) /\ Cardinality(S \ {x}) = Cardinality(S) - 1
                 /\ Cardinality(S \ {x}) \in Nat
  BY FS_RemoveElement, FS_CardinalityType
<1>5. T \subseteq S => IsFiniteSet(T) /\ Cardinality(T) \in Nat /\ Cardinality(T) <= Cardinality(S)
  BY <1>1
<1>6. ASSUME T \subseteq S \cup {x}
      PROVE  IsFiniteSet(T) /\ Cardinality(T) \in Nat /\ Cardinality(T) <= Cardinality(S) + 1
  <2>1. IsFiniteSet(T) /\ Cardinality(T) \in Nat /\ Cardinality(T) <= Cardinality(S \cup {x})
    BY <1>1, <1>3, <1>6
  <2> QED BY <1>2, <1>3, <2>1
<1>7. ASSUME x \in S, T \subseteq S \ {x} PROVE Cardinality(T) <= Cardinality(S) - 1
  <2>1. Cardinality(T) <= Cardinality(S \ {x})
    BY <1>1, <1>4, <1>7
  <2> QED BY <1>4, <1>7, <2>1
<1> QED BY <1>2, <1>5, <1>6, <1>7

LEMMA FiniteTables == IsFiniteSet(TaskIds) /\ IsFiniteSet(Ptys)
<1>1. IsFiniteSet(0 .. MaxTask) /\ IsFiniteSet(1 .. MaxUnit)
  BY Consts, FS_Interval
<1> QED BY <1>1 DEF TaskIds, Ptys

LEMMA FiniteSeekers ==
  /\ IsFiniteSet(Seekers) /\ Cardinality(Seekers) \in Nat
  /\ IsFiniteSet(Readied) /\ Cardinality(Readied) \in Nat
<1>1. Seekers \subseteq TaskIds /\ Readied \subseteq Ptys
  BY DEF Seekers, Readied
<1> QED BY <1>1, FiniteTables, SetSizes

\* A step that makes no more of either.
LEMMA SparedKept ==
  ASSUME Typed, Spared, used'.starts = used.starts,
         \A m \in TaskIds : Seeks(m)' => Seeks(m),
         \A u \in Ptys : device'[u].ready => device[u].ready
  PROVE  Spared'
<1>1. Seekers' \subseteq Seekers /\ Readied' \subseteq Readied
  BY DEF Seekers, Readied
<1>2. used.starts \in Nat
  BY Consts DEF Typed, Count
<1>3. /\ Cardinality(Seekers') \in Nat /\ Cardinality(Seekers') <= Cardinality(Seekers)
      /\ Cardinality(Readied') \in Nat /\ Cardinality(Readied') <= Cardinality(Readied)
  BY <1>1, FiniteSeekers, SetSizes
<1>4. Cardinality(Seekers) \in Nat /\ Cardinality(Readied) \in Nat
  BY FiniteSeekers
<1> QED BY <1>2, <1>3, <1>4 DEF Spared

LEMMA StartSpared == ASSUME Typed, Spared, NEW w \in Windows, Start(w) PROVE Spared'
<1>1. device' = device
  BY DEF Start
<1>2. PICK n \in TaskIds : KeepsPlaces({n}) /\ used'.starts = used.starts + 1
  BY StartStep
<1>3. Seekers' \subseteq Seekers \cup {n} /\ Readied' = Readied
  BY <1>1, <1>2 DEF Seekers, Readied, Seeks, KeepsPlaces, At
<1>4. Cardinality(Seekers') \in Nat /\ Cardinality(Seekers') <= Cardinality(Seekers) + 1
  BY <1>3, FiniteSeekers, SetSizes
<1>5. used.starts \in Nat /\ Cardinality(Seekers) \in Nat /\ Cardinality(Readied) \in Nat
  BY FiniteSeekers DEF Typed, Count
<1> QED BY <1>2, <1>3, <1>4, <1>5 DEF Spared

\* fork() of the bsd program: the child seeks what its parent sought.
LEMMA BsdForkSpared == ASSUME Typed, Spared, NEW p \in TaskIds, BsdFork(p) PROVE Spared'
<1>1. PICK c \in TaskIds :
        /\ At(p) = "bsd" /\ Spawns(p, c) /\ At(p)' = "wait"
        /\ At(c)' = (IF pc[p].kind = "single" THEN "single" ELSE "setsid")
        /\ pc'[c].kind = pc[p].kind
        /\ KeepsPlaces({p, c})
        /\ UNCHANGED <<device, used>>
  BY BsdForkStep
<1>2. ~Seeks(p)'
  BY <1>1 DEF Seeks
<1>3. Readied' = Readied
  BY <1>1 DEF Readied
<1>4. CASE pc[p].kind = "multi"
  <2>1. Seeks(p)
    BY <1>1, <1>4 DEF Seeks
  <2> DEFINE S == Seekers \ {p}
  <2>2. Seekers' \subseteq S \cup {c}
    BY <1>1, <1>2 DEF Seekers, Seeks, KeepsPlaces, At
  <2>3. p \in Seekers
    BY <2>1 DEF Seekers
  <2>4. IsFiniteSet(S) /\ Cardinality(S) \in Nat /\ Cardinality(S) <= Cardinality(Seekers) - 1
    BY <2>3, FiniteSeekers, SetSizes
  <2> HIDE DEF S
  <2>5. Cardinality(Seekers') \in Nat /\ Cardinality(Seekers') <= Cardinality(S) + 1
    BY <2>2, <2>4, SetSizes
  <2>6. Cardinality(Seekers) \in Nat /\ Cardinality(Readied) \in Nat /\ used.starts \in Nat
    BY FiniteSeekers DEF Typed, Count
  <2> QED BY <1>1, <1>3, <2>4, <2>5, <2>6 DEF Spared
<1>5. CASE pc[p].kind # "multi"
  <2>1. \A m \in TaskIds : Seeks(m)' => Seeks(m)
    BY <1>1, <1>2, <1>5 DEF Seeks, KeepsPlaces, At
  <2> QED BY <1>1, <2>1, SparedKept
<1> QED BY <1>4, <1>5

\* The steps of a login that open nothing.
LEMMA LoginSpared ==
  ASSUME Typed, Spared, NEW p \in TaskIds,
         \/ tty_init(p) \/ SetLevel(p) \/ sys_revoke(p) \/ vfs_setsid(p) \/ OpenConsole(p)
         \/ FindUnit(p) \/ FindTerm(p) \/ Getty(p) \/ Shell(p)
  PROVE  Spared'
<1>1. used'.starts = used.starts
  BY DEF tty_init, SetLevel, sys_revoke, vfs_setsid, OpenConsole, FindUnit, FindTerm, Getty, Shell
<1>2. \A m \in TaskIds \ {p} : pc'[m] = pc[m]
  BY DEF tty_init, SetLevel, sys_revoke, vfs_setsid, OpenConsole, FindUnit, FindTerm, Getty,
         Shell, Typed
<1>3. Seeks(p)' => Seeks(p)
  <2>1. pc[p] \in Place
    BY Entries
  <2>2. CASE tty_init(p) \/ SetLevel(p)
    BY <2>1, <2>2 DEF tty_init, SetLevel, Typed, Place, Seeks, At
  <2>3. CASE OpenConsole(p) \/ Getty(p)
    BY <2>1, <2>3 DEF OpenConsole, Getty, Typed, Place, Seeks, At
  <2>4. CASE FindUnit(p) \/ FindTerm(p)
    BY <2>1, <2>4 DEF FindUnit, FindTerm, Typed, Place, Seeks, At
  <2>5. CASE vfs_setsid(p)
    BY <2>1, <2>5 DEF vfs_setsid, Typed, Place, Seeks, At
  <2>6. CASE Shell(p)
    BY <2>6, ShellQuiet DEF Seeks
  <2>7. CASE sys_revoke(p)
    <3>1. pc[p].kind = "single"
      BY <2>1, <2>7, Entries DEF sys_revoke, PlaceOK
    <3> QED BY <2>1, <2>7, <3>1 DEF sys_revoke, Typed, Place, Seeks, At
  <2> QED BY <2>2, <2>3, <2>4, <2>5, <2>6, <2>7
<1>4. \A m \in TaskIds : Seeks(m)' => Seeks(m)
  BY <1>2, <1>3 DEF Seeks, At
<1>5. \A u \in Ptys : device'[u].ready => device[u].ready
  <2>1. CASE device' = device
    BY <2>1
  <2>2. CASE tty_init(p)
    <3> SUFFICES ASSUME device' # device PROVE \A u \in Ptys : device'[u].ready => device[u].ready
      BY <2>1
    <3>1. PICK i \in Terminals : Attach(Console, i, device[Console].ready)
      BY <2>2 DEF tty_init
    <3>2. PICK r \in BOOLEAN : r = device[Console].ready
      BY Consts, Entries, PlaceFields
    <3>3. \A f \in Devices \ {Console} : device'[f] = device[f]
      BY <3>1, <3>2, Consts, AttachTyped
    <3> QED BY <3>3, Consts
  <2>3. CASE Closes(Console)
    BY <2>3, Consts, ClosesTyped
  <2>4. CASE sys_revoke(p)
    BY <2>1, <2>3, <2>4, RevokeCloses DEF sys_revoke
  <2>5. CASE Getty(p)
    <3>1. \/ pc[p].unit \in Devices /\ Controlled(p, pc[p].unit, pc[p].index)
          \/ device' = device
      BY <2>5, GettyQuiet
    <3> QED BY <2>1, <3>1, Entries, Consts DEF Controlled, Device
  <2>6. CASE vfs_setsid(p) \/ Shell(p)
    BY <2>1, <2>6 DEF vfs_setsid, Shell
  <2> QED BY <2>1, <2>2, <2>4, <2>5, <2>6 DEF SetLevel, OpenConsole, FindUnit, FindTerm
<1> QED BY <1>1, <1>4, <1>5, SparedKept

\* tty_attach(): a login that seeks a unit has one that is ready.
LEMMA TtyAttachSpared ==
  ASSUME Typed, Slots, Spared, NEW p \in TaskIds, tty_attach(p) PROVE Spared'
<1>1. task' = task /\ KeepsPlaces({p}) /\ At(p) = "slot" /\ used'.starts = used.starts
  BY LoginQuiet DEF tty_attach, At
<1>2. pc[p].kind = "multi" /\ At(p)' = "ctty"
  <2>1. ClaimOK(p) /\ pc[p] \in Place
    BY Entries DEF Slots, SlotOK
  <2> QED BY <1>1, <2>1 DEF ClaimOK, Claims, tty_attach, At, Typed, Place
<1>3. PICK u \in Ptys : u = pc[p].unit
  BY <1>1, Entries DEF PlaceOK, At
<1>4. Readied' \subseteq Readied \cup {u}
  <2>1. PICK i \in Terminals : i = pc[p].index
    BY <1>1, Entries DEF PlaceOK, At, Opens
  <2>2. Attach(u, i, TRUE)
    BY <1>3, <2>1 DEF tty_attach
  <2>3. PICK r \in BOOLEAN : r = TRUE
    OBVIOUS
  <2>4. \A f \in Devices \ {u} : device'[f] = device[f]
    BY <2>2, <2>3, Consts, AttachTyped
  <2> QED BY <2>4, Consts DEF Readied
<1>5. p \in Seekers /\ Seekers' \subseteq Seekers \ {p}
  BY <1>1, <1>2 DEF Seekers, Seeks, KeepsPlaces, At
<1>6. Cardinality(Readied') \in Nat /\ Cardinality(Readied') <= Cardinality(Readied) + 1
  BY <1>4, FiniteSeekers, SetSizes
<1>7. Cardinality(Seekers') \in Nat /\ Cardinality(Seekers') <= Cardinality(Seekers) - 1
  <2>1. Seekers' \subseteq Seekers
    BY <1>5
  <2> QED BY <1>5, <2>1, FiniteSeekers, SetSizes
<1>8. used.starts \in Nat /\ Cardinality(Seekers) \in Nat /\ Cardinality(Readied) \in Nat
  BY FiniteSeekers, Consts DEF Typed, Count
<1> QED BY <1>1, <1>6, <1>7, <1>8 DEF Spared

\* The programs of a session seek none, and only __exit() changes a device.
LEMMA JobSpared == ASSUME Typed, Spared, NEW p \in TaskIds, Job(p) PROVE Spared'
<1>1. ASSUME NEW kind \in Jobs, Fork(p, kind) PROVE Spared'
  <2>1. PICK c \in TaskIds : /\ At(p)' = "group" /\ At(c)' = "jgroup" /\ KeepsPlaces({p, c})
                             /\ used'.starts = used.starts /\ device' = device
    BY <1>1, ForkStep
  <2>2. \A m \in TaskIds : Seeks(m)' => Seeks(m)
    BY <2>1 DEF Seeks, KeepsPlaces, At
  <2> QED BY <2>1, <2>2, SparedKept
<1>2. CASE sys_setpgid(p)
  <2>1. pc' = [pc EXCEPT ![p] = After(p)] /\ UNCHANGED <<device, used>> /\ After(p) \in Place
    BY <1>2, SetpgidMoves
  <2>2. After(p).at \notin {"bsd", "setsid", "open", "unit", "slot"}
    <3>1. pc[p] \in Place /\ At(p) \in {"group", "jgroup"}
      BY <1>2, Entries, SetpgidMoves
    <3> QED BY <3>1 DEF After, Place, Away
  <2>3. \A m \in TaskIds : Seeks(m)' => Seeks(m)
    BY <2>1, <2>2 DEF Seeks, At, Typed
  <2> QED BY <2>1, <2>3, SparedKept
<1>3. CASE Front(p) \/ JobExec(p) \/ Back(p)
  <2>1. used' = used /\ device' = device
    BY <1>3 DEF Front, JobExec, Back, TIOCSPGRP
  <2>2. KeepsPlaces({p}) /\ At(p)' \in {"jexec", "more", "waitj", "sh", "prog"}
    BY <1>3, FrontQuiet, JobExecQuiet, BackQuiet
  <2>3. \A m \in TaskIds : Seeks(m)' => Seeks(m)
    BY <2>2 DEF Seeks, KeepsPlaces, At
  <2> QED BY <2>1, <2>3, SparedKept
<1>4. ASSUME NEW c \in TaskIds, Reap(p, c) PROVE Spared'
  <2>1. UNCHANGED <<device, used>>
    BY <1>4 DEF Reap
  <2>2. pc' = pc \/ pc' = [pc EXCEPT ![p].at = "back"] \/ pc' = [pc EXCEPT ![p].at = "exit"]
    BY <1>4 DEF Reap
  <2>3. pc[p] \in Place
    BY Entries
  <2>4. \A m \in TaskIds : Seeks(m)' => Seeks(m)
    BY <2>2, <2>3 DEF Seeks, At, Typed, Place
  <2> QED BY <2>1, <2>4, SparedKept
<1>5. CASE Exit(p)
  <2>1. used' = used /\ At(p)' = "none" /\ \A m \in TaskIds \ {p} : pc'[m] = pc[m]
    BY <1>5, ExitTyped
  <2>2. \A m \in TaskIds : Seeks(m)' => Seeks(m)
    BY <2>1 DEF Seeks, At
  <2>3. \A u \in Ptys : device'[u].ready => device[u].ready
    <3>1. CASE vfs_shmexit(p)
      BY <3>1, Consts DEF vfs_shmexit, NoDevice
    <3>2. CASE sys_exit(p)
      <4>1. CASE device' = device
        BY <4>1
      <4>2. ASSUME NEW d \in Devices, Closes(d)
            PROVE  \A u \in Ptys : device'[u].ready => device[u].ready
        BY <4>2, Consts, ClosesTyped
      <4>3. PICK d \in Devices : d = tty[image[task[p].img].ctty].dev
        <5>1. task[p].img \in Images
          BY <1>5, ExitTyped, Entries DEF Alive, Live
        <5>2. image[task[p].img].ctty \in Terminals
          BY <5>1, Entries, PlaceFields
        <5> QED BY <5>2, Entries, PlaceFields
      <4>4. char_revoke(d, task[p].img) \/ UNCHANGED <<tty, device>>
        BY <3>2, <4>3 DEF sys_exit
      <4> QED BY <4>1, <4>2, <4>4, RevokeCloses
    <3> QED BY <1>5, <3>1, <3>2 DEF Exit
  <2> QED BY <2>1, <2>2, <2>3, SparedKept
<1> QED BY <1>1, <1>2, <1>3, <1>4, <1>5 DEF Job

LEMMA HandlerSpared ==
  ASSUME Typed, Spared, NEW i \in Images, ConControlHandler(i) PROVE Spared'
<1>1. UNCHANGED <<device, used>>
  BY HandlerMoves
<1>2. \A m \in TaskIds : Seeks(m)' => Seeks(m)
  BY HandlerMoves DEF Seeks, At, Typed, Away
<1> QED BY <1>1, <1>2, SparedKept

LEMMA SparedStep == ASSUME Typed, Slots, Spared, [Next]_vars PROVE Spared'
<1>1. CASE UNCHANGED vars
  <2>1. \A m \in TaskIds : Seeks(m)' => Seeks(m)
    BY <1>1 DEF vars, Seeks, At
  <2> QED BY <1>1, <2>1, SparedKept DEF vars
<1>2. ASSUME NEW w \in Windows, CtrlC(w) PROVE Spared'
  <2>1. UNCHANGED <<device, pc>> /\ used'.starts = used.starts
    BY <1>2 DEF CtrlC, Typed, Count
  <2>2. \A m \in TaskIds : Seeks(m)' => Seeks(m)
    BY <2>1 DEF Seeks, At
  <2> QED BY <2>1, <2>2, SparedKept
<1>3. ASSUME NEW p \in TaskIds, Login(p) PROVE Spared'
  BY <1>3, BsdForkSpared, LoginSpared, TtyAttachSpared DEF Login
<1> QED BY <1>1, <1>2, <1>3, StartSpared, JobSpared, HandlerSpared DEF Next

LEMMA SparedInit == ASSUME Init PROVE Spared
<1>1. Seekers = {} /\ Readied = {} /\ used.starts = 0
  BY Consts DEF Init, Seekers, Seeks, Readied, NoDevice, Away, At
<1> QED BY <1>1, FS_EmptySet DEF Spared

\* A unit is left to a login that has yet to be given one.
LEMMA SparedUnit == ASSUME Typed, Spared, Starts <= MaxUnit PROVE UnitLeft
<1> SUFFICES ASSUME NEW p \in TaskIds, At(p) = "open", pc[p].kind = "multi",
                    \A u \in Ptys : device[u].ready
             PROVE  FALSE
  BY DEF UnitLeft
<1>1. p \in Seekers /\ {} \subseteq Seekers \ {p}
  BY DEF Seekers, Seeks
<1>2. Cardinality({}) = 0
  BY FS_EmptySet
<1>3. 0 <= Cardinality(Seekers) - 1
  BY <1>1, <1>2, FiniteSeekers, SetSizes
<1>4. Readied = 1 .. MaxUnit
  BY DEF Readied, Ptys
<1>5. Cardinality(Readied) = MaxUnit
  BY <1>4, Consts, FS_Interval
<1>6. used.starts \in Nat /\ used.starts <= Starts /\ Starts \in Nat /\ MaxUnit \in Nat
  BY Consts DEF Typed, Count
<1> QED BY <1>3, <1>5, <1>6, FiniteSeekers DEF Spared

\* With no more logins than units each one's open of /dev/ptm finds a unit
\* in pdo_attach(): a login accounts for one, which it seeks, holds or has
\* given back, and no other step takes one.
THEOREM UnitsSuffice ==
  ASSUME Calm, Starts <= MaxUnit
  PROVE  Spec => []UnitLeft
<1>1. Spec => [](Typed /\ Slots)
  BY AlwaysSlots
<1>2. Typed /\ Slots /\ Spared /\ [Next]_vars => Spared'
  BY SparedStep
<1>3. Typed /\ Spared => UnitLeft
  BY SparedUnit
<1>4. Init => Spared
  BY SparedInit
<1> QED BY <1>1, <1>2, <1>3, <1>4, PTL DEF Spec

\* So job control of no more logins than there are ptys keeps to its session:
\* neither tcsetpgrp() nor a Ctrl-C is about another session's terminal or
\* programs.
THEOREM JobControlOfFewLogins ==
  ASSUME Calm, Plainly, "left" \notin Scene, Starts <= MaxUnit
  PROVE  Spec => OwnForeground /\ HitOwn
<1>1. Spec => []UnitLeft
  BY UnitsSuffice
<1>2. Spec /\ []UnitLeft => OwnForeground
  BY ForegroundOfOwnSession
<1>3. Spec /\ []UnitLeft => HitOwn
  BY CtrlCHitsOwnSession
<1> QED BY <1>1, <1>2, <1>3
=============================================================================
