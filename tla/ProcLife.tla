------------------------------ MODULE ProcLife ------------------------------
(***************************************************************************)
(* What the process table promises about a process id: an id is given out, *)
(* its process runs, exits, waits as a zombie until it is collected once,  *)
(* and only then may the id be given out again.                            *)
(***************************************************************************)
CONSTANT Ids
VARIABLE life

Stage == {"free", "live", "exiting", "zombie", "reaped"}

Step(p, from, to) == life[p] = from /\ life' = [life EXCEPT ![p] = to]

Create(p) == Step(p, "free", "live")
Leave(p) == Step(p, "live", "exiting")
Die(p) == Step(p, "exiting", "zombie")
Collect(p) == Step(p, "zombie", "reaped")

\* Collected ids become free again; a wait4() may clear several at a time.
Reclaim(S) ==
  /\ \A p \in S : life[p] = "reaped"
  /\ life' = [p \in Ids |-> IF p \in S THEN "free" ELSE life[p]]

LInit == life \in [Ids -> {"free", "live"}]

LNext ==
  \/ \E p \in Ids : Create(p) \/ Leave(p) \/ Die(p) \/ Collect(p)
  \/ \E S \in SUBSET Ids : Reclaim(S)

LSpec == LInit /\ [][LNext]_life
=============================================================================
