----------------------------- MODULE MCSignals -----------------------------
(* Instances of Signals for TLC. *)
EXTENDS Signals

\* 2 is the parent of 3; the others are unrelated.
Shell == [p \in Procs |-> IF p = 3 THEN 2 ELSE 0]
Strangers == [p \in Procs |-> 0]

\* A group each, and one group.
Jobs == [p \in Procs |-> p]
Pipeline == [p \in Procs |-> 2]

AllSigs == 1 .. NSIG - 1

NoMasks == {}
IntMask == {{}, {SIGINT}}
=============================================================================
