----------------------------- MODULE MCSessions -----------------------------
(* Instances of Sessions for TLC. *)
EXTENDS Sessions, TLC

\* Two windows are interchangeable.
Symmetry == Permutations(Windows)
=============================================================================
