----------------------------- MODULE MCRecovery -----------------------------
(* Three interchangeable processes, two runs, and a script whose two calls *)
(* have one fingerprint.                                                   *)
EXTENDS Recovery, TLC

CONSTANTS p1, p2, p3, k1

MCScript == [k \in {k1} |-> 2]
Symmetry == Permutations({p1, p2, p3})
=============================================================================
