----------------------------- MODULE MCLifecycle -----------------------------
(* Lifecycle with small sets, for TLC. *)
EXTENDS Lifecycle, TLC

CONSTANTS s1, s2, j1, j2

MCBudgets ==
    {[projects |-> {}, ops |-> 2, faults |-> 1],
     [projects |-> {j1}, ops |-> 1, faults |-> 0],
     [projects |-> {j1}, ops |-> 0, faults |-> 2],
     [projects |-> {j1, j2}, ops |-> 0, faults |-> 0]}
=============================================================================
