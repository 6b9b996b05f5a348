---------------------------- MODULE MCWorkQueue -----------------------------
(* WorkQueue with small sets, for TLC. *)
EXTENDS WorkQueue, TLC

CONSTANTS w1, w2
MCWork == {w1, w2}
MCSymmetry == Permutations(MCWork)
=============================================================================
