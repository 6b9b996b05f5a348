------------------------------ MODULE MCIndex -------------------------------
(* Index with small sets, for TLC. *)
EXTENDS Index, TLC

CONSTANTS a, b, base, l1, l2, v, w, blank, bad

MCShared == [p \in Paths |-> base]      \* all paths are normalised alike
MCSize == [c \in Contents |-> IF c = blank THEN 0 ELSE 1]
MCEast == -1

\* Two paths of one base, two contents of one size: nothing tells them apart.
MCSymmetry == Permutations(Paths) \cup Permutations({v, w}) \cup Permutations(Lanes)
=============================================================================
