----------------------------- MODULE MCSchedule -----------------------------
(* Schedule with short intervals and few events, for TLC. *)
EXTENDS Schedule, TLC

Events(changes, faults, moves, local) ==
    [changes |-> changes, faults |-> faults, moves |-> moves, local |-> local]

MCBudgets ==
    {Events(2, 0, 0, TRUE), Events(1, 1, 0, TRUE), Events(1, 0, 1, TRUE),
     Events(0, 0, 2, TRUE), Events(1, 1, 0, FALSE)}
=============================================================================
