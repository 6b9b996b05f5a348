--------------------------- MODULE SingleIndexer ---------------------------
(***************************************************************************)
(* What the lock of a machine promises its projects, whoever starts, stops *)
(* and kills supervisors (supervisor_lock and _shutdown of                 *)
(* rtfm/core/supervisor.py): one process at a time works, it leaves with   *)
(* nothing in hand, and what a dead one had in hand is stranded, not lost, *)
(* until it is taken back.                                                 *)
(***************************************************************************)
CONSTANTS Pids, Projects, Nobody

VARIABLES
    indexer,     \* the process that works
    state        \* per project: its work

vars == <<indexer, state>>

States == {"waiting", "inHand", "stranded", "done"}

Init == indexer = Nobody /\ state \in [Projects -> {"waiting", "done"}]

Becomes(j, from, to) == state[j] = from /\ state' = [state EXCEPT ![j] = to]

TakeOver(p) == indexer = Nobody /\ indexer' = p /\ UNCHANGED state

Begin(j) ==
    /\ indexer # Nobody
    /\ Becomes(j, "waiting", "inHand") /\ UNCHANGED indexer

End(j) ==
    /\ indexer # Nobody
    /\ Becomes(j, "inHand", "done") /\ UNCHANGED indexer

\* An open may outlive its supervisor and take back what another left.
TakeBack(j) == Becomes(j, "stranded", "waiting") /\ UNCHANGED indexer

StandDown ==
    /\ \A j \in Projects : state[j] # "inHand"
    /\ indexer' = Nobody /\ UNCHANGED state

\* What is in hand when its process dies is stranded, or waits already.
Die ==
    /\ indexer' = Nobody
    /\ state' \in [Projects -> States]
    /\ \A j \in Projects :
          IF state[j] = "inHand" THEN state'[j] \in {"stranded", "waiting"}
          ELSE state'[j] = state[j]

Next ==
    \/ \E p \in Pids : TakeOver(p)
    \/ \E j \in Projects : Begin(j) \/ End(j) \/ TakeBack(j)
    \/ StandDown \/ Die

Spec == Init /\ [][Next]_vars
=============================================================================
