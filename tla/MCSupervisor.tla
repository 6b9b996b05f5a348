---------------------------- MODULE MCSupervisor ----------------------------
(* Supervisor with small sets, for TLC. *)
EXTENDS Supervisor, TLC

CONSTANTS p1, p2, scan, ingest, other, ocr

MCTypeOf == [w \in Work |-> CASE w = scan   -> "scan"
                            [] w = ingest -> "ingest"
                            [] w = other  -> "remove"
                            [] w = ocr    -> "ocr"]
MCSymmetry == Permutations(Projects)

\* Nobody reads or writes a file that is neither on disk nor connected to.
MCLive(p) == [e \in DOMAIN db[p] |->
                 IF e \in {Current(p), slot[p].queue} THEN db[p][e] ELSE EmptyFile]
MCView == <<registry, unread, wanted, slot, [p \in Projects |-> MCLive(p)], corrupt,
            inflight, picked, faults, edits>>
=============================================================================
