--------------------------- MODULE LifecycleProofs ---------------------------
(***************************************************************************)
(* Theorems about Lifecycle, for any processes, projects and budgets: its  *)
(* safety properties, and that it implements SingleIndexer.  IInv is the   *)
(* inductive invariant: types, who the lock is held by, what the holder    *)
(* has open and in hand, and what the two files mean meanwhile.            *)
(***************************************************************************)
EXTENDS Lifecycle, TLAPS

-----------------------------------------------------------------------------
(* Types. *)

LEMMA TypeStep == TypeOK /\ [Next]_vars => TypeOK'
  <1> SUFFICES ASSUME TypeOK, [Next]_vars PROVE TypeOK'
    OBVIOUS
  <1> USE LifecycleAssumption DEF TypeOK, files, registry, work
  <1>1. ASSUME NEW p \in Pids, TakeLock(p) PROVE TypeOK'
    <2>1. sup[p] \in SupType
      OBVIOUS
    <2>2. sup'[p] \in SupType
      BY <1>1, <2>1 DEF TakeLock, SupType, SupSteps, NoSup
    <2>3. sup' \in [Pids -> SupType]
      BY <1>1, <2>2 DEF TakeLock
    <2> QED
      BY <1>1, <2>3 DEF TakeLock
  <1>2. ASSUME NEW p \in Pids, ClearLeftovers(p) PROVE TypeOK'
    <2>1. sup[p] \in SupType
      OBVIOUS
    <2>2. sup'[p] \in SupType
      BY <1>2, <2>1 DEF ClearLeftovers, SupType, SupSteps, NoSup
    <2>3. sup' \in [Pids -> SupType]
      BY <1>2, <2>2 DEF ClearLeftovers
    <2> QED
      BY <1>2, <2>3 DEF ClearLeftovers
  <1>3. ASSUME NEW p \in Pids, StampPid(p) PROVE TypeOK'
    <2>1. sup[p] \in SupType
      OBVIOUS
    <2>2. sup'[p] \in SupType
      BY <1>3, <2>1 DEF StampPid, SupType, SupSteps, NoSup
    <2>3. sup' \in [Pids -> SupType]
      BY <1>3, <2>2 DEF StampPid
    <2> QED
      BY <1>3, <2>3 DEF StampPid
  <1>4. ASSUME NEW p \in Pids, TurnedAway(p) PROVE TypeOK'
    <2>1. sup[p] \in SupType
      OBVIOUS
    <2>2. sup'[p] \in SupType
      BY <1>4, <2>1 DEF TurnedAway, SupType, SupSteps, NoSup
    <2>3. sup' \in [Pids -> SupType]
      BY <1>4, <2>2 DEF TurnedAway
    <2> QED
      BY <1>4, <2>3 DEF TurnedAway
  <1>5. ASSUME NEW p \in Pids, LookAtRegistry(p) PROVE TypeOK'
    <2>1. sup[p] \in SupType
      OBVIOUS
    <2>2. sup'[p] \in SupType
      BY <1>5, <2>1 DEF LookAtRegistry, SupType, SupSteps, NoSup
    <2>3. sup' \in [Pids -> SupType]
      BY <1>5, <2>2 DEF LookAtRegistry
    <2> QED
      BY <1>5, <2>3 DEF LookAtRegistry
  <1>6. ASSUME NEW p \in Pids, ReadRegistry(p) PROVE TypeOK'
    <2>1. sup[p] \in SupType
      OBVIOUS
    <2>2. sup'[p] \in SupType
      BY <1>6, <2>1 DEF ReadRegistry, SupType, SupSteps, NoSup
    <2>3. sup' \in [Pids -> SupType]
      BY <1>6, <2>2 DEF ReadRegistry
    <2> QED
      BY <1>6, <2>3 DEF ReadRegistry
  <1>7. ASSUME NEW p \in Pids, ReadStop(p) PROVE TypeOK'
    <2>1. sup[p] \in SupType
      OBVIOUS
    <2>2. sup'[p] \in SupType
      BY <1>7, <2>1 DEF ReadStop, SupType, SupSteps, NoSup
    <2>3. sup' \in [Pids -> SupType]
      BY <1>7, <2>2 DEF ReadStop
    <2> QED
      BY <1>7, <2>3 DEF ReadStop
  <1>8. ASSUME NEW p \in Pids, ObeyStop(p) PROVE TypeOK'
    <2>1. PICK going \in SUBSET sup[p].opening :
            sup' = [sup EXCEPT ![p] = Leaving(sup[p], FALSE, going)]
      BY <1>8 DEF ObeyStop, Leaving
    <2>2. sup[p] \in SupType
      OBVIOUS
    <2>3. Leaving(sup[p], FALSE, going) \in SupType
      BY <2>2 DEF Leaving, SupType, SupSteps
    <2>4. sup' \in [Pids -> SupType]
      BY <2>1, <2>3
    <2> QED
      BY <1>8, <2>4 DEF ObeyStop, Budget
  <1>9. ASSUME NEW p \in Pids, IgnoreStop(p) PROVE TypeOK'
    <2>1. sup[p] \in SupType
      OBVIOUS
    <2>2. sup'[p] \in SupType
      BY <1>9, <2>1 DEF IgnoreStop, SupType, SupSteps, NoSup
    <2>3. sup' \in [Pids -> SupType]
      BY <1>9, <2>2 DEF IgnoreStop
    <2> QED
      BY <1>9, <2>3 DEF IgnoreStop
  <1>10. ASSUME NEW p \in Pids, Release(p) PROVE TypeOK'
    <2>1. sup' \in [Pids -> SupType]
      BY <1>10 DEF Release, Afterlife, NoSup, SupType, SupSteps
    <2>2. actor' \in [Actors -> ActorType]
      BY <1>10 DEF Release, HelperCalled, Idle, ActorType, ActorSteps, Actors
    <2> QED
      BY <1>10, <2>1, <2>2 DEF Release
  <1>11. ASSUME NEW p \in Pids, Exit(p) PROVE TypeOK'
    <2>1. sup[p] \in SupType
      OBVIOUS
    <2>2. sup'[p] \in SupType
      BY <1>11, <2>1 DEF Exit, SupType, SupSteps, NoSup
    <2>3. sup' \in [Pids -> SupType]
      BY <1>11, <2>2 DEF Exit
    <2> QED
      BY <1>11, <2>3 DEF Exit
  <1>12. ASSUME NEW p \in Pids, Recycle(p) PROVE TypeOK'
    <2>1. PICK going \in SUBSET sup[p].opening, respawn \in BOOLEAN :
            sup' = [sup EXCEPT ![p] = Leaving(sup[p], respawn, going)]
      BY <1>12 DEF Recycle, Leaving
    <2>2. sup[p] \in SupType
      OBVIOUS
    <2>3. Leaving(sup[p], respawn, going) \in SupType
      BY <2>2 DEF Leaving, SupType, SupSteps
    <2>4. sup' \in [Pids -> SupType]
      BY <2>1, <2>3
    <2> QED
      BY <1>12, <2>4 DEF Recycle, Budget
  <1>13. ASSUME NEW p \in Pids, Crash(p) PROVE TypeOK'
    <2>1. sup[p] \in SupType
      OBVIOUS
    <2>2. sup'[p] \in SupType
      BY <1>13, <2>1 DEF Crash, Die, SupType, SupSteps, NoSup
    <2>3. sup' \in [Pids -> SupType]
      BY <1>13, <2>2 DEF Crash, Die
    <2> QED
      BY <1>13, <2>3 DEF Crash, Die, Budget
  <1>14. ASSUME NEW p \in Pids, NEW j \in Projects, Dispatch(p, j) PROVE TypeOK'
    <2>1. sup[p] \in SupType
      OBVIOUS
    <2>2. sup'[p] \in SupType
      BY <1>14, <2>1 DEF Dispatch, SupType, SupSteps, NoSup
    <2>3. sup' \in [Pids -> SupType]
      BY <1>14, <2>2 DEF Dispatch
    <2> QED
      BY <1>14, <2>3 DEF Dispatch
  <1>15. ASSUME NEW p \in Pids, NEW j \in Projects, Opened(p, j) PROVE TypeOK'
    <2>1. sup[p] \in SupType
      OBVIOUS
    <2>2. sup'[p] \in SupType
      BY <1>15, <2>1 DEF Opened, SupType, SupSteps, NoSup
    <2>3. sup' \in [Pids -> SupType]
      BY <1>15, <2>2 DEF Opened
    <2> QED
      BY <1>15, <2>3 DEF Opened
  <1>16. ASSUME NEW p \in Pids, NEW j \in Projects, JobEnds(p, j) PROVE TypeOK'
    <2>1. sup[p] \in SupType
      OBVIOUS
    <2>2. sup'[p] \in SupType
      BY <1>16, <2>1 DEF JobEnds, SupType, SupSteps, NoSup
    <2>3. sup' \in [Pids -> SupType]
      BY <1>16, <2>2 DEF JobEnds
    <2> QED
      BY <1>16, <2>3 DEF JobEnds
  <1>17. ASSUME NEW j \in Projects, Hook(j) PROVE TypeOK'
    <2>1. actor[j] \in ActorType
      BY DEF Actors
    <2>2. actor'[j] \in ActorType
      BY <1>17, <2>1 DEF Hook, Goto, ActorType, ActorSteps, Idle, Actors
    <2>3. actor' \in [Actors -> ActorType]
      BY <1>17, <2>2 DEF Hook, Goto
    <2> QED
      BY <1>17, <2>3 DEF Hook, Goto
  <1>18. ASSUME NEW j \in Projects, EnrolLock(j) PROVE TypeOK'
    <2>1. actor[j] \in ActorType
      BY DEF Actors
    <2>2. actor'[j] \in ActorType
      BY <1>18, <2>1 DEF EnrolLock, ActorType, ActorSteps, Idle, Actors
    <2>3. actor' \in [Actors -> ActorType]
      BY <1>18, <2>2 DEF EnrolLock
    <2> QED
      BY <1>18, <2>3 DEF EnrolLock
  <1>19. ASSUME NEW j \in Projects, EnrolGiveUp(j) PROVE TypeOK'
    <2>1. actor[j] \in ActorType
      BY DEF Actors
    <2>2. actor'[j] \in ActorType
      BY <1>19, <2>1 DEF EnrolGiveUp, Goto, ActorType, ActorSteps, Idle, Actors
    <2>3. actor' \in [Actors -> ActorType]
      BY <1>19, <2>2 DEF EnrolGiveUp, Goto
    <2> QED
      BY <1>19, <2>3 DEF EnrolGiveUp, Goto
  <1>20. ASSUME NEW j \in Projects, EnrolSave(j) PROVE TypeOK'
    <2>1. ASSUME NEW p \in Pids PROVE [sup[p] EXCEPT !.unread = TRUE] \in SupType
      BY ZenonT(40) DEF SupType
    <2>2. sup' \in [Pids -> SupType]
      BY <1>20, <2>1 DEF EnrolSave
    <2>3. actor[j] \in ActorType
      BY DEF Actors
    <2>4. actor'[j] \in ActorType /\ list' \subseteq Projects
      BY <1>20, <2>3 DEF EnrolSave, ActorType, ActorSteps, Actors
    <2>5. actor' \in [Actors -> ActorType]
      BY <1>20, <2>4 DEF EnrolSave
    <2> QED
      BY <1>20, <2>2, <2>4, <2>5 DEF EnrolSave
  <1>21. ASSUME NEW a \in Actors, ProbeTakes(a) PROVE TypeOK'
    <2>1. actor[a] \in ActorType
      BY DEF Actors
    <2>2. actor'[a] \in ActorType
      BY <1>21, <2>1 DEF ProbeTakes, Goto, ActorType, ActorSteps, Idle, Actors
    <2>3. actor' \in [Actors -> ActorType]
      BY <1>21, <2>2 DEF ProbeTakes, Goto
    <2> QED
      BY <1>21, <2>3 DEF ProbeTakes, Goto
  <1>22. ASSUME NEW a \in Actors, ProbeGivesBack(a) PROVE TypeOK'
    <2>1. actor[a] \in ActorType
      BY DEF Actors
    <2>2. actor'[a] \in ActorType
      BY <1>22, <2>1 DEF ProbeGivesBack, Goto, ActorType, ActorSteps, Idle, Actors
    <2>3. actor' \in [Actors -> ActorType]
      BY <1>22, <2>2 DEF ProbeGivesBack, Goto
    <2> QED
      BY <1>22, <2>3 DEF ProbeGivesBack, Goto
  <1>23. ASSUME NEW a \in Actors, ProbeMeetsHolder(a) PROVE TypeOK'
    <2>1. actor[a] \in ActorType
      BY DEF Actors
    <2>2. actor'[a] \in ActorType
      BY <1>23, <2>1 DEF ProbeMeetsHolder, ActorType, ActorSteps, Idle, Actors
    <2>3. actor' \in [Actors -> ActorType]
      BY <1>23, <2>2 DEF ProbeMeetsHolder
    <2> QED
      BY <1>23, <2>3 DEF ProbeMeetsHolder
  <1>24. ASSUME NEW a \in Actors, Spawn(a) PROVE TypeOK'
    <2>1. [NoSup EXCEPT !.pc = "spawned"] \in SupType
      BY DEF NoSup, SupType, SupSteps
    <2>2. sup' \in [Pids -> SupType]
      BY <1>24, <2>1 DEF Spawn
    <2>3. actor' \in [Actors -> ActorType]
      BY <1>24 DEF Spawn, Idle, ActorType, ActorSteps
    <2> QED
      BY <1>24, <2>2, <2>3 DEF Spawn
  <1>25. ASSUME NEW a \in Actors, NothingToDo(a) PROVE TypeOK'
    <2>1. actor[a] \in ActorType
      BY DEF Actors
    <2>2. actor'[a] \in ActorType
      BY <1>25, <2>1 DEF NothingToDo, ActorType, ActorSteps, Idle, Actors
    <2>3. actor' \in [Actors -> ActorType]
      BY <1>25, <2>2 DEF NothingToDo
    <2> QED
      BY <1>25, <2>3 DEF NothingToDo
  <1>26. ASSUME NEW a \in Actors, RequestStop(a) PROVE TypeOK'
    <2>1. actor[a] \in ActorType
      BY DEF Actors
    <2>2. actor'[a] \in ActorType
      BY <1>26, <2>1 DEF RequestStop, Goto, ActorType, ActorSteps, Idle, Actors
    <2>3. actor' \in [Actors -> ActorType]
      BY <1>26, <2>2 DEF RequestStop, Goto
    <2> QED
      BY <1>26, <2>1, <2>3 DEF ActorType, RequestStop, Goto
  <1>27. ASSUME NEW a \in Actors, SeenGone(a) PROVE TypeOK'
    <2>1. actor[a] \in ActorType
      BY DEF Actors
    <2>2. actor'[a] \in ActorType
      BY <1>27, <2>1 DEF SeenGone, Goto, ActorType, ActorSteps, Idle, Actors
    <2>3. actor' \in [Actors -> ActorType]
      BY <1>27, <2>2 DEF SeenGone, Goto
    <2> QED
      BY <1>27, <2>3 DEF SeenGone, Goto
  <1>28. ASSUME NEW a \in Actors, StopWaitedEnough(a) PROVE TypeOK'
    <2>1. actor[a] \in ActorType
      BY DEF Actors
    <2>2. actor'[a] \in ActorType
      BY <1>28, <2>1 DEF StopWaitedEnough, ActorType, ActorSteps, Idle, Actors
    <2>3. actor' \in [Actors -> ActorType]
      BY <1>28, <2>2 DEF StopWaitedEnough
    <2> QED
      BY <1>28, <2>3 DEF StopWaitedEnough
  <1>29. ASSUME NEW a \in Actors, HardKill(a) PROVE TypeOK'
    <2>1. sup' \in [Pids -> SupType]
      BY <1>29 DEF HardKill, Die, NoSup, SupType, SupSteps
    <2>2. actor' \in [Actors -> ActorType]
      BY <1>29 DEF HardKill, Goto, ActorType, ActorSteps
    <2> QED
      BY <1>29, <2>1, <2>2 DEF HardKill, Die
  <1>30. ASSUME NEW a \in Actors, RestartFindsNone(a) PROVE TypeOK'
    <2>1. actor[a] \in ActorType
      BY DEF Actors
    <2>2. actor'[a] \in ActorType
      BY <1>30, <2>1 DEF RestartFindsNone, Goto, ActorType, ActorSteps, Idle, Actors
    <2>3. actor' \in [Actors -> ActorType]
      BY <1>30, <2>2 DEF RestartFindsNone, Goto
    <2> QED
      BY <1>30, <2>3 DEF RestartFindsNone, Goto
  <1>31. ASSUME NEW a \in Actors, ClearRequest(a) PROVE TypeOK'
    <2>1. actor[a] \in ActorType
      BY DEF Actors
    <2>2. actor'[a] \in ActorType
      BY <1>31, <2>1 DEF ClearRequest, ActorType, ActorSteps, Idle, Actors
    <2>3. actor' \in [Actors -> ActorType]
      BY <1>31, <2>2 DEF ClearRequest
    <2> QED
      BY <1>31, <2>3 DEF ClearRequest
  <1>32. ASSUME NEW op \in {"stop", "restart"}, Command(op) PROVE TypeOK'
    <2>1. [Idle EXCEPT !.pc = "probe", !.op = op] \in ActorType
      BY DEF Idle, ActorType, ActorSteps
    <2>2. actor' \in [Actors -> ActorType]
      BY <1>32, <2>1 DEF Command
    <2>3. budget' \in Budget
      BY <1>32 DEF Command, Budget
    <2> QED
      BY <1>32, <2>2, <2>3 DEF Command
  <1>33. ASSUME UNCHANGED vars PROVE TypeOK'
    BY <1>33 DEF vars
  <1> QED
    BY <1>1, <1>2, <1>3, <1>4, <1>5, <1>6, <1>7, <1>8, <1>9, <1>10, <1>11,
       <1>12, <1>13, <1>14, <1>15, <1>16, <1>17, <1>18, <1>19, <1>20, <1>21,
       <1>22, <1>23, <1>24, <1>25, <1>26, <1>27, <1>28, <1>29, <1>30, <1>31,
       <1>32, <1>33 DEF Next, Loop, ReadList, Opener, Pool, Coming, Going,
       Enrol, Probe, Conclude, Restart

-----------------------------------------------------------------------------
(* The lock, and what its holder has in hand. *)

\* A supervisor holds the lock from TakeLock to Release, and only then has jobs.
Holding == {"entered", "cleared", "loop", "asking", "drain"}

LockInv ==
    /\ \A p \in Pids : sup[p].pc \in Holding <=> lock = p
    /\ \A a \in Actors : actor[a].pc = "holding" => lock = a
    /\ \A p \in Pids : sup[p].jobs # {} => sup[p].pc \in Holding

LEMMA LockStep == TypeOK /\ LockInv /\ [Next]_vars => LockInv'
  <1> SUFFICES ASSUME TypeOK, LockInv, [Next]_vars PROVE LockInv'
    OBVIOUS
  <1> USE LifecycleAssumption DEF LockInv, Holding, TypeOK, files, registry, work
  <1>1. ASSUME NEW p \in Pids, TakeLock(p) PROVE LockInv'
    BY <1>1 DEF TakeLock, SupType, ActorType, NoSup, Idle, Actors
  <1>2. ASSUME NEW p \in Pids, ClearLeftovers(p) PROVE LockInv'
    BY <1>2 DEF ClearLeftovers, SupType, ActorType, NoSup, Idle, Actors
  <1>3. ASSUME NEW p \in Pids, StampPid(p) PROVE LockInv'
    BY <1>3 DEF StampPid, SupType, ActorType, NoSup, Idle, Actors
  <1>4. ASSUME NEW p \in Pids, TurnedAway(p) PROVE LockInv'
    BY <1>4 DEF TurnedAway, SupType, ActorType, NoSup, Idle, Actors
  <1>5. ASSUME NEW p \in Pids, LookAtRegistry(p) PROVE LockInv'
    BY <1>5 DEF LookAtRegistry, SupType, ActorType, NoSup, Idle, Actors
  <1>6. ASSUME NEW p \in Pids, ReadRegistry(p) PROVE LockInv'
    BY <1>6 DEF ReadRegistry, SupType, ActorType, NoSup, Idle, Actors
  <1>7. ASSUME NEW p \in Pids, ReadStop(p) PROVE LockInv'
    BY <1>7 DEF ReadStop, SupType, ActorType, NoSup, Idle, Actors
  <1>8. ASSUME NEW p \in Pids, ObeyStop(p) PROVE LockInv'
    BY <1>8 DEF ObeyStop, Leaving, SupType, ActorType, NoSup, Idle, Actors
  <1>9. ASSUME NEW p \in Pids, IgnoreStop(p) PROVE LockInv'
    BY <1>9 DEF IgnoreStop, SupType, ActorType, NoSup, Idle, Actors
  <1>10. ASSUME NEW p \in Pids, Release(p) PROVE LockInv'
    BY <1>10 DEF Release, Afterlife, HelperCalled, SupType, ActorType, NoSup, Idle, Actors
  <1>11. ASSUME NEW p \in Pids, Exit(p) PROVE LockInv'
    BY <1>11 DEF Exit, SupType, ActorType, NoSup, Idle, Actors
  <1>12. ASSUME NEW p \in Pids, Recycle(p) PROVE LockInv'
    BY <1>12 DEF Recycle, Leaving, SupType, ActorType, NoSup, Idle, Actors
  <1>13. ASSUME NEW p \in Pids, Crash(p) PROVE LockInv'
    BY <1>13 DEF Crash, Die, SupType, ActorType, NoSup, Idle, Actors
  <1>14. ASSUME NEW p \in Pids, NEW j \in Projects, Dispatch(p, j) PROVE LockInv'
    BY <1>14 DEF Dispatch, SupType, ActorType, NoSup, Idle, Actors
  <1>15. ASSUME NEW p \in Pids, NEW j \in Projects, Opened(p, j) PROVE LockInv'
    BY <1>15 DEF Opened, SupType, ActorType, NoSup, Idle, Actors
  <1>16. ASSUME NEW p \in Pids, NEW j \in Projects, JobEnds(p, j) PROVE LockInv'
    BY <1>16 DEF JobEnds, SupType, ActorType, NoSup, Idle, Actors
  <1>17. ASSUME NEW j \in Projects, Hook(j) PROVE LockInv'
    BY <1>17 DEF Hook, Goto, SupType, ActorType, NoSup, Idle, Actors
  <1>18. ASSUME NEW j \in Projects, EnrolLock(j) PROVE LockInv'
    BY <1>18 DEF EnrolLock, SupType, ActorType, NoSup, Idle, Actors
  <1>19. ASSUME NEW j \in Projects, EnrolGiveUp(j) PROVE LockInv'
    BY <1>19 DEF EnrolGiveUp, Goto, SupType, ActorType, NoSup, Idle, Actors
  <1>20. ASSUME NEW j \in Projects, EnrolSave(j) PROVE LockInv'
    <2>1. \A p \in Pids : /\ sup'[p].pc = sup[p].pc /\ sup'[p].jobs = sup[p].jobs
                         /\ sup'[p].opening = sup[p].opening
                         /\ sup'[p].slots = sup[p].slots
      BY <1>20 DEF EnrolSave, SupType
    <2> QED
      BY <1>20, <2>1 DEF EnrolSave, ActorType, Actors
  <1>21. ASSUME NEW a \in Actors, ProbeTakes(a) PROVE LockInv'
    BY <1>21 DEF ProbeTakes, Goto, SupType, ActorType, NoSup, Idle, Actors
  <1>22. ASSUME NEW a \in Actors, ProbeGivesBack(a) PROVE LockInv'
    BY <1>22 DEF ProbeGivesBack, Goto, SupType, ActorType, NoSup, Idle, Actors
  <1>23. ASSUME NEW a \in Actors, ProbeMeetsHolder(a) PROVE LockInv'
    BY <1>23 DEF ProbeMeetsHolder, SupType, ActorType, NoSup, Idle, Actors
  <1>24. ASSUME NEW a \in Actors, Spawn(a) PROVE LockInv'
    BY <1>24 DEF Spawn, SupType, ActorType, NoSup, Idle, Actors
  <1>25. ASSUME NEW a \in Actors, NothingToDo(a) PROVE LockInv'
    BY <1>25 DEF NothingToDo, SupType, ActorType, NoSup, Idle, Actors
  <1>26. ASSUME NEW a \in Actors, RequestStop(a) PROVE LockInv'
    BY <1>26 DEF RequestStop, Goto, SupType, ActorType, NoSup, Idle, Actors
  <1>27. ASSUME NEW a \in Actors, SeenGone(a) PROVE LockInv'
    BY <1>27 DEF SeenGone, Goto, SupType, ActorType, NoSup, Idle, Actors
  <1>28. ASSUME NEW a \in Actors, StopWaitedEnough(a) PROVE LockInv'
    BY <1>28 DEF StopWaitedEnough, SupType, ActorType, NoSup, Idle, Actors
  <1>29. ASSUME NEW a \in Actors, HardKill(a) PROVE LockInv'
    BY <1>29 DEF HardKill, Die, Goto, SupType, ActorType, NoSup, Idle, Actors
  <1>30. ASSUME NEW a \in Actors, RestartFindsNone(a) PROVE LockInv'
    BY <1>30 DEF RestartFindsNone, Goto, SupType, ActorType, NoSup, Idle, Actors
  <1>31. ASSUME NEW a \in Actors, ClearRequest(a) PROVE LockInv'
    BY <1>31 DEF ClearRequest, SupType, ActorType, NoSup, Idle, Actors
  <1>32. ASSUME NEW op \in {"stop", "restart"}, Command(op) PROVE LockInv'
    BY <1>32 DEF Command, SupType, ActorType, NoSup, Idle, Actors
  <1>33. ASSUME UNCHANGED vars PROVE LockInv'
    BY <1>33 DEF vars, SupType, ActorType, NoSup, Idle, Actors
  <1> QED
    BY <1>1, <1>2, <1>3, <1>4, <1>5, <1>6, <1>7, <1>8, <1>9, <1>10, <1>11,
       <1>12, <1>13, <1>14, <1>15, <1>16, <1>17, <1>18, <1>19, <1>20, <1>21,
       <1>22, <1>23, <1>24, <1>25, <1>26, <1>27, <1>28, <1>29, <1>30, <1>31,
       <1>32, <1>33 DEF Next, Loop, ReadList, Opener, Pool, Coming, Going,
       Enrol, Probe, Conclude, Restart

\* What is being opened is not open yet; jobs are of what is open.
SlotInv ==
    \A p \in Pids : /\ sup[p].opening \cap sup[p].slots = {}
                    /\ sup[p].jobs \subseteq sup[p].slots

LEMMA SlotStep == TypeOK /\ SlotInv /\ [Next]_vars => SlotInv'
  <1> SUFFICES ASSUME TypeOK, SlotInv, [Next]_vars PROVE SlotInv'
    OBVIOUS
  <1> USE DEF SlotInv, TypeOK
  <1>1. ASSUME NEW p \in Pids, TakeLock(p) PROVE SlotInv'
    BY <1>1 DEF TakeLock, SupType, NoSup
  <1>2. ASSUME NEW p \in Pids, ClearLeftovers(p) PROVE SlotInv'
    BY <1>2 DEF ClearLeftovers, SupType, NoSup
  <1>3. ASSUME NEW p \in Pids, StampPid(p) PROVE SlotInv'
    BY <1>3 DEF StampPid, SupType, NoSup
  <1>4. ASSUME NEW p \in Pids, TurnedAway(p) PROVE SlotInv'
    BY <1>4 DEF TurnedAway, SupType, NoSup
  <1>5. ASSUME NEW p \in Pids, LookAtRegistry(p) PROVE SlotInv'
    BY <1>5 DEF LookAtRegistry, SupType, NoSup
  <1>6. ASSUME NEW p \in Pids, ReadRegistry(p) PROVE SlotInv'
    BY <1>6 DEF ReadRegistry, SupType, NoSup
  <1>7. ASSUME NEW p \in Pids, ReadStop(p) PROVE SlotInv'
    BY <1>7 DEF ReadStop, SupType, NoSup
  <1>8. ASSUME NEW p \in Pids, ObeyStop(p) PROVE SlotInv'
    BY <1>8 DEF ObeyStop, Leaving, SupType, NoSup
  <1>9. ASSUME NEW p \in Pids, IgnoreStop(p) PROVE SlotInv'
    BY <1>9 DEF IgnoreStop, SupType, NoSup
  <1>10. ASSUME NEW p \in Pids, Release(p) PROVE SlotInv'
    BY <1>10 DEF Release, Afterlife, HelperCalled, SupType, NoSup
  <1>11. ASSUME NEW p \in Pids, Exit(p) PROVE SlotInv'
    BY <1>11 DEF Exit, SupType, NoSup
  <1>12. ASSUME NEW p \in Pids, Recycle(p) PROVE SlotInv'
    BY <1>12 DEF Recycle, Leaving, SupType, NoSup
  <1>13. ASSUME NEW p \in Pids, Crash(p) PROVE SlotInv'
    BY <1>13 DEF Crash, Die, SupType, NoSup
  <1>14. ASSUME NEW p \in Pids, NEW j \in Projects, Dispatch(p, j) PROVE SlotInv'
    BY <1>14 DEF Dispatch, SupType, NoSup
  <1>15. ASSUME NEW p \in Pids, NEW j \in Projects, Opened(p, j) PROVE SlotInv'
    BY <1>15 DEF Opened, SupType, NoSup
  <1>16. ASSUME NEW p \in Pids, NEW j \in Projects, JobEnds(p, j) PROVE SlotInv'
    BY <1>16 DEF JobEnds, SupType, NoSup
  <1>17. ASSUME NEW j \in Projects, Hook(j) PROVE SlotInv'
    BY <1>17 DEF Hook, Goto, SupType, NoSup
  <1>18. ASSUME NEW j \in Projects, EnrolLock(j) PROVE SlotInv'
    BY <1>18 DEF EnrolLock, SupType, NoSup
  <1>19. ASSUME NEW j \in Projects, EnrolGiveUp(j) PROVE SlotInv'
    BY <1>19 DEF EnrolGiveUp, Goto, SupType, NoSup
  <1>20. ASSUME NEW j \in Projects, EnrolSave(j) PROVE SlotInv'
    <2>1. \A p \in Pids : /\ sup'[p].pc = sup[p].pc /\ sup'[p].jobs = sup[p].jobs
                         /\ sup'[p].opening = sup[p].opening
                         /\ sup'[p].slots = sup[p].slots
      BY <1>20 DEF EnrolSave, SupType
    <2> QED
      BY <1>20, <2>1 DEF EnrolSave
  <1>21. ASSUME NEW a \in Actors, ProbeTakes(a) PROVE SlotInv'
    BY <1>21 DEF ProbeTakes, Goto, SupType, NoSup
  <1>22. ASSUME NEW a \in Actors, ProbeGivesBack(a) PROVE SlotInv'
    BY <1>22 DEF ProbeGivesBack, Goto, SupType, NoSup
  <1>23. ASSUME NEW a \in Actors, ProbeMeetsHolder(a) PROVE SlotInv'
    BY <1>23 DEF ProbeMeetsHolder, SupType, NoSup
  <1>24. ASSUME NEW a \in Actors, Spawn(a) PROVE SlotInv'
    BY <1>24 DEF Spawn, SupType, NoSup
  <1>25. ASSUME NEW a \in Actors, NothingToDo(a) PROVE SlotInv'
    BY <1>25 DEF NothingToDo, SupType, NoSup
  <1>26. ASSUME NEW a \in Actors, RequestStop(a) PROVE SlotInv'
    BY <1>26 DEF RequestStop, Goto, SupType, NoSup
  <1>27. ASSUME NEW a \in Actors, SeenGone(a) PROVE SlotInv'
    BY <1>27 DEF SeenGone, Goto, SupType, NoSup
  <1>28. ASSUME NEW a \in Actors, StopWaitedEnough(a) PROVE SlotInv'
    BY <1>28 DEF StopWaitedEnough, SupType, NoSup
  <1>29. ASSUME NEW a \in Actors, HardKill(a) PROVE SlotInv'
    BY <1>29 DEF HardKill, Die, Goto, SupType, NoSup
  <1>30. ASSUME NEW a \in Actors, RestartFindsNone(a) PROVE SlotInv'
    BY <1>30 DEF RestartFindsNone, Goto, SupType, NoSup
  <1>31. ASSUME NEW a \in Actors, ClearRequest(a) PROVE SlotInv'
    BY <1>31 DEF ClearRequest, SupType, NoSup
  <1>32. ASSUME NEW op \in {"stop", "restart"}, Command(op) PROVE SlotInv'
    BY <1>32 DEF Command, SupType, NoSup
  <1>33. ASSUME UNCHANGED vars PROVE SlotInv'
    BY <1>33 DEF vars, SupType, NoSup
  <1> QED
    BY <1>1, <1>2, <1>3, <1>4, <1>5, <1>6, <1>7, <1>8, <1>9, <1>10, <1>11,
       <1>12, <1>13, <1>14, <1>15, <1>16, <1>17, <1>18, <1>19, <1>20, <1>21,
       <1>22, <1>23, <1>24, <1>25, <1>26, <1>27, <1>28, <1>29, <1>30, <1>31,
       <1>32, <1>33 DEF Next, Loop, ReadList, Opener, Pool, Coming, Going,
       Enrol, Probe, Conclude, Restart

\* The row of a job in hand, which an open that outlived its supervisor may reap.
RowInv ==
    \A p \in Pids : \A j \in sup[p].jobs :
        row[j] = "running" \/ (row[j] = "pending" /\ j \in robbed)

LEMMA RowStep ==
    TypeOK /\ LockInv /\ SlotInv /\ RowInv /\ [Next]_vars => RowInv'
  <1> SUFFICES ASSUME TypeOK, LockInv, SlotInv, RowInv, [Next]_vars
               PROVE  RowInv'
    OBVIOUS
  <1> USE DEF RowInv, TypeOK, files, registry, work
  <1>1. ASSUME NEW p \in Pids, TakeLock(p) PROVE RowInv'
    BY <1>1 DEF TakeLock, SupType, NoSup
  <1>2. ASSUME NEW p \in Pids, ClearLeftovers(p) PROVE RowInv'
    BY <1>2 DEF ClearLeftovers, SupType, NoSup
  <1>3. ASSUME NEW p \in Pids, StampPid(p) PROVE RowInv'
    BY <1>3 DEF StampPid, SupType, NoSup
  <1>4. ASSUME NEW p \in Pids, TurnedAway(p) PROVE RowInv'
    BY <1>4 DEF TurnedAway, SupType, NoSup
  <1>5. ASSUME NEW p \in Pids, LookAtRegistry(p) PROVE RowInv'
    BY <1>5 DEF LookAtRegistry, SupType, NoSup
  <1>6. ASSUME NEW p \in Pids, ReadRegistry(p) PROVE RowInv'
    BY <1>6 DEF ReadRegistry, SupType, NoSup
  <1>7. ASSUME NEW p \in Pids, ReadStop(p) PROVE RowInv'
    BY <1>7 DEF ReadStop, SupType, NoSup
  <1>8. ASSUME NEW p \in Pids, ObeyStop(p) PROVE RowInv'
    BY <1>8 DEF ObeyStop, Leaving, SupType, NoSup
  <1>9. ASSUME NEW p \in Pids, IgnoreStop(p) PROVE RowInv'
    BY <1>9 DEF IgnoreStop, SupType, NoSup
  <1>10. ASSUME NEW p \in Pids, Release(p) PROVE RowInv'
    BY <1>10 DEF Release, Afterlife, HelperCalled, SupType, NoSup
  <1>11. ASSUME NEW p \in Pids, Exit(p) PROVE RowInv'
    BY <1>11 DEF Exit, SupType, NoSup
  <1>12. ASSUME NEW p \in Pids, Recycle(p) PROVE RowInv'
    BY <1>12 DEF Recycle, Leaving, SupType, NoSup
  <1>13. ASSUME NEW p \in Pids, Crash(p) PROVE RowInv'
    BY <1>13 DEF Crash, Die, SupType, NoSup
  <1>14. ASSUME NEW p \in Pids, NEW j \in Projects, Dispatch(p, j) PROVE RowInv'
    <2>1. \A q \in Pids : \A k \in sup'[q].jobs : k \in sup[q].jobs \/ k = j
      BY <1>14 DEF Dispatch, SupType
    <2>2. \A k \in Projects : row'[k] = IF k = j THEN "running" ELSE row[k]
      BY <1>14 DEF Dispatch
    <2>3. ASSUME NEW q \in Pids, NEW k \in sup'[q].jobs
          PROVE  row'[k] = "running" \/ (row'[k] = "pending" /\ k \in robbed)
      <3>1. k \in Projects
        BY <1>14, <2>1 DEF SupType
      <3>2. k = j \/ k \in sup[q].jobs
        BY <2>1
      <3>3. CASE k \in sup[q].jobs
        <4>1. row[k] = "running" \/ (row[k] = "pending" /\ k \in robbed)
          BY <3>3
        <4> QED
          BY <2>2, <3>1, <4>1
      <3> QED
        BY <2>2, <3>2, <3>3
    <2>4. robbed' = robbed
      BY <1>14 DEF Dispatch
    <2> QED
      BY <2>3, <2>4
  <1>15. ASSUME NEW p \in Pids, NEW j \in Projects, Opened(p, j) PROVE RowInv'
    BY <1>15 DEF Opened, LockInv, SlotInv, SupType
  <1>16. ASSUME NEW p \in Pids, NEW j \in Projects, JobEnds(p, j) PROVE RowInv'
    BY <1>16 DEF JobEnds, LockInv, SupType
  <1>17. ASSUME NEW j \in Projects, Hook(j) PROVE RowInv'
    BY <1>17 DEF Hook, Goto, SupType, NoSup
  <1>18. ASSUME NEW j \in Projects, EnrolLock(j) PROVE RowInv'
    BY <1>18 DEF EnrolLock, SupType, NoSup
  <1>19. ASSUME NEW j \in Projects, EnrolGiveUp(j) PROVE RowInv'
    BY <1>19 DEF EnrolGiveUp, Goto, SupType, NoSup
  <1>20. ASSUME NEW j \in Projects, EnrolSave(j) PROVE RowInv'
    <2>1. \A p \in Pids : /\ sup'[p].pc = sup[p].pc /\ sup'[p].jobs = sup[p].jobs
                         /\ sup'[p].opening = sup[p].opening
                         /\ sup'[p].slots = sup[p].slots
      BY <1>20 DEF EnrolSave, SupType
    <2> QED
      BY <1>20, <2>1 DEF EnrolSave
  <1>21. ASSUME NEW a \in Actors, ProbeTakes(a) PROVE RowInv'
    BY <1>21 DEF ProbeTakes, Goto, SupType, NoSup
  <1>22. ASSUME NEW a \in Actors, ProbeGivesBack(a) PROVE RowInv'
    BY <1>22 DEF ProbeGivesBack, Goto, SupType, NoSup
  <1>23. ASSUME NEW a \in Actors, ProbeMeetsHolder(a) PROVE RowInv'
    BY <1>23 DEF ProbeMeetsHolder, SupType, NoSup
  <1>24. ASSUME NEW a \in Actors, Spawn(a) PROVE RowInv'
    BY <1>24 DEF Spawn, SupType, NoSup
  <1>25. ASSUME NEW a \in Actors, NothingToDo(a) PROVE RowInv'
    BY <1>25 DEF NothingToDo, SupType, NoSup
  <1>26. ASSUME NEW a \in Actors, RequestStop(a) PROVE RowInv'
    BY <1>26 DEF RequestStop, Goto, SupType, NoSup
  <1>27. ASSUME NEW a \in Actors, SeenGone(a) PROVE RowInv'
    BY <1>27 DEF SeenGone, Goto, SupType, NoSup
  <1>28. ASSUME NEW a \in Actors, StopWaitedEnough(a) PROVE RowInv'
    BY <1>28 DEF StopWaitedEnough, SupType, NoSup
  <1>29. ASSUME NEW a \in Actors, HardKill(a) PROVE RowInv'
    BY <1>29 DEF HardKill, Die, Goto, SupType, NoSup
  <1>30. ASSUME NEW a \in Actors, RestartFindsNone(a) PROVE RowInv'
    BY <1>30 DEF RestartFindsNone, Goto, SupType, NoSup
  <1>31. ASSUME NEW a \in Actors, ClearRequest(a) PROVE RowInv'
    BY <1>31 DEF ClearRequest, SupType, NoSup
  <1>32. ASSUME NEW op \in {"stop", "restart"}, Command(op) PROVE RowInv'
    BY <1>32 DEF Command, SupType, NoSup
  <1>33. ASSUME UNCHANGED vars PROVE RowInv'
    BY <1>33 DEF vars, SupType, NoSup
  <1> QED
    BY <1>1, <1>2, <1>3, <1>4, <1>5, <1>6, <1>7, <1>8, <1>9, <1>10, <1>11,
       <1>12, <1>13, <1>14, <1>15, <1>16, <1>17, <1>18, <1>19, <1>20, <1>21,
       <1>22, <1>23, <1>24, <1>25, <1>26, <1>27, <1>28, <1>29, <1>30, <1>31,
       <1>32, <1>33 DEF Next, Loop, ReadList, Opener, Pool, Coming, Going,
       Enrol, Probe, Conclude, Restart

-----------------------------------------------------------------------------
(* The list of projects and the stop request. *)

\* Who changes the list has the lock on it, and its copy is the list.
EnrolInv ==
    \A j \in Projects :
        actor[j].pc = "enrolling" => regLock = j /\ actor[j].copy = list

LEMMA EnrolStep == TypeOK /\ EnrolInv /\ [Next]_vars => EnrolInv' /\ list \subseteq list'
  <1> SUFFICES ASSUME TypeOK, EnrolInv, [Next]_vars
               PROVE  EnrolInv' /\ list \subseteq list'
    OBVIOUS
  <1> USE LifecycleAssumption DEF EnrolInv, TypeOK, files, registry, work
  <1>1. ASSUME NEW p \in Pids, TakeLock(p) PROVE EnrolInv' /\ list \subseteq list'
    BY <1>1 DEF TakeLock, ActorType, Idle, Actors
  <1>2. ASSUME NEW p \in Pids, ClearLeftovers(p) PROVE EnrolInv' /\ list \subseteq list'
    BY <1>2 DEF ClearLeftovers, ActorType, Idle, Actors
  <1>3. ASSUME NEW p \in Pids, StampPid(p) PROVE EnrolInv' /\ list \subseteq list'
    BY <1>3 DEF StampPid, ActorType, Idle, Actors
  <1>4. ASSUME NEW p \in Pids, TurnedAway(p) PROVE EnrolInv' /\ list \subseteq list'
    BY <1>4 DEF TurnedAway, ActorType, Idle, Actors
  <1>5. ASSUME NEW p \in Pids, LookAtRegistry(p) PROVE EnrolInv' /\ list \subseteq list'
    BY <1>5 DEF LookAtRegistry, ActorType, Idle, Actors
  <1>6. ASSUME NEW p \in Pids, ReadRegistry(p) PROVE EnrolInv' /\ list \subseteq list'
    BY <1>6 DEF ReadRegistry, ActorType, Idle, Actors
  <1>7. ASSUME NEW p \in Pids, ReadStop(p) PROVE EnrolInv' /\ list \subseteq list'
    BY <1>7 DEF ReadStop, ActorType, Idle, Actors
  <1>8. ASSUME NEW p \in Pids, ObeyStop(p) PROVE EnrolInv' /\ list \subseteq list'
    BY <1>8 DEF ObeyStop, Leaving, ActorType, Idle, Actors
  <1>9. ASSUME NEW p \in Pids, IgnoreStop(p) PROVE EnrolInv' /\ list \subseteq list'
    BY <1>9 DEF IgnoreStop, ActorType, Idle, Actors
  <1>10. ASSUME NEW p \in Pids, Release(p) PROVE EnrolInv' /\ list \subseteq list'
    BY <1>10 DEF Release, Afterlife, HelperCalled, ActorType, Idle, Actors
  <1>11. ASSUME NEW p \in Pids, Exit(p) PROVE EnrolInv' /\ list \subseteq list'
    BY <1>11 DEF Exit, ActorType, Idle, Actors
  <1>12. ASSUME NEW p \in Pids, Recycle(p) PROVE EnrolInv' /\ list \subseteq list'
    BY <1>12 DEF Recycle, Leaving, ActorType, Idle, Actors
  <1>13. ASSUME NEW p \in Pids, Crash(p) PROVE EnrolInv' /\ list \subseteq list'
    BY <1>13 DEF Crash, Die, ActorType, Idle, Actors
  <1>14. ASSUME NEW p \in Pids, NEW j \in Projects, Dispatch(p, j) PROVE EnrolInv' /\ list \subseteq list'
    BY <1>14 DEF Dispatch, ActorType, Idle, Actors
  <1>15. ASSUME NEW p \in Pids, NEW j \in Projects, Opened(p, j) PROVE EnrolInv' /\ list \subseteq list'
    BY <1>15 DEF Opened, ActorType, Idle, Actors
  <1>16. ASSUME NEW p \in Pids, NEW j \in Projects, JobEnds(p, j) PROVE EnrolInv' /\ list \subseteq list'
    BY <1>16 DEF JobEnds, ActorType, Idle, Actors
  <1>17. ASSUME NEW j \in Projects, Hook(j) PROVE EnrolInv' /\ list \subseteq list'
    BY <1>17 DEF Hook, Goto, ActorType, Idle, Actors
  <1>18. ASSUME NEW j \in Projects, EnrolLock(j) PROVE EnrolInv' /\ list \subseteq list'
    BY <1>18 DEF EnrolLock, ActorType, Idle, Actors
  <1>19. ASSUME NEW j \in Projects, EnrolGiveUp(j) PROVE EnrolInv' /\ list \subseteq list'
    BY <1>19 DEF EnrolGiveUp, Goto, ActorType, Idle, Actors
  <1>20. ASSUME NEW j \in Projects, EnrolSave(j) PROVE EnrolInv' /\ list \subseteq list'
    BY <1>20 DEF EnrolSave, ActorType, Idle, Actors
  <1>21. ASSUME NEW a \in Actors, ProbeTakes(a) PROVE EnrolInv' /\ list \subseteq list'
    BY <1>21 DEF ProbeTakes, Goto, ActorType, Idle, Actors
  <1>22. ASSUME NEW a \in Actors, ProbeGivesBack(a) PROVE EnrolInv' /\ list \subseteq list'
    BY <1>22 DEF ProbeGivesBack, Goto, ActorType, Idle, Actors
  <1>23. ASSUME NEW a \in Actors, ProbeMeetsHolder(a) PROVE EnrolInv' /\ list \subseteq list'
    BY <1>23 DEF ProbeMeetsHolder, ActorType, Idle, Actors
  <1>24. ASSUME NEW a \in Actors, Spawn(a) PROVE EnrolInv' /\ list \subseteq list'
    BY <1>24 DEF Spawn, ActorType, Idle, Actors
  <1>25. ASSUME NEW a \in Actors, NothingToDo(a) PROVE EnrolInv' /\ list \subseteq list'
    BY <1>25 DEF NothingToDo, ActorType, Idle, Actors
  <1>26. ASSUME NEW a \in Actors, RequestStop(a) PROVE EnrolInv' /\ list \subseteq list'
    BY <1>26 DEF RequestStop, Goto, ActorType, Idle, Actors
  <1>27. ASSUME NEW a \in Actors, SeenGone(a) PROVE EnrolInv' /\ list \subseteq list'
    BY <1>27 DEF SeenGone, Goto, ActorType, Idle, Actors
  <1>28. ASSUME NEW a \in Actors, StopWaitedEnough(a) PROVE EnrolInv' /\ list \subseteq list'
    BY <1>28 DEF StopWaitedEnough, ActorType, Idle, Actors
  <1>29. ASSUME NEW a \in Actors, HardKill(a) PROVE EnrolInv' /\ list \subseteq list'
    BY <1>29 DEF HardKill, Die, Goto, ActorType, Idle, Actors
  <1>30. ASSUME NEW a \in Actors, RestartFindsNone(a) PROVE EnrolInv' /\ list \subseteq list'
    BY <1>30 DEF RestartFindsNone, Goto, ActorType, Idle, Actors
  <1>31. ASSUME NEW a \in Actors, ClearRequest(a) PROVE EnrolInv' /\ list \subseteq list'
    BY <1>31 DEF ClearRequest, ActorType, Idle, Actors
  <1>32. ASSUME NEW op \in {"stop", "restart"}, Command(op) PROVE EnrolInv' /\ list \subseteq list'
    BY <1>32 DEF Command, ActorType, Idle, Actors
  <1>33. ASSUME UNCHANGED vars PROVE EnrolInv' /\ list \subseteq list'
    BY <1>33 DEF vars, ActorType, Idle, Actors
  <1> QED
    BY <1>1, <1>2, <1>3, <1>4, <1>5, <1>6, <1>7, <1>8, <1>9, <1>10, <1>11,
       <1>12, <1>13, <1>14, <1>15, <1>16, <1>17, <1>18, <1>19, <1>20, <1>21,
       <1>22, <1>23, <1>24, <1>25, <1>26, <1>27, <1>28, <1>29, <1>30, <1>31,
       <1>32, <1>33 DEF Next, Loop, ReadList, Opener, Pool, Coming, Going,
       Enrol, Probe, Conclude, Restart

\* What a supervisor finds after ClearLeftovers was written after it.
AgedInv ==
    \A p \in Pids : sup[p].pc \in {"cleared", "loop", "asking", "drain"} => ~aged

LEMMA AgedStep ==
    TypeOK /\ LockInv /\ AgedInv /\ [Next]_vars => AgedInv'
  <1> SUFFICES ASSUME TypeOK, LockInv, AgedInv, [Next]_vars
               PROVE  AgedInv'
    OBVIOUS
  <1> USE LifecycleAssumption DEF AgedInv, TypeOK, files, registry, work
  <1>1. ASSUME NEW p \in Pids, TakeLock(p) PROVE AgedInv'
    BY <1>1 DEF TakeLock, SupType, NoSup, LockInv, Holding
  <1>2. ASSUME NEW p \in Pids, ClearLeftovers(p) PROVE AgedInv'
    BY <1>2 DEF ClearLeftovers, SupType, NoSup, LockInv, Holding
  <1>3. ASSUME NEW p \in Pids, StampPid(p) PROVE AgedInv'
    BY <1>3 DEF StampPid, SupType, NoSup, LockInv, Holding
  <1>4. ASSUME NEW p \in Pids, TurnedAway(p) PROVE AgedInv'
    BY <1>4 DEF TurnedAway, SupType, NoSup, LockInv, Holding
  <1>5. ASSUME NEW p \in Pids, LookAtRegistry(p) PROVE AgedInv'
    BY <1>5 DEF LookAtRegistry, SupType, NoSup, LockInv, Holding
  <1>6. ASSUME NEW p \in Pids, ReadRegistry(p) PROVE AgedInv'
    BY <1>6 DEF ReadRegistry, SupType, NoSup, LockInv, Holding
  <1>7. ASSUME NEW p \in Pids, ReadStop(p) PROVE AgedInv'
    BY <1>7 DEF ReadStop, SupType, NoSup, LockInv, Holding
  <1>8. ASSUME NEW p \in Pids, ObeyStop(p) PROVE AgedInv'
    BY <1>8 DEF ObeyStop, Leaving, SupType, NoSup, LockInv, Holding
  <1>9. ASSUME NEW p \in Pids, IgnoreStop(p) PROVE AgedInv'
    BY <1>9 DEF IgnoreStop, SupType, NoSup, LockInv, Holding
  <1>10. ASSUME NEW p \in Pids, Release(p) PROVE AgedInv'
    BY <1>10 DEF Release, Afterlife, HelperCalled, SupType, NoSup, LockInv, Holding
  <1>11. ASSUME NEW p \in Pids, Exit(p) PROVE AgedInv'
    BY <1>11 DEF Exit, SupType, NoSup, LockInv, Holding
  <1>12. ASSUME NEW p \in Pids, Recycle(p) PROVE AgedInv'
    BY <1>12 DEF Recycle, Leaving, SupType, NoSup, LockInv, Holding
  <1>13. ASSUME NEW p \in Pids, Crash(p) PROVE AgedInv'
    BY <1>13 DEF Crash, Die, SupType, NoSup, LockInv, Holding
  <1>14. ASSUME NEW p \in Pids, NEW j \in Projects, Dispatch(p, j) PROVE AgedInv'
    BY <1>14 DEF Dispatch, SupType, NoSup, LockInv, Holding
  <1>15. ASSUME NEW p \in Pids, NEW j \in Projects, Opened(p, j) PROVE AgedInv'
    BY <1>15 DEF Opened, SupType, NoSup, LockInv, Holding
  <1>16. ASSUME NEW p \in Pids, NEW j \in Projects, JobEnds(p, j) PROVE AgedInv'
    BY <1>16 DEF JobEnds, SupType, NoSup, LockInv, Holding
  <1>17. ASSUME NEW j \in Projects, Hook(j) PROVE AgedInv'
    BY <1>17 DEF Hook, Goto, SupType, NoSup, LockInv, Holding
  <1>18. ASSUME NEW j \in Projects, EnrolLock(j) PROVE AgedInv'
    BY <1>18 DEF EnrolLock, SupType, NoSup, LockInv, Holding
  <1>19. ASSUME NEW j \in Projects, EnrolGiveUp(j) PROVE AgedInv'
    BY <1>19 DEF EnrolGiveUp, Goto, SupType, NoSup, LockInv, Holding
  <1>20. ASSUME NEW j \in Projects, EnrolSave(j) PROVE AgedInv'
    <2>1. \A p \in Pids : /\ sup'[p].pc = sup[p].pc /\ sup'[p].jobs = sup[p].jobs
                         /\ sup'[p].opening = sup[p].opening
                         /\ sup'[p].slots = sup[p].slots
      BY <1>20 DEF EnrolSave, SupType
    <2> QED
      BY <1>20, <2>1 DEF EnrolSave
  <1>21. ASSUME NEW a \in Actors, ProbeTakes(a) PROVE AgedInv'
    BY <1>21 DEF ProbeTakes, Goto, SupType, NoSup, LockInv, Holding
  <1>22. ASSUME NEW a \in Actors, ProbeGivesBack(a) PROVE AgedInv'
    BY <1>22 DEF ProbeGivesBack, Goto, SupType, NoSup, LockInv, Holding
  <1>23. ASSUME NEW a \in Actors, ProbeMeetsHolder(a) PROVE AgedInv'
    BY <1>23 DEF ProbeMeetsHolder, SupType, NoSup, LockInv, Holding
  <1>24. ASSUME NEW a \in Actors, Spawn(a) PROVE AgedInv'
    BY <1>24 DEF Spawn, SupType, NoSup, LockInv, Holding
  <1>25. ASSUME NEW a \in Actors, NothingToDo(a) PROVE AgedInv'
    BY <1>25 DEF NothingToDo, SupType, NoSup, LockInv, Holding
  <1>26. ASSUME NEW a \in Actors, RequestStop(a) PROVE AgedInv'
    BY <1>26 DEF RequestStop, Goto, SupType, NoSup, LockInv, Holding
  <1>27. ASSUME NEW a \in Actors, SeenGone(a) PROVE AgedInv'
    BY <1>27 DEF SeenGone, Goto, SupType, NoSup, LockInv, Holding
  <1>28. ASSUME NEW a \in Actors, StopWaitedEnough(a) PROVE AgedInv'
    BY <1>28 DEF StopWaitedEnough, SupType, NoSup, LockInv, Holding
  <1>29. ASSUME NEW a \in Actors, HardKill(a) PROVE AgedInv'
    BY <1>29 DEF HardKill, Die, Goto, SupType, NoSup, LockInv, Holding
  <1>30. ASSUME NEW a \in Actors, RestartFindsNone(a) PROVE AgedInv'
    BY <1>30 DEF RestartFindsNone, Goto, SupType, NoSup, LockInv, Holding
  <1>31. ASSUME NEW a \in Actors, ClearRequest(a) PROVE AgedInv'
    BY <1>31 DEF ClearRequest, SupType, NoSup, LockInv, Holding
  <1>32. ASSUME NEW op \in {"stop", "restart"}, Command(op) PROVE AgedInv'
    BY <1>32 DEF Command, SupType, NoSup, LockInv, Holding
  <1>33. ASSUME UNCHANGED vars PROVE AgedInv'
    BY <1>33 DEF vars, SupType, NoSup, LockInv, Holding
  <1> QED
    BY <1>1, <1>2, <1>3, <1>4, <1>5, <1>6, <1>7, <1>8, <1>9, <1>10, <1>11,
       <1>12, <1>13, <1>14, <1>15, <1>16, <1>17, <1>18, <1>19, <1>20, <1>21,
       <1>22, <1>23, <1>24, <1>25, <1>26, <1>27, <1>28, <1>29, <1>30, <1>31,
       <1>32, <1>33 DEF Next, Loop, ReadList, Opener, Pool, Coming, Going,
       Enrol, Probe, Conclude, Restart

LEMMA StayStep ==
    ASSUME TypeOK, LockInv, [Next]_vars, NEW s \in Pids
    PROVE  StopStays(s)
  <1> USE LifecycleAssumption DEF StopStays, Addressable, Serving, TypeOK, files, registry, work
  <1>1. ASSUME NEW p \in Pids, TakeLock(p) PROVE StopStays(s)
    BY <1>1 DEF TakeLock
  <1>2. ASSUME NEW p \in Pids, ClearLeftovers(p) PROVE StopStays(s)
    BY <1>2 DEF ClearLeftovers, LockInv, Holding
  <1>3. ASSUME NEW p \in Pids, StampPid(p) PROVE StopStays(s)
    BY <1>3 DEF StampPid
  <1>4. ASSUME NEW p \in Pids, TurnedAway(p) PROVE StopStays(s)
    BY <1>4 DEF TurnedAway
  <1>5. ASSUME NEW p \in Pids, LookAtRegistry(p) PROVE StopStays(s)
    BY <1>5 DEF LookAtRegistry
  <1>6. ASSUME NEW p \in Pids, ReadRegistry(p) PROVE StopStays(s)
    BY <1>6 DEF ReadRegistry
  <1>7. ASSUME NEW p \in Pids, ReadStop(p) PROVE StopStays(s)
    BY <1>7 DEF ReadStop
  <1>8. ASSUME NEW p \in Pids, ObeyStop(p) PROVE StopStays(s)
    BY <1>8 DEF ObeyStop, Leaving, LockInv, Holding, SupType
  <1>9. ASSUME NEW p \in Pids, IgnoreStop(p) PROVE StopStays(s)
    BY <1>9 DEF IgnoreStop, LockInv, Holding, Alive
  <1>10. ASSUME NEW p \in Pids, Release(p) PROVE StopStays(s)
    BY <1>10 DEF Release, Afterlife, HelperCalled
  <1>11. ASSUME NEW p \in Pids, Exit(p) PROVE StopStays(s)
    BY <1>11 DEF Exit
  <1>12. ASSUME NEW p \in Pids, Recycle(p) PROVE StopStays(s)
    BY <1>12 DEF Recycle, Leaving
  <1>13. ASSUME NEW p \in Pids, Crash(p) PROVE StopStays(s)
    BY <1>13 DEF Crash, Die
  <1>14. ASSUME NEW p \in Pids, NEW j \in Projects, Dispatch(p, j) PROVE StopStays(s)
    BY <1>14 DEF Dispatch
  <1>15. ASSUME NEW p \in Pids, NEW j \in Projects, Opened(p, j) PROVE StopStays(s)
    BY <1>15 DEF Opened
  <1>16. ASSUME NEW p \in Pids, NEW j \in Projects, JobEnds(p, j) PROVE StopStays(s)
    BY <1>16 DEF JobEnds
  <1>17. ASSUME NEW j \in Projects, Hook(j) PROVE StopStays(s)
    BY <1>17 DEF Hook, Goto
  <1>18. ASSUME NEW j \in Projects, EnrolLock(j) PROVE StopStays(s)
    BY <1>18 DEF EnrolLock
  <1>19. ASSUME NEW j \in Projects, EnrolGiveUp(j) PROVE StopStays(s)
    BY <1>19 DEF EnrolGiveUp, Goto
  <1>20. ASSUME NEW j \in Projects, EnrolSave(j) PROVE StopStays(s)
    BY <1>20 DEF EnrolSave
  <1>21. ASSUME NEW a \in Actors, ProbeTakes(a) PROVE StopStays(s)
    BY <1>21 DEF ProbeTakes, Goto
  <1>22. ASSUME NEW a \in Actors, ProbeGivesBack(a) PROVE StopStays(s)
    BY <1>22 DEF ProbeGivesBack, Goto
  <1>23. ASSUME NEW a \in Actors, ProbeMeetsHolder(a) PROVE StopStays(s)
    BY <1>23 DEF ProbeMeetsHolder
  <1>24. ASSUME NEW a \in Actors, Spawn(a) PROVE StopStays(s)
    BY <1>24 DEF Spawn
  <1>25. ASSUME NEW a \in Actors, NothingToDo(a) PROVE StopStays(s)
    BY <1>25 DEF NothingToDo
  <1>26. ASSUME NEW a \in Actors, RequestStop(a) PROVE StopStays(s)
    BY <1>26 DEF RequestStop, Goto, ActorType
  <1>27. ASSUME NEW a \in Actors, SeenGone(a) PROVE StopStays(s)
    BY <1>27 DEF SeenGone, Goto
  <1>28. ASSUME NEW a \in Actors, StopWaitedEnough(a) PROVE StopStays(s)
    BY <1>28 DEF StopWaitedEnough
  <1>29. ASSUME NEW a \in Actors, HardKill(a) PROVE StopStays(s)
    BY <1>29 DEF HardKill, Die, Goto
  <1>30. ASSUME NEW a \in Actors, RestartFindsNone(a) PROVE StopStays(s)
    BY <1>30 DEF RestartFindsNone, Goto
  <1>31. ASSUME NEW a \in Actors, ClearRequest(a) PROVE StopStays(s)
    BY <1>31 DEF ClearRequest, Idle, ActorType
  <1>32. ASSUME NEW op \in {"stop", "restart"}, Command(op) PROVE StopStays(s)
    BY <1>32 DEF Command
  <1>33. ASSUME UNCHANGED vars PROVE StopStays(s)
    BY <1>33 DEF vars
  <1> QED
    BY <1>1, <1>2, <1>3, <1>4, <1>5, <1>6, <1>7, <1>8, <1>9, <1>10, <1>11,
       <1>12, <1>13, <1>14, <1>15, <1>16, <1>17, <1>18, <1>19, <1>20, <1>21,
       <1>22, <1>23, <1>24, <1>25, <1>26, <1>27, <1>28, <1>29, <1>30, <1>31,
       <1>32, <1>33 DEF Next, Loop, ReadList, Opener, Pool, Coming, Going,
       Enrol, Probe, Conclude, Restart

-----------------------------------------------------------------------------
(* The invariant, and the properties. *)

IInv == TypeOK /\ LockInv /\ SlotInv /\ RowInv /\ EnrolInv /\ AgedInv

LEMMA InitIInv == Init => IInv
  <1> SUFFICES ASSUME Init PROVE IInv
    OBVIOUS
  <1> USE LifecycleAssumption DEF Init
  <1>1. TypeOK
    <2>1. NoSup \in SupType
      BY DEF NoSup, SupType, SupSteps
    <2>2. Idle \in ActorType
      BY DEF Idle, ActorType, ActorSteps
    <2> QED
      BY <2>1, <2>2 DEF TypeOK
  <1>2. LockInv /\ SlotInv /\ RowInv
    BY DEF LockInv, Holding, SlotInv, RowInv, NoSup, Idle
  <1>3. EnrolInv /\ AgedInv
    BY DEF EnrolInv, AgedInv, Idle, NoSup, Actors
  <1> QED
    BY <1>1, <1>2, <1>3 DEF IInv

LEMMA Inductive == IInv /\ [Next]_vars => IInv'
  BY TypeStep, LockStep, SlotStep, RowStep, EnrolStep, AgedStep DEF IInv

LEMMA Invariance == Spec => []IInv
  BY InitIInv, Inductive, PTL DEF Spec

\* Every reachable state of the supervisors, the commands and their files is
\* well typed (rtfm/core/supervisor.py, rtfm/cli_worker.py).
THEOREM TypeCorrect == Spec => []TypeOK
  <1>1. IInv => TypeOK
    BY DEF IInv
  <1> QED
    BY <1>1, Invariance, PTL

\* A job in flight keeps its running row through stops, kills, restarts and
\* boots, unless an open that outlived its supervisor took it (_Slot.open).
THEOREM LiveJobsKept == Spec => []LiveJobsKeepRows
  <1>1. IInv => LiveJobsKeepRows
    BY DEF IInv, RowInv, LiveJobsKeepRows
  <1> QED
    BY <1>1, Invariance, PTL

\* No enrolment undoes another, however many overlap (registry.lock).
THEOREM EnrolmentsSurvive == Spec => NoEnrolmentLost
  <1>1. IInv /\ [Next]_vars => [list \subseteq list']_vars
    BY EnrolStep DEF IInv
  <1> QED
    BY <1>1, Invariance, PTL DEF Spec, NoEnrolmentLost

\* A stop request is obeyed by the supervisor it was made for and no other,
\* and stays until it is, but for the exceptions the property names
\* (stop_requested, clear_stop_request).
THEOREM StopsReach == Spec => StopReachesItsTarget
  <1>1. ASSUME IInv, [Next]_vars, NEW p \in Pids
        PROVE  (ObeyStop(p) => ~aged) /\ StopStays(p)
    <2>1. ObeyStop(p) => ~aged
      BY <1>1 DEF IInv, AgedInv, ObeyStop
    <2> QED
      BY <1>1, <2>1, StayStep DEF IInv
  <1>2. IInv /\ [Next]_vars
            => [\A p \in Pids : (ObeyStop(p) => ~aged) /\ StopStays(p)]_vars
    BY <1>1
  <1> QED
    BY <1>2, Invariance, PTL DEF Spec, StopReachesItsTarget
-----------------------------------------------------------------------------
(* The refinement of SingleIndexer. *)

\* The refinement mapping, and what leaves its value alone.
Indexer == IF lock \in Pids THEN lock ELSE Nobody
State == [j \in Projects |-> StateOf(j)]
Unseen ==
    /\ Indexer' = Indexer /\ row' = row
    /\ \A q \in Pids : sup'[q].jobs = sup[q].jobs

AbstractStep == Abstract!Next \/ UNCHANGED <<Indexer, State>>

LEMMA Hands ==
    ASSUME TypeOK, LockInv
    PROVE  /\ Indexer \in Pids => InHand = sup[Indexer].jobs
           /\ Indexer \notin Pids => InHand = {}
           /\ Indexer # Nobody => Indexer \in Pids
           /\ State \in [Projects -> {"waiting", "inHand", "stranded", "done"}]
           /\ \A j \in Projects : State[j] = "inHand" <=> j \in InHand
  <1>1. \A p \in Pids : sup[p].jobs # {} => lock = p
    BY DEF LockInv
  <1>2. \A p \in Pids : Indexer = p <=> lock = p
    BY LifecycleAssumption DEF Indexer
  <1>3. \A j \in Projects : row[j] \in {"pending", "running", "done"}
    BY DEF TypeOK
  <1>4. \A j \in Projects : StateOf(j) \in {"waiting", "inHand", "stranded", "done"}
    BY <1>3 DEF StateOf
  <1>5. \A j \in Projects : StateOf(j) = "inHand" <=> j \in InHand
    BY <1>3 DEF StateOf
  <1> QED
    BY <1>1, <1>2, <1>4, <1>5, LifecycleAssumption DEF InHand, State, Indexer

LEMMA UnseenStutters == Unseen => UNCHANGED <<Indexer, State>>
  <1> SUFFICES ASSUME Unseen PROVE UNCHANGED <<Indexer, State>>
    OBVIOUS
  <1>1. InHand' = InHand
    BY DEF Unseen, InHand
  <1>2. ASSUME NEW j \in Projects PROVE StateOf(j)' = StateOf(j)
    BY <1>1 DEF Unseen, StateOf
  <1> QED
    BY <1>2 DEF Unseen, State

\* The process with the jobs in hand dies, or one that has none does.
LEMMA DeathRefines ==
    ASSUME TypeOK, LockInv, RowInv, NEW p \in Pids, Die(p), row' = row
    PROVE  AbstractStep
  <1>1. CASE lock # p
    <2>1. sup[p].jobs = {}
      BY <1>1 DEF LockInv
    <2>2. Unseen
      BY <1>1, <2>1 DEF Die, NoSup, Unseen, TypeOK, Indexer
    <2> QED
      BY <2>2, UnseenStutters DEF AbstractStep
  <1>2. CASE lock = p
    <2>1. Indexer' = Nobody
      BY <1>2, LifecycleAssumption DEF Die, Indexer
    <2>2. \A q \in Pids : sup'[q].jobs = {}
      BY <1>2 DEF Die, NoSup, TypeOK, LockInv
    <2>3. InHand' = {}
      BY <2>2 DEF InHand
    <2>4. ASSUME NEW j \in Projects
          PROVE  /\ State'[j] \in {"waiting", "inHand", "stranded", "done"}
                 /\ IF State[j] = "inHand" THEN State'[j] \in {"stranded", "waiting"}
                    ELSE State'[j] = State[j]
      <3>1. row[j] \in {"pending", "running", "done"} /\ row'[j] = row[j]
        BY DEF TypeOK
      <3>2. State[j] = StateOf(j) /\ State'[j] = StateOf(j)'
        BY DEF State
      <3>3. CASE j \notin InHand
        BY <2>3, <3>1, <3>2, <3>3 DEF StateOf
      <3>4. CASE j \in InHand
        <4>1. row[j] # "done"
          BY <3>4 DEF InHand, RowInv
        <4> QED
          BY <2>3, <3>1, <3>2, <3>4, <4>1 DEF StateOf
      <3> QED
        BY <3>3, <3>4
    <2>5. State' \in [Projects -> Abstract!States]
      BY <2>4 DEF State, Abstract!States
    <2>6. Abstract!Die
      BY <2>1, <2>4, <2>5 DEF Abstract!Die, State, Indexer
    <2> QED
      BY <2>6 DEF AbstractStep, Abstract!Next, Abstract!Next, Abstract!Die, Abstract!States
  <1> QED
    BY <1>1, <1>2

LEMMA RefinementStep ==
    ASSUME TypeOK, LockInv, RowInv, [Next]_vars
    PROVE  AbstractStep
  <1> USE LifecycleAssumption DEF files, registry, work
  <1>1. ASSUME NEW p \in Pids, TakeLock(p) PROVE AbstractStep
    <2>1. \A q \in Pids : sup'[q].jobs = sup[q].jobs
      BY <1>1 DEF TakeLock, TypeOK, SupType
    <2>2. InHand' = InHand
      BY <2>1 DEF InHand
    <2>3. State' = State
      BY <1>1, <2>2 DEF TakeLock, State, StateOf
    <2>4. Abstract!TakeOver(p)
      BY <1>1, <2>3 DEF TakeLock, Abstract!TakeOver, Indexer, State
    <2> QED
      BY <2>4 DEF AbstractStep, Abstract!Next
  <1>2. ASSUME NEW p \in Pids, ClearLeftovers(p) PROVE AbstractStep
    <2>1. Unseen
      BY <1>2 DEF ClearLeftovers, Unseen, Indexer, TypeOK, SupType, NoSup, LockInv, Holding
    <2> QED
      BY <2>1, UnseenStutters DEF AbstractStep
  <1>3. ASSUME NEW p \in Pids, StampPid(p) PROVE AbstractStep
    <2>1. Unseen
      BY <1>3 DEF StampPid, Unseen, Indexer, TypeOK, SupType, NoSup, LockInv, Holding
    <2> QED
      BY <2>1, UnseenStutters DEF AbstractStep
  <1>4. ASSUME NEW p \in Pids, TurnedAway(p) PROVE AbstractStep
    <2>1. Unseen
      BY <1>4 DEF TurnedAway, Unseen, Indexer, TypeOK, SupType, NoSup, LockInv, Holding
    <2> QED
      BY <2>1, UnseenStutters DEF AbstractStep
  <1>5. ASSUME NEW p \in Pids, LookAtRegistry(p) PROVE AbstractStep
    <2>1. Unseen
      BY <1>5 DEF LookAtRegistry, Unseen, Indexer, TypeOK, SupType, NoSup, LockInv, Holding
    <2> QED
      BY <2>1, UnseenStutters DEF AbstractStep
  <1>6. ASSUME NEW p \in Pids, ReadRegistry(p) PROVE AbstractStep
    <2>1. Unseen
      BY <1>6 DEF ReadRegistry, Unseen, Indexer, TypeOK, SupType, NoSup, LockInv, Holding
    <2> QED
      BY <2>1, UnseenStutters DEF AbstractStep
  <1>7. ASSUME NEW p \in Pids, ReadStop(p) PROVE AbstractStep
    <2>1. Unseen
      BY <1>7 DEF ReadStop, Unseen, Indexer, TypeOK, SupType, NoSup, LockInv, Holding
    <2> QED
      BY <2>1, UnseenStutters DEF AbstractStep
  <1>8. ASSUME NEW p \in Pids, ObeyStop(p) PROVE AbstractStep
    <2>1. Unseen
      BY <1>8 DEF ObeyStop, Leaving, Unseen, Indexer, TypeOK, SupType, NoSup, LockInv, Holding
    <2> QED
      BY <2>1, UnseenStutters DEF AbstractStep
  <1>9. ASSUME NEW p \in Pids, IgnoreStop(p) PROVE AbstractStep
    <2>1. Unseen
      BY <1>9 DEF IgnoreStop, Unseen, Indexer, TypeOK, SupType, NoSup, LockInv, Holding
    <2> QED
      BY <2>1, UnseenStutters DEF AbstractStep
  <1>10. ASSUME NEW p \in Pids, Release(p) PROVE AbstractStep
    <2>1. lock = p
      BY <1>10 DEF Release, LockInv, Holding
    <2>2. \A q \in Pids : sup'[q].jobs = sup[q].jobs /\ sup[q].jobs = {}
      BY <1>10, <2>1 DEF Release, Afterlife, NoSup, TypeOK, SupType, LockInv
    <2>3. InHand' = {} /\ InHand = {}
      BY <2>2 DEF InHand
    <2>4. State' = State /\ \A j \in Projects : State[j] # "inHand"
      BY <1>10, <2>3, Hands DEF Release, State, StateOf
    <2>5. Abstract!StandDown
      BY <1>10, <2>4 DEF Release, Abstract!StandDown, Indexer, State
    <2> QED
      BY <2>5 DEF AbstractStep, Abstract!Next
  <1>11. ASSUME NEW p \in Pids, Exit(p) PROVE AbstractStep
    <2>1. Unseen
      BY <1>11 DEF Exit, Unseen, Indexer, TypeOK, SupType, NoSup, LockInv, Holding
    <2> QED
      BY <2>1, UnseenStutters DEF AbstractStep
  <1>12. ASSUME NEW p \in Pids, Recycle(p) PROVE AbstractStep
    <2>1. Unseen
      BY <1>12 DEF Recycle, Leaving, Unseen, Indexer, TypeOK, SupType, NoSup, LockInv, Holding
    <2> QED
      BY <2>1, UnseenStutters DEF AbstractStep
  <1>13. ASSUME NEW p \in Pids, Crash(p) PROVE AbstractStep
    BY <1>13, DeathRefines DEF Crash
  <1>14. ASSUME NEW p \in Pids, NEW j \in Projects, Dispatch(p, j) PROVE AbstractStep
    <2>1. lock = p /\ Indexer = p /\ Indexer' = p
      BY <1>14 DEF Dispatch, LockInv, Holding, Indexer
    <2>2. \A q \in Pids : sup'[q].jobs = IF q = p THEN sup[q].jobs \cup {j} ELSE sup[q].jobs
      BY <1>14 DEF Dispatch, TypeOK, SupType
    <2>3. InHand' = InHand \cup {j}
      BY <2>2 DEF InHand
    <2>4. /\ row[j] = "pending"
          /\ \A k \in Projects \ {j} : /\ row'[k] = row[k]
                                       /\ row[k] \in {"pending", "running", "done"}
      BY <1>14 DEF Dispatch, TypeOK
    <2>5. \A k \in Projects \ {j} : StateOf(k)' = StateOf(k)
      BY <2>3, <2>4 DEF StateOf
    <2>6. StateOf(j)' = "inHand" /\ StateOf(j) \in {"waiting", "inHand"}
      BY <2>3, <2>4 DEF StateOf
    <2>7. State' = [State EXCEPT ![j] = "inHand"]
      BY <2>5, <2>6 DEF State
    <2>8. CASE State[j] = "inHand"
      BY <2>1, <2>7, <2>8, Hands DEF AbstractStep, State
    <2>9. CASE State[j] = "waiting"
      <3>1. Abstract!Begin(j)
        BY <2>1, <2>7, <2>9 DEF Abstract!Begin, Abstract!Becomes, Indexer, State
      <3> QED
        BY <3>1 DEF AbstractStep, Abstract!Next
    <2> QED
      BY <2>6, <2>8, <2>9 DEF State
  <1>15. ASSUME NEW p \in Pids, NEW j \in Projects, Opened(p, j) PROVE AbstractStep
    <2>1. \A q \in Pids : sup'[q].jobs = sup[q].jobs
      BY <1>15 DEF Opened, TypeOK, SupType
    <2>2. InHand' = InHand
      BY <2>1 DEF InHand
    <2>3. Indexer' = Indexer
      BY <1>15 DEF Opened, Indexer
    <2>4. CASE row[j] = "running" /\ j \notin InHand
      <3>1. row'[j] = "pending" /\ \A k \in Projects \ {j} : row'[k] = row[k]
        BY <1>15, <2>4 DEF Opened, TypeOK
      <3>2. \A k \in Projects \ {j} : StateOf(k)' = StateOf(k)
        BY <2>2, <3>1 DEF StateOf
      <3>3. StateOf(j) = "stranded" /\ StateOf(j)' = "waiting"
        BY <2>2, <2>4, <3>1 DEF StateOf
      <3>4. Abstract!TakeBack(j)
        BY <2>3, <3>2, <3>3 DEF State, Abstract!TakeBack, Abstract!Becomes, Indexer
      <3> QED
        BY <3>4 DEF AbstractStep, Abstract!Next
    <2>5. CASE row[j] # "running" \/ j \in InHand
      <3>1. \A k \in Projects : k \in InHand \/ row'[k] = row[k]
        BY <1>15, <2>5 DEF Opened, TypeOK
      <3>2. \A k \in Projects : StateOf(k)' = StateOf(k)
        BY <2>2, <3>1 DEF StateOf
      <3> QED
        BY <2>3, <3>2 DEF AbstractStep, State
    <2> QED
      BY <2>4, <2>5
  <1>16. ASSUME NEW p \in Pids, NEW j \in Projects, JobEnds(p, j) PROVE AbstractStep
    <2>1. lock = p /\ Indexer = p /\ Indexer' = p
      BY <1>16 DEF JobEnds, LockInv, Holding, Indexer
    <2>2. \A q \in Pids \ {p} : sup[q].jobs = {} /\ sup'[q].jobs = {}
      BY <1>16, <2>1 DEF JobEnds, LockInv, TypeOK
    <2>3. sup'[p].jobs = sup[p].jobs \ {j}
      BY <1>16 DEF JobEnds, TypeOK, SupType
    <2>4. InHand = sup[p].jobs /\ InHand' = sup[p].jobs \ {j}
      BY <2>2, <2>3 DEF InHand
    <2>5. /\ j \in InHand /\ row'[j] = "done"
          /\ \A k \in Projects \ {j} : /\ row'[k] = row[k]
                                       /\ row[k] \in {"pending", "running", "done"}
      BY <1>16, <2>4 DEF JobEnds, TypeOK
    <2>6. \A k \in Projects \ {j} : StateOf(k)' = StateOf(k)
      BY <2>4, <2>5 DEF StateOf
    <2>7. StateOf(j)' = "done" /\ StateOf(j) = "inHand"
      BY <2>4, <2>5 DEF StateOf
    <2>8. State[j] = "inHand" /\ State' = [State EXCEPT ![j] = "done"]
      BY <2>6, <2>7 DEF State
    <2>9. Abstract!End(j)
      BY <2>1, <2>8 DEF Abstract!End, Abstract!Becomes, Indexer, State
    <2> QED
      BY <2>9 DEF AbstractStep, Abstract!Next
  <1>17. ASSUME NEW j \in Projects, Hook(j) PROVE AbstractStep
    <2>1. Unseen
      BY <1>17 DEF Hook, Goto, Unseen, Indexer, TypeOK, SupType, NoSup, LockInv, Holding
    <2> QED
      BY <2>1, UnseenStutters DEF AbstractStep
  <1>18. ASSUME NEW j \in Projects, EnrolLock(j) PROVE AbstractStep
    <2>1. Unseen
      BY <1>18 DEF EnrolLock, Unseen, Indexer, TypeOK, SupType, NoSup, LockInv, Holding
    <2> QED
      BY <2>1, UnseenStutters DEF AbstractStep
  <1>19. ASSUME NEW j \in Projects, EnrolGiveUp(j) PROVE AbstractStep
    <2>1. Unseen
      BY <1>19 DEF EnrolGiveUp, Goto, Unseen, Indexer, TypeOK, SupType, NoSup, LockInv, Holding
    <2> QED
      BY <2>1, UnseenStutters DEF AbstractStep
  <1>20. ASSUME NEW j \in Projects, EnrolSave(j) PROVE AbstractStep
    <2>1. Unseen
      BY <1>20 DEF EnrolSave, Unseen, Indexer, TypeOK, SupType, NoSup, LockInv, Holding
    <2> QED
      BY <2>1, UnseenStutters DEF AbstractStep
  <1>21. ASSUME NEW a \in Actors, ProbeTakes(a) PROVE AbstractStep
    <2>1. Unseen
      BY <1>21 DEF ProbeTakes, Goto, Unseen, Indexer, TypeOK, SupType, NoSup, LockInv, Holding
    <2> QED
      BY <2>1, UnseenStutters DEF AbstractStep
  <1>22. ASSUME NEW a \in Actors, ProbeGivesBack(a) PROVE AbstractStep
    <2>1. Unseen
      BY <1>22 DEF ProbeGivesBack, Goto, Unseen, Indexer, TypeOK, SupType, NoSup, LockInv, Holding
    <2> QED
      BY <2>1, UnseenStutters DEF AbstractStep
  <1>23. ASSUME NEW a \in Actors, ProbeMeetsHolder(a) PROVE AbstractStep
    <2>1. Unseen
      BY <1>23 DEF ProbeMeetsHolder, Unseen, Indexer, TypeOK, SupType, NoSup, LockInv, Holding
    <2> QED
      BY <2>1, UnseenStutters DEF AbstractStep
  <1>24. ASSUME NEW a \in Actors, Spawn(a) PROVE AbstractStep
    <2>1. PICK p \in Pids :
            /\ sup[p].pc = "dead"
            /\ sup' = [sup EXCEPT ![p] = [NoSup EXCEPT !.pc = "spawned"]]
      BY <1>24 DEF Spawn
    <2>2. sup[p].jobs = {}
      BY <2>1 DEF LockInv, Holding
    <2>3. Unseen
      BY <1>24, <2>1, <2>2 DEF Spawn, Unseen, Indexer, TypeOK, NoSup
    <2> QED
      BY <2>3, UnseenStutters DEF AbstractStep
  <1>25. ASSUME NEW a \in Actors, NothingToDo(a) PROVE AbstractStep
    <2>1. Unseen
      BY <1>25 DEF NothingToDo, Unseen, Indexer, TypeOK, SupType, NoSup, LockInv, Holding
    <2> QED
      BY <2>1, UnseenStutters DEF AbstractStep
  <1>26. ASSUME NEW a \in Actors, RequestStop(a) PROVE AbstractStep
    <2>1. Unseen
      BY <1>26 DEF RequestStop, Goto, Unseen, Indexer, TypeOK, SupType, NoSup, LockInv, Holding
    <2> QED
      BY <2>1, UnseenStutters DEF AbstractStep
  <1>27. ASSUME NEW a \in Actors, SeenGone(a) PROVE AbstractStep
    <2>1. Unseen
      BY <1>27 DEF SeenGone, Goto, Unseen, Indexer, TypeOK, SupType, NoSup, LockInv, Holding
    <2> QED
      BY <2>1, UnseenStutters DEF AbstractStep
  <1>28. ASSUME NEW a \in Actors, StopWaitedEnough(a) PROVE AbstractStep
    <2>1. Unseen
      BY <1>28 DEF StopWaitedEnough, Unseen, Indexer, TypeOK, SupType, NoSup, LockInv, Holding
    <2> QED
      BY <2>1, UnseenStutters DEF AbstractStep
  <1>29. ASSUME NEW a \in Actors, HardKill(a) PROVE AbstractStep
    <2>1. actor[a].target \in Pids
      BY <1>29 DEF HardKill, Alive
    <2> QED
      BY <1>29, <2>1, DeathRefines DEF HardKill
  <1>30. ASSUME NEW a \in Actors, RestartFindsNone(a) PROVE AbstractStep
    <2>1. Unseen
      BY <1>30 DEF RestartFindsNone, Goto, Unseen, Indexer, TypeOK, SupType, NoSup, LockInv, Holding
    <2> QED
      BY <2>1, UnseenStutters DEF AbstractStep
  <1>31. ASSUME NEW a \in Actors, ClearRequest(a) PROVE AbstractStep
    <2>1. Unseen
      BY <1>31 DEF ClearRequest, Unseen, Indexer, TypeOK, SupType, NoSup, LockInv, Holding
    <2> QED
      BY <2>1, UnseenStutters DEF AbstractStep
  <1>32. ASSUME NEW op \in {"stop", "restart"}, Command(op) PROVE AbstractStep
    <2>1. Unseen
      BY <1>32 DEF Command, Unseen, Indexer, TypeOK, SupType, NoSup, LockInv, Holding
    <2> QED
      BY <2>1, UnseenStutters DEF AbstractStep
  <1>33. ASSUME UNCHANGED vars PROVE AbstractStep
    BY <1>33, UnseenStutters DEF vars, Unseen, Indexer, AbstractStep
  <1> QED
    BY <1>1, <1>2, <1>3, <1>4, <1>5, <1>6, <1>7, <1>8, <1>9, <1>10, <1>11,
       <1>12, <1>13, <1>14, <1>15, <1>16, <1>17, <1>18, <1>19, <1>20, <1>21,
       <1>22, <1>23, <1>24, <1>25, <1>26, <1>27, <1>28, <1>29, <1>30, <1>31,
       <1>32, <1>33 DEF Next, Loop, ReadList, Opener, Pool, Coming, Going,
       Enrol, Probe, Conclude, Restart

LEMMA InitRefines == Init => Abstract!Init
  <1> SUFFICES ASSUME Init PROVE Abstract!Init
    OBVIOUS
  <1>1. InHand = {}
    BY DEF Init, InHand, NoSup
  <1>2. ASSUME NEW j \in Projects PROVE StateOf(j) \in {"waiting", "done"}
    BY <1>1 DEF Init, StateOf
  <1>3. lock \notin Pids
    BY LifecycleAssumption DEF Init
  <1> QED
    BY <1>2, <1>3 DEF Abstract!Init

\* Supervisors that come, go, are killed and recycle are one indexer after the
\* other: each leaves with nothing in hand or dies, and what a dead one had in
\* hand is stranded until it is taken back (supervisor_lock, _shutdown).
THEOREM Implementation == Spec => ImplementsSingleIndexer
  <1>1. IInv /\ [Next]_vars => [Abstract!Next]_(Abstract!vars)
    <2> SUFFICES ASSUME IInv, [Next]_vars PROVE [Abstract!Next]_(Abstract!vars)
      OBVIOUS
    <2>1. AbstractStep
      BY RefinementStep DEF IInv
    <2> QED
      BY <2>1 DEF AbstractStep, Abstract!vars, Indexer, State
  <1> QED
    BY <1>1, InitRefines, Invariance, PTL DEF Spec, ImplementsSingleIndexer, Abstract!Spec
=============================================================================
