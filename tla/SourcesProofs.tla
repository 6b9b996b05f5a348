--------------------------- MODULE SourcesProofs ---------------------------
(***************************************************************************)
(* The sources of a project, from a change on disk to the row it leaves:   *)
(* theorems about Schedule, when a source is looked at, and about Sources, *)
(* what the look does to the index.                                        *)
(*                                                                         *)
(* No change is dropped between the threads, and a source taken to be      *)
(* watched is watched, for any intervals, faults and numbers of events.    *)
(* A row is dropped for a cause, for any directories, corpora and paths:   *)
(* that needs that whatever a row or a scan names is a recorded source,    *)
(* the last look of a removal and build_disk_check going through the       *)
(* recorded ones only.                                                     *)
(***************************************************************************)
EXTENDS Schedule, Sources, FiniteSetTheorems, SequenceTheorems, TLAPS

-----------------------------------------------------------------------------
(* When a source is looked at (Schedule). *)

\* The types of the variables that are records, by name.
WatcherType == [tracked: BOOLEAN, rules: BOOLEAN, wds: SUBSET Dirs,
                pc: {"idle", "list", "add", "descend", "tell"},
                seen: SUBSET Dirs, hit: BOOLEAN]
NotedType == [change: BOOLEAN, failure: BOOLEAN, dropped: BOOLEAN]
SlotType == [open: BOOLEAN, wanted: BOOLEAN, first: 0..BaseInterval]
SchedType == [watched: BOOLEAN, interval: Intervals, due: 0..SAFETY_SCAN,
              queued: {None} \cup 0..(SCAN_LOST + 1),
              changed: {None} \cup 0..CHANGE_SETTLE, spacing: 0..CHANGE_SPACING]
QueueType == [pending: BOOLEAN, scan: {"none", "begun", "listed"},
              found: {None, 0, 1}, backlog: {"none", "some", "much"}, busy: BOOLEAN]

LEMMA Types ==
    TypeOK <=> /\ dirs \subseteq Dirs /\ ignored \in BOOLEAN
               /\ stale \subseteq Dirs /\ blind \subseteq Dirs
               /\ watcher \in WatcherType /\ events \subseteq EventKinds
               /\ requests \in Seq({"watch", "unwatch"})
               /\ noted \in NotedType /\ slot \in SlotType
               /\ sched = None \/ sched \in SchedType
               /\ queue \in QueueType
               /\ declared \in BOOLEAN /\ budget \in Budget
  BY DEF TypeOK, WatcherType, NotedType, SlotType, SchedType, QueueType

LEMMA Durations ==
    /\ BaseInterval \in Nat \ {0} /\ POLL_MAX \in Nat \ {0} /\ SAFETY_SCAN \in Nat \ {0}
    /\ CHANGE_SETTLE \in Nat \ {0} /\ CHANGE_SPACING \in Nat \ {0}
    /\ SCAN_LOST \in Nat \ {0} /\ BaseInterval <= POLL_MAX /\ POLL_MAX <= SAFETY_SCAN
    /\ None \notin Nat
  BY ScheduleAssumption

LEMMA SpendType ==
    ASSUME budget \in Budget, NEW what \in {"changes", "faults", "moves"}, Spend(what)
    PROVE  budget' \in Budget
  BY DEF Spend, Budget

-----------------------------------------------------------------------------
(* The schedule of a source, changed by one step of the loop. *)

LEMMA NewSourceType ==
    ASSUME slot \in SlotType, budget \in Budget
    PROVE  /\ NewSource \in SchedType /\ NewSource.queued = None
           /\ NewSource.due <= BaseInterval
           /\ NewSource.watched = budget.local
  BY Durations DEF NewSource, SlotType, SchedType, Budget, Intervals

LEMMA DemotedType ==
    ASSUME NEW s \in SchedType
    PROVE  /\ Demoted(s) \in SchedType
           /\ Demoted(s).changed = s.changed /\ Demoted(s).queued = s.queued
           /\ Demoted(s).watched = (s.watched /\ ~noted.failure)
           /\ Demoted(s).due = s.due \/ ~Demoted(s).watched
  <1>1. s.watched \in BOOLEAN
    BY DEF SchedType
  <1>2. CASE noted.failure /\ s.watched
    <2>1. Demoted(s) = [s EXCEPT !.watched = FALSE, !.interval = BaseInterval, !.due = 0]
      BY <1>2 DEF Demoted
    <2>2. BaseInterval \in Intervals /\ 0 \in 0..SAFETY_SCAN
      BY Durations DEF Intervals
    <2> QED BY <1>2, <2>1, <2>2 DEF SchedType
  <1>3. CASE ~(noted.failure /\ s.watched)
    <2>1. Demoted(s) = s
      BY <1>3 DEF Demoted
    <2> QED BY <1>1, <1>3, <2>1
  <1> QED BY <1>2, <1>3

LEMMA ToldType ==
    ASSUME NEW s \in SchedType
    PROVE  /\ Told(s) \in SchedType /\ Told(s).watched = s.watched
           /\ Told(s).queued = s.queued /\ Told(s).due = s.due
           /\ Told(s).changed = IF noted.change THEN 0 ELSE s.changed
  BY Durations DEF Told, SchedType

LEMMA UnlostType ==
    ASSUME NEW s \in SchedType
    PROVE  /\ Unlost(s) \in SchedType /\ Unlost(s).watched = s.watched
           /\ Unlost(s).changed = s.changed /\ Unlost(s).due = s.due
           /\ Unlost(s).queued \in {s.queued, None}
  BY DEF Unlost, SchedType

LEMMA BegunType ==
    ASSUME NEW s \in SchedType
    PROVE  /\ Begun(s) \in SchedType /\ Begun(s).watched = s.watched
           /\ Begun(s).queued = s.queued /\ Begun(s).due = s.due
  <1>1. CASE ChangeDue(s)
    <2>1. Begun(s) = [s EXCEPT !.changed = None, !.spacing = 0]
      BY <1>1 DEF Begun
    <2>2. 0 \in 0..CHANGE_SPACING
      BY Durations
    <2> QED BY <2>1, <2>2 DEF SchedType
  <1>2. CASE ~ChangeDue(s)
    BY <1>2 DEF Begun
  <1> QED BY <1>1, <1>2

LEMMA LookedType ==
    ASSUME NEW s \in SchedType, NEW found \in {None, 0, 1}, s # None
    PROVE  /\ Looked(s, found) \in SchedType
           /\ Looked(s, found).watched = s.watched
           /\ Looked(s, found).changed = s.changed
  <1>1. NextInterval(s, found) \in Intervals /\ NextInterval(s, found) \in 0..SAFETY_SCAN
    <2>1. s.interval \in Intervals /\ s.interval \in Nat /\ s.interval > 0
          /\ s.interval <= SAFETY_SCAN
      BY Durations DEF SchedType, Intervals
    <2>2. /\ BaseInterval \in Intervals /\ BaseInterval <= SAFETY_SCAN
          /\ POLL_MAX \in Intervals
      BY Durations DEF Intervals
    <2>3. 2 * s.interval < POLL_MAX => 2 * s.interval \in Intervals
      BY <2>1, Durations DEF Intervals
    <2> QED BY <2>1, <2>2, <2>3, Durations DEF NextInterval
  <1>2. Looked(s, found) = [s EXCEPT !.queued = None, !.interval = NextInterval(s, found),
                                     !.due = NextInterval(s, found)]
    BY DEF Looked
  <1> HIDE DEF Looked
  <1> QED BY <1>1, <1>2 DEF SchedType

LEMMA AskedIs ==
    ASSUME NEW s \in SchedType, queue \in QueueType, budget \in Budget, Asked(s)
    PROVE  /\ sched' \in SchedType /\ sched'.watched = s.watched
           /\ queue' \in QueueType /\ budget' \in Budget
           /\ queue'.scan = queue.scan /\ queue'.pending \in {queue.pending, TRUE}
           /\ blind' \in {blind, stale}
           /\ \/ queue'.pending
              \/ blind' = stale
              \/ sched'.queued = None /\ sched'.due <= BaseInterval
  <1> DEFINE b == Begun(s)
  <1>0. b \in SchedType /\ b.watched = s.watched /\ b.queued = s.queued
    BY BegunType
  <1> HIDE DEF b
  <1>1. CASE /\ sched' = [b EXCEPT !.queued = 0]
             /\ queue' = [queue EXCEPT !.pending = TRUE]
             /\ blind' = blind /\ budget' = budget
    <2>1. 0 \in {None} \cup 0..(SCAN_LOST + 1)
      BY Durations
    <2>2. sched' \in SchedType /\ sched'.watched = s.watched
      BY <1>0, <1>1, <2>1 DEF SchedType
    <2>3. queue' \in QueueType /\ queue'.scan = queue.scan /\ queue'.pending = TRUE
      BY <1>1 DEF QueueType
    <2> QED BY <1>1, <2>2, <2>3
  <1>2. CASE /\ Spend("faults")
             /\ sched' = [b EXCEPT !.due = BaseInterval]
             /\ blind' = IF queue.scan = "none" /\ s.queued = None THEN blind ELSE stale
             /\ queue' = queue
    <2>1. BaseInterval \in 0..SAFETY_SCAN /\ BaseInterval \in Nat
      BY Durations
    <2>2. /\ sched' \in SchedType /\ sched'.watched = s.watched
          /\ sched'.queued = s.queued /\ sched'.due = BaseInterval
      BY <1>0, <1>2, <2>1 DEF SchedType
    <2>3. budget' \in Budget
      BY <1>2, SpendType
    <2> QED BY <1>2, <2>1, <2>2, <2>3
  <1> QED BY <1>1, <1>2 DEF Asked, b

\* What _enqueue_due_scans leaves of a schedule s: a scan to come, or the look
\* it was to have.
LEMMA DueScanIs ==
    ASSUME NEW s \in SchedType, queue \in QueueType, budget \in Budget, DueScan(s)
    PROVE  /\ sched' \in SchedType /\ sched'.watched = s.watched
           /\ queue' \in QueueType /\ budget' \in Budget
           /\ queue'.scan = queue.scan /\ queue'.pending \in {queue.pending, TRUE}
           /\ blind' \in {blind, stale}
           /\ \/ queue'.pending
              \/ blind' = stale
              \/ sched'.queued = None /\ sched'.due <= BaseInterval
              \/ sched' = s
  <1>1. CASE Asked(s)
    BY <1>1, AskedIs
  <1>2. CASE /\ ClockDue(s)
             /\ sched' = [s EXCEPT !.due = BaseInterval]
             /\ UNCHANGED <<queue, blind, budget>>
    <2>1. BaseInterval \in 0..SAFETY_SCAN /\ BaseInterval \in Nat
      BY Durations
    <2>2. /\ sched' \in SchedType /\ sched'.watched = s.watched
          /\ sched'.queued = s.queued /\ sched'.due = BaseInterval
      BY <1>2, <2>1 DEF SchedType
    <2> QED BY <1>2, <2>1, <2>2 DEF ClockDue
  <1>3. CASE sched' = s /\ UNCHANGED <<queue, blind, budget>>
    BY <1>3
  <1> QED BY <1>1, <1>2, <1>3 DEF DueScan

-----------------------------------------------------------------------------
(* Types. *)

LEMMA LoopType ==
    ASSUME TypeOK, EnqueuePeriodic
    PROVE  TypeOK'
  <1> USE DEF onDisk, watching
  <1>0. /\ noted \in NotedType /\ slot \in SlotType /\ queue \in QueueType
        /\ budget \in Budget
        /\ sched = None \/ sched \in SchedType
        /\ requests \in Seq({"watch", "unwatch"})
        /\ blind \subseteq Dirs /\ stale \subseteq Dirs /\ declared \in BOOLEAN
    BY Types
  <1>1. noted' \in NotedType
    BY <1>0 DEF EnqueuePeriodic, NotedType, Quiet
  <1>2. requests' \in Seq({"watch", "unwatch"})
    <2>1. requests' \in {requests, Append(requests, "watch"), Append(requests, "unwatch")}
      BY DEF EnqueuePeriodic, Requests
    <2> QED BY <1>0, <2>1
  <1>3. /\ sched' = None \/ sched' \in SchedType
        /\ queue' \in QueueType /\ budget' \in Budget /\ blind' \subseteq Dirs
    <2>1. CASE sched' = None /\ UNCHANGED <<queue, blind, budget>>
      BY <1>0, <2>1
    <2>2. CASE UNCHANGED <<sched, queue, budget>> /\ blind' \in {blind, stale}
      BY <1>0, <2>2
    <2>3. ASSUME Refreshed(sched) # None,
                 DueScan(Unlost(Told(Demoted(Refreshed(sched)))))
          PROVE  /\ sched' \in SchedType /\ queue' \in QueueType /\ budget' \in Budget
                 /\ blind' \subseteq Dirs
      <3>1. Refreshed(sched) \in SchedType
        BY <1>0, <2>3, NewSourceType DEF Refreshed
      <3>2. Unlost(Told(Demoted(Refreshed(sched)))) \in SchedType
        BY <3>1, DemotedType, ToldType, UnlostType
      <3> QED BY <1>0, <2>3, <3>2, DueScanIs
    <2> QED BY <2>1, <2>2, <2>3 DEF EnqueuePeriodic
  <1>4. UNCHANGED <<dirs, ignored, stale, watcher, events, slot, declared>>
    BY DEF EnqueuePeriodic
  <1> QED BY <1>1, <1>2, <1>3, <1>4, Types DEF TypeOK, NotedType, SchedType, QueueType

LEMMA TouchedType ==
    ASSUME TypeOK, NEW ds \in SUBSET Dirs, NEW kinds \in SUBSET EventKinds,
           dirs' \subseteq Dirs, Touched(ds, kinds)
    PROVE  stale' \subseteq Dirs /\ blind' \subseteq Dirs /\ events' \subseteq EventKinds
  BY DEF TypeOK, Touched, EventKinds

LEMMA DiskType ==
    ASSUME TypeOK, Disk
    PROVE  TypeOK'
  <1> USE DEF onDisk, watching
  <1>0. watcher \in WatcherType /\ budget \in Budget
    BY Types
  <1>1. ASSUME NEW d \in Dirs, Write(d) PROVE TypeOK'
    <2>1. {d} \in SUBSET EventKinds /\ dirs' \subseteq Dirs
      BY <1>1 DEF TypeOK, Write, Dirs, EventKinds
    <2>2. stale' \subseteq Dirs /\ blind' \subseteq Dirs /\ events' \subseteq EventKinds
      BY <1>1, <2>1, TouchedType DEF Write
    <2>3. budget' \in Budget
      BY <1>0, <1>1, SpendType DEF Write
    <2> QED BY <1>1, <2>1, <2>2, <2>3 DEF TypeOK, Write
  <1>2. CASE MakeSub
    <2>1. {"mkdir"} \in SUBSET EventKinds /\ {"sub"} \in SUBSET Dirs /\ dirs' \subseteq Dirs
      BY <1>2 DEF MakeSub, Dirs, EventKinds
    <2>2. stale' \subseteq Dirs /\ blind' \subseteq Dirs /\ events' \subseteq EventKinds
      BY <1>2, <2>1, TouchedType DEF MakeSub
    <2>3. budget' \in Budget
      BY <1>0, <1>2, SpendType DEF MakeSub
    <2> QED BY <1>2, <2>1, <2>2, <2>3 DEF TypeOK, MakeSub
  <1>3. CASE RemoveSub
    <2>1. /\ {"rmdir", "sub"} \in SUBSET EventKinds
          /\ (IF ignored THEN {} ELSE {"root"}) \in SUBSET Dirs /\ dirs' \subseteq Dirs
      BY <1>3 DEF RemoveSub, Dirs, EventKinds
    <2>2. stale' \subseteq Dirs /\ blind' \subseteq Dirs /\ events' \subseteq EventKinds
      BY <1>3, <2>1, TouchedType DEF RemoveSub
    <2>3. budget' \in Budget
      BY <1>0, <1>3, SpendType DEF RemoveSub
    <2>4. watcher' \in WatcherType
      BY <1>0, <1>3 DEF RemoveSub, WatcherType
    <2> QED BY <1>3, <2>1, <2>2, <2>3, <2>4 DEF TypeOK, RemoveSub, WatcherType
  <1>4. CASE EditIgnore
    <2>1. {"ignore"} \in SUBSET EventKinds /\ dirs \in SUBSET Dirs /\ dirs' \subseteq Dirs
      BY <1>4 DEF TypeOK, EditIgnore, EventKinds
    <2>2. stale' \subseteq Dirs /\ blind' \subseteq Dirs /\ events' \subseteq EventKinds
      BY <1>4, <2>1, TouchedType DEF EditIgnore
    <2>3. budget' \in Budget
      BY <1>0, <1>4, SpendType DEF EditIgnore
    <2> QED BY <1>4, <2>1, <2>2, <2>3 DEF TypeOK, EditIgnore
  <1>5. CASE RemoveRoot
    <2>1. {"self"} \in SUBSET EventKinds /\ {} \in SUBSET Dirs /\ dirs' \subseteq Dirs
      BY <1>5 DEF RemoveRoot, EventKinds
    <2>2. stale' \subseteq Dirs /\ blind' \subseteq Dirs /\ events' \subseteq EventKinds
      BY <1>5, <2>1, TouchedType DEF RemoveRoot
    <2>3. budget' \in Budget
      BY <1>0, <1>5, SpendType DEF RemoveRoot
    <2>4. watcher' \in WatcherType
      BY <1>0, <1>5 DEF RemoveRoot, WatcherType
    <2> QED BY <1>5, <2>1, <2>2, <2>3, <2>4 DEF TypeOK, RemoveRoot, WatcherType
  <1>6. CASE RestoreRoot
    <2>1. {} \in SUBSET EventKinds /\ Dirs \in SUBSET Dirs /\ dirs' \subseteq Dirs
      BY <1>6 DEF RestoreRoot
    <2>2. stale' \subseteq Dirs /\ blind' \subseteq Dirs /\ events' \subseteq EventKinds
      BY <1>6, <2>1, TouchedType DEF RestoreRoot
    <2> QED BY <1>6, <2>1, <2>2 DEF TypeOK, RestoreRoot
  <1> QED BY <1>1, <1>2, <1>3, <1>4, <1>5, <1>6 DEF Disk

LEMMA WatchedType ==
    ASSUME NEW w \in WatcherType, dirs \subseteq Dirs, ignored \in BOOLEAN
    PROVE  Watched(w) \in WatcherType /\ Untracked(w) \in WatcherType
           /\ AtEnd(w) \in WatcherType
  <1>1. ASSUME NEW v \in WatcherType PROVE AtEnd(v) \in WatcherType
    BY DEF AtEnd, WatcherType
  <1>2. Untracked(w) \in WatcherType
    BY DEF Untracked, WatcherType
  <1>3. [w EXCEPT !.tracked = TRUE, !.wds = {}, !.rules = ignored, !.pc = "list"]
           \in WatcherType
    BY DEF WatcherType
  <1> QED BY <1>1, <1>2, <1>3 DEF Watched

LEMMA WatchedIs ==
    ASSUME NEW w \in WatcherType
    PROVE  /\ AtEnd(w).tracked = w.tracked /\ AtEnd(w).wds = w.wds /\ AtEnd(w).hit = w.hit
           /\ AtEnd(w).rules = w.rules /\ AtEnd(w).pc = IF w.hit THEN "tell" ELSE "idle"
           /\ ~Untracked(w).tracked /\ Untracked(w).wds = {} /\ Untracked(w).hit = w.hit
           /\ Untracked(w).pc = "idle"
           /\ Watched(w).tracked <=> "root" \in dirs
           /\ Watched(w).wds = {}
           /\ Watched(w).hit = w.hit
           /\ Watched(w).pc = IF "root" \in dirs THEN "list"
                              ELSE IF w.hit THEN "tell" ELSE "idle"
  <1>1. ASSUME NEW v \in WatcherType
        PROVE  /\ AtEnd(v).tracked = v.tracked /\ AtEnd(v).wds = v.wds
               /\ AtEnd(v).hit = v.hit /\ AtEnd(v).rules = v.rules
               /\ AtEnd(v).pc = IF v.hit THEN "tell" ELSE "idle"
    BY DEF AtEnd, WatcherType
  <1>2. /\ Untracked(w) \in WatcherType
        /\ Untracked(w).tracked = FALSE /\ Untracked(w).wds = {}
        /\ Untracked(w).hit = w.hit /\ Untracked(w).pc = "idle"
    BY DEF Untracked, WatcherType
  <1>3. CASE "root" \in dirs
    <2>1. Watched(w) = [w EXCEPT !.tracked = TRUE, !.wds = {}, !.rules = ignored, !.pc = "list"]
      BY <1>3 DEF Watched
    <2>2. /\ Watched(w).tracked /\ Watched(w).wds = {} /\ Watched(w).hit = w.hit
          /\ Watched(w).pc = "list"
      BY <2>1 DEF WatcherType
    <2> QED BY <1>1, <1>2, <1>3, <2>2
  <1>4. CASE "root" \notin dirs
    <2>1. Watched(w) = AtEnd(Untracked(w))
      BY <1>4 DEF Watched
    <2>2. /\ Watched(w).tracked = FALSE /\ Watched(w).wds = {} /\ Watched(w).hit = w.hit
          /\ Watched(w).pc = IF w.hit THEN "tell" ELSE "idle"
      BY <1>1, <1>2, <2>1
    <2> QED BY <1>1, <1>2, <1>4, <2>2
  <1> QED BY <1>3, <1>4

LEMMA WatcherSteps ==
    ASSUME TypeOK, Watcher \/ BudgetSpent
    PROVE  TypeOK'
  <1> USE DEF onDisk, watching
  <1>0. /\ watcher \in WatcherType /\ noted \in NotedType /\ budget \in Budget
        /\ dirs \subseteq Dirs /\ ignored \in BOOLEAN
        /\ stale \subseteq Dirs /\ blind \subseteq Dirs
    BY Types
  <1>1. /\ Watched(watcher) \in WatcherType /\ Untracked(watcher) \in WatcherType
        /\ AtEnd(watcher) \in WatcherType
    BY <1>0, WatchedType
  <1>2. ASSUME NEW failed \in BOOLEAN, NoteFailure(failed) PROVE noted' \in NotedType
    BY <1>0, <1>2 DEF NoteFailure, NotedType
  <1>3. CASE ServeRequest
    <2>1. watcher' \in WatcherType /\ noted' \in NotedType
      BY <1>1, <1>2, <1>3 DEF ServeRequest
    <2>2. requests' \in Seq({"watch", "unwatch"})
      BY <1>3 DEF ServeRequest, TypeOK
    <2> QED BY <1>0, <1>3, <2>1, <2>2 DEF TypeOK, ServeRequest, WatcherType, NotedType
  <1>4. CASE WalkList
    <2>1. watcher' \in WatcherType
      BY <1>0, <1>4 DEF WalkList, WatcherType
    <2> QED BY <1>4, <2>1 DEF TypeOK, WalkList, WatcherType
  <1>5. CASE WalkAdd
    <2> DEFINE w == [watcher EXCEPT !.wds = @ \cup (dirs \cap {"root"})]
    <2>1. w \in WatcherType
      BY <1>0 DEF WatcherType
    <2>2. [w EXCEPT !.pc = "descend"] \in WatcherType
      BY <2>1 DEF WatcherType
    <2>3. AtEnd(w) \in WatcherType
      BY <1>0, <2>1, WatchedType
    <2>4. watcher' \in WatcherType
      BY <1>5, <2>2, <2>3 DEF WalkAdd
    <2>5. UNCHANGED <<onDisk, events, requests, noted, slot, sched, queue, declared, budget>>
      BY <1>5 DEF WalkAdd
    <2> QED BY <2>4, <2>5 DEF TypeOK, WatcherType
  <1>6. CASE Descend
    <2> DEFINE w == [watcher EXCEPT !.wds = @ \cup (dirs \cap {"sub"})]
    <2>1. w \in WatcherType
      BY <1>0 DEF WatcherType
    <2>2. watcher' \in WatcherType
      BY <1>0, <1>6, <2>1, WatchedType DEF Descend
    <2>3. UNCHANGED <<onDisk, events, requests, noted, slot, sched, queue, declared, budget>>
      BY <1>6 DEF Descend
    <2> QED BY <2>2, <2>3 DEF TypeOK, WatcherType
  <1>7. CASE BudgetSpent
    <2>1. watcher' \in WatcherType
      BY <1>0, <1>1, <1>7, WatchedType DEF BudgetSpent
    <2>2. noted' \in NotedType /\ budget' \in Budget
      BY <1>0, <1>2, <1>7, SpendType DEF BudgetSpent
    <2> QED BY <1>0, <1>7, <2>1, <2>2 DEF TypeOK, BudgetSpent, WatcherType, NotedType
  <1>8. CASE ReadEvents
    <2> DEFINE heard == IF watcher.rules THEN events \ {"sub", "mkdir", "rmdir"} ELSE events
               w == [watcher EXCEPT !.hit = watcher.tracked /\ heard # {}]
    <2>1. w \in WatcherType
      BY <1>0 DEF WatcherType
    <2>2. [w EXCEPT !.pc = "descend"] \in WatcherType
      BY <2>1 DEF WatcherType
    <2>3. AtEnd(w) \in WatcherType /\ Watched(w) \in WatcherType
      BY <1>0, <2>1, WatchedType
    <2>4. watcher' \in {Watched(w), [w EXCEPT !.pc = "descend"], AtEnd(w)}
      BY <1>8 DEF ReadEvents
    <2>5. watcher' \in WatcherType
      BY <2>2, <2>3, <2>4
    <2>6. noted' \in NotedType
      BY <1>2, <1>8 DEF ReadEvents
    <2>7. blind' \subseteq Dirs
      BY <1>0, <1>8 DEF ReadEvents, Unheard
    <2>8. /\ UNCHANGED <<dirs, ignored, stale, requests, slot, sched, queue, declared, budget>>
          /\ events' = {}
      BY <1>8 DEF ReadEvents
    <2> QED BY <2>5, <2>6, <2>7, <2>8 DEF TypeOK, WatcherType, NotedType
  <1>9. CASE TellChange
    <2>1. watcher' \in WatcherType /\ noted' \in NotedType
      BY <1>0, <1>9 DEF TellChange, WatcherType, NotedType
    <2> QED BY <1>9, <2>1 DEF TypeOK, TellChange, WatcherType, NotedType
  <1> QED BY <1>3, <1>4, <1>5, <1>6, <1>7, <1>8, <1>9 DEF Watcher, Walk

LEMMA SlotSteps ==
    ASSUME TypeOK, Slots \/ Reopen
    PROVE  TypeOK'
  <1> USE DEF onDisk, watching
  <1>0. /\ slot \in SlotType /\ noted \in NotedType /\ queue \in QueueType
        /\ budget \in Budget
        /\ sched = None \/ sched \in SchedType
        /\ requests \in Seq({"watch", "unwatch"})
    BY Types
  <1>1. CASE Admit
    <2>1. PICK first \in {0, BaseInterval} : slot' = [slot EXCEPT !.open = TRUE, !.first = first]
      BY <1>1 DEF Admit
    <2>3. first \in 0..BaseInterval
      BY Durations
    <2>4. slot' \in SlotType
      BY <1>0, <2>1, <2>3 DEF SlotType
    <2>2. UNCHANGED <<onDisk, watching, requests, noted, sched, queue, declared, budget>>
      BY <1>1 DEF Admit
    <2> QED BY <2>2, <2>4 DEF TypeOK, SlotType
  <1>2. CASE DropUnwanted
    <2>1. slot' \in SlotType /\ noted' \in NotedType
      BY <1>0, <1>2 DEF DropUnwanted, SlotType, NotedType
    <2>2. requests' \in Seq({"watch", "unwatch"})
      BY <1>0, <1>2 DEF DropUnwanted
    <2>3. sched' = None /\ UNCHANGED <<onDisk, watching, queue, declared, budget>>
      BY <1>2 DEF DropUnwanted
    <2> QED BY <2>1, <2>2, <2>3 DEF TypeOK, SlotType, NotedType
  <1>3. CASE Reopen
    <2>1. slot' \in SlotType
      BY <1>0, <1>3, Durations DEF Reopen, SlotType
    <2>2. queue' \in QueueType
      BY <1>0, <1>3 DEF Reopen, QueueType
    <2>3. sched' = None \/ sched' \in SchedType
      <3>1. 0 \in 0..SAFETY_SCAN
        BY Durations
      <3>2. ASSUME sched \in SchedType
            PROVE  [sched EXCEPT !.due = 0, !.queued = None] \in SchedType
        BY <3>1, <3>2 DEF SchedType
      <3> QED BY <1>0, <1>3, <3>2 DEF Reopen, ScanEverythingNow
    <2>4. budget' \in Budget
      BY <1>0, <1>3, SpendType DEF Reopen
    <2>5. UNCHANGED <<onDisk, watching, requests, noted, declared>>
      BY <1>3 DEF Reopen
    <2> QED BY <2>1, <2>2, <2>3, <2>4, <2>5, Types DEF TypeOK, SlotType, QueueType, SchedType
  <1> QED BY <1>1, <1>2, <1>3 DEF Slots

LEMMA ScanSteps ==
    ASSUME TypeOK, Scan \/ ScanFails \/ LoseScan \/ Dispatch
    PROVE  TypeOK'
  <1> USE DEF onDisk, watching
  <1>0. /\ queue \in QueueType /\ budget \in Budget
        /\ sched = None \/ sched \in SchedType
        /\ stale \subseteq Dirs /\ blind \subseteq Dirs
    BY Types
  <1>1. ASSUME NEW found \in {None, 0, 1}, sched' = Looked(sched, found)
        PROVE  sched' = None \/ sched' \in SchedType
    BY <1>0, <1>1, LookedType DEF Looked
  <1>2. CASE List
    <2>1. queue' \in QueueType
      BY <1>0, <1>2 DEF List, QueueType
    <2>2. stale' \subseteq Dirs /\ blind' \subseteq Dirs
      BY <1>0, <1>2 DEF List
    <2>3. UNCHANGED <<dirs, ignored, watching, requests, noted, slot, sched, declared,
                      budget>>
      BY <1>2 DEF List
    <2> QED BY <2>1, <2>2, <2>3 DEF TypeOK, QueueType
  <1>3. CASE ScanEnds
    <2>1. queue' \in QueueType /\ queue.found \in {None, 0, 1}
      BY <1>0, <1>3 DEF ScanEnds, QueueType
    <2>2. sched' = None \/ sched' \in SchedType
      BY <1>1, <1>3, <2>1 DEF ScanEnds
    <2>3. blind' \subseteq Dirs
      BY <1>0, <1>3 DEF ScanEnds
    <2>4. UNCHANGED <<dirs, ignored, stale, watching, requests, noted, slot, declared,
                      budget>>
      BY <1>3 DEF ScanEnds
    <2> QED BY <2>1, <2>2, <2>3, <2>4 DEF TypeOK, QueueType, SchedType
  <1>4. CASE ScanFails
    <2>1. queue' \in QueueType
      BY <1>0, <1>4 DEF ScanFails, QueueType
    <2>2. sched' = None \/ sched' \in SchedType
      BY <1>1, <1>4 DEF ScanFails
    <2>3. blind' \subseteq Dirs /\ budget' \in Budget
      BY <1>0, <1>4, SpendType DEF ScanFails
    <2>4. UNCHANGED <<dirs, ignored, stale, watching, requests, noted, slot, declared>>
      BY <1>4 DEF ScanFails
    <2> QED BY <2>1, <2>2, <2>3, <2>4 DEF TypeOK, QueueType, SchedType
  <1>5. CASE LoseScan
    <2>1. queue' \in QueueType
      BY <1>0, <1>5 DEF LoseScan, QueueType
    <2>2. blind' \subseteq Dirs /\ budget' \in Budget
      BY <1>0, <1>5, SpendType DEF LoseScan
    <2>3. UNCHANGED <<dirs, ignored, stale, watching, requests, noted, slot, sched, declared>>
      BY <1>5 DEF LoseScan
    <2> QED BY <2>1, <2>2, <2>3 DEF TypeOK, QueueType
  <1>6. CASE Dispatch
    <2>1. queue' \in QueueType
      BY <1>0, <1>6 DEF Dispatch, QueueType
    <2>2. UNCHANGED <<onDisk, watching, requests, noted, slot, sched, declared, budget>>
      BY <1>6 DEF Dispatch
    <2> QED BY <2>1, <2>2 DEF TypeOK, QueueType
  <1> QED BY <1>2, <1>3, <1>4, <1>5, <1>6 DEF Scan

LEMMA OtherSteps ==
    ASSUME TypeOK, Work \/ Outside
    PROVE  TypeOK'
  <1> USE DEF onDisk, watching
  <1>0. queue \in QueueType /\ slot \in SlotType /\ budget \in Budget /\ declared \in BOOLEAN
    BY Types
  <1>1. ASSUME queue' \in QueueType, budget' \in Budget,
               UNCHANGED <<onDisk, watching, requests, noted, slot, sched, declared>>
        PROVE  TypeOK'
    BY <1>1 DEF TypeOK, QueueType
  <1>2. CASE UserScan \/ Produce \/ WorkBegins \/ WorkEnds
    <2>1. queue' \in QueueType
      BY <1>0, <1>2 DEF UserScan, Produce, WorkBegins, WorkEnds, QueueType
    <2>2. budget' \in Budget
      BY <1>0, <1>2, SpendType DEF UserScan, Produce, WorkBegins, WorkEnds
    <2>3. UNCHANGED <<onDisk, watching, requests, noted, slot, sched, declared>>
      BY <1>2 DEF UserScan, Produce, WorkBegins, WorkEnds
    <2> QED BY <1>1, <2>1, <2>2, <2>3
  <1>3. CASE EditConfig
    <2>1. budget' \in Budget /\ declared' \in BOOLEAN
      BY <1>0, <1>3, SpendType DEF EditConfig
    <2>2. UNCHANGED <<onDisk, watching, requests, noted, slot, sched, queue>>
      BY <1>3 DEF EditConfig
    <2> QED BY <2>1, <2>2 DEF TypeOK
  <1>4. CASE EditRegistry
    <2>1. budget' \in Budget /\ slot' \in SlotType
      BY <1>0, <1>4, SpendType DEF EditRegistry, SlotType
    <2>2. UNCHANGED <<onDisk, watching, requests, noted, sched, queue, declared>>
      BY <1>4 DEF EditRegistry
    <2> QED BY <2>1, <2>2 DEF TypeOK, SlotType
  <1>5. CASE Restart
    <2>1. budget' \in Budget /\ slot' \in SlotType
      BY <1>0, <1>5, SpendType DEF Restart, SlotType
    <2>2. queue' \in QueueType
      BY <1>0, <1>5 DEF Restart, QueueType
    <2>3. watcher' \in WatcherType /\ noted' \in NotedType
      BY <1>5 DEF Restart, Asleep, Quiet, WatcherType, NotedType
    <2>4. requests' \in Seq({"watch", "unwatch"}) /\ events' \subseteq EventKinds
      BY <1>5 DEF Restart
    <2>5. sched' = None /\ UNCHANGED <<onDisk, declared>>
      BY <1>5 DEF Restart
    <2> QED BY <2>1, <2>2, <2>3, <2>4, <2>5
          DEF TypeOK, SlotType, QueueType, WatcherType, NotedType
  <1> QED BY <1>2, <1>3, <1>4, <1>5 DEF Work, Outside

LEMMA TickType ==
    ASSUME TypeOK, Tick
    PROVE  TypeOK'
  <1> USE DEF onDisk, watching
  <1>0. slot \in SlotType
    BY Types
  <1>1. \A k \in Nat : Less(k) \in Nat /\ Less(k) <= k
    BY DEF Less
  <1>2. slot' \in SlotType
    BY <1>0, <1>1, Durations DEF Tick, SlotType
  <1>3. ASSUME sched # None
        PROVE  sched' \in SchedType
    <2>1. sched \in SchedType
      BY <1>3, Types
    <2>2. /\ Less(sched.due) \in 0..SAFETY_SCAN
          /\ More(sched.queued, SCAN_LOST + 1) \in {None} \cup 0..(SCAN_LOST + 1)
          /\ More(sched.changed, CHANGE_SETTLE) \in {None} \cup 0..CHANGE_SETTLE
          /\ More(sched.spacing, CHANGE_SPACING) \in 0..CHANGE_SPACING
      <3>1. Less(sched.due) \in 0..SAFETY_SCAN
        BY <2>1, Durations DEF Less, SchedType
      <3>2. \A cap \in Nat : \A n \in {None} \cup 0..cap :
              /\ More(n, cap) \in {None} \cup 0..cap
              /\ n # None => More(n, cap) \in 0..cap
        BY Durations DEF More
      <3>3. sched.spacing \in 0..CHANGE_SPACING /\ sched.spacing # None
        BY <2>1, Durations DEF SchedType
      <3> QED BY <2>1, <3>1, <3>2, <3>3, Durations DEF SchedType
    <2>3. sched' = [sched EXCEPT !.due = Less(@), !.queued = More(@, SCAN_LOST + 1),
                                 !.changed = More(@, CHANGE_SETTLE),
                                 !.spacing = More(@, CHANGE_SPACING)]
      BY <1>3 DEF Tick
    <2> QED BY <2>1, <2>2, <2>3 DEF SchedType
  <1>4. sched' = None \/ sched' \in SchedType
    BY <1>3 DEF Tick
  <1>5. UNCHANGED <<onDisk, watching, requests, noted, queue, declared, budget>>
    BY DEF Tick
  <1> QED BY <1>2, <1>4, <1>5 DEF TypeOK, SlotType, SchedType

LEMMA TypeStep ==
    ASSUME TypeOK, [Next]_vars
    PROVE  TypeOK'
  <1>1. CASE UNCHANGED vars
    BY <1>1 DEF TypeOK, vars, onDisk, watching
  <1> QED BY <1>1, DiskType, WatcherSteps, LoopType, SlotSteps, ScanSteps, OtherSteps,
             TickType DEF Next, Faults

LEMMA TypeInit == Init => TypeOK
  <1> SUFFICES ASSUME Init PROVE TypeOK
    OBVIOUS
  <1>1. watcher \in WatcherType /\ noted \in NotedType
    BY DEF Init, Asleep, Quiet, WatcherType, NotedType
  <1>2. slot \in SlotType /\ queue \in QueueType
    BY Durations DEF Init, SlotType, QueueType
  <1>3. budget \in Budget
    BY ScheduleAssumption DEF Init
  <1> QED BY <1>1, <1>2, <1>3, Types DEF Init, Dirs, EventKinds

\* Every value stays in the range the code means it to have; the clocks of the
\* schedule never run past what the loop compares them with.
THEOREM TypeCorrect == Spec => []TypeOK
  <1> QED BY TypeInit, TypeStep, PTL DEF Spec

-----------------------------------------------------------------------------
(* The invariants. *)

\* A source wanted watched is, or the last thing asked of the watcher is that,
\* or it has failed.
Last(r) == r[Len(r)]
AskedOrWatched ==
    sched # None /\ sched.watched =>
        IF requests = <<>> THEN watcher.tracked \/ noted.failure \/ noted.dropped
                           ELSE Last(requests) = "watch"

RootFirst == "sub" \in dirs => "root" \in dirs

WatchInv == TypeOK /\ RootFirst /\ AskedOrWatched

\* Events are those of a tree that is watched, and what was heard is said before
\* anything else is done.
WatcherInv ==
    /\ stale \subseteq dirs
    /\ ~watcher.tracked => /\ watcher.wds = {} /\ events = {}
                           /\ watcher.pc \in {"idle", "tell"}
    /\ watcher.pc = "idle" => ~watcher.hit

\* What a read would hear.
Heard == IF watcher.rules THEN events \ {"sub", "mkdir", "rmdir"} ELSE events

\* A change is past the kernel's queue, or stands in it: of the root, as an event
\* that is heard, unless the rules are out of date.
OnItsWay == watcher.hit \/ noted.change \/ Expected \/ ScanToCome
InQueue(d) == events # {} /\ (d = "root" => Heard # {} \/ watcher.rules # ignored)

HandInv ==
    /\ TypeOK /\ WatcherInv
    /\ \A d \in ToFind \ blind : OnItsWay \/ InQueue(d)

-----------------------------------------------------------------------------
(* What is asked of the watcher. *)

LEMMA Appended ==
    ASSUME NEW r \in Seq({"watch", "unwatch"}), NEW what \in {"watch", "unwatch"}
    PROVE  Append(r, what) # <<>> /\ Last(Append(r, what)) = what
  BY DEF Last

LEMMA Served ==
    ASSUME NEW r \in Seq({"watch", "unwatch"}), r # <<>>
    PROVE  IF Tail(r) = <<>> THEN Head(r) = Last(r) ELSE Last(Tail(r)) = Last(r)
  <1>1. Len(r) \in Nat \ {0} /\ Len(Tail(r)) = Len(r) - 1
    OBVIOUS
  <1>2. CASE Len(r) = 1
    <2>1. Tail(r) \in Seq({"watch", "unwatch"}) /\ Len(Tail(r)) = 0
      BY <1>1, <1>2
    <2>2. Tail(r) = <<>>
      BY <2>1, EmptySeq
    <2>3. Head(r) = r[1]
      OBVIOUS
    <2> QED BY <1>2, <2>2, <2>3 DEF Last
  <1>3. CASE Len(r) > 1
    <2>1. Len(Tail(r)) \in 1..Len(Tail(r)) /\ Tail(r) # <<>>
      <3>1. Len(Tail(r)) \in Nat /\ Len(Tail(r)) > 0
        BY <1>1, <1>3
      <3>2. Len(<< >>) = 0
        BY EmptySeq
      <3> QED BY <3>1, <3>2
    <2>2. Tail(r)[Len(Tail(r))] = r[Len(Tail(r)) + 1]
      BY <2>1, HeadTailProperties
    <2> QED BY <2>1, <2>2 DEF Last
  <1> QED BY <1>1, <1>2, <1>3

\* The steps of the loop, the slot and the scan: the schedule is the one there
\* was, without what failed.
LEMMA LoopAsks ==
    ASSUME WatchInv, EnqueuePeriodic
    PROVE  AskedOrWatched'
  <1> USE DEF onDisk, watching
  <1>0. /\ noted \in NotedType /\ slot \in SlotType /\ queue \in QueueType
        /\ budget \in Budget
        /\ sched = None \/ sched \in SchedType
        /\ requests \in Seq({"watch", "unwatch"})
    BY Types DEF WatchInv
  <1>1. watcher' = watcher
    BY DEF EnqueuePeriodic
  <1>2. CASE sched' = None
    BY <1>2 DEF AskedOrWatched
  <1>3. CASE /\ UNCHANGED <<requests, sched>>
             /\ noted' = [Quiet EXCEPT !.dropped = noted.dropped \/ noted.failure]
    <2>1. noted'.dropped = (noted.dropped \/ noted.failure)
      BY <1>3 DEF Quiet
    <2> QED BY <1>1, <1>3, <2>1 DEF WatchInv, AskedOrWatched
  <1>4. CASE /\ noted' = [Quiet EXCEPT !.dropped = noted.dropped]
             /\ requests' = Requests(sched) /\ Refreshed(sched) # None
             /\ DueScan(Unlost(Told(Demoted(Refreshed(sched)))))
    <2> DEFINE s == Refreshed(sched)
    <2>1. s \in SchedType
      BY <1>0, <1>4, NewSourceType DEF Refreshed
    <2>2. sched'.watched = (s.watched /\ ~noted.failure)
      <3>1. Demoted(s) \in SchedType /\ Demoted(s).watched = (s.watched /\ ~noted.failure)
        BY <2>1, DemotedType
      <3>2. Told(Demoted(s)) \in SchedType /\ Told(Demoted(s)).watched = Demoted(s).watched
        BY <3>1, ToldType
      <3>3. /\ Unlost(Told(Demoted(s))) \in SchedType
            /\ Unlost(Told(Demoted(s))).watched = Demoted(s).watched
        BY <3>2, UnlostType
      <3> QED BY <1>0, <1>4, <3>1, <3>3, DueScanIs
    <2>3. noted'.dropped = noted.dropped
      BY <1>4 DEF Quiet
    <2>4. CASE sched = None
      <3>1. s.watched = budget.local /\ declared
        BY <1>0, <1>4, <2>4, NewSourceType DEF Refreshed
      <3>2. budget.local => requests' = Append(requests, "watch")
        BY <1>4, <2>4, <3>1 DEF Requests
      <3> QED BY <1>0, <2>2, <3>1, <3>2, Appended DEF AskedOrWatched
    <2>5. CASE sched # None
      <3>1. s = sched /\ declared
        BY <1>4, <2>5 DEF Refreshed
      <3>2. requests' = requests
        BY <1>4, <2>5, <3>1 DEF Requests
      <3> QED BY <1>1, <2>2, <2>3, <2>5, <3>1, <3>2 DEF WatchInv, AskedOrWatched
    <2> QED BY <2>4, <2>5
  <1> QED BY <1>2, <1>3, <1>4 DEF EnqueuePeriodic

LEMMA WatcherAsks ==
    ASSUME WatchInv, Watcher \/ BudgetSpent
    PROVE  RootFirst' /\ AskedOrWatched'
  <1> USE DEF onDisk, watching
  <1>0. /\ watcher \in WatcherType /\ noted \in NotedType
        /\ requests \in Seq({"watch", "unwatch"}) /\ dirs \subseteq Dirs
        /\ RootFirst /\ AskedOrWatched
    BY Types DEF WatchInv
  <1>1. /\ UNCHANGED <<dirs, sched>>
        /\ noted.dropped => noted'.dropped
        /\ noted.failure => noted'.failure
    BY <1>0 DEF Watcher, Walk, ServeRequest, WalkList, WalkAdd, Descend, ReadEvents,
                TellChange, BudgetSpent, NoteFailure, NotedType
  <1>2. "root" \notin dirs => dirs = {}
    BY <1>0 DEF RootFirst, Dirs
  <1>3. ASSUME NEW failed \in BOOLEAN, NoteFailure(failed), failed PROVE noted'.failure
    BY <1>0, <1>3 DEF NoteFailure, NotedType
  <1>4. CASE ServeRequest
    <2>1. requests # <<>> /\ requests' = Tail(requests)
      BY <1>4 DEF ServeRequest
    <2>2. IF requests' = <<>> THEN Head(requests) = Last(requests)
                              ELSE Last(requests') = Last(requests)
      BY <1>0, <2>1, Served
    <2>3. ASSUME Head(requests) = "watch" PROVE watcher'.tracked \/ noted'.failure
      <3>1. watcher' = Watched(watcher) /\ NoteFailure(dirs = {})
        BY <1>4, <2>3 DEF ServeRequest
      <3>2. watcher'.tracked <=> "root" \in dirs
        BY <1>0, <3>1, WatchedIs
      <3> QED BY <1>2, <1>3, <3>1, <3>2
    <2> QED BY <1>0, <1>1, <2>1, <2>2, <2>3 DEF RootFirst, AskedOrWatched
  <1>5. ASSUME requests' = requests, watcher.tracked => watcher'.tracked \/ noted'.failure
        PROVE  RootFirst' /\ AskedOrWatched'
    BY <1>0, <1>1, <1>5 DEF RootFirst, AskedOrWatched
  <1>6. CASE WalkList \/ TellChange
    <2>1. watcher'.tracked = watcher.tracked /\ requests' = requests
      BY <1>0, <1>6 DEF WalkList, TellChange, WatcherType
    <2> QED BY <1>5, <2>1
  <1>7. CASE WalkAdd
    <2> DEFINE w == [watcher EXCEPT !.wds = @ \cup (dirs \cap {"root"})]
    <2>1. w \in WatcherType /\ w.tracked = watcher.tracked
      BY <1>0 DEF WatcherType
    <2>2. watcher' \in {[w EXCEPT !.pc = "descend"], AtEnd(w)} /\ requests' = requests
      BY <1>7 DEF WalkAdd
    <2> HIDE DEF w
    <2>3. [w EXCEPT !.pc = "descend"].tracked = w.tracked /\ AtEnd(w).tracked = w.tracked
      BY <2>1, WatchedIs DEF WatcherType
    <2> QED BY <1>5, <2>1, <2>2, <2>3
  <1>8. CASE Descend
    <2> DEFINE w == [watcher EXCEPT !.wds = @ \cup (dirs \cap {"sub"})]
    <2>1. w \in WatcherType /\ w.tracked = watcher.tracked
      BY <1>0 DEF WatcherType
    <2>2. watcher' = AtEnd(w) /\ requests' = requests
      BY <1>8 DEF Descend
    <2> HIDE DEF w
    <2> QED BY <1>5, <2>1, <2>2, WatchedIs
  <1>9. CASE BudgetSpent
    BY <1>3, <1>5, <1>9 DEF BudgetSpent
  <1>10. CASE ReadEvents
    <2> DEFINE heard == IF watcher.rules THEN events \ {"sub", "mkdir", "rmdir"} ELSE events
               w == [watcher EXCEPT !.hit = watcher.tracked /\ heard # {}]
               again == watcher.tracked /\ heard \cap {"ignore", "self"} # {}
    <2>1. w \in WatcherType /\ w.tracked = watcher.tracked
      BY <1>0 DEF WatcherType
    <2>2. /\ watcher' = IF again THEN Watched(w)
                        ELSE IF "mkdir" \in heard THEN [w EXCEPT !.pc = "descend"]
                        ELSE AtEnd(w)
          /\ NoteFailure(again /\ dirs = {}) /\ requests' = requests
      BY <1>10 DEF ReadEvents
    <2> HIDE DEF heard, w
    <2>3. CASE again
      <3>1. watcher'.tracked <=> "root" \in dirs
        BY <2>1, <2>2, <2>3, WatchedIs
      <3> QED BY <1>2, <1>3, <1>5, <2>2, <2>3, <3>1
    <2>4. CASE ~again
      <3>1. [w EXCEPT !.pc = "descend"].tracked = w.tracked /\ AtEnd(w).tracked = w.tracked
        BY <2>1, WatchedIs DEF WatcherType
      <3> HIDE DEF again
      <3> QED BY <1>5, <2>1, <2>2, <2>4, <3>1
    <2> QED BY <2>3, <2>4
  <1> QED BY <1>4, <1>6, <1>7, <1>8, <1>9, <1>10 DEF Watcher, Walk

LEMMA DiskAsks ==
    ASSUME WatchInv, Disk
    PROVE  RootFirst' /\ AskedOrWatched'
  <1> USE DEF onDisk, watching
  <1>0. watcher \in WatcherType /\ RootFirst /\ AskedOrWatched
    BY Types DEF WatchInv
  <1>1. UNCHANGED <<sched, requests, noted>> /\ watcher'.tracked = watcher.tracked
    BY <1>0 DEF Disk, Write, MakeSub, RemoveSub, EditIgnore, RemoveRoot, RestoreRoot, WatcherType
  <1>2. dirs' = dirs \/ "root" \in dirs' \/ dirs' = {}
    BY DEF Disk, Write, MakeSub, RemoveSub, EditIgnore, RemoveRoot, RestoreRoot, Dirs
  <1> QED BY <1>0, <1>1, <1>2 DEF RootFirst, AskedOrWatched

LEMMA OtherAsks ==
    ASSUME WatchInv, Slots \/ Reopen \/ Dispatch \/ Scan \/ Work \/ ScanFails \/ LoseScan
                     \/ Outside \/ Tick
    PROVE  RootFirst' /\ AskedOrWatched'
  <1> USE DEF onDisk, watching
  <1>0. /\ sched = None \/ sched \in SchedType
        /\ queue \in QueueType /\ noted \in NotedType
        /\ RootFirst /\ AskedOrWatched
    BY Types DEF WatchInv
  <1>1. ASSUME UNCHANGED <<dirs, watcher, requests, noted>>,
               sched' # None => sched # None /\ sched'.watched = sched.watched
        PROVE  RootFirst' /\ AskedOrWatched'
    BY <1>0, <1>1 DEF RootFirst, AskedOrWatched
  <1>2. CASE DropUnwanted \/ Restart
    BY <1>0, <1>2 DEF DropUnwanted, Restart, RootFirst, AskedOrWatched
  <1>3. CASE \/ Admit \/ Dispatch \/ List \/ Work \/ LoseScan
             \/ UserScan \/ Produce \/ EditConfig \/ EditRegistry
    BY <1>0, <1>1, <1>3 DEF Admit, Dispatch, List, Work, WorkBegins, WorkEnds, LoseScan,
                    UserScan, Produce, EditConfig, EditRegistry
  <1>4. CASE Reopen
    <2>1. sched \in SchedType => [sched EXCEPT !.due = 0, !.queued = None].watched = sched.watched
      BY DEF SchedType
    <2> QED BY <1>0, <1>1, <1>4, <2>1 DEF Reopen, ScanEverythingNow
  <1>5. CASE ScanEnds \/ ScanFails
    <2>1. PICK found \in {None, 0, 1} : sched' = Looked(sched, found)
      BY <1>0, <1>5 DEF ScanEnds, ScanFails, QueueType
    <2>2. sched # None => sched'.watched = sched.watched
      BY <1>0, <2>1, LookedType
    <2>3. sched = None => sched' = None
      BY <2>1 DEF Looked
    <2>4. UNCHANGED <<dirs, watcher, requests, noted>>
      BY <1>5 DEF ScanEnds, ScanFails
    <2> QED BY <1>1, <2>2, <2>3, <2>4
  <1>6. CASE Tick
    <2>1. sched # None => sched'.watched = sched.watched
      BY <1>0, <1>6 DEF Tick, SchedType
    <2> QED BY <1>1, <1>6, <2>1 DEF Tick
  <1> QED BY <1>2, <1>3, <1>4, <1>5, <1>6 DEF Slots, Scan, Outside

\* A source the supervisor takes to be watched is watched, or the failure to is
\* on its way to the schedule, whatever is asked and fails in between
\* (_on_watch_failed).
THEOREM WatchKept == Spec => []WatchedMeansWatched
  <1>1. Init => WatchInv
    BY TypeInit DEF Init, WatchInv, RootFirst, AskedOrWatched, Dirs
  <1>2. WatchInv /\ [Next]_vars => WatchInv'
    <2> SUFFICES ASSUME WatchInv, [Next]_vars PROVE WatchInv'
      OBVIOUS
    <2>1. TypeOK'
      BY TypeStep DEF WatchInv
    <2>2. CASE UNCHANGED vars
      BY <2>1, <2>2 DEF vars, onDisk, watching, WatchInv, RootFirst, AskedOrWatched
    <2>3. CASE EnqueuePeriodic
      <3>1. RootFirst'
        BY <2>3 DEF EnqueuePeriodic, onDisk, watching, WatchInv, RootFirst
      <3> QED BY <2>1, <2>3, <3>1, LoopAsks DEF WatchInv
    <2>4. CASE Watcher \/ BudgetSpent
      BY <2>1, <2>4, WatcherAsks DEF WatchInv
    <2>5. CASE Disk
      BY <2>1, <2>5, DiskAsks DEF WatchInv
    <2>6. CASE \/ Slots \/ Reopen \/ Dispatch \/ Scan \/ Work \/ ScanFails \/ LoseScan
               \/ Outside \/ Tick
      BY <2>1, <2>6, OtherAsks DEF WatchInv
    <2> QED BY <2>2, <2>3, <2>4, <2>5, <2>6 DEF Next, Faults
  <1>3. WatchInv => WatchedMeansWatched
    BY DEF WatchInv, AskedOrWatched, WatchedMeansWatched
  <1> QED BY <1>1, <1>2, <1>3, PTL DEF Spec

-----------------------------------------------------------------------------
(* A change in hand. *)

\* What a change that has been told of is after a step that leaves the queue and
\* the disk as they are.
LEMMA Carried ==
    ASSUME HandInv, UNCHANGED <<dirs, ignored, stale, events>>,
           watcher'.rules = watcher.rules,
           blind' # stale => blind' = blind /\ (OnItsWay => OnItsWay')
    PROVE  \A d \in ToFind' \ blind' : OnItsWay' \/ InQueue(d)'
  <1> SUFFICES ASSUME NEW d \in ToFind' \ blind'
               PROVE  OnItsWay' \/ InQueue(d)'
    OBVIOUS
  <1>1. d \in ToFind /\ d \in stale
    BY DEF ToFind
  <1>2. blind' = blind /\ (OnItsWay => OnItsWay')
    BY <1>1
  <1>3. OnItsWay \/ InQueue(d)
    BY <1>1, <1>2 DEF HandInv
  <1>4. Heard' = Heard
    BY DEF Heard
  <1> QED BY <1>2, <1>3, <1>4 DEF InQueue

LEMMA LoopCarries ==
    ASSUME HandInv, EnqueuePeriodic
    PROVE  \A d \in ToFind' \ blind' : OnItsWay' \/ InQueue(d)'
  <1> USE DEF onDisk, watching
  <1>0. /\ noted \in NotedType /\ slot \in SlotType /\ queue \in QueueType
        /\ budget \in Budget
        /\ sched = None \/ sched \in SchedType
    BY Types DEF HandInv
  <1>1. UNCHANGED <<dirs, ignored, stale, watcher, events>>
    BY DEF EnqueuePeriodic
  <1>2. CASE sched' = None
    BY <1>1, <1>2 DEF OnItsWay, Expected
  <1>3. CASE blind' = (IF noted.change THEN stale ELSE blind) /\ UNCHANGED <<sched, queue>>
    <2>1. CASE noted.change
      BY <1>1, <1>3, <2>1, Carried
    <2>2. CASE ~noted.change
      <3>1. OnItsWay => OnItsWay'
        BY <1>1, <1>3, <2>2 DEF OnItsWay, Expected, OnSchedule, ScanToCome
      <3> QED BY <1>1, <1>3, <2>2, <3>1, Carried
    <2> QED BY <2>1, <2>2
  <1>4. CASE /\ Refreshed(sched) # None
             /\ DueScan(Unlost(Told(Demoted(Refreshed(sched)))))
    <2> DEFINE s == Refreshed(sched)
               r == Unlost(Told(Demoted(s)))
    <2>1. s \in SchedType
      BY <1>0, <1>4, NewSourceType DEF Refreshed
    <2>2. /\ r \in SchedType
          /\ r.changed = IF noted.change THEN 0 ELSE s.changed
          /\ r.watched => s.watched
          /\ r.queued \in {s.queued, None}
          /\ r.due = s.due \/ ~r.watched
      <3>1. /\ Demoted(s) \in SchedType
            /\ Demoted(s).changed = s.changed /\ Demoted(s).queued = s.queued
            /\ Demoted(s).watched = (s.watched /\ ~noted.failure)
            /\ Demoted(s).due = s.due \/ ~Demoted(s).watched
        BY <2>1, DemotedType
      <3>2. /\ Told(Demoted(s)) \in SchedType
            /\ Told(Demoted(s)).watched = Demoted(s).watched
            /\ Told(Demoted(s)).queued = s.queued
            /\ Told(Demoted(s)).due = Demoted(s).due
            /\ Told(Demoted(s)).changed = IF noted.change THEN 0 ELSE s.changed
        BY <3>1, ToldType
      <3>3. /\ r \in SchedType /\ r.watched = Demoted(s).watched
            /\ r.changed = Told(Demoted(s)).changed /\ r.due = Demoted(s).due
            /\ r.queued \in {s.queued, None}
        BY <3>2, UnlostType
      <3> QED BY <3>1, <3>2, <3>3
    <2>3. OnItsWay => watcher.hit \/ ScanToCome \/ OnSchedule(r)
      <3>1. noted.change => OnSchedule(r)
        BY <2>2, Durations DEF OnSchedule
      <3>2. sched = None /\ ~noted.change => OnSchedule(r)
        <4>1. sched = None => s.queued = None /\ s.due <= BaseInterval
          BY <1>0, <1>4, NewSourceType DEF Refreshed
        <4> QED BY <2>2, <4>1 DEF OnSchedule
      <3>3. sched # None /\ OnSchedule(sched) /\ ~noted.change => OnSchedule(r)
        <4>1. sched # None => s = sched
          BY <1>4 DEF Refreshed
        <4> QED BY <2>2, <4>1 DEF OnSchedule
      <3> QED BY <3>1, <3>2, <3>3 DEF OnItsWay, Expected
    <2>4. /\ queue'.scan = queue.scan /\ queue'.pending \in {queue.pending, TRUE}
          /\ blind' \in {blind, stale}
          /\ \/ queue'.pending
             \/ blind' = stale
             \/ sched'.queued = None /\ sched'.due <= BaseInterval
             \/ sched' = r
      BY <1>0, <1>4, <2>2, DueScanIs
    <2> HIDE DEF s, r
    <2>5. ScanToCome => ScanToCome'
      BY <2>4 DEF ScanToCome
    <2>6. blind' = stale \/ (OnItsWay => OnItsWay')
      <3>1. CASE queue'.pending
        BY <3>1 DEF OnItsWay, ScanToCome
      <3>2. CASE sched'.queued = None /\ sched'.due <= BaseInterval
        BY <3>2 DEF OnItsWay, Expected, OnSchedule
      <3>3. CASE sched' = r
        <4>1. OnSchedule(r) => OnSchedule(sched)'
          BY <3>3 DEF OnSchedule
        <4>2. watcher.hit => watcher'.hit
          BY <1>1
        <4> QED BY <2>3, <2>5, <4>1, <4>2 DEF OnItsWay, Expected
      <3> QED BY <2>4, <3>1, <3>2, <3>3
    <2> QED BY <1>1, <2>4, <2>6, Carried
  <1> QED BY <1>2, <1>3, <1>4 DEF EnqueuePeriodic

\* The disk: what a change touches is told of by an event, or is blind.
LEMMA DiskKeeps ==
    ASSUME HandInv, Disk
    PROVE  WatcherInv'
  <1> USE DEF onDisk, watching
  <1>0. watcher \in WatcherType /\ dirs \subseteq Dirs /\ WatcherInv
    BY Types DEF HandInv
  <1>1. /\ watcher'.tracked = watcher.tracked /\ watcher'.wds \subseteq watcher.wds
        /\ watcher'.pc = watcher.pc /\ watcher'.hit = watcher.hit
        /\ watcher'.rules = watcher.rules
    BY <1>0 DEF Disk, Write, MakeSub, RemoveSub, EditIgnore, RemoveRoot, RestoreRoot, WatcherType
  <1>2. ASSUME NEW ds \in SUBSET dirs', NEW kinds \in SUBSET EventKinds, Touched(ds, kinds)
        PROVE  stale' \subseteq dirs' /\ (watcher.wds = {} => events' = events)
    BY <1>2 DEF Touched
  <1>3. stale' \subseteq dirs' /\ (watcher.wds = {} => events' = events)
    <2>1. ASSUME NEW d \in Dirs, Write(d) PROVE \E kinds \in SUBSET EventKinds,
                    ds \in SUBSET dirs' : Touched(ds, kinds)
      <3>1. {d} \in SUBSET EventKinds /\ {d} \in SUBSET dirs'
        BY <2>1 DEF Write, Dirs, EventKinds
      <3> QED BY <2>1, <3>1 DEF Write
    <2>2. CASE MakeSub
      <3>1. {"mkdir"} \in SUBSET EventKinds /\ {"sub"} \in SUBSET dirs'
        BY <2>2 DEF MakeSub, Dirs, EventKinds
      <3> QED BY <1>2, <2>2, <3>1 DEF MakeSub
    <2>3. CASE RemoveSub
      <3>1. /\ {"rmdir", "sub"} \in SUBSET EventKinds
            /\ (IF ignored THEN {} ELSE {"root"}) \in SUBSET dirs'
        BY <2>3 DEF RemoveSub, EventKinds
      <3> QED BY <1>2, <2>3, <3>1 DEF RemoveSub
    <2>4. CASE EditIgnore
      <3>1. {"ignore"} \in SUBSET EventKinds /\ dirs \in SUBSET dirs'
        BY <2>4 DEF EditIgnore, EventKinds
      <3> QED BY <1>2, <2>4, <3>1 DEF EditIgnore
    <2>5. CASE RemoveRoot
      <3>1. {"self"} \in SUBSET EventKinds /\ {} \in SUBSET dirs'
        BY DEF EventKinds
      <3> QED BY <1>2, <2>5, <3>1 DEF RemoveRoot
    <2>6. CASE RestoreRoot
      <3>1. {} \in SUBSET EventKinds /\ Dirs \in SUBSET dirs'
        BY <2>6 DEF RestoreRoot
      <3> QED BY <1>2, <2>6, <3>1 DEF RestoreRoot
    <2> QED BY <1>2, <2>1, <2>2, <2>3, <2>4, <2>5, <2>6 DEF Disk
  <1> QED BY <1>0, <1>1, <1>3 DEF WatcherInv

\* What is touched is blind, or an event for it is in the queue, and for the root
\* one that current rules let through.
LEMMA TouchedTold ==
    ASSUME HandInv, NEW ds \in SUBSET Dirs, NEW kinds \in SUBSET EventKinds,
           Touched(ds, kinds), UNCHANGED <<ignored, noted, sched, queue>>,
           watcher'.hit = watcher.hit, watcher'.rules = watcher.rules,
           "root" \in ds => \/ kinds \cap {"sub", "mkdir", "rmdir"} = {}
                            \/ ~ignored
    PROVE  \A d \in ToFind' \ blind' : OnItsWay' \/ InQueue(d)'
  <1>0. stale \subseteq dirs
    BY DEF HandInv, WatcherInv
  <1> DEFINE told == {k \in kinds : Teller(k) \in watcher.wds}
  <1>1. /\ stale' = (stale \cap dirs') \cup ds
        /\ blind' = (blind \cap dirs') \cup IF told = {} THEN ds ELSE {}
        /\ events \subseteq events'
        /\ told # {} => told \subseteq events' \/ "overflow" \in events'
    BY DEF Touched
  <1>2. Heard \subseteq Heard'
    BY <1>1 DEF Heard
  <1>3. OnItsWay' <=> OnItsWay
    BY DEF OnItsWay, Expected, OnSchedule, ScanToCome
  <1> SUFFICES ASSUME NEW d \in ToFind' \ blind'
               PROVE  OnItsWay' \/ InQueue(d)'
    OBVIOUS
  <1>4. CASE d \notin ds
    <2>1. d \in ToFind \ blind
      BY <1>1, <1>4 DEF ToFind
    <2>2. InQueue(d) => InQueue(d)'
      BY <1>1, <1>2 DEF InQueue
    <2> QED BY <1>3, <2>1, <2>2 DEF HandInv
  <1>5. CASE d \in ds
    <2>1. told # {}
      BY <1>1, <1>5 DEF ToFind
    <2>2. events' # {}
      BY <1>1, <2>1
    <2>3. ASSUME d = "root", watcher.rules = ignored PROVE Heard' # {}
      <3>1. CASE ~ignored
        BY <2>2, <2>3, <3>1 DEF Heard
      <3>2. CASE kinds \cap {"sub", "mkdir", "rmdir"} = {}
        <4>1. told \cap {"sub", "mkdir", "rmdir"} = {}
          BY <3>2
        <4> HIDE DEF told
        <4> QED BY <1>1, <2>1, <4>1 DEF Heard
      <3> QED BY <1>5, <2>3, <3>1, <3>2
    <2> QED BY <2>2, <2>3 DEF InQueue
  <1> QED BY <1>4, <1>5

LEMMA DiskTells ==
    ASSUME HandInv, Disk
    PROVE  \A d \in ToFind' \ blind' : OnItsWay' \/ InQueue(d)'
  <1> USE DEF onDisk, watching
  <1>0. /\ watcher \in WatcherType /\ dirs \subseteq Dirs /\ stale \subseteq dirs
        /\ ignored \in BOOLEAN
    BY Types DEF HandInv, WatcherInv
  <1>1. /\ watcher'.hit = watcher.hit /\ watcher'.rules = watcher.rules
        /\ UNCHANGED <<noted, sched, queue>>
    BY <1>0 DEF Disk, Write, MakeSub, RemoveSub, EditIgnore, RemoveRoot, RestoreRoot, WatcherType
  <1>2. ASSUME NEW d \in Dirs, Write(d)
        PROVE  \A e \in ToFind' \ blind' : OnItsWay' \/ InQueue(e)'
    <2>1. {d} \in SUBSET EventKinds /\ {d} \in SUBSET Dirs
      BY DEF Dirs, EventKinds
    <2>2. ignored' = ignored /\ Touched({d}, {d})
      BY <1>2 DEF Write
    <2>3. "root" \in {d} => {d} \cap {"sub", "mkdir", "rmdir"} = {}
      OBVIOUS
    <2> QED BY <1>1, <2>1, <2>2, <2>3, TouchedTold
  <1>3. CASE MakeSub
    <2>1. {"mkdir"} \in SUBSET EventKinds /\ {"sub"} \in SUBSET Dirs
      BY DEF Dirs, EventKinds
    <2>2. ignored' = ignored /\ Touched({"sub"}, {"mkdir"})
      BY <1>3 DEF MakeSub
    <2> QED BY <1>1, <2>1, <2>2, TouchedTold
  <1>4. CASE RemoveSub
    <2> DEFINE ds == IF ignored THEN {} ELSE {"root"}
    <2>1. {"rmdir", "sub"} \in SUBSET EventKinds /\ ds \in SUBSET Dirs
      BY DEF Dirs, EventKinds
    <2>2. ignored' = ignored /\ Touched(ds, {"rmdir", "sub"})
      BY <1>4 DEF RemoveSub
    <2>3. "root" \in ds => ~ignored
      OBVIOUS
    <2> HIDE DEF ds
    <2> QED BY <1>1, <2>1, <2>2, <2>3, TouchedTold
  <1>5. CASE RemoveRoot
    BY <1>5 DEF RemoveRoot, Touched, ToFind
  <1>6. CASE RestoreRoot
    <2>1. {} \in SUBSET EventKinds /\ Dirs \in SUBSET Dirs
      OBVIOUS
    <2>2. ignored' = ignored /\ Touched(Dirs, {})
      BY <1>6 DEF RestoreRoot
    <2> QED BY <1>1, <2>1, <2>2, TouchedTold
  <1>7. CASE EditIgnore
    <2> SUFFICES ASSUME NEW d \in ToFind' \ blind'
                 PROVE  InQueue(d)'
      OBVIOUS
    <2>1. Touched(dirs, {"ignore"}) /\ dirs' = dirs
      BY <1>7 DEF EditIgnore
    <2>2. d \in dirs
      BY <1>0, <2>1 DEF Touched, ToFind
    <2>3. events' \cap {"ignore", "overflow"} # {}
      BY <2>1, <2>2 DEF Touched
    <2>4. Heard' # {}
      BY <2>3 DEF Heard
    <2> QED BY <2>3, <2>4 DEF InQueue
  <1> QED BY <1>2, <1>3, <1>4, <1>5, <1>6, <1>7 DEF Disk

\* The watcher: what it takes from the queue it has heard, or is blind to.
LEMMA WatcherCarries ==
    ASSUME HandInv, Watcher \/ BudgetSpent
    PROVE  WatcherInv' /\ \A d \in ToFind' \ blind' : OnItsWay' \/ InQueue(d)'
  <1> USE DEF onDisk, watching
  <1>0. /\ watcher \in WatcherType /\ noted \in NotedType /\ WatcherInv
        /\ events \subseteq EventKinds /\ ignored \in BOOLEAN /\ stale \subseteq Dirs
    BY Types DEF HandInv
  <1>1. /\ UNCHANGED <<dirs, ignored, stale, sched, queue>>
        /\ noted.change => noted'.change
    BY <1>0 DEF Watcher, Walk, ServeRequest, WalkList, WalkAdd, Descend, ReadEvents,
                TellChange, BudgetSpent, NoteFailure, NotedType
  <1>2. (watcher.hit => watcher'.hit \/ noted'.change) => (OnItsWay => OnItsWay')
    BY <1>1 DEF OnItsWay, Expected, OnSchedule, ScanToCome
  <1> DEFINE Unhurt ==
               /\ ~watcher'.tracked => /\ watcher'.wds = {} /\ events' = {}
                                       /\ watcher'.pc \in {"idle", "tell"}
               /\ watcher'.pc = "idle" => ~watcher'.hit
             StillTold == \A d \in ToFind' \ blind' : OnItsWay' \/ InQueue(d)'
  <1>3. Unhurt => WatcherInv'
    BY <1>0, <1>1 DEF WatcherInv
  \* The queue is emptied, and what was in it is blind.
  <1>4. ASSUME blind' = (IF events = {} THEN blind ELSE stale), OnItsWay => OnItsWay'
        PROVE  StillTold
    <2> SUFFICES ASSUME NEW d \in ToFind' \ blind' PROVE OnItsWay' \/ InQueue(d)'
      OBVIOUS
    <2>1. d \in ToFind \ blind /\ events = {}
      BY <1>1, <1>4 DEF ToFind
    <2> QED BY <1>4, <2>1 DEF HandInv, InQueue
  \* The queue is left as it is.
  <1>5. ASSUME UNCHANGED <<events, blind>>, watcher'.rules = watcher.rules,
               OnItsWay => OnItsWay'
        PROVE  StillTold
    BY <1>1, <1>5, Carried
  <1> HIDE DEF Unhurt, StillTold
  <1>6. CASE ServeRequest
    <2>1. watcher' \in {Watched(watcher), Untracked(watcher)} /\ events' = {}
          /\ watcher.pc = "idle"
      BY <1>6 DEF ServeRequest
    <2>2. ~watcher.hit
      BY <1>0, <2>1 DEF WatcherInv
    <2>3. Unhurt
      BY <1>0, <2>1, <2>2, WatchedIs DEF Unhurt
    <2>4. OnItsWay => OnItsWay'
      BY <1>2, <2>2
    <2>5. StillTold
      BY <1>4, <1>6, <2>4 DEF ServeRequest
    <2> QED BY <1>3, <2>3, <2>5 DEF StillTold
  <1>7. CASE WalkList
    <2>1. /\ watcher'.tracked = watcher.tracked /\ watcher'.pc = "add"
          /\ watcher'.hit = watcher.hit /\ watcher'.rules = watcher.rules
          /\ watcher.pc = "list" /\ UNCHANGED <<events, blind>>
      BY <1>0, <1>7 DEF WalkList, WatcherType
    <2>2. Unhurt
      BY <1>0, <2>1 DEF Unhurt, WatcherInv
    <2> QED BY <1>2, <1>3, <1>5, <2>1, <2>2 DEF StillTold
  <1>8. CASE WalkAdd \/ Descend
    <2>1. PICK w \in WatcherType :
            /\ w.tracked = watcher.tracked /\ w.hit = watcher.hit /\ w.rules = watcher.rules
            /\ watcher' \in {[w EXCEPT !.pc = "descend"], AtEnd(w)}
      <3> DEFINE v(ds) == [watcher EXCEPT !.wds = @ \cup (dirs \cap ds)]
      <3>1. ASSUME NEW ds \in SUBSET Dirs
            PROVE  /\ v(ds) \in WatcherType /\ v(ds).tracked = watcher.tracked
                   /\ v(ds).hit = watcher.hit /\ v(ds).rules = watcher.rules
        BY <1>0 DEF WatcherType
      <3>2. \/ watcher' \in {[v({"root"}) EXCEPT !.pc = "descend"], AtEnd(v({"root"}))}
            \/ watcher' = AtEnd(v({"sub"}))
        BY <1>8 DEF WalkAdd, Descend
      <3>3. {"root"} \in SUBSET Dirs /\ {"sub"} \in SUBSET Dirs
        BY DEF Dirs
      <3> HIDE DEF v
      <3> QED BY <3>1, <3>2, <3>3
    <2>2. /\ watcher.pc \in {"add", "descend"} /\ UNCHANGED <<events, blind>>
      BY <1>8 DEF WalkAdd, Descend
    <2>3. watcher.tracked
      BY <1>0, <2>2 DEF WatcherInv
    <2>4. /\ watcher'.tracked /\ watcher'.hit = watcher.hit
          /\ watcher'.rules = watcher.rules
          /\ watcher'.pc = "idle" => ~watcher'.hit
      <3>1. CASE watcher' = [w EXCEPT !.pc = "descend"]
        BY <2>1, <2>3, <3>1 DEF WatcherType
      <3>2. CASE watcher' = AtEnd(w)
        BY <2>1, <2>3, <3>2, WatchedIs
      <3> QED BY <2>1, <3>1, <3>2
    <2>5. Unhurt
      BY <2>4 DEF Unhurt
    <2> QED BY <1>2, <1>3, <1>5, <2>2, <2>4, <2>5 DEF StillTold
  <1>9. CASE BudgetSpent
    <2>1. watcher' = AtEnd(Untracked(watcher)) /\ events' = {}
          /\ blind' = IF events = {} THEN blind ELSE stale
      BY <1>9 DEF BudgetSpent
    <2>2. Untracked(watcher) \in WatcherType
      BY <1>0 DEF Untracked, WatcherType
    <2>3. /\ ~watcher'.tracked /\ watcher'.wds = {} /\ watcher'.hit = watcher.hit
          /\ watcher'.pc = IF watcher.hit THEN "tell" ELSE "idle"
      <3>1. /\ ~Untracked(watcher).tracked /\ Untracked(watcher).wds = {}
            /\ Untracked(watcher).hit = watcher.hit
        BY <1>0, WatchedIs
      <3> QED BY <2>1, <2>2, <3>1, WatchedIs
    <2>4. Unhurt
      BY <2>1, <2>3 DEF Unhurt
    <2> QED BY <1>2, <1>3, <1>4, <2>1, <2>3, <2>4 DEF StillTold
  <1>10. CASE ReadEvents
    <2> DEFINE w == [watcher EXCEPT !.hit = watcher.tracked /\ Heard # {}]
               again == watcher.tracked /\ Heard \cap {"ignore", "self"} # {}
    <2>1. /\ watcher' = IF again THEN Watched(w)
                        ELSE IF "mkdir" \in Heard THEN [w EXCEPT !.pc = "descend"]
                        ELSE AtEnd(w)
          /\ blind' = blind \cup Unheard(w.hit) /\ events' = {} /\ events # {}
          /\ watcher.pc = "idle"
      BY <1>10 DEF ReadEvents, Heard
    <2>2. /\ w \in WatcherType /\ w.tracked = watcher.tracked /\ w.rules = watcher.rules
          /\ w.hit <=> watcher.tracked /\ Heard # {}
      BY <1>0 DEF WatcherType
    <2>3. watcher.tracked /\ ~watcher.hit
      BY <1>0, <2>1 DEF WatcherInv
    <2> HIDE DEF w
    <2>4. Unhurt /\ (watcher'.hit <=> w.hit)
      <3>1. CASE watcher' = Watched(w)
        <4>1. /\ watcher'.hit = w.hit /\ watcher'.wds = {}
              /\ watcher'.tracked <=> "root" \in dirs
              /\ watcher'.pc = IF "root" \in dirs THEN "list"
                               ELSE IF w.hit THEN "tell" ELSE "idle"
          BY <2>2, <3>1, WatchedIs
        <4> QED BY <2>1, <4>1 DEF Unhurt
      <3>2. CASE watcher' = [w EXCEPT !.pc = "descend"]
        <4>1. watcher'.hit = w.hit /\ watcher'.pc = "descend" /\ watcher'.tracked = w.tracked
          BY <2>2, <3>2 DEF WatcherType
        <4> QED BY <2>2, <2>3, <4>1 DEF Unhurt
      <3>3. CASE watcher' = AtEnd(w)
        <4>1. /\ watcher'.hit = w.hit /\ watcher'.tracked = w.tracked
              /\ watcher'.pc = IF w.hit THEN "tell" ELSE "idle"
          BY <2>2, <3>3, WatchedIs
        <4> QED BY <2>2, <2>3, <4>1 DEF Unhurt
      <3> HIDE DEF again
      <3> QED BY <2>1, <3>1, <3>2, <3>3
    <2>5. StillTold
      <3> SUFFICES ASSUME NEW d \in ToFind' \ blind' PROVE OnItsWay'
        BY DEF StillTold
      <3>1. d \in ToFind \ blind /\ d \in stale
        BY <1>1, <2>1 DEF ToFind
      <3>2. CASE w.hit
        BY <2>4, <3>2 DEF OnItsWay
      <3>3. CASE ~w.hit
        <4>1. Heard = {}
          BY <2>2, <2>3, <3>3
        <4>2. watcher.rules = ignored
          BY <2>1, <3>1, <3>3 DEF Unheard
        <4>3. d \notin {"sub"}
          BY <2>1, <3>1, <3>3, <4>2 DEF Unheard
        <4>4. d = "root"
          BY <1>0, <3>1, <4>3 DEF Dirs
        <4>5. OnItsWay
          BY <3>1, <4>1, <4>2, <4>4 DEF HandInv, InQueue
        <4> QED BY <1>2, <2>3, <4>5
      <3> QED BY <3>2, <3>3
    <2> QED BY <1>3, <2>4, <2>5 DEF StillTold
  <1>11. CASE TellChange
    <2>1. /\ watcher'.tracked = watcher.tracked /\ watcher'.wds = watcher.wds
          /\ watcher'.pc = "idle" /\ ~watcher'.hit /\ watcher'.rules = watcher.rules
          /\ noted'.change /\ UNCHANGED <<events, blind>>
      BY <1>0, <1>11 DEF TellChange, WatcherType, NotedType
    <2>2. Unhurt
      BY <1>0, <2>1 DEF Unhurt, WatcherInv
    <2> QED BY <1>2, <1>3, <1>5, <2>1, <2>2 DEF StillTold
  <1> QED BY <1>6, <1>7, <1>8, <1>9, <1>10, <1>11 DEF Watcher, Walk

\* The rest: a scan that lists, and what is put off or forgotten without one.
LEMMA OthersCarry ==
    ASSUME HandInv, Slots \/ Reopen \/ Dispatch \/ Scan \/ Work \/ ScanFails \/ LoseScan
                    \/ Outside \/ Tick
    PROVE  WatcherInv' /\ \A d \in ToFind' \ blind' : OnItsWay' \/ InQueue(d)'
  <1> USE DEF onDisk, watching
  <1>0. /\ sched = None \/ sched \in SchedType
        /\ queue \in QueueType /\ WatcherInv /\ stale \subseteq dirs
    BY Types DEF HandInv, WatcherInv
  <1>1. ASSUME UNCHANGED <<dirs, ignored, stale, watcher, events>>,
               blind' # stale => blind' = blind /\ (OnItsWay => OnItsWay')
        PROVE  WatcherInv' /\ \A d \in ToFind' \ blind' : OnItsWay' \/ InQueue(d)'
    BY <1>0, <1>1, Carried DEF WatcherInv
  <1>2. CASE DropUnwanted
    BY <1>1, <1>2 DEF DropUnwanted, OnItsWay, Expected
  <1>3. CASE Restart
    <2>1. WatcherInv'
      BY <1>0, <1>3 DEF Restart, Asleep, WatcherInv
    <2> QED BY <1>3, <2>1 DEF Restart, OnItsWay, Expected
  <1>4. CASE Admit \/ EditConfig \/ EditRegistry
    BY <1>1, <1>4 DEF Admit, EditConfig, EditRegistry, OnItsWay, Expected, OnSchedule,
                      ScanToCome
  <1>5. CASE Dispatch \/ UserScan \/ Produce \/ Work
    <2>1. UNCHANGED <<onDisk, watching, noted, sched>> /\ (ScanToCome => ScanToCome')
      BY <1>0, <1>5 DEF Dispatch, UserScan, Produce, Work, WorkBegins, WorkEnds,
                        ScanToCome, QueueType
    <2> QED BY <1>1, <2>1 DEF OnItsWay, Expected, OnSchedule
  <1>6. CASE LoseScan
    BY <1>1, <1>6 DEF LoseScan
  <1>7. CASE Reopen
    <2>1. sched' # None => sched'.queued = None /\ sched'.due = 0
      BY <1>0, <1>7 DEF Reopen, ScanEverythingNow, SchedType
    <2>2. OnItsWay'
      BY <2>1, Durations DEF OnItsWay, Expected, OnSchedule
    <2> QED BY <1>1, <1>7, <2>2 DEF Reopen
  <1>8. CASE List
    <2>1. stale' \subseteq dirs' /\ stale' = {} /\ UNCHANGED <<dirs, watcher, events>>
      BY <1>0, <1>8 DEF List
    <2> QED BY <1>0, <2>1 DEF WatcherInv, ToFind
  <1>9. CASE ScanEnds \/ ScanFails
    <2>1. PICK found \in {None, 0, 1} : sched' = Looked(sched, found)
      BY <1>0, <1>9 DEF ScanEnds, ScanFails, QueueType
    <2>2. UNCHANGED <<dirs, ignored, stale, watcher, events, noted>>
      BY <1>9 DEF ScanEnds, ScanFails
    <2>3. CASE blind' = stale
      BY <1>1, <2>2, <2>3
    <2>4. CASE blind' # stale
      <3>1. blind' = blind /\ ~Unasked /\ queue.scan = "listed"
        BY <1>0, <1>9, <2>4 DEF ScanEnds, ScanFails, QueueType
      <3>2. queue'.pending = queue.pending
        BY <1>0, <1>9 DEF ScanEnds, ScanFails, QueueType
      <3>3. sched = None => sched' = None
        BY <2>1 DEF Looked
      <3>4. sched # None => /\ sched'.watched = sched.watched
                            /\ sched'.changed = sched.changed /\ sched.queued # None
        BY <1>0, <2>1, <3>1, LookedType DEF Unasked
      <3>5. Expected => Expected'
        BY <3>3, <3>4 DEF Expected, OnSchedule
      <3> QED BY <1>1, <2>2, <3>1, <3>2, <3>5 DEF OnItsWay, ScanToCome
    <2> QED BY <2>3, <2>4
  <1>10. CASE Tick
    <2>1. sched = None => sched' = None
      BY <1>10 DEF Tick
    <2>2. ASSUME sched # None
          PROVE  /\ sched'.watched = sched.watched
                 /\ sched.changed # None => sched'.changed # None
                 /\ sched.queued = None => sched'.queued = None
                 /\ sched'.due <= sched.due /\ sched.due \in Nat /\ sched'.due \in Nat
      <3>1. /\ sched'.watched = sched.watched
            /\ sched'.due = Less(sched.due) /\ sched.due \in Nat
            /\ sched'.queued = More(sched.queued, SCAN_LOST + 1)
            /\ sched'.changed = More(sched.changed, CHANGE_SETTLE)
        BY <1>0, <1>10, <2>2, Durations DEF Tick, SchedType
      <3>2. Less(sched.due) \in Nat /\ Less(sched.due) <= sched.due
        BY <3>1 DEF Less
      <3>3. sched.changed # None => More(sched.changed, CHANGE_SETTLE) # None
        BY <1>0, <2>2, Durations DEF SchedType, More
      <3>4. sched.queued = None => More(sched.queued, SCAN_LOST + 1) = None
        BY DEF More
      <3> QED BY <3>1, <3>2, <3>3, <3>4
    <2>3. Expected => Expected'
      BY <2>1, <2>2, Durations DEF Expected, OnSchedule
    <2> QED BY <1>1, <1>10, <2>3 DEF Tick, OnItsWay, ScanToCome
  <1> QED BY <1>2, <1>3, <1>4, <1>5, <1>6, <1>7, <1>8, <1>9, <1>10
        DEF Slots, Scan, Outside

\* A change the watcher could tell of is never dropped between the kernel's queue,
\* the watcher, the notes and the schedule, and the scan that lists it.
THEOREM ChangesKept == Spec => []ChangeInHand
  <1>1. Init => HandInv
    BY TypeInit DEF Init, HandInv, WatcherInv, Asleep, OnItsWay, Expected
  <1>2. HandInv /\ [Next]_vars => HandInv'
    <2> SUFFICES ASSUME HandInv, [Next]_vars PROVE HandInv'
      OBVIOUS
    <2>1. TypeOK'
      BY TypeStep DEF HandInv
    <2>2. CASE UNCHANGED vars
      <3>1. UNCHANGED <<dirs, ignored, stale, blind, watcher, events, noted, sched, queue>>
        BY <2>2 DEF vars, onDisk, watching
      <3>2. WatcherInv'
        BY <3>1 DEF HandInv, WatcherInv
      <3>3. OnItsWay => OnItsWay'
        BY <3>1 DEF OnItsWay, Expected, OnSchedule, ScanToCome
      <3> QED BY <2>1, <3>1, <3>2, <3>3, Carried DEF HandInv
    <2>3. CASE EnqueuePeriodic
      <3>1. WatcherInv'
        BY <2>3 DEF EnqueuePeriodic, onDisk, watching, HandInv, WatcherInv
      <3> QED BY <2>1, <2>3, <3>1, LoopCarries DEF HandInv
    <2>4. CASE Watcher \/ BudgetSpent
      BY <2>1, <2>4, WatcherCarries DEF HandInv
    <2>5. CASE Disk
      BY <2>1, <2>5, DiskKeeps, DiskTells DEF HandInv
    <2>6. CASE \/ Slots \/ Reopen \/ Dispatch \/ Scan \/ Work \/ ScanFails \/ LoseScan
               \/ Outside \/ Tick
      BY <2>1, <2>6, OthersCarry DEF HandInv
    <2> QED BY <2>2, <2>3, <2>4, <2>5, <2>6 DEF Next, Faults
  <1>3. HandInv => ChangeInHand
    BY DEF HandInv, OnItsWay, InQueue, ChangeInHand, Announced
  <1> QED BY <1>1, <1>2, <1>3, PTL DEF Spec

-----------------------------------------------------------------------------
(* What the look does to the index (Sources). *)

Rows == [Corpora \X Paths -> Row \cup {NoRow}]
Roads == Roots \cup {NoRoot}

\* A queue of work: its jobs, each once.
Tidy(q) == q \in Seq(DocumentJob) /\ \A i, j \in DOMAIN q : q[i] = q[j] => i = j

\* A row whose file was claimed by a directory names a recorded source, and
\* so does the scan that runs.
RowsRecorded ==
    \A k \in Corpora \X Paths :
        rows[k] # NoRow /\ rows[k].root # NoRoot => <<k[1], rows[k].root>> \in recorded
ScanRecorded == scan # NoScan => scan.site \in recorded
SourcesInv == SourcesTypeOK /\ RowsRecorded /\ ScanRecorded

-----------------------------------------------------------------------------
(* The queue. *)

\* The jobs handed to the queue can be put in an order, each once.
LEMMA ArrangedOnce ==
    ASSUME NEW S, IsFiniteSet(S)
    PROVE  /\ Cardinality(S) \in Nat
           /\ Arranged(S) \in [1 .. Cardinality(S) -> S]
           /\ \A i, j \in 1 .. Cardinality(S) : Arranged(S)[i] = Arranged(S)[j] => i = j
  <1> DEFINE n == Cardinality(S)
  <1>1. n \in Nat /\ ExistsBijection(1 .. n, S)
    BY FS_CardinalityType
  <1>2. PICK f : f \in Bijection(1 .. n, S)
    BY <1>1 DEF ExistsBijection
  <1>3. f \in Inject(S)
    BY <1>2 DEF Bijection, Surjection, Injection, Inject
  <1>4. Arranged(S) \in Inject(S)
    BY <1>3 DEF Arranged
  <1>5. Arranged(S) \in Surjection(1 .. n, S)
    BY <1>4 DEF Inject, Surjection
  <1>6. IsFiniteSet(1 .. n) /\ Cardinality(1 .. n) = n
    BY <1>1, FS_Interval
  <1>7. Arranged(S) \in Injection(1 .. n, S)
    BY <1>5, <1>6, FS_SurjSameCardinalityImpliesInj
  <1>8. QED
    BY <1>1, <1>7 DEF Injection, IsInjective

\* INSERT OR IGNORE: what is asked for and does not wait yet joins the end.
LEMMA QueuedTidy ==
    ASSUME Tidy(pending), NEW jobs \in SUBSET DocumentJob, IsFiniteSet(jobs)
    PROVE  Tidy(Queued(jobs))
  <1> DEFINE S == jobs \ Waiting
             q == Arranged(S)
  <1>1. IsFiniteSet(S)
    BY FS_Subset
  <1>2. /\ Cardinality(S) \in Nat /\ q \in [1 .. Cardinality(S) -> S]
        /\ \A i, j \in 1 .. Cardinality(S) : q[i] = q[j] => i = j
    BY <1>1, ArrangedOnce
  <1>3. Queued(jobs) = pending \o q
    BY DEF Queued
  <1> HIDE DEF q
  <1> DEFINE n == Cardinality(S)
  <1> HIDE DEF n
  <1>4. n \in Nat /\ n = Cardinality(S) /\ q \in Seq(DocumentJob) /\ Len(q) = n
    <2>1. n \in Nat /\ q \in [1 .. n -> S]
      BY <1>2 DEF n
    <2>2. q \in [1 .. n -> DocumentJob]
      BY <2>1
    <2>3. q \in Seq(DocumentJob)
      BY <2>1, <2>2
    <2>4. Len(q) = n
      BY <2>1, <2>3
    <2>5. QED
      BY <2>1, <2>3, <2>4 DEF n
  <1>5. pending \in Seq(DocumentJob) /\ Len(pending) \in Nat /\ DOMAIN pending = 1 .. Len(pending)
    BY DEF Tidy
  <1>6. \A i \in 1 .. Len(pending), j \in 1 .. Len(q) : pending[i] # q[j]
    BY <1>2, <1>4, <1>5 DEF Waiting
  <1> DEFINE r == pending \o q
  <1>7. r \in Seq(DocumentJob) /\ Len(r) = Len(pending) + Len(q) /\ DOMAIN r = 1 .. Len(r)
    BY <1>4, <1>5
  <1>8. \A i \in 1 .. Len(r) :
            r[i] = IF i <= Len(pending) THEN pending[i] ELSE q[i - Len(pending)]
    BY <1>4, <1>5
  <1> HIDE DEF r
  <1>9. \A i, j \in 1 .. Len(pending) : pending[i] = pending[j] => i = j
    BY <1>5 DEF Tidy
  <1>10. ASSUME NEW i \in 1 .. Len(r), NEW j \in 1 .. Len(r), r[i] = r[j]
         PROVE  i = j
    <2>1. CASE i <= Len(pending) /\ j <= Len(pending)
      BY <1>5, <1>8, <1>9, <1>10, <2>1
    <2>2. CASE i <= Len(pending) /\ j > Len(pending)
      <3>1. i \in 1 .. Len(pending) /\ j - Len(pending) \in 1 .. Len(q)
        BY <1>4, <1>5, <1>7, <2>2
      <3>2. pending[i] = q[j - Len(pending)]
        BY <1>5, <1>8, <1>10, <2>2
      <3>3. QED
        BY <1>6, <3>1, <3>2
    <2>3. CASE i > Len(pending) /\ j <= Len(pending)
      <3>1. j \in 1 .. Len(pending) /\ i - Len(pending) \in 1 .. Len(q)
        BY <1>4, <1>5, <1>7, <2>3
      <3>2. pending[j] = q[i - Len(pending)]
        BY <1>5, <1>8, <1>10, <2>3
      <3>3. QED
        BY <1>6, <3>1, <3>2
    <2>4. CASE i > Len(pending) /\ j > Len(pending)
      <3>1. /\ i - Len(pending) \in 1 .. Cardinality(S) /\ j - Len(pending) \in 1 .. Cardinality(S)
        BY <1>2, <1>4, <1>5, <1>7, <2>4
      <3>2. q[i - Len(pending)] = q[j - Len(pending)]
        BY <1>5, <1>8, <1>10, <2>4
      <3>3. i - Len(pending) = j - Len(pending)
        BY <1>2, <3>1, <3>2
      <3>4. QED
        BY <1>5, <1>7, <3>3
    <2>5. QED
      BY <1>5, <1>7, <2>1, <2>2, <2>3, <2>4
  <1>11. QED
    BY <1>3, <1>7, <1>10 DEF Tidy, r

\* A job that is taken leaves the others in their order.
LEMMA DroppedTidy ==
    ASSUME Tidy(pending), NEW i \in DOMAIN pending
    PROVE  Tidy(Dropped(i))
  <1>1. pending \in Seq(DocumentJob) /\ Len(pending) \in Nat /\ DOMAIN pending = 1 .. Len(pending)
    BY DEF Tidy
  <1>2. Len(pending) - 1 \in Nat
    BY <1>1
  <1>3. \A j \in 1 .. Len(pending) - 1 : (IF j < i THEN j ELSE j + 1) \in DOMAIN pending
    BY <1>1
  <1>4. Dropped(i) \in [1 .. Len(pending) - 1 -> DocumentJob]
    BY <1>1, <1>3 DEF Dropped
  <1>5. Dropped(i) \in Seq(DocumentJob)
    BY <1>2, <1>4
  <1>6. \A j, k \in 1 .. Len(pending) - 1 : Dropped(i)[j] = Dropped(i)[k] => j = k
    BY <1>1, <1>3 DEF Dropped, Tidy
  <1>7. QED
    BY <1>4, <1>5, <1>6 DEF Tidy

LEMMA TakeTidy ==
    ASSUME Tidy(pending), NEW job, Take(job)
    PROVE  Tidy(pending') /\ job \in Waiting /\ scan = NoScan
  <1>1. PICK i \in DOMAIN pending : pending[i] = job /\ pending' = Dropped(i)
    BY DEF Take
  <1>2. QED
    BY <1>1, DroppedTidy DEF Take, Waiting
-----------------------------------------------------------------------------
(* Types. *)

LEMMA SourceTypes ==
    SourcesTypeOK <=> /\ setup \in Setup /\ disk \in Disks
                      /\ place \in [Roots -> Places] /\ leftOut \in [Roots -> SUBSET Paths]
                      /\ configured \in (SUBSET Sites) \ {{}} /\ recorded \subseteq Sites
                      /\ rows \in Rows /\ Tidy(pending)
                      /\ scan = NoScan \/ scan \in ScanRun
  BY Zenon DEF SourcesTypeOK, Rows, Tidy

LEMMA SourceTypesNext ==
    SourcesTypeOK' <=> /\ setup' \in Setup /\ disk' \in Disks
                       /\ place' \in [Roots -> Places] /\ leftOut' \in [Roots -> SUBSET Paths]
                       /\ configured' \in (SUBSET Sites) \ {{}} /\ recorded' \subseteq Sites
                       /\ rows' \in Rows /\ Tidy(pending')
                       /\ scan' = NoScan \/ scan' \in ScanRun
  BY Zenon DEF SourcesTypeOK, Rows, Tidy

LEMMA SpendChangeType ==
    ASSUME SourcesTypeOK, NEW kind \in Kinds, SpendChange(kind)
    PROVE  setup' \in Setup
  <1>1. setup \in Setup
    BY SourceTypes
  <1>2. setup.changes[kind] - 1 \in Nat
    BY <1>1 DEF SpendChange, Setup
  <1>3. [setup.changes EXCEPT ![kind] = @ - 1] \in [Kinds -> Nat]
    BY <1>1, <1>2 DEF Setup
  <1>4. setup' = [setup EXCEPT !.changes = [setup.changes EXCEPT ![kind] = @ - 1]]
    BY <1>1 DEF SpendChange, Setup
  <1>5. QED
    BY <1>1, <1>3, <1>4 DEF Setup

\* What is done to the world leaves the index alone.
LEMMA UserStep ==
    ASSUME SourcesTypeOK, User
    PROVE  SourcesTypeOK' /\ UNCHANGED <<tables, pending, scan>>
  <1> USE SourceTypes, SourceTypesNext
  <1>1. ASSUME NEW r \in Roots, NEW p \in Paths, NEW v \in Texts \cup {NoFile},
               WriteFile(r, p, v)
        PROVE  SourcesTypeOK' /\ UNCHANGED <<tables, pending, scan>>
    <2>1. setup' \in Setup
      BY <1>1, SpendChangeType DEF WriteFile, Kinds
    <2>2. disk' \in Disks
      BY <1>1 DEF WriteFile, Disks
    <2>3. UNCHANGED <<place, leftOut, configured, recorded, rows, pending, scan>>
      BY <1>1 DEF WriteFile, tables
    <2>4. QED
      BY <2>1, <2>2, <2>3 DEF tables
  <1>2. ASSUME NEW r \in Roots, NEW p \in Paths, NEW s \in Roots, NEW q \in Paths,
               Carry(r, p, s, q)
        PROVE  SourcesTypeOK' /\ UNCHANGED <<tables, pending, scan>>
    <2>1. setup' \in Setup
      BY <1>2, SpendChangeType DEF Carry, Kinds
    <2>2. disk' \in Disks
      <3>1. disk[r][p] \in Texts \cup {NoFile}
        BY DEF Disks
      <3>2. DEFINE d == [disk EXCEPT ![s][q] = disk[r][p]]
      <3>3. d \in Disks
        BY <3>1 DEF Disks
      <3>4. disk' = [d EXCEPT ![r][p] = NoFile]
        BY <1>2 DEF Carry
      <3>5. QED
        BY <3>3, <3>4 DEF Disks
    <2>3. UNCHANGED <<place, leftOut, configured, recorded, rows, pending, scan>>
      BY <1>2 DEF Carry, tables
    <2>4. QED
      BY <2>1, <2>2, <2>3 DEF tables
  <1>3. ASSUME NEW r \in Roots, NEW p \in Paths, EditRules(r, p)
        PROVE  SourcesTypeOK' /\ UNCHANGED <<tables, pending, scan>>
    <2>1. setup' \in Setup
      BY <1>3, SpendChangeType DEF EditRules, Kinds
    <2>2. leftOut' \in [Roots -> SUBSET Paths]
      BY <1>3 DEF EditRules
    <2>3. UNCHANGED <<disk, place, configured, recorded, rows, pending, scan>>
      BY <1>3 DEF EditRules, tables
    <2>4. QED
      BY <2>1, <2>2, <2>3 DEF tables
  <1>4. ASSUME NEW r \in Roots, NEW to \in Places, Mount(r, to)
        PROVE  SourcesTypeOK' /\ UNCHANGED <<tables, pending, scan>>
    <2>1. setup' \in Setup
      BY <1>4, SpendChangeType DEF Mount, Kinds
    <2>2. place' \in [Roots -> Places]
      BY <1>4 DEF Mount
    <2>3. UNCHANGED <<disk, leftOut, configured, recorded, rows, pending, scan>>
      BY <1>4 DEF Mount, tables
    <2>4. QED
      BY <2>1, <2>2, <2>3 DEF tables
  <1>5. ASSUME NEW d \in setup.config, Declare(d)
        PROVE  SourcesTypeOK' /\ UNCHANGED <<tables, pending, scan>>
    <2>1. setup' \in Setup
      BY <1>5, SpendChangeType DEF Declare, Kinds
    <2>2. configured' \in (SUBSET Sites) \ {{}}
      BY <1>5 DEF Declare, Setup
    <2>3. UNCHANGED <<disk, place, leftOut, recorded, rows, pending, scan>>
      BY <1>5 DEF Declare, tables
    <2>4. QED
      BY <2>1, <2>2, <2>3 DEF tables
  <1>6. QED
    BY <1>1, <1>2, <1>3, <1>4, <1>5 DEF User

-----------------------------------------------------------------------------
(* The table of files. *)

\* The rows a scan claims stay what they were, but for the directory.
LEMMA Claimed ==
    ASSUME rows \in Rows, NEW c \in Corpora, NEW r \in Roots, NEW ps \in SUBSET Paths
    PROVE  /\ ClaimFiles(c, r, ps) \in Rows
           /\ \A k \in Corpora \X Paths :
                  LET row == ClaimFiles(c, r, ps)[k]
                  IN  IF k[1] = c /\ k[2] \in ps /\ rows[k] # NoRow
                      THEN row \in Row /\ row.root = r
                      ELSE row = rows[k]
  <1> DEFINE t == ClaimFiles(c, r, ps)
  <1>1. DOMAIN rows = Corpora \X Paths
    BY DEF Rows
  <1>2. t = [k \in Corpora \X Paths |->
               IF k[1] = c /\ k[2] \in ps /\ rows[k] # NoRow
               THEN [rows[k] EXCEPT !.root = r] ELSE rows[k]]
    BY <1>1 DEF ClaimFiles
  <1>3. \A row \in Row : [row EXCEPT !.root = r] \in Row /\ [row EXCEPT !.root = r].root = r
    BY DEF Row
  <1>4. \A k \in Corpora \X Paths : rows[k] # NoRow => rows[k] \in Row
    BY DEF Rows
  <1>5. \A k \in Corpora \X Paths :
            IF k[1] = c /\ k[2] \in ps /\ rows[k] # NoRow
            THEN t[k] \in Row /\ t[k].root = r ELSE t[k] = rows[k]
    BY <1>2, <1>3, <1>4
  <1>6. t \in Rows
    BY <1>2, <1>4, <1>5 DEF Rows
  <1> HIDE DEF t
  <1>7. QED
    BY <1>5, <1>6 DEF t

\* A move takes a row from one key to another, where no directory has claimed
\* it yet.
LEMMA Moved ==
    ASSUME NEW table \in Rows,
           NEW moves, \A m \in moves : m[1] \in Corpora \X Paths /\ table[m[1]] # NoRow
    PROVE  /\ MovedAll(table, moves) \in Rows
           /\ \A k \in Corpora \X Paths :
                  LET row == MovedAll(table, moves)[k]
                  IN  \/ row \in Row /\ row.root = NoRoot
                      \/ row = NoRow /\ \E m \in moves : m[1] = k
                      \/ row = table[k]
  <1> DEFINE t == MovedAll(table, moves)
  <1>1. DOMAIN table = Corpora \X Paths
    BY DEF Rows
  <1>2. ASSUME NEW k \in Corpora \X Paths, \E m \in moves : m[2] = k
        PROVE  t[k] \in Row /\ t[k].root = NoRoot
    <2> DEFINE m == CHOOSE m \in moves : m[2] = k
    <2>1. m \in moves
      BY <1>2
    <2>2. table[m[1]] \in Row
      BY <2>1 DEF Rows
    <2>3. t[k] = [hash |-> table[m[1]].hash, root |-> NoRoot]
      BY <1>1, <1>2 DEF MovedAll
    <2> HIDE DEF m
    <2>4. QED
      BY <2>2, <2>3 DEF Row
  <1>3. ASSUME NEW k \in Corpora \X Paths, ~\E m \in moves : m[2] = k
        PROVE  (t[k] = NoRow /\ (\E m \in moves : m[1] = k)) \/ t[k] = table[k]
    BY <1>1, <1>3 DEF MovedAll
  <1>4. t = [k \in Corpora \X Paths |-> t[k]]
    BY <1>1 DEF MovedAll
  <1> HIDE DEF t
  <1>5. \A k \in Corpora \X Paths : t[k] \in Row \cup {NoRow}
    BY <1>2, <1>3 DEF Rows
  <1>6. t \in Rows
    BY <1>4, <1>5 DEF Rows
  <1>7. QED
    BY <1>2, <1>3, <1>6 DEF t

LEMMA MatchingsArePairs == \A pairs : \A m \in Matchings(pairs) : m \subseteq pairs
  BY DEF Matchings

\* Within the corpus a scan moves rows it did not see the file of, to a file it
\* did see; from another corpus it takes only what no other recorded source
\* still has.
Within(m, c, r) ==
    /\ m[1][1] = c /\ m[1][2] \in Indexed(ClaimFiles(c, r, scan.listed), c, r)
    /\ ~(m[1][2] \in scan.listed /\ There(r, m[1][2]))
    /\ place[r] = "up"
Across(m, c, r) == m[1][1] # c /\ ~StillThere(m[1][1], m[1][2], r)

LEMMA ScanDiffStep ==
    ASSUME SourcesTypeOK, ScanDiff
    PROVE  LET c == scan.site[1]
               r == scan.site[2]
               table == ClaimFiles(c, r, scan.listed)
           IN  /\ scan \in ScanRun /\ scan' \in ScanRun /\ scan'.site = scan.site
               /\ c \in Corpora /\ r \in Roots /\ scan.site = <<c, r>>
               /\ UNCHANGED <<world, recorded, pending>>
               /\ \E moves :
                     /\ rows' = MovedAll(table, moves)
                     /\ \A m \in moves :
                           /\ m[1] \in Corpora \X Paths /\ table[m[1]] # NoRow
                           /\ Within(m, c, r) \/ Across(m, c, r)
  <1> DEFINE c == scan.site[1]
             r == scan.site[2]
             table == ClaimFiles(c, r, scan.listed)
             seen == {p \in scan.listed : There(r, p)}
             added == {p \in seen : table[<<c, p>>] = NoRow}
             modified == {p \in seen \ added : table[<<c, p>>].hash # disk[r][p]}
             gone == Indexed(table, c, r) \ seen
             renames == {m \in gone \X added : table[<<c, m[1]>>].hash = disk[r][m[2]]}
             Global == {g \in [Paths -> Corpora] :
                          \A q \in Paths : table[<<g[q], q>>] = NoRow =>
                              \A b \in Corpora : table[<<b, q>>] = NoRow}
             new(inside) == added \ {m[2] : m \in inside}
             leavers(inside, g) ==
                 {m \in Paths \X new(inside) :
                    LET q == m[1]
                    IN  /\ g[q] # c /\ table[<<g[q], q>>] # NoRow
                        /\ table[<<g[q], q>>].hash = disk[r][m[2]]
                        /\ ~StillThere(g[q], q, r)}
             moves(inside, g, across) ==
                 {<<<<c, m[1]>>, <<c, m[2]>>>> : m \in inside}
                 \cup {<<<<g[m[1]], m[1]>>, <<c, m[2]>>>> : m \in across}
             Offered(inside, across) ==
                 [step |-> "offer", site |-> scan.site,
                  siblings |-> scan.siblings, listed |-> scan.listed,
                  gone |-> gone \ {m[1] : m \in inside},
                  offer |-> modified \cup (new(inside) \ {m[2] : m \in across})]
  <1>1. scan \in ScanRun
    <2>1. NoScan.step # "diff"
      BY DEF NoScan
    <2>2. QED
      BY <2>1, SourceTypes DEF ScanDiff
  <1>2. c \in Corpora /\ r \in Roots /\ scan.site = <<c, r>> /\ scan.listed \in SUBSET Paths
    BY <1>1 DEF ScanRun, Sites
  <1>3. PICK inside \in Matchings(renames), g \in Global :
            \E across \in Matchings(leavers(inside, g)) :
               /\ rows' = MovedAll(table, moves(inside, g, across))
               /\ scan' = Offered(inside, across)
    BY DEF ScanDiff
  <1>4. PICK across \in Matchings(leavers(inside, g)) :
            /\ rows' = MovedAll(table, moves(inside, g, across))
            /\ scan' = Offered(inside, across)
    BY <1>3
  <1>5. /\ gone \subseteq Paths /\ added \subseteq Paths /\ modified \subseteq Paths
        /\ \A q \in gone : table[<<c, q>>] # NoRow
    BY <1>2 DEF Indexed
  <1>6. g \in [Paths -> Corpora]
    OBVIOUS
  <1>7. inside \subseteq renames /\ across \subseteq leavers(inside, g)
    BY MatchingsArePairs
  <1>8. scan' \in ScanRun /\ scan'.site = scan.site
    <2>1. /\ gone \ {m[1] : m \in inside} \in SUBSET Paths
          /\ modified \cup (new(inside) \ {m[2] : m \in across}) \in SUBSET Paths
      BY <1>5
    <2> HIDE DEF gone, modified, new, added
    <2>2. QED
      BY <1>1, <1>4, <2>1 DEF ScanRun
  <1>9. ASSUME NEW m \in inside
        PROVE  LET x == <<<<c, m[1]>>, <<c, m[2]>>>>
               IN  /\ x[1] \in Corpora \X Paths /\ table[x[1]] # NoRow
                   /\ Within(x, c, r)
    <2>1. m[1] \in gone /\ m[2] \in added
      BY <1>7
    <2>2. m[2] \in scan.listed /\ There(r, m[2])
      BY <2>1
    <2>3. place[r] = "up"
      BY <2>2 DEF There
    <2>4. m[1] \in Indexed(table, c, r) /\ ~(m[1] \in scan.listed /\ There(r, m[1]))
      BY <2>1
    <2>5. m[1] \in Paths /\ table[<<c, m[1]>>] # NoRow
      BY <1>5, <2>1
    <2> HIDE DEF gone, added, table
    <2>6. QED
      BY <1>2, <2>3, <2>4, <2>5 DEF Within, table
  <1>10. ASSUME NEW m \in across
         PROVE  LET x == <<<<g[m[1]], m[1]>>, <<c, m[2]>>>>
                IN  /\ x[1] \in Corpora \X Paths /\ table[x[1]] # NoRow
                    /\ Across(x, c, r)
    <2>1. /\ m[1] \in Paths /\ g[m[1]] # c /\ table[<<g[m[1]], m[1]>>] # NoRow
          /\ ~StillThere(g[m[1]], m[1], r)
      BY <1>7
    <2> HIDE DEF table
    <2>2. QED
      BY <1>6, <2>1 DEF Across
  <1>11. \A x \in moves(inside, g, across) :
             /\ x[1] \in Corpora \X Paths /\ table[x[1]] # NoRow
             /\ Within(x, c, r) \/ Across(x, c, r)
    BY <1>9, <1>10
  <1>12. UNCHANGED <<world, recorded, pending>>
    BY DEF ScanDiff
  <1> HIDE DEF moves, table
  <1>13. QED
    BY <1>1, <1>2, <1>4, <1>8, <1>11, <1>12 DEF table

-----------------------------------------------------------------------------
(* The invariant, action by action. *)

LEMMA InitInv == SourcesInit => SourcesInv
  <1> SUFFICES ASSUME SourcesInit PROVE SourcesInv
    OBVIOUS
  <1>1. setup \in Setup
    BY SourcesAssumption DEF SourcesInit
  <1>2. disk \in Disks /\ configured \in (SUBSET Sites) \ {{}} /\ recorded = configured
    BY <1>1 DEF SourcesInit, Setup
  <1>3. rows \in Rows /\ scan = NoScan
    BY DEF SourcesInit, Rows
  <1>4. Tidy(pending)
    BY DEF SourcesInit, Tidy
  <1>5. place \in [Roots -> Places] /\ leftOut \in [Roots -> SUBSET Paths]
    BY DEF SourcesInit, Places
  <1>6. SourcesTypeOK
    BY <1>1, <1>2, <1>3, <1>4, <1>5, SourceTypes
  <1>7. ASSUME NEW c \in Corpora, NEW p \in Paths, rows[<<c, p>>] # NoRow
        PROVE  <<c, rows[<<c, p>>].root>> \in recorded
    <2> DEFINE rs == {r \in Roots : Indexable(c, p, r)}
    <2>1. rows[<<c, p>>] \in IF rs = {} THEN {NoRow}
                            ELSE {[hash |-> disk[r][p], root |-> r] : r \in rs}
      BY DEF SourcesInit
    <2>2. PICK r \in rs : rows[<<c, p>>] = [hash |-> disk[r][p], root |-> r]
      BY <1>7, <2>1
    <2>3. rows[<<c, p>>].root = r /\ <<c, r>> \in configured
      BY <2>2 DEF Indexable
    <2>4. QED
      BY <1>2, <2>3
  <1>8. RowsRecorded
    BY <1>7 DEF RowsRecorded
  <1>9. QED
    BY <1>3, <1>6, <1>8 DEF SourcesInv, ScanRecorded

LEMMA AskScanInv ==
    ASSUME SourcesInv, NEW site \in Sites, AskScan(site)
    PROVE  SourcesInv'
  <1> USE SourceTypes, SourceTypesNext DEF SourcesInv
  <1> DEFINE jobs == {<<"scan", site>>}
  <1>1. jobs \in SUBSET DocumentJob
    BY DEF DocumentJob
  <1>2. IsFiniteSet(jobs)
    BY FS_Singleton
  <1>3. Tidy(pending')
    BY <1>1, <1>2, QueuedTidy DEF AskScan
  <1>4. UNCHANGED <<setup, disk, place, leftOut, configured, recorded, rows, scan>>
    BY DEF AskScan, world, tables
  <1>5. SourcesTypeOK'
    BY <1>3, <1>4
  <1>6. RowsRecorded' /\ ScanRecorded'
    BY <1>4 DEF RowsRecorded, ScanRecorded
  <1>7. QED
    BY <1>5, <1>6

LEMMA ScanStartInv ==
    ASSUME SourcesInv, NEW c \in Corpora, NEW r \in Roots, ScanStart(c, r)
    PROVE  SourcesInv'
  <1> USE SourceTypes, SourceTypesNext DEF SourcesInv
  <1>1. Tidy(pending')
    BY TakeTidy DEF ScanStart
  <1>2. UNCHANGED <<setup, disk, place, leftOut, configured, rows>>
    BY DEF ScanStart, world
  <1>3. CASE Readable(r)
    <2>1. /\ scan' = [step |-> "diff", site |-> <<c, r>>,
                      siblings |-> {s \in Roots \ {r} : <<c, s>> \in recorded},
                      listed |-> {p \in Paths : There(r, p)} \ Rules(r),
                      gone |-> {}, offer |-> {}]
          /\ recorded' = recorded \cup {<<c, r>>}
      BY <1>3 DEF ScanStart
    <2>2. scan' \in ScanRun /\ scan'.site = <<c, r>>
      BY <2>1 DEF ScanRun, Sites
    <2>3. recorded' \subseteq Sites
      BY <2>1 DEF Sites
    <2>4. SourcesTypeOK'
      BY <1>1, <1>2, <2>2, <2>3
    <2>5. RowsRecorded' /\ ScanRecorded'
      BY <1>2, <2>1, <2>2 DEF RowsRecorded, ScanRecorded
    <2>6. QED
      BY <2>4, <2>5
  <1>4. CASE ~Readable(r)
    <2>1. UNCHANGED <<scan, recorded>>
      BY <1>4 DEF ScanStart
    <2>2. SourcesTypeOK'
      BY <1>1, <1>2, <2>1
    <2>3. RowsRecorded' /\ ScanRecorded'
      BY <1>2, <2>1 DEF RowsRecorded, ScanRecorded
    <2>4. QED
      BY <2>2, <2>3
  <1>5. QED
    BY <1>3, <1>4

LEMMA ScanDiffInv ==
    ASSUME SourcesInv, ScanDiff
    PROVE  SourcesInv'
  <1> DEFINE c == scan.site[1]
             r == scan.site[2]
             table == ClaimFiles(c, r, scan.listed)
  <1>1. /\ scan \in ScanRun /\ scan' \in ScanRun /\ scan'.site = scan.site
        /\ c \in Corpora /\ r \in Roots /\ scan.site = <<c, r>>
        /\ UNCHANGED <<world, recorded, pending>>
    BY ScanDiffStep DEF SourcesInv
  <1>2. PICK moves : /\ rows' = MovedAll(table, moves)
                     /\ \A m \in moves : m[1] \in Corpora \X Paths /\ table[m[1]] # NoRow
    BY ScanDiffStep DEF SourcesInv
  <1>3. rows \in Rows /\ scan.listed \in SUBSET Paths
    BY <1>1, SourceTypes DEF SourcesInv, ScanRun
  <1>4. /\ table \in Rows
        /\ \A k \in Corpora \X Paths :
              IF k[1] = c /\ k[2] \in scan.listed /\ rows[k] # NoRow
              THEN table[k] \in Row /\ table[k].root = r
              ELSE table[k] = rows[k]
    BY <1>1, <1>3, Claimed
  <1> HIDE DEF table
  <1>5. /\ rows' \in Rows
        /\ \A k \in Corpora \X Paths :
              \/ rows'[k].root = NoRoot
              \/ rows'[k] = NoRow
              \/ rows'[k] = table[k]
    <2> DEFINE t == MovedAll(table, moves)
    <2>1. /\ t \in Rows
          /\ \A k \in Corpora \X Paths :
                \/ t[k] \in Row /\ t[k].root = NoRoot
                \/ t[k] = NoRow /\ \E m \in moves : m[1] = k
                \/ t[k] = table[k]
      BY <1>2, <1>4, Moved
    <2>2. rows' = t
      BY <1>2
    <2> HIDE DEF t
    <2>3. QED
      BY <2>1, <2>2
  <1>6. SourcesTypeOK'
    BY <1>1, <1>5, SourceTypes, SourceTypesNext DEF SourcesInv, world
  <1>7. scan # NoScan
    BY <1>1 DEF NoScan, ScanRun
  <1>8. ASSUME NEW k \in Corpora \X Paths, rows'[k] # NoRow, rows'[k].root # NoRoot
        PROVE  <<k[1], rows'[k].root>> \in recorded'
    <2>1. rows'[k] = table[k] /\ recorded' = recorded
      BY <1>1, <1>5, <1>8
    <2>2. CASE k[1] = c /\ k[2] \in scan.listed /\ rows[k] # NoRow
      BY <1>1, <1>4, <1>7, <2>1, <2>2 DEF SourcesInv, ScanRecorded
    <2>3. CASE ~(k[1] = c /\ k[2] \in scan.listed /\ rows[k] # NoRow)
      <3>1. table[k] = rows[k]
        BY <1>4, <2>3
      <3>2. QED
        BY <1>8, <2>1, <3>1 DEF SourcesInv, RowsRecorded
    <2>4. QED
      BY <2>2, <2>3
  <1>9. RowsRecorded'
    BY <1>8 DEF RowsRecorded
  <1>10. ScanRecorded'
    BY <1>1, <1>7 DEF SourcesInv, ScanRecorded
  <1>11. QED
    BY <1>6, <1>9, <1>10 DEF SourcesInv

LEMMA ScanOfferInv ==
    ASSUME SourcesInv, ScanOffer
    PROVE  SourcesInv'
  <1> USE SourceTypes, SourceTypesNext DEF SourcesInv
  <1> DEFINE c == scan.site[1]
             r == scan.site[2]
             confirmed == {p \in scan.gone :
                             \/ p \in Rules(r)
                             \/ \A s \in {r} \cup scan.siblings : AbsenceProven(s, p)}
             under(p) == IF p \in Rules(r) THEN r ELSE NoRoot
             Out == {<<"remove", c, p, under(p)>> : p \in confirmed}
             In == {<<"ingest", scan.site, p>> : p \in scan.offer}
  <1>1. scan \in ScanRun
    <2>1. NoScan.step # "offer"
      BY DEF NoScan
    <2>2. QED
      BY <2>1 DEF ScanOffer
  <1>2. /\ c \in Corpora /\ r \in Roots /\ scan.site \in Sites
        /\ confirmed \in SUBSET Paths /\ scan.offer \in SUBSET Paths
    BY <1>1 DEF ScanRun, Sites
  <1>3. IsFiniteSet(confirmed) /\ IsFiniteSet(scan.offer)
    BY <1>2, SourcesAssumption, FS_Subset
  <1>4. Out \in SUBSET DocumentJob /\ In \in SUBSET DocumentJob
    BY <1>2 DEF DocumentJob
  <1>5. IsFiniteSet(Out)
    <2> DEFINE f == [p \in confirmed |-> <<"remove", c, p, under(p)>>]
    <2>1. f \in Surjection(confirmed, Out)
      BY DEF Surjection
    <2> HIDE DEF f
    <2>2. QED
      BY <1>3, <2>1, FS_Surjection
  <1>6. IsFiniteSet(In)
    <2> DEFINE f == [p \in scan.offer |-> <<"ingest", scan.site, p>>]
    <2>1. f \in Surjection(scan.offer, In)
      BY DEF Surjection
    <2> HIDE DEF f
    <2>2. QED
      BY <1>3, <2>1, FS_Surjection
  <1>7. pending' = pending \/ pending' = Queued(Out \cup In)
    BY DEF ScanOffer
  <1>8. Out \cup In \in SUBSET DocumentJob /\ IsFiniteSet(Out \cup In)
    BY <1>4, <1>5, <1>6, FS_Union
  <1> HIDE DEF Out, In
  <1>9. Tidy(pending')
    BY <1>7, <1>8, QueuedTidy
  <1>10. UNCHANGED <<setup, disk, place, leftOut, configured, recorded, rows>> /\ scan' = NoScan
    BY DEF ScanOffer, world, tables
  <1>11. SourcesTypeOK'
    BY <1>9, <1>10
  <1>12. RowsRecorded' /\ ScanRecorded'
    BY <1>10 DEF RowsRecorded, ScanRecorded
  <1>13. QED
    BY <1>11, <1>12

LEMMA IngestInv ==
    ASSUME SourcesInv, NEW c \in Corpora, NEW r \in Roots, NEW p \in Paths, Ingest(c, r, p)
    PROVE  SourcesInv'
  <1> USE SourceTypes, SourceTypesNext DEF SourcesInv
  <1>1. Tidy(pending') /\ scan = NoScan
    BY TakeTidy DEF Ingest
  <1>2. UNCHANGED <<setup, disk, place, leftOut, configured, scan>>
    BY DEF Ingest, world
  <1>3. /\ recorded' \subseteq Sites /\ rows' \in Rows
        /\ recorded \subseteq recorded'
        /\ \A k \in Corpora \X Paths :
               \/ rows'[k] \in {rows[k], NoRow}
               \/ k = <<c, p>> /\ rows'[k].root = r /\ <<c, r>> \in recorded'
    <2>1. CASE /\ There(r, p)
               /\ recorded' = recorded \cup {<<c, r>>}
               /\ rows' = [rows EXCEPT ![<<c, p>>] = [hash |-> disk[r][p], root |-> r]]
      <3>1. [hash |-> disk[r][p], root |-> r] \in Row
        BY <2>1 DEF There, Disks, Row
      <3>2. QED
        BY <2>1, <3>1 DEF Rows, Sites
    <2>2. CASE rows' = [rows EXCEPT ![<<c, p>>] = NoRow] /\ UNCHANGED recorded
      BY <2>2 DEF Rows
    <2>3. CASE UNCHANGED <<recorded, rows>>
      BY <2>3
    <2>4. QED
      BY <2>1, <2>2, <2>3 DEF Ingest, tables
  <1>4. SourcesTypeOK'
    BY <1>1, <1>2, <1>3
  <1>5. RowsRecorded'
    BY <1>3 DEF RowsRecorded
  <1>6. ScanRecorded'
    BY <1>1, <1>2 DEF ScanRecorded
  <1>7. QED
    BY <1>4, <1>5, <1>6

LEMMA RemoveInv ==
    ASSUME SourcesInv, NEW c \in Corpora, NEW p \in Paths, NEW under \in Roads,
           RemoveFile(c, p, under)
    PROVE  SourcesInv'
  <1> USE SourceTypes, SourceTypesNext DEF SourcesInv
  <1>1. Tidy(pending') /\ scan = NoScan
    BY TakeTidy DEF RemoveFile
  <1>2. UNCHANGED <<setup, disk, place, leftOut, configured, recorded, scan>>
    BY DEF RemoveFile, world
  <1>3. rows' \in {rows, [rows EXCEPT ![<<c, p>>] = NoRow]}
    BY DEF RemoveFile
  <1>4. rows' \in Rows /\ \A k \in Corpora \X Paths : rows'[k] \in {rows[k], NoRow}
    BY <1>3 DEF Rows
  <1>5. SourcesTypeOK'
    BY <1>1, <1>2, <1>4
  <1>6. RowsRecorded' /\ ScanRecorded'
    BY <1>1, <1>2, <1>4 DEF RowsRecorded, ScanRecorded
  <1>7. QED
    BY <1>5, <1>6

\* What a retirement leaves in the table is of a declared source, so nothing it
\* takes out of the recorded ones is named by a row any more.
LEMMA RetireInv ==
    ASSUME SourcesInv, Retire
    PROVE  SourcesInv'
  <1> USE SourceTypes, SourceTypesNext DEF SourcesInv
  <1>1. UNCHANGED <<setup, disk, place, leftOut, configured, pending, scan>> /\ scan = NoScan
    BY DEF Retire, world
  <1>2. recorded' = recorded \cap configured
    BY DEF Retire
  <1>3. rows' = [k \in Corpora \X Paths |->
                   IF Undeclared(k[1], k[2]) THEN NoRow ELSE rows[k]]
    BY DEF Retire, Rows
  <1>4. rows' \in Rows
    BY <1>3 DEF Rows
  <1>5. SourcesTypeOK'
    BY <1>1, <1>2, <1>4
  <1>6. ASSUME NEW k \in Corpora \X Paths, rows'[k] # NoRow, rows'[k].root # NoRoot
        PROVE  <<k[1], rows'[k].root>> \in recorded'
    <2>1. rows'[k] = rows[k] /\ ~Undeclared(k[1], k[2]) /\ k = <<k[1], k[2]>>
      BY <1>3, <1>6
    <2>2. <<k[1], rows[k].root>> \in configured
      BY <1>6, <2>1 DEF Undeclared
    <2>3. QED
      BY <1>2, <1>6, <2>1, <2>2 DEF RowsRecorded
  <1>7. RowsRecorded' /\ ScanRecorded'
    BY <1>1, <1>6 DEF RowsRecorded, ScanRecorded
  <1>8. QED
    BY <1>5, <1>7

LEMMA NextInv == SourcesInv /\ [SourcesNext]_sourceVars => SourcesInv'
  <1> SUFFICES ASSUME SourcesInv, [SourcesNext]_sourceVars PROVE SourcesInv'
    OBVIOUS
  <1>1. CASE User
    <2>1. SourcesTypeOK' /\ UNCHANGED <<tables, pending, scan>>
      BY <1>1, UserStep DEF SourcesInv
    <2>2. QED
      BY <2>1 DEF SourcesInv, RowsRecorded, ScanRecorded, tables
  <1>2. ASSUME NEW c \in Corpora, NEW r \in Roots, AskScan(<<c, r>>)
        PROVE  SourcesInv'
    BY <1>2, AskScanInv DEF Sites
  <1>3. ASSUME NEW c \in Corpora, NEW r \in Roots, ScanStart(c, r)
        PROVE  SourcesInv'
    BY <1>3, ScanStartInv
  <1>4. CASE ScanDiff
    BY <1>4, ScanDiffInv
  <1>5. CASE ScanOffer
    BY <1>5, ScanOfferInv
  <1>6. ASSUME NEW c \in Corpora, NEW p \in Paths, NEW r \in Roots, Ingest(c, r, p)
        PROVE  SourcesInv'
    BY <1>6, IngestInv
  <1>7. ASSUME NEW c \in Corpora, NEW p \in Paths, NEW u \in Roots \cup {NoRoot},
               RemoveFile(c, p, u)
        PROVE  SourcesInv'
    BY <1>7, RemoveInv DEF Roads
  <1>8. CASE Retire
    BY <1>8, RetireInv
  <1>9. CASE UNCHANGED sourceVars
    <2>1. UNCHANGED <<setup, disk, place, leftOut, configured, recorded, rows, pending, scan>>
      BY <1>9 DEF sourceVars, world, tables
    <2>2. SourcesTypeOK'
      BY <2>1, SourceTypes, SourceTypesNext DEF SourcesInv
    <2>3. QED
      BY <2>1, <2>2 DEF SourcesInv, RowsRecorded, ScanRecorded
  <1>10. QED
    BY <1>1, <1>2, <1>3, <1>4, <1>5, <1>6, <1>7, <1>8, <1>9 DEF SourcesNext

\* The state has the types it is declared with: in particular no job waits
\* twice (the unique index of work_queue).
THEOREM SourcesTypeCorrect == SourcesSpec => []SourcesTypeOK
  <1>1. SourcesInv => SourcesTypeOK
    BY DEF SourcesInv
  <1>2. QED
    BY InitInv, NextInv, <1>1, PTL DEF SourcesSpec

\* Every directory that a row or the scan at work names is in sync_roots, where
\* the last look of a removal and the search for a moved file's old place go.
THEOREM Recorded == SourcesSpec => [](RowsRecorded /\ ScanRecorded)
  <1>1. SourcesInv => RowsRecorded /\ ScanRecorded
    BY DEF SourcesInv
  <1>2. QED
    BY InitInv, NextInv, <1>1, PTL DEF SourcesSpec

-----------------------------------------------------------------------------
(* Rows are dropped for a cause. *)

\* The row of a wanted file on a volume that can be looked at or is in error.
Kernel(c, p, r) ==
    /\ Tracked(c, p) /\ rows[<<c, p>>].root = r
    /\ Wanted(c, p, r) /\ place[r] \in {"up", "error"}

\* A look at such a volume finds the file or fails: it never shows its absence.
LEMMA LookFinds ==
    ASSUME SourcesInv, NEW c \in Corpora, NEW p \in Paths, NEW r \in Roots, Kernel(c, p, r)
    PROVE  /\ There(r, p) \/ Broken(r)
           /\ <<c, r>> \in recorded
           /\ p \notin Rules(r)
  <1>1. There(r, p) \/ Broken(r)
    BY DEF Kernel, Wanted, There, Broken
  <1>2. <<c, r>> \in recorded
    <2>1. r # NoRoot
      BY SourcesAssumption
    <2>2. QED
      BY <2>1 DEF Kernel, Tracked, SourcesInv, RowsRecorded
  <1>3. p \notin Rules(r)
    BY DEF Kernel, Wanted, Rules
  <1>4. QED
    BY <1>1, <1>2, <1>3

LEMMA ScanDrop ==
    ASSUME SourcesInv, ScanDiff,
           NEW c \in Corpora, NEW p \in Paths, NEW r \in Roots, Kernel(c, p, r),
           rows'[<<c, p>>] = NoRow
    PROVE  Mistaken(c, p, r) \/ Missed(c, p, r) \/ Renamed(c, r)
  <1> DEFINE b == scan.site[1]
             s == scan.site[2]
             table == ClaimFiles(b, s, scan.listed)
             k == <<c, p>>
  <1>1. /\ scan \in ScanRun /\ b \in Corpora /\ s \in Roots /\ scan.site = <<b, s>>
        /\ scan.listed \in SUBSET Paths /\ scan # NoScan
    <2>1. /\ scan \in ScanRun /\ b \in Corpora /\ s \in Roots /\ scan.site = <<b, s>>
      BY ScanDiffStep DEF SourcesInv
    <2>2. QED
      BY <2>1 DEF ScanRun, NoScan
  <1>2. PICK moves :
            /\ rows' = MovedAll(table, moves)
            /\ \A m \in moves :
                  /\ m[1] \in Corpora \X Paths /\ table[m[1]] # NoRow
                  /\ Within(m, b, s) \/ Across(m, b, s)
    BY ScanDiffStep DEF SourcesInv
  <1>3. rows \in Rows /\ rows[k] # NoRow /\ rows[k].root = r
    BY SourceTypes DEF SourcesInv, Kernel, Tracked
  <1>4. /\ table \in Rows
        /\ IF c = b /\ p \in scan.listed
           THEN table[k] \in Row /\ table[k].root = s ELSE table[k] = rows[k]
    BY <1>1, <1>3, Claimed
  <1> HIDE DEF table
  <1>5. table[k] # NoRow
    BY <1>3, <1>4, SourcesAssumption
  <1>6. PICK m \in moves : m[1] = k
    <2>1. \A row \in Row : row # NoRow
      BY SourcesAssumption
    <2>2. \/ rows'[k] \in Row
          \/ \E m \in moves : m[1] = k
          \/ rows'[k] = table[k]
      <3> DEFINE t == MovedAll(table, moves)
      <3>1. \A x \in Corpora \X Paths :
               \/ t[x] \in Row /\ t[x].root = NoRoot
               \/ t[x] = NoRow /\ \E m \in moves : m[1] = x
               \/ t[x] = table[x]
        BY <1>2, <1>4, Moved
      <3>2. k \in Corpora \X Paths /\ rows' = t
        BY <1>2
      <3> HIDE DEF t
      <3>3. QED
        BY <3>1, <3>2
    <2>3. QED
      BY <1>5, <2>1, <2>2
  <1>7. CASE Within(m, b, s)
    <2>1. /\ c = b /\ p \in Indexed(table, b, s) /\ place[s] = "up"
          /\ ~(p \in scan.listed /\ There(s, p))
      BY <1>6, <1>7 DEF Within, table
    <2>2. CASE p \in scan.listed
      <3>1. s # r
        BY <2>1, <2>2, LookFinds DEF Broken
      <3>2. QED
        BY <1>1, <2>1, <2>2, <3>1 DEF Mistaken
    <2>3. CASE p \notin scan.listed
      <3>1. table[k] = rows[k] /\ table[k].root \in {s, NoRoot}
        BY <1>4, <2>1, <2>3 DEF Indexed
      <3>2. s = r
        BY <1>3, <3>1, SourcesAssumption
      <3>3. QED
        BY <1>1, <2>1, <2>3, <3>2 DEF Missed
    <2>4. QED
      BY <2>2, <2>3
  <1>8. CASE Across(m, b, s)
    <2>1. c # b /\ ~StillThere(c, p, s)
      BY <1>6, <1>8 DEF Across
    <2>2. s = r
      BY <2>1, LookFinds DEF StillThere
    <2>3. QED
      BY <1>1, <2>1, <2>2 DEF Renamed
  <1>9. QED
    BY <1>2, <1>6, <1>7, <1>8

LEMMA IngestDrop ==
    ASSUME SourcesInv,
           NEW b \in Corpora, NEW s \in Roots, NEW q \in Paths, Ingest(b, s, q),
           NEW c \in Corpora, NEW p \in Paths, NEW r \in Roots, Kernel(c, p, r),
           rows'[<<c, p>>] = NoRow
    PROVE  Mistaken(c, p, r)
  <1>1. rows \in Rows /\ rows[<<c, p>>] # NoRow
    BY SourceTypes DEF SourcesInv, Kernel, Tracked
  <1>2. <<"ingest", <<b, s>>, q>> \in Waiting
    BY TakeTidy, SourceTypes DEF Ingest, SourcesInv
  <1>3. ~There(s, q) /\ Readable(s) /\ rows' = [rows EXCEPT ![<<b, q>>] = NoRow]
    <2>1. CASE There(s, q) /\ rows' = [rows EXCEPT ![<<b, q>>] = [hash |-> disk[s][q], root |-> s]]
      <3>1. [hash |-> disk[s][q], root |-> s] \in Row
        BY <2>1, SourceTypes DEF SourcesInv, There, Disks, Row
      <3>2. rows'[<<c, p>>] # NoRow
        BY <1>1, <2>1, <3>1, SourcesAssumption DEF Rows
      <3>3. QED
        BY <3>2
    <2>2. CASE UNCHANGED rows
      BY <1>1, <2>2
    <2>3. QED
      BY <2>1, <2>2 DEF Ingest, tables
  <1>4. b = c /\ q = p
    BY <1>1, <1>3 DEF Rows
  <1>5. s # r
    BY <1>3, <1>4, LookFinds DEF Readable, Broken
  <1>6. QED
    BY <1>2, <1>4, <1>5 DEF Mistaken

LEMMA RemoveDrop ==
    ASSUME SourcesInv,
           NEW b \in Corpora, NEW q \in Paths, NEW under \in Roads, RemoveFile(b, q, under),
           NEW c \in Corpora, NEW p \in Paths, NEW r \in Roots, Kernel(c, p, r),
           rows'[<<c, p>>] = NoRow
    PROVE  Mistaken(c, p, r)
  <1>1. rows \in Rows /\ rows[<<c, p>>] # NoRow
    BY SourceTypes DEF SourcesInv, Kernel, Tracked
  <1>2. <<"remove", b, q, under>> \in Waiting
    BY TakeTidy, SourceTypes DEF RemoveFile, SourcesInv
  <1>3. /\ rows' = [rows EXCEPT ![<<b, q>>] = NoRow]
        /\ ~Kept(b, q) \/ (under # NoRoot /\ q \in Rules(under))
    BY <1>1 DEF RemoveFile
  <1>4. b = c /\ q = p
    BY <1>1, <1>3 DEF Rows
  <1>5. Kept(c, p)
    BY LookFinds DEF Kept
  <1>6. under \in Roots /\ p \in Rules(under)
    BY <1>3, <1>4, <1>5 DEF Roads
  <1>7. under # r
    BY <1>6, LookFinds
  <1>8. QED
    BY <1>2, <1>4, <1>6, <1>7 DEF Mistaken

LEMMA RetireKeeps ==
    ASSUME SourcesInv, Retire,
           NEW c \in Corpora, NEW p \in Paths, NEW r \in Roots, Kernel(c, p, r)
    PROVE  rows'[<<c, p>>] # NoRow
  <1>1. rows \in Rows /\ rows[<<c, p>>] # NoRow /\ rows[<<c, p>>].root = r
    BY SourceTypes DEF SourcesInv, Kernel, Tracked
  <1>2. ~Undeclared(c, p)
    BY <1>1, SourcesAssumption DEF Undeclared, Kernel, Wanted
  <1>3. QED
    BY <1>1, <1>2 DEF Retire, Rows

LEMMA DropStep ==
    ASSUME SourcesInv, [SourcesNext]_sourceVars,
           NEW c \in Corpora, NEW p \in Paths, NEW r \in Roots, Kernel(c, p, r),
           rows'[<<c, p>>] = NoRow
    PROVE  Mistaken(c, p, r) \/ Missed(c, p, r) \/ Renamed(c, r)
  <1>1. rows' # rows
    BY DEF Kernel, Tracked
  <1>2. CASE User
    BY <1>1, <1>2, UserStep DEF SourcesInv, tables
  <1>3. CASE ScanDiff
    BY <1>3, ScanDrop
  <1>4. ASSUME NEW b \in Corpora, NEW q \in Paths, NEW s \in Roots, Ingest(b, s, q)
        PROVE  Mistaken(c, p, r)
    BY <1>4, IngestDrop
  <1>5. ASSUME NEW b \in Corpora, NEW q \in Paths, NEW u \in Roots \cup {NoRoot},
               RemoveFile(b, q, u)
        PROVE  Mistaken(c, p, r)
    BY <1>5, RemoveDrop DEF Roads
  <1>6. CASE Retire
    BY <1>6, RetireKeeps
  <1>7. ASSUME NEW b \in Corpora, NEW s \in Roots, AskScan(<<b, s>>) \/ ScanStart(b, s)
        PROVE  FALSE
    BY <1>1, <1>7 DEF AskScan, ScanStart, tables
  <1>8. CASE ScanOffer
    BY <1>1, <1>8 DEF ScanOffer, tables
  <1>9. CASE UNCHANGED sourceVars
    BY <1>1, <1>9 DEF sourceVars, tables
  <1>10. QED
    BY <1>2, <1>3, <1>4, <1>5, <1>6, <1>7, <1>8, <1>9 DEF SourcesNext

\* Whatever is declared, written, moved, unmounted and queued: a row of a file
\* that is wanted and on its volume goes only by a named mistake.
THEOREM RowsDroppedForCause == SourcesSpec => DroppedForCause
  <1> DEFINE Cause ==
        \A c \in Corpora, p \in Paths, r \in Roots :
            /\ Tracked(c, p) /\ rows[<<c, p>>].root = r
            /\ Wanted(c, p, r) /\ place[r] \in {"up", "error"}
            /\ rows'[<<c, p>>] = NoRow
            => Mistaken(c, p, r) \/ Missed(c, p, r) \/ Renamed(c, r)
  <1>1. SourcesInv /\ [SourcesNext]_sourceVars => [Cause]_sourceVars
    BY DropStep DEF Kernel
  <1> HIDE DEF Cause
  <1>2. SourcesSpec => [][Cause]_sourceVars
    BY InitInv, NextInv, <1>1, PTL DEF SourcesSpec
  <1>3. QED
    BY <1>2 DEF DroppedForCause, Cause
=============================================================================
