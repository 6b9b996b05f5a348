----------------------------- MODULE Supervisor -----------------------------
(***************************************************************************)
(* The supervisor of rtfm/core/supervisor.py: one process serving the      *)
(* queues of every registered project.                                     *)
(*                                                                         *)
(* Its loop is one thread (class Supervisor); a small pool opens projects  *)
(* and another runs jobs.  Beside it, producers insert into the queue of   *)
(* a project, the registry changes, and a project's library.db may be      *)
(* replaced, turn corrupt or stop answering on the connection held.        *)
(*                                                                         *)
(* A path names the last file of a project; a connection keeps the file it *)
(* opened.  Earlier files are kept in the model because an old connection  *)
(* still reads and writes one.  What WorkQueue interleaves statement by    *)
(* statement (reaping, closing) is one step here; what it has as one step  *)
(* (choose a project by peeking, then dequeue from it) is two.             *)
(* There is no clock here: the age of claims is WorkQueue's, and between   *)
(* projects whose heads are equally urgent either may be the older.        *)
(***************************************************************************)
EXTENDS JobQueue, Sequences

CONSTANTS
    Projects,
    TypeOf,          \* the job type of each work
    MaxConcurrent,   \* _max_concurrent
    ReservedLanes,   \* P_USER_RESERVED_LANES: 2 in the code
    OcrMax,          \* OCR_MAX_CONCURRENT: 2 in the code
    Faults,          \* the faults allowed: see FaultKinds
    MaxId,           \* bound: rows inserted in one file
    MaxFaults,       \* bound: faults
    MaxEdits         \* bound: changes of the registry

Types == {"scan", "ingest", "remove", "embed", "ocr", "reconcile", "vacuum"}
FaultKinds == {"replace", "corrupt", "spurious", "stale", "openFails", "submit"}

ASSUME SupervisorAssumption ==
    /\ TypeOf \in [Work -> Types]
    /\ MaxConcurrent \in Nat \ {0}
    /\ {ReservedLanes, OcrMax} \subseteq Nat
    /\ Faults \subseteq FaultKinds
    /\ {MaxId, MaxFaults, MaxEdits} \subseteq Nat

P_USER == 0
DefaultPriority == [scan |-> 10, remove |-> 10, ingest |-> 10, reconcile |-> 40,
                    vacuum |-> 40, embed |-> 50, ocr |-> 60]
EXCLUSIVE_JOB_TYPES == {"scan", "reconcile", "vacuum"}

VARIABLES
    registry,   \* the projects listed in workers.json
    unread,     \* it changed since _sync_registry read it
    wanted,     \* _wanted
    slot,       \* per project: _slots, _opening and the _Slot's own fields
    db,         \* per project: the files library.db has been, the last is there
    corrupt,    \* projects whose file on disk is malformed
    inflight,   \* _inflight: the jobs in the pool
    picked,     \* the project _dispatch has chosen and not yet dequeued from
    faults, edits

loop == <<wanted, slot, inflight, picked>>
disk == <<db, corrupt>>
world == <<registry, unread, faults, edits>>
vars == <<registry, unread, wanted, slot, db, corrupt, inflight, picked,
          faults, edits>>

Now == 1        \* every row is of the same instant

EmptyFile == [rows |-> [i \in {} |-> i], next |-> 1]
Current(p) == Len(db[p])
Absent == [phase |-> "absent", queue |-> 0, inflight |-> 0,
           exclusive |-> FALSE, backoff |-> FALSE, stale |-> FALSE]

Rows(p) == db[p][slot[p].queue].rows            \* as the held connection sees it
JobsOf(p) == {job \in inflight : job.project = p}
ExclusiveJob(job) == TypeOf[job.work] \in EXCLUSIVE_JOB_TYPES

TypeOK ==
    /\ registry \subseteq Projects /\ wanted \subseteq Projects
    /\ unread \in BOOLEAN
    /\ DOMAIN db = Projects /\ DOMAIN slot = Projects
    /\ \A p \in Projects :
          /\ \A e \in DOMAIN db[p] : IsTable(db[p][e].rows)
          /\ slot[p].phase \in {"absent", "opening", "opened", "failed", "serving"}
          /\ slot[p].queue \in 0 .. Current(p)
          /\ slot[p].inflight \in Nat
          /\ {slot[p].exclusive, slot[p].backoff, slot[p].stale} \subseteq BOOLEAN
    /\ corrupt \subseteq Projects /\ picked \subseteq Projects
    /\ \A job \in inflight :
          job.project \in Projects /\ job.work \in Work /\ job.file \in Nat

Init ==
    /\ registry \in SUBSET Projects /\ unread = TRUE /\ wanted = {}
    /\ slot = [p \in Projects |-> Absent]
    /\ db = [p \in Projects |-> <<EmptyFile>>]
    /\ corrupt = {} /\ inflight = {} /\ picked = {}
    /\ faults = 0 /\ edits = 0

-----------------------------------------------------------------------------
(* The world around the loop. *)

Put(p, e, w, priority) ==                       \* enqueue into file e of p
    /\ db[p][e].next <= MaxId
    /\ ~HasPending(db[p][e].rows, w)
    /\ db' = [db EXCEPT ![p][e] =
                 [rows |-> Inserted(@.rows, [v \in {w} |-> @.next], priority, Now),
                  next |-> @.next + 1]]

\* Producers and job handlers open library.db by its path.
Produce(p, w) ==
    /\ p \notin corrupt
    /\ \E priority \in {P_USER, DefaultPriority[TypeOf[w]]} :
          Put(p, Current(p), w, priority)
    /\ UNCHANGED <<loop, corrupt, world>>

EditRegistry ==
    /\ edits < MaxEdits /\ edits' = edits + 1
    /\ \E S \in SUBSET Projects : S # registry /\ registry' = S
    /\ unread' = TRUE
    /\ UNCHANGED <<loop, disk, faults>>

Fault(kind) ==
    /\ kind \in Faults /\ faults < MaxFaults /\ faults' = faults + 1
    /\ UNCHANGED <<registry, unread, edits>>

\* `rtfm init` again, a directory wiped and rebuilt, a backup restored.
Replace(p) ==
    /\ Fault("replace")
    /\ db' = [db EXCEPT ![p] = Append(@, EmptyFile)]
    /\ corrupt' = corrupt \ {p}
    /\ UNCHANGED loop

Corrupt(p) ==
    /\ p \notin corrupt /\ Fault("corrupt")
    /\ corrupt' = corrupt \cup {p}
    /\ UNCHANGED <<loop, db>>

\* The connection was opened while the directory was read-only: it refuses
\* every write until it is opened again.
Stale(p) ==
    /\ slot[p].phase = "serving" /\ ~slot[p].stale /\ Fault("stale")
    /\ slot' = [slot EXCEPT ![p].stale = TRUE]
    /\ UNCHANGED <<wanted, inflight, picked, disk>>

-----------------------------------------------------------------------------
(* Opening a project: _Slot.open. *)

\* ensure_healthy_db puts a malformed file aside and a new one takes its place;
\* then the boot reap, which keeps nothing.
Guarded(files, bad) == IF bad THEN Append(files, EmptyFile) ELSE files
Opened(files, bad) ==
    LET g == Guarded(files, bad)
    IN  [g EXCEPT ![Len(g)].rows = Reap(@, {}, Now)]

OpenSlot(p) == db' = [db EXCEPT ![p] = Opened(@, p \in corrupt)]
Connected(p) == [slot[p] EXCEPT !.queue = Len(db'[p]), !.stale = FALSE]

\* On the opener's pool, beside the loop.
Open(p) ==
    /\ slot[p].phase = "opening"
    /\ OpenSlot(p)
    /\ slot' = [slot EXCEPT ![p] = [Connected(p) EXCEPT !.phase = "opened"]]
    /\ corrupt' = corrupt \ {p}
    /\ UNCHANGED <<wanted, inflight, picked, world>>

OpenFails(p) ==
    /\ slot[p].phase = "opening" /\ Fault("openFails")
    /\ slot' = [slot EXCEPT ![p].phase = "failed"]
    /\ UNCHANGED <<wanted, inflight, picked, disk>>

-----------------------------------------------------------------------------
(* The loop.  It does nothing else between choosing a project and            *)
(* dequeuing from it.                                                        *)

Serving(p) == slot[p].phase = "serving" /\ slot[p].queue # 0
Idle(p) == slot[p].inflight = 0

Mutant_Dropped(s, keep) ==                      \* busy or not
    [p \in Projects |-> IF s[p].phase = "serving" /\ p \notin keep
                       THEN Absent ELSE s[p]]

Dropped(s, keep) ==                             \* _drop_unwanted
    [p \in Projects |->
        IF s[p].phase = "serving" /\ p \notin keep /\ s[p].inflight = 0
        THEN Absent ELSE s[p]]

SyncRegistry ==
    /\ picked = {}
    /\ unread \/ \A p \in Projects : slot[p].phase = "absent"
    /\ unread' = FALSE /\ wanted' = registry
    /\ slot' = Dropped([p \in Projects |->
                            IF p \in registry /\ slot[p].phase = "absent"
                            THEN [Absent EXCEPT !.phase = "opening"] ELSE slot[p]],
                       registry)
    /\ UNCHANGED <<disk, registry, inflight, picked, faults, edits>>

CollectOpened(p) ==
    /\ picked = {} /\ slot[p].phase \in {"opened", "failed"}
    /\ slot' = [slot EXCEPT ![p] =
                   IF p \in wanted /\ slot[p].phase = "opened"
                   THEN [@ EXCEPT !.phase = "serving"] ELSE Absent]
    /\ UNCHANGED <<wanted, inflight, picked, disk, world>>

DropUnwanted ==
    /\ picked = {} /\ Dropped(slot, wanted) # slot
    /\ slot' = Dropped(slot, wanted)
    /\ UNCHANGED <<wanted, inflight, picked, disk, world>>

\* _reopen_slot, and the parking when it fails.
Reopen(p) ==
    \/ /\ OpenSlot(p) /\ corrupt' = corrupt \ {p}
       /\ slot' = [slot EXCEPT ![p] = [Connected(p) EXCEPT !.backoff = FALSE]]
       /\ UNCHANGED world
    \/ /\ Fault("openFails")
       /\ slot' = [slot EXCEPT ![p].queue = 0]
       /\ UNCHANGED disk

Mutant_ReopenReplaced(p) ==                     \* busy or not
    /\ picked = {} /\ Serving(p)
    /\ slot[p].queue # Current(p)
    /\ Reopen(p)
    /\ UNCHANGED <<wanted, inflight, picked>>

ReopenReplaced(p) ==
    /\ picked = {} /\ Serving(p)
    /\ Idle(p)
    /\ slot[p].queue # Current(p)
    /\ Reopen(p)
    /\ UNCHANGED <<wanted, inflight, picked>>

\* _enqueue_periodic: scans and the reconcile, into the file it is connected to.
EnqueuePeriodic(p, w) ==
    /\ picked = {} /\ Serving(p) /\ p \in wanted /\ ~slot[p].stale
    /\ TypeOf[w] \in {"scan", "reconcile"}
    /\ Put(p, slot[p].queue, w, DefaultPriority[TypeOf[w]])
    /\ UNCHANGED <<loop, corrupt, world>>

Mutant_Sweep(p) ==                              \* as at boot
    /\ picked = {} /\ Serving(p) /\ ~slot[p].stale
    /\ db' = [db EXCEPT ![p][slot[p].queue].rows = Reap(@, {}, Now)]
    /\ UNCHANGED <<loop, corrupt, world>>

Sweep(p) ==
    /\ picked = {} /\ Serving(p) /\ ~slot[p].stale
    /\ db' = [db EXCEPT ![p][slot[p].queue].rows =
                 Reap(@, {job.id : job \in JobsOf(p)}, Now)]
    /\ UNCHANGED <<loop, corrupt, world>>

-----------------------------------------------------------------------------
(* _dispatch. *)

Free == MaxConcurrent - Cardinality(inflight)
FreeReserved == MaxConcurrent + ReservedLanes - Cardinality(inflight)
RunningOcr == {job \in inflight : TypeOf[job.work] = "ocr"}

Mutant_SlotCanAccept(p, type) ==                \* a scan blocks only exclusive heads
    /\ type \in EXCLUSIVE_JOB_TYPES => Idle(p)
    /\ type = "ocr" => Cardinality(RunningOcr) < OcrMax

SlotCanAccept(p, type) ==
    /\ ~slot[p].exclusive
    /\ type \in EXCLUSIVE_JOB_TYPES => Idle(p)
    /\ type = "ocr" => Cardinality(RunningOcr) < OcrMax

\* peek answers: the held connection can be read, whether or not written.
Readable(p) == Serving(p) /\ ~(p \in corrupt /\ slot[p].queue = Current(p))

HeadOf(p) == CHOOSE i \in Heads(Rows(p)) : TRUE
HeadRow(p) == Rows(p)[HeadOf(p)]

Mutant_Dispatchable(p) ==                       \* the reserve is for everybody
    /\ p \in wanted /\ Readable(p) /\ ~slot[p].backoff
    /\ Heads(Rows(p)) # {}
    /\ SlotCanAccept(p, TypeOf[HeadRow(p).work])

Dispatchable(p) ==
    /\ p \in wanted /\ Readable(p) /\ ~slot[p].backoff
    /\ Heads(Rows(p)) # {}
    /\ HeadRow(p).priority = P_USER \/ Free > 0
    /\ SlotCanAccept(p, TypeOf[HeadRow(p).work])

Sooner(p, o) == HeadRow(p).priority < HeadRow(o).priority

\* Peek at every project's head; which of the most urgent is older is open.
Pick(p) ==
    /\ picked = {} /\ FreeReserved > 0
    /\ Dispatchable(p)
    /\ \A o \in Projects : Dispatchable(o) => ~Sooner(o, p)
    /\ picked' = {p}
    /\ UNCHANGED <<wanted, slot, inflight, disk, world>>

\* dequeue takes what is now at the head, which need not be what was peeked.
Take(p) ==
    /\ p \in picked /\ picked' = {}
    /\ Readable(p) /\ ~slot[p].stale
    /\ LET i == HeadOf(p)
           w == Rows(p)[i].work
       IN  /\ db' = [db EXCEPT ![p][slot[p].queue].rows = Claimed(@, i, Now)]
           /\ inflight' = inflight \cup
                 {[project |-> p, file |-> slot[p].queue, id |-> i, work |-> w,
                   attempts |-> Rows(p)[i].attempts + 1,
                   priority |-> Rows(p)[i].priority]}
           /\ slot' = [slot EXCEPT
                 ![p].inflight = @ + 1,
                 ![p].exclusive = @ \/ TypeOf[w] \in EXCLUSIVE_JOB_TYPES]
    /\ UNCHANGED <<wanted, corrupt, world>>

\* The pool refuses the job just claimed: mark_pending.
TakeFails(p) ==
    /\ p \in picked /\ picked' = {}
    /\ Readable(p) /\ ~slot[p].stale /\ Fault("submit")
    /\ db' = [db EXCEPT ![p][slot[p].queue].rows =
                 HandedBack(Claimed(@, HeadOf(p), Now), HeadOf(p))]
    /\ UNCHANGED <<wanted, slot, inflight, corrupt>>

\* _recover_slot asks nobody whether the project is busy.
RecoverSlot(p) ==
    \/ /\ OpenSlot(p) /\ corrupt' = corrupt \ {p}
       /\ slot' = [slot EXCEPT ![p] = [Connected(p) EXCEPT !.backoff = TRUE]]
       /\ UNCHANGED world
    \/ /\ Fault("openFails")
       /\ slot' = [slot EXCEPT ![p].queue = 0, ![p].backoff = TRUE]
       /\ UNCHANGED disk

\* _note_queue_error, from a peek of any project or the dequeue of the picked one.
CorruptionError(p) ==
    /\ picked \subseteq {p} /\ picked' = {}
    /\ p \in wanted /\ Serving(p) /\ ~Readable(p) /\ ~slot[p].backoff
    /\ RecoverSlot(p)
    /\ UNCHANGED <<wanted, inflight>>

\* The error says "malformed"; quick_check then finds nothing wrong.
SpuriousError(p) ==
    /\ picked \subseteq {p} /\ picked' = {}
    /\ p \in wanted /\ Readable(p) /\ ~slot[p].backoff /\ Fault("spurious")
    /\ OpenSlot(p)
    /\ slot' = [slot EXCEPT ![p] = [Connected(p) EXCEPT !.backoff = TRUE]]
    /\ UNCHANGED <<wanted, inflight, corrupt>>

Mutant_StaleError(p) ==                         \* backs off and no more
    /\ p \in picked /\ picked' = {}
    /\ Readable(p) /\ slot[p].stale
    /\ slot' = [slot EXCEPT ![p].backoff = TRUE]
    /\ UNCHANGED <<wanted, inflight, disk, world>>

\* A read-only handle still answers a peek, so it is the dequeue that raises.
StaleError(p) ==
    /\ p \in picked /\ picked' = {}
    /\ Readable(p) /\ slot[p].stale
    /\ IF Idle(p) THEN Reopen(p)
       ELSE /\ slot' = [slot EXCEPT ![p].backoff = TRUE]
            /\ UNCHANGED <<disk, world>>
    /\ UNCHANGED <<wanted, inflight>>

\* retry_at has passed.
BackoffOver(p) ==
    /\ picked = {} /\ slot[p].backoff
    /\ slot' = [slot EXCEPT ![p].backoff = FALSE]
    /\ UNCHANGED <<wanted, inflight, picked, disk, world>>

-----------------------------------------------------------------------------
(* _reap_finished and _close. *)

Mutant_Released(p, job) ==                      \* the flag stays up
    [slot EXCEPT ![p].inflight = @ - 1]

Released(p, job) ==
    [slot EXCEPT ![p].inflight = @ - 1,
                 ![p].exclusive = IF ExclusiveJob(job) THEN FALSE ELSE @]

CanWrite(p) == Readable(p) /\ ~slot[p].stale

\* The write goes to the file the slot is connected to now, by id.
Finish(job) ==
    LET p == job.project IN
    /\ picked = {} /\ job \in inflight
    /\ inflight' = inflight \ {job}
    /\ slot' = Released(p, job)
    /\ \/ /\ CanWrite(p)
          /\ db' = [db EXCEPT ![p][slot[p].queue].rows = MarkedDone(@, job.id)]
       \/ /\ CanWrite(p)
          /\ db' = [db EXCEPT ![p][slot[p].queue].rows = MarkedFailed(@, job.id)]
       \/ ~CanWrite(p) /\ db' = db
    /\ UNCHANGED <<wanted, picked, corrupt, world>>

-----------------------------------------------------------------------------

World ==
    \/ EditRegistry
    \/ \E p \in Projects :
          \/ \E w \in Work : Produce(p, w)
          \/ Replace(p) \/ Corrupt(p) \/ Stale(p)

Opener == \E p \in Projects : Open(p) \/ OpenFails(p)

Loop ==
    \/ SyncRegistry \/ DropUnwanted
    \/ \E p \in Projects :
          \/ CollectOpened(p) \/ ReopenReplaced(p) \/ Sweep(p)
          \/ \E w \in Work : EnqueuePeriodic(p, w)
          \/ Pick(p) \/ Take(p) \/ TakeFails(p)
          \/ CorruptionError(p) \/ SpuriousError(p) \/ StaleError(p)
          \/ BackoffOver(p)
    \/ \E job \in inflight : Finish(job)

Next == World \/ Opener \/ Loop

Spec == Init /\ [][Next]_vars

\* Every turn of the loop goes through all of its steps, jobs end, and the
\* opener's pool gets to every project.
Fairness ==
    /\ SF_vars(SyncRegistry) /\ SF_vars(\E p \in Projects : Pick(p))
    /\ \A p \in Projects :
          /\ WF_vars(Open(p)) /\ WF_vars(Take(p)) /\ WF_vars(StaleError(p))
          /\ SF_vars(CollectOpened(p)) /\ SF_vars(ReopenReplaced(p))
          /\ SF_vars(BackoffOver(p))
          /\ SF_vars(\E job \in JobsOf(p) : Finish(job))

FairSpec == Spec /\ Fairness
-----------------------------------------------------------------------------
(* What the supervisor promises. *)

\* The two fields that decide what a project may start agree with the jobs in
\* the pool, whatever happened to its database and to its place on the list.
BooksBalance ==
    \A p \in Projects :
        /\ slot[p].inflight = Cardinality(JobsOf(p))
        /\ slot[p].exclusive <=> \E job \in JobsOf(p) : ExclusiveJob(job)

\* While a scan, a reconcile or a vacuum runs, its project starts nothing else.
NothingJoinsExclusive ==
    [][\A p \in Projects :
          slot[p].exclusive /\ (\E job \in JobsOf(p) : ExclusiveJob(job))
          => JobsOf(p)' \subseteq JobsOf(p)]_vars

\* The cap holds for background work, the reserve for the whole fleet and
\* OCR_MAX_CONCURRENT for background OCR, although a dequeue may return another
\* job than the one peeked at.
LanesBounded ==
    /\ Cardinality(inflight) <= MaxConcurrent + ReservedLanes
    /\ Cardinality({job \in inflight : job.priority > P_USER}) <= MaxConcurrent
    /\ Cardinality({job \in RunningOcr : job.priority > P_USER}) <= OcrMax

\* Only idle slots are swapped: a job in flight was claimed in the file its
\* closing write will go to.
ClaimsFollowTheFile ==
    \A job \in inflight :
        slot[job.project].queue \in {0, job.file}

\* A row is run by one job at a time.
NoRowRunTwice ==
    \A j, k \in inflight :
        j.project = k.project /\ j.file = k.file /\ j.id = k.id => j = k

\* "Scan/reconcile/vacuum still run alone per project."
ExclusiveRunsAlone ==
    \A p \in Projects, job \in inflight :
        job.project = p /\ ExclusiveJob(job) => JobsOf(p) = {job}

\* Opening it failed: parked, or left out, until the list changes or a restart.
GivenUp(p) == \/ slot[p].phase = "serving" /\ slot[p].queue = 0
              \/ slot[p].phase \in {"failed", "absent"} /\ faults > 0

\* Work queued by path in the file now on disk does not wait for ever, if the
\* project stays on the list and can be opened: the held connection may be to
\* a dead file or refuse writes, but then the slot comes to be idle and is
\* opened again.
QueuedWorkRuns ==
    \A p \in Projects, w \in Work :
        <>[](p \in registry) =>
            (HasPending(db[p][Current(p)].rows, w) ~>
                \/ ~HasPending(db[p][Current(p)].rows, w)
                \/ GivenUp(p))
=============================================================================
