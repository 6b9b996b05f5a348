------------------------------ MODULE WorkQueue -----------------------------
(***************************************************************************)
(* One project's queue and everybody who writes to it at the same time:    *)
(*                                                                         *)
(*   - producers (edit hook, CLI, MCP server, job handlers) enqueue;       *)
(*   - the supervisor claims jobs, runs them, closes them, hands them      *)
(*     back, and once a minute reaps the claims nothing is running;        *)
(*   - an operator runs `rtfm queue retry-failed`, `reap`, `clear-done`;   *)
(*   - the reconcile job trims the history.                                *)
(*                                                                         *)
(* Each step below is one committed SQL statement together with what its   *)
(* process does in memory around it, so that reap_zombies and retry_failed *)
(* are interleaved statement by statement with the other processes.        *)
(* Connections are separate processes or threads; SQLite serialises the    *)
(* statements.                                                             *)
(***************************************************************************)
EXTENDS JobQueue

CONSTANTS
    Priorities,    \* priorities producers ask with
    Faults,        \* the faults allowed: see FaultKinds
    MaxId,         \* bound: rows ever inserted
    MaxTime,       \* bound: clock
    MaxFaults,     \* bound: faults
    MaxOperator    \* bound: operator commands (retry-failed, reap)

FaultKinds == {"crash", "lostClose", "submit", "lostClaim"}

ASSUME WorkQueueAssumption ==
    /\ Priorities \subseteq Nat
    /\ Faults \subseteq FaultKinds
    /\ {MaxId, MaxTime, MaxFaults, MaxOperator} \subseteq Nat
    /\ IsFiniteSet(Work)

Ids == Nat \ {0}

VARIABLES
    queue,      \* the work_queue table
    nextId,     \* its AUTOINCREMENT counter
    now,        \* the clock
    up,         \* a supervisor holds supervisor.lock
    claimed,    \* the job it has dequeued and not yet submitted, if any
    live,       \* its _inflight: the jobs in its thread pool
    reap,       \* who -> where it is in reap_zombies, and its keep_ids
    retry,      \* where the operator's retry_failed is
    faults,     \* faults so far
    commands,   \* operator commands so far
    \* History: what the properties speak of and the code does not keep.
    owed,       \* works asked for and not run to an end since
    fresh,      \* jobs of live started after the last request for their work
    stolen,     \* ids whose row was reaped under a job of the supervisor
    forfeited   \* their works, and those of claims dropped for a live row

table   == <<queue, nextId>>
memory  == <<up, claimed, live>>
bounds  == <<faults, commands>>
history == <<owed, fresh, stolen, forfeited>>
vars == <<table, now, memory, reap, retry, bounds, history>>

\* What Job.from_row keeps of the row that dequeue returned.
Job == [id: Ids, work: Work, attempts: Nat, started_at: Nat]
JobOf(q, i) == [id |-> i, work |-> q[i].work, attempts |-> q[i].attempts,
                started_at |-> q[i].started_at]

InHand == claimed \cup live
IdsOf(jobs) == {j.id : j \in jobs}
Unfinished(q, w) ==
    \E i \in DOMAIN q : q[i].work = w /\ q[i].status # "done"

Reapers == {"supervisor", "operator"}
NotReaping == [step |-> 0, keep |-> {}]

TypeOK ==
    /\ IsTable(queue)
    /\ nextId \in Ids /\ \A i \in DOMAIN queue : i < nextId
    /\ now \in Ids
    /\ up \in BOOLEAN
    /\ claimed \subseteq Job /\ \A j, k \in claimed : j = k
    /\ live \subseteq Job /\ fresh \subseteq live
    /\ reap \in [Reapers -> [step: 0..4, keep: SUBSET Ids]]
    /\ retry \in 0..3
    /\ {faults, commands} \subseteq Nat
    /\ owed \subseteq Work
    /\ stolen \subseteq Ids /\ forfeited \subseteq Work

Init ==
    /\ queue = [i \in {} |-> i] /\ nextId = 1 /\ now = 1
    /\ up = FALSE /\ claimed = {} /\ live = {}
    /\ reap = [r \in Reapers |-> NotReaping]
    /\ retry = 0
    /\ faults = 0 /\ commands = 0
    /\ owed = {} /\ fresh = {} /\ stolen = {}
    /\ forfeited = {}

Tick ==
    /\ now < MaxTime
    /\ now' = now + 1
    /\ UNCHANGED <<table, memory, reap, retry, bounds, history>>

-----------------------------------------------------------------------------
(* Producers. *)

\* enqueue is a batch of one; enqueue_many inserts its batch in one
\* transaction and skips what is already pending.
EnqueueMany(S, p) ==
    /\ nextId + Cardinality(NewIn(queue, S)) <= MaxId + 1
    /\ \E numbering \in Numberings(queue, S, nextId) :
          queue' = Inserted(queue, numbering, p, now)
    /\ nextId' = nextId + Cardinality(NewIn(queue, S))
    /\ owed' = owed \cup S
    /\ fresh' = {j \in fresh : j.work \notin S}
    /\ UNCHANGED <<now, memory, reap, retry, bounds, stolen, forfeited>>

Enqueue(w, p) == EnqueueMany({w}, p)

-----------------------------------------------------------------------------
(* The supervisor: one thread claims, submits, closes and sweeps. *)

Fault(kind) ==
    /\ kind \in Faults /\ faults < MaxFaults
    /\ faults' = faults + 1
    /\ UNCHANGED commands

Dispatching == up /\ claimed = {} /\ reap["supervisor"].step = 0

\* A new process takes the lock; _Slot.open reaps with an empty keep list
\* before anything is dispatched.
Start ==
    /\ ~up
    /\ up' = TRUE
    /\ reap' = [reap EXCEPT !["supervisor"] = [step |-> 1, keep |-> {}]]
    /\ UNCHANGED <<table, now, claimed, live, retry, bounds, history>>

\* _shutdown waits for the pool and closes what finished before leaving.
Stop ==
    /\ Dispatching /\ live = {}
    /\ up' = FALSE
    /\ UNCHANGED <<table, now, claimed, live, reap, retry, bounds, history>>

\* Killed: the pool's threads die with the process, the rows stay.
Crash ==
    /\ up /\ Fault("crash")
    /\ up' = FALSE /\ claimed' = {} /\ live' = {} /\ fresh' = {}
    /\ reap' = [reap EXCEPT !["supervisor"] = NotReaping]
    /\ UNCHANGED <<table, now, retry, owed, stolen, forfeited>>

Dequeue ==
    /\ Dispatching
    /\ \E i \in Heads(queue) :
          /\ queue' = Claimed(queue, i, now)
          /\ claimed' = {JobOf(queue', i)}
    /\ UNCHANGED <<nextId, now, up, live, reap, retry, bounds, history>>

Submit ==
    /\ claimed # {}
    /\ live' = live \cup claimed
    /\ fresh' = fresh \cup claimed
    /\ claimed' = {}
    /\ UNCHANGED <<table, now, up, reap, retry, bounds, owed, stolen, forfeited>>

\* The pool refuses: mark_pending, unless a twin was queued meanwhile.
SubmitFails ==
    /\ Fault("submit")
    /\ \E job \in claimed :
          queue' = IfAllowed(HandedBack(queue, job.id), queue)
    /\ claimed' = {}
    /\ UNCHANGED <<nextId, now, up, live, reap, retry, history>>

\* dequeue raises after its UPDATE is committed.
ClaimLost ==
    /\ claimed # {} /\ Fault("lostClaim")
    /\ claimed' = {}
    /\ UNCHANGED <<table, now, up, live, reap, retry, history>>

Ended(job) ==
    /\ live' = live \ {job}
    /\ fresh' = fresh \ {job}
    /\ owed' = IF job \in fresh THEN owed \ {job.work} ELSE owed

\* _reap_finished and _close: the row is named by its id alone.
Close(job) ==
    /\ Dispatching
    /\ \/ queue' = MarkedDone(queue, job.id)
       \/ queue' = MarkedFailed(queue, job.id)
    /\ Ended(job)
    /\ UNCHANGED <<nextId, now, up, claimed, reap, retry, bounds,
                   stolen, forfeited>>

\* The three tries of _close all raise: out of _inflight, row untouched.
CloseLost(job) ==
    /\ Dispatching /\ Fault("lostClose")
    /\ Ended(job)
    /\ UNCHANGED <<table, now, up, claimed, reap, retry, stolen, forfeited>>

Mutant_SweepStart ==        \* keeps everything that says it is running
    /\ Dispatching
    /\ reap' = [reap EXCEPT !["supervisor"] =
                   [step |-> 1, keep |-> Having(queue, "running")]]
    /\ UNCHANGED <<table, now, memory, retry, bounds, history>>

Mutant_SweepStartKeepNothing ==      \* the boot reap, run on a busy supervisor
    /\ Dispatching
    /\ reap' = [reap EXCEPT !["supervisor"] = [step |-> 1, keep |-> {}]]
    /\ UNCHANGED <<table, now, memory, retry, bounds, history>>

\* _sweep_stale_claims, every CLAIM_SWEEP_SECONDS: keep what is in flight.
SweepStart ==
    /\ Dispatching
    /\ reap' = [reap EXCEPT !["supervisor"] = [step |-> 1, keep |-> IdsOf(live)]]
    /\ UNCHANGED <<table, now, memory, retry, bounds, history>>

-----------------------------------------------------------------------------
(* reap_zombies, for the supervisor and for `rtfm queue reap`. *)

\* The operator's command looks for a live supervisor first, and reaps with
\* an empty keep list only if it saw none.
OperatorReap ==
    /\ commands < MaxOperator /\ commands' = commands + 1
    /\ reap["operator"].step = 0 /\ ~up
    /\ reap' = [reap EXCEPT !["operator"] = [step |-> 1, keep |-> {}]]
    /\ UNCHANGED <<table, now, memory, retry, faults, history>>

\* Rows of the supervisor's jobs that the table q takes from it.
Taken(q) == {i \in IdsOf(InHand) \cap DOMAIN queue :
                i \notin DOMAIN q \/ q[i] # queue[i]}

\* Claims of nobody dropped in favour of the row of a job still in hand.
Outranked(q) ==
    {i \in Having(queue, "running") \ DOMAIN q :
        \E job \in InHand : job.id \in DOMAIN q /\ job.work = queue[i].work}

\* Statement k of reaper r leaves the table q.
ReapStatement(r, k, q) ==
    /\ reap[r].step = k
    /\ queue' = q
    /\ reap' = [reap EXCEPT ![r] =
                   IF k = 4 THEN NotReaping ELSE [@ EXCEPT !.step = k + 1]]
    /\ stolen' = stolen \cup Taken(q)
    /\ forfeited' = forfeited
           \cup {queue[i].work : i \in Taken(q) \cup Outranked(q)}
    /\ UNCHANGED <<nextId, now, memory, retry, bounds, owed, fresh>>

FailExhausted(r)  == ReapStatement(r, 1, ReapFail(queue, reap[r].keep, now))
DropTwins(r)      == ReapStatement(r, 2, ReapTwins(queue, reap[r].keep, now))
DropDuplicates(r) == ReapStatement(r, 3, ReapDuplicates(queue, reap[r].keep, now))
RequeueRest(r)    == ReapStatement(r, 4,
    IfAllowed(ReapRequeue(queue, reap[r].keep, now), queue))

ReapStep(r) ==
    FailExhausted(r) \/ DropTwins(r) \/ DropDuplicates(r) \/ RequeueRest(r)

-----------------------------------------------------------------------------
(* The operator's other commands, and the history the reconcile job trims. *)

RetryFailed ==
    /\ retry = 0
    /\ commands < MaxOperator /\ commands' = commands + 1
    /\ queue' = RetryTwins(queue)
    /\ retry' = 2
    /\ UNCHANGED <<nextId, now, memory, reap, faults, history>>

RetryDuplicates ==
    /\ retry = 2
    /\ queue' = RetryCoalesce(queue)
    /\ retry' = 3
    /\ UNCHANGED <<nextId, now, memory, reap, bounds, history>>

RetryRest ==
    /\ retry = 3
    /\ queue' = IfAllowed(RetryRequeue(queue), queue)
    /\ retry' = 0
    /\ UNCHANGED <<nextId, now, memory, reap, bounds, history>>

\* clear_done keeps the newest done rows; which ones finished last is left
\* open, so any of them may go.
ClearDone(S) ==
    /\ S # {} /\ S \subseteq Having(queue, "done")
    /\ queue' = Only(queue, DOMAIN queue \ S)
    /\ UNCHANGED <<nextId, now, memory, reap, retry, bounds, history>>

\* _forget_old_jobs: done and failed rows past their date or their number.
\* A failure shown for a month and then dropped has been answered.
ForgetOldJobs(S) ==
    /\ S # {} /\ S \subseteq Having(queue, "done") \cup Having(queue, "failed")
    /\ queue' = Only(queue, DOMAIN queue \ S)
    /\ owed' = owed \ {queue[i].work : i \in S \cap Having(queue, "failed")}
    /\ UNCHANGED <<nextId, now, memory, reap, retry, bounds,
                   fresh, stolen, forfeited>>

-----------------------------------------------------------------------------

Supervisor ==
    \/ Start \/ Stop \/ Crash
    \/ Dequeue \/ Submit \/ SubmitFails \/ ClaimLost
    \/ \E job \in live : Close(job) \/ CloseLost(job)
    \/ SweepStart
    \/ ReapStep("supervisor")

Operator ==
    \/ OperatorReap \/ ReapStep("operator")
    \/ RetryFailed \/ RetryDuplicates \/ RetryRest
    \/ \E S \in SUBSET DOMAIN queue : ClearDone(S) \/ ForgetOldJobs(S)

Producer ==
    \E p \in Priorities :
        \/ \E w \in Work : Enqueue(w, p)
        \/ \E S \in SUBSET Work : Cardinality(S) > 1 /\ EnqueueMany(S, p)

Next == Producer \/ Supervisor \/ Operator \/ Tick

Spec == Init /\ [][Next]_vars

\* The scheduling loop never stops turning: it starts again after a crash
\* (every hook and command revives it), finishes what it is in the middle of,
\* dispatches, closes the jobs that end, and sweeps when the minute has come.
Fairness ==
    /\ WF_vars(Start)
    /\ WF_vars(ReapStep("supervisor"))
    /\ WF_vars(Submit)
    /\ SF_vars(\E job \in live : Close(job))
    /\ SF_vars(Dequeue)
    /\ SF_vars(SweepStart)

FairSpec == Spec /\ Fairness
-----------------------------------------------------------------------------
(* What the queue promises. *)

\* A producer that asked for work may forget about it: as long as no run that
\* started after the request has come to an end, some row still stands for the
\* work (waiting, claimed, or failed for all to see).  Rests on the dedup rule
\* of enqueue, on both statements that drop duplicates, and on the sweep
\* leaving live jobs alone.  (A claim that was lost while an earlier run of the
\* same work was still in the pool is dropped in favour of that run: the
\* ranking that keeps one zombie ranks the kept rows too.  See forfeited.)
NoRequestForgotten ==
    \A w \in owed :
        \/ Unfinished(queue, w)
        \/ w \in forfeited

\* reap_zombies(keep_ids): a row runs at most once at a time, and a job in the
\* pool still owns the row its closing write will name, whatever producers
\* and operators do meanwhile (unless it was taken from it, see stolen).
LiveClaimHeld ==
    \A job \in InHand :
        job.id \notin stolen =>
            /\ job.id \in DOMAIN queue
            /\ queue[job.id].status = "running"
            /\ job = JobOf(queue, job.id)

\* max_attempts: a row that keeps killing its supervisor is given up.  An
\* operator's retry-failed grants it one more run.
AttemptsBounded ==
    \A i \in DOMAIN queue \ stolen : queue[i].attempts <= MaxAttempts + commands

\* The sweep takes a row from under a live job only when the claim is overdue;
\* otherwise it was the operator's `queue reap`, whose look for a supervisor
\* came before this one started.
SweepSparesLiveJobs ==
    [][\A i \in stolen' \ stolen :
          \/ reap["operator"].step # 0
          \/ \E job \in InHand : job.id = i /\ now - job.started_at > MaxAge]_vars

\* A running or failed row is deleted only in favour of another row of the same
\* work that is not done: dedup by reap_zombies and retry_failed loses nothing.
\* (Trimming the history removes failures for good.)
DedupKeepsTheWork ==
    [][\A i \in DOMAIN queue :
          /\ i \notin DOMAIN queue'
          /\ reap' # reap \/ retry' # retry
          => Unfinished(queue', queue[i].work)]_vars

\* A claim nothing is running does not stay: a job whose closing write was
\* lost, or whose supervisor died, goes back to the queue or is given up.
StrandedClaimReclaimed ==
    \A i \in 1 .. MaxId :
        i \in Having(queue, "running") \ IdsOf(InHand) ~>
            i \notin Having(queue, "running") \ IdsOf(InHand)

\* No claim is protected for ever: when the sweep requeues, every claim older
\* than max_age_seconds is among those it takes, kept or not.
OverdueClaimIsReaped ==
    reap["supervisor"].step = 4 =>
        \A i \in Having(queue, "running") :
            now - queue[i].started_at > MaxAge =>
                i \in Zombies(queue, reap["supervisor"].keep, now)

\* Under a supervisor that comes back, every request is answered: run after
\* it was made, or left as a failed row.
RequestAnswered ==
    \A w \in Work :
        w \in owed ~>
            \/ w \notin owed
            \/ \E i \in Having(queue, "failed") : queue[i].work = w
            \/ w \in forfeited
=============================================================================
