--------------------------- MODULE WorkQueueProofs --------------------------
(***************************************************************************)
(* Theorems about WorkQueue, for any works, bounds and faults.             *)
(***************************************************************************)
EXTENDS WorkQueue, FiniteSetTheorems, WellFoundedInduction, TLAPS

-----------------------------------------------------------------------------
(* The statements of the table keep it a table. *)

LEMMA OnlyType ==
    ASSUME NEW q, IsTable(q), NEW S \in SUBSET DOMAIN q
    PROVE  IsTable(Only(q, S))
  BY DEF IsTable, Only

LEMMA ClaimedType ==
    ASSUME NEW q, IsTable(q), NEW i \in DOMAIN q, NEW t \in Nat
    PROVE  /\ IsTable(Claimed(q, i, t))
           /\ DOMAIN Claimed(q, i, t) = DOMAIN q
           /\ Claimed(q, i, t)[i].status = "running"
           /\ \A j \in DOMAIN q : j # i => Claimed(q, i, t)[j] = q[j]
  <1> DEFINE row == [q[i] EXCEPT !.status = "running", !.started_at = t,
                                 !.attempts = @ + 1]
             r == Claimed(q, i, t)
  <1>1. q[i] \in Row
    BY DEF IsTable
  <1>2. q[i].attempts + 1 \in Nat
    BY <1>1 DEF Row
  <1>3. row \in Row /\ row.status = "running"
    BY <1>1, <1>2 DEF Row, Statuses
  <1>4. r = [j \in DOMAIN q |-> IF j = i THEN row ELSE q[j]]
    BY DEF Claimed
  <1> QED
    BY <1>3, <1>4 DEF IsTable

LEMMA CloseType ==
    ASSUME NEW q, IsTable(q), NEW i
    PROVE  /\ IsTable(MarkedDone(q, i)) /\ DOMAIN MarkedDone(q, i) = DOMAIN q
           /\ IsTable(MarkedFailed(q, i)) /\ DOMAIN MarkedFailed(q, i) = DOMAIN q
           /\ IsTable(HandedBack(q, i)) /\ DOMAIN HandedBack(q, i) = DOMAIN q
           /\ \A j \in DOMAIN q : j # i =>
                 /\ MarkedDone(q, i)[j] = q[j]
                 /\ MarkedFailed(q, i)[j] = q[j]
                 /\ HandedBack(q, i)[j] = q[j]
  <1> DEFINE back(j) == [q[j] EXCEPT !.status = "pending", !.started_at = 0,
                             !.attempts = IF @ > 0 THEN @ - 1 ELSE 0]
  <1>1. \A j \in DOMAIN q : q[j] \in Row
    BY DEF IsTable
  <1>2. \A j \in DOMAIN q : /\ [q[j] EXCEPT !.status = "done"] \in Row
                           /\ [q[j] EXCEPT !.status = "failed"] \in Row
    BY <1>1 DEF Row, Statuses
  <1>3. ASSUME NEW j \in DOMAIN q
        PROVE  back(j) \in Row
    <2>1. (IF q[j].attempts > 0 THEN q[j].attempts - 1 ELSE 0) \in Nat
      BY <1>1 DEF Row
    <2> QED BY <1>1, <2>1 DEF Row, Statuses
  <1>4. HandedBack(q, i) = [j \in DOMAIN q |-> IF j = i THEN back(j) ELSE q[j]]
    BY DEF HandedBack
  <1>5. IsTable(HandedBack(q, i)) /\ DOMAIN HandedBack(q, i) = DOMAIN q
    <2> HIDE DEF back
    <2> QED BY <1>3, <1>4 DEF IsTable
  <1>6. /\ IsTable(MarkedDone(q, i)) /\ DOMAIN MarkedDone(q, i) = DOMAIN q
        /\ IsTable(MarkedFailed(q, i)) /\ DOMAIN MarkedFailed(q, i) = DOMAIN q
    BY <1>2 DEF IsTable, MarkedDone, MarkedFailed
  <1> QED
    BY <1>5, <1>6 DEF MarkedDone, MarkedFailed, HandedBack

LEMMA ReapType ==
    ASSUME NEW q, IsTable(q), NEW keep, NEW t
    PROVE  /\ IsTable(ReapFail(q, keep, t)) /\ DOMAIN ReapFail(q, keep, t) = DOMAIN q
           /\ IsTable(ReapTwins(q, keep, t))
           /\ DOMAIN ReapTwins(q, keep, t) \subseteq DOMAIN q
           /\ IsTable(ReapDuplicates(q, keep, t))
           /\ DOMAIN ReapDuplicates(q, keep, t) \subseteq DOMAIN q
           /\ IsTable(ReapRequeue(q, keep, t))
           /\ DOMAIN ReapRequeue(q, keep, t) = DOMAIN q
  BY DEF IsTable, ReapFail, ReapTwins, ReapDuplicates, ReapRequeue, Only, Row, Statuses

LEMMA RetryType ==
    ASSUME NEW q, IsTable(q)
    PROVE  /\ IsTable(RetryTwins(q)) /\ DOMAIN RetryTwins(q) \subseteq DOMAIN q
           /\ IsTable(RetryCoalesce(q)) /\ DOMAIN RetryCoalesce(q) \subseteq DOMAIN q
           /\ IsTable(RetryRequeue(q)) /\ DOMAIN RetryRequeue(q) = DOMAIN q
  BY DEF IsTable, RetryTwins, RetryCoalesce, RetryRequeue, Only, Row, Statuses

LEMMA InsertedType ==
    ASSUME NEW q, IsTable(q), NEW S \in SUBSET Work, NEW p \in Nat,
           NEW t \in Nat, NEW n \in Ids, NEW f \in Numberings(q, S, n)
    PROVE  /\ IsTable(Inserted(q, f, p, t))
           /\ \A i \in DOMAIN q :
                 i < n => /\ i \in DOMAIN Inserted(q, f, p, t)
                          /\ Inserted(q, f, p, t)[i] = q[i]
           /\ \A i \in DOMAIN Inserted(q, f, p, t) :
                 i \in DOMAIN q \/ i \in n .. n + Cardinality(NewIn(q, S)) - 1
  <1> DEFINE new == NewIn(q, S)
             ids == {f[w] : w \in DOMAIN f}
             r == Inserted(q, f, p, t)
  <1>1. f \in [new -> n .. n + Cardinality(new) - 1]
    BY DEF Numberings
  <1>2. new \subseteq Work
    BY DEF NewIn
  <1>3. ids \subseteq n .. n + Cardinality(new) - 1
    BY <1>1
  <1>4. \A i \in ids : i \in Int /\ i >= n
    BY <1>3 DEF Ids
  <1>5. r = [i \in DOMAIN q \cup ids |->
                IF i \in ids
                THEN NewRow(CHOOSE w \in DOMAIN f : f[w] = i, p, t)
                ELSE q[i]]
    BY DEF Inserted
  <1>6. \A i \in ids : (CHOOSE w \in DOMAIN f : f[w] = i) \in Work
    BY <1>1, <1>2
  <1>7. \A w \in Work : NewRow(w, p, t) \in Row
    BY DEF NewRow, Row, Statuses
  <1>8. IsTable(r)
    BY <1>4, <1>5, <1>6, <1>7 DEF IsTable, Ids
  <1>9. ASSUME NEW i \in DOMAIN q, i < n
        PROVE  i \in DOMAIN r /\ r[i] = q[i]
    <2>1. i \notin ids
      BY <1>4, <1>9 DEF IsTable, Ids
    <2> QED BY <2>1, <1>5
  <1>10. \A i \in DOMAIN r : i \in DOMAIN q \/ i \in ids
    BY <1>5
  <1> QED BY <1>3, <1>8, <1>9, <1>10

-----------------------------------------------------------------------------
(* The type invariant is inductive. *)

LEMMA NewInFinite ==
    ASSUME NEW q, NEW S \in SUBSET Work
    PROVE  Cardinality(NewIn(q, S)) \in Nat
  <1>1. NewIn(q, S) \subseteq Work
    BY DEF NewIn
  <1> QED BY <1>1, WorkQueueAssumption, FS_Subset, FS_CardinalityType

LEMMA EnqueueType ==
    ASSUME TypeOK, NEW S \in SUBSET Work, NEW p \in Priorities, EnqueueMany(S, p)
    PROVE  TypeOK'
  <1> DEFINE new == Cardinality(NewIn(queue, S))
  <1>1. new \in Nat
    BY NewInFinite
  <1>2. PICK f \in Numberings(queue, S, nextId) : queue' = Inserted(queue, f, p, now)
    BY DEF EnqueueMany
  <1>3. IsTable(queue) /\ nextId \in Ids /\ now \in Nat /\ p \in Nat
    BY WorkQueueAssumption DEF TypeOK, Ids
  <1>4. /\ IsTable(queue')
        /\ \A i \in DOMAIN queue' : i \in DOMAIN queue \/ i \in nextId .. nextId + new - 1
    BY <1>2, <1>3, InsertedType
  <1>5. nextId' \in Ids /\ \A i \in DOMAIN queue' : i < nextId'
    <2>1. nextId' = nextId + new
      BY DEF EnqueueMany
    <2>2. \A i \in DOMAIN queue : i \in Nat /\ i < nextId
      BY DEF TypeOK, IsTable
    <2> QED BY <2>1, <2>2, <1>1, <1>3, <1>4 DEF Ids
  <1>6. fresh' \subseteq live' /\ owed' \subseteq Work
    BY DEF EnqueueMany, TypeOK, memory
  <1> QED
    BY <1>4, <1>5, <1>6 DEF EnqueueMany, TypeOK, memory, bounds, history

LEMMA JobType ==
    ASSUME NEW q, IsTable(q), NEW i \in DOMAIN q
    PROVE  JobOf(q, i) \in Job
  BY DEF IsTable, JobOf, Job, Row, Ids

\* Every step that only rewrites rows or drops them.
LEMMA ShrinkType ==
    ASSUME TypeOK, IsTable(queue'), DOMAIN queue' \subseteq DOMAIN queue,
           nextId' = nextId
    PROVE  nextId' \in Ids /\ \A i \in DOMAIN queue' : i < nextId'
  BY DEF TypeOK

ReapState == [step: 0..4, keep: SUBSET Ids]

LEMMA ReapSetType ==
    ASSUME NEW f \in [Reapers -> ReapState], NEW r \in Reapers,
           NEW k \in 0..4, NEW ids \in SUBSET Ids
    PROVE  [f EXCEPT ![r] = [step |-> k, keep |-> ids]] \in [Reapers -> ReapState]
  BY DEF ReapState

LEMMA ReapStepType ==
    ASSUME TypeOK, NEW r \in Reapers, ReapStep(r)
    PROVE  TypeOK'
  <1> DEFINE keep == reap[r].keep
  <1>0. IsTable(queue)
    BY DEF TypeOK
  <1>1. ASSUME NEW k \in 1..4, NEW q, ReapStatement(r, k, q),
               IsTable(q), DOMAIN q \subseteq DOMAIN queue
        PROVE  TypeOK'
    <2>1. reap' \in [Reapers -> ReapState]
      <3>1. reap \in [Reapers -> ReapState] /\ reap[r] \in ReapState
        BY DEF TypeOK, ReapState
      <3>2. CASE k = 4
        BY <1>1, <3>1, <3>2 DEF ReapStatement, NotReaping, ReapState
      <3>3. CASE k # 4
        <4>1. k + 1 \in 0..4
          BY <3>3
        <4>2. [reap[r] EXCEPT !.step = k + 1] \in ReapState
          BY <3>1, <4>1 DEF ReapState
        <4>3. reap' = [reap EXCEPT ![r] = [@ EXCEPT !.step = k + 1]]
          BY <1>1, <3>3 DEF ReapStatement
        <4> QED BY <3>1, <4>2, <4>3
      <3> QED BY <3>2, <3>3
    <2>2. IdsOf(InHand) \subseteq Ids
      BY DEF IdsOf, InHand, TypeOK, Job
    <2>3. stolen' \subseteq Ids
      BY <1>1, <2>2 DEF ReapStatement, Taken, TypeOK
    <2>4. forfeited' \subseteq Work
      <3>1. Taken(q) \cup Outranked(q) \subseteq DOMAIN queue
        BY DEF Taken, Outranked, Having
      <3>2. \A i \in DOMAIN queue : queue[i].work \in Work
        BY DEF TypeOK, IsTable, Row
      <3>3. forfeited' = forfeited
                \cup {queue[i].work : i \in Taken(q) \cup Outranked(q)}
        BY <1>1 DEF ReapStatement
      <3> QED BY <3>1, <3>2, <3>3 DEF TypeOK
    <2> QED
      BY <1>1, <2>1, <2>3, <2>4, ShrinkType
      DEF ReapStatement, ReapState, TypeOK, memory, bounds
  <1>2. CASE FailExhausted(r)
    BY <1>0, <1>1, <1>2, ReapType DEF FailExhausted
  <1>3. CASE DropTwins(r)
    BY <1>0, <1>1, <1>3, ReapType DEF DropTwins
  <1>4. CASE DropDuplicates(r)
    BY <1>0, <1>1, <1>4, ReapType DEF DropDuplicates
  <1>5. CASE RequeueRest(r)
    BY <1>0, <1>1, <1>5, ReapType DEF RequeueRest, IfAllowed
  <1> QED
    BY <1>2, <1>3, <1>4, <1>5 DEF ReapStep

LEMMA SupervisorType ==
    ASSUME TypeOK, Supervisor
    PROVE  TypeOK'
  <1> USE DEF table, memory, bounds, history
  <1>0. IsTable(queue) /\ now \in Nat
    BY DEF TypeOK, Ids
  <1>1. CASE Start
    BY <1>1 DEF Start, TypeOK, Reapers
  <1>2. CASE Stop
    BY <1>2 DEF Stop, TypeOK
  <1>3. CASE Crash
    <2>1. reap' \in [Reapers -> ReapState]
      BY <1>3, ReapSetType DEF Crash, TypeOK, NotReaping, Reapers, ReapState
    <2>2. faults' \in Nat
      BY <1>3 DEF Crash, Fault, TypeOK
    <2> QED BY <1>3, <2>1, <2>2 DEF Crash, Fault, TypeOK, ReapState
  <1>4. CASE Dequeue
    <2>1. PICK i \in Heads(queue) : /\ queue' = Claimed(queue, i, now)
                                    /\ claimed' = {JobOf(queue', i)}
      BY <1>4 DEF Dequeue
    <2>2. i \in DOMAIN queue
      BY DEF Heads, Having
    <2>3. IsTable(queue') /\ DOMAIN queue' = DOMAIN queue
      BY <1>0, <2>1, <2>2, ClaimedType
    <2>4. claimed' \subseteq Job /\ \A j, k \in claimed' : j = k
      BY <2>1, <2>2, <2>3, JobType
    <2> QED BY <1>4, <2>3, <2>4, ShrinkType DEF Dequeue, TypeOK
  <1>5. CASE Submit
    BY <1>5 DEF Submit, TypeOK
  <1>6. CASE SubmitFails
    <2>1. PICK job \in claimed :
             queue' = IfAllowed(HandedBack(queue, job.id), queue)
      BY <1>6 DEF SubmitFails
    <2>2. IsTable(queue') /\ DOMAIN queue' = DOMAIN queue
      BY <1>0, <2>1, CloseType DEF IfAllowed
    <2> QED BY <1>6, <2>2, ShrinkType DEF SubmitFails, Fault, TypeOK
  <1>7. CASE ClaimLost
    BY <1>7 DEF ClaimLost, Fault, TypeOK
  <1>8. ASSUME NEW job \in live, Close(job)
        PROVE  TypeOK'
    <2>1. IsTable(queue') /\ DOMAIN queue' = DOMAIN queue
      BY <1>0, <1>8, CloseType DEF Close
    <2> QED BY <1>8, <2>1, ShrinkType DEF Close, Ended, TypeOK
  <1>9. ASSUME NEW job \in live, CloseLost(job)
        PROVE  TypeOK'
    BY <1>9 DEF CloseLost, Ended, Fault, TypeOK
  <1>10. CASE SweepStart
    <2>1. IdsOf(live) \in SUBSET Ids
      BY DEF IdsOf, Job, TypeOK
    <2>2. reap' \in [Reapers -> ReapState]
      BY <1>10, <2>1, ReapSetType DEF SweepStart, TypeOK, Reapers, ReapState
    <2> QED BY <1>10, <2>2 DEF SweepStart, TypeOK, ReapState
  <1>11. CASE ReapStep("supervisor")
    BY <1>11, ReapStepType DEF Reapers
  <1> QED
    BY <1>1, <1>2, <1>3, <1>4, <1>5, <1>6, <1>7, <1>8, <1>9, <1>10, <1>11
    DEF Supervisor

LEMMA OperatorType ==
    ASSUME TypeOK, Operator
    PROVE  TypeOK'
  <1> USE DEF table, memory, bounds, history
  <1>0. IsTable(queue)
    BY DEF TypeOK
  <1>1. CASE OperatorReap
    <2>1. reap' \in [Reapers -> ReapState]
      BY <1>1, ReapSetType DEF OperatorReap, TypeOK, Reapers, ReapState
    <2> QED BY <1>1, <2>1 DEF OperatorReap, TypeOK, ReapState
  <1>2. CASE ReapStep("operator")
    BY <1>2, ReapStepType DEF Reapers
  <1>3. CASE RetryFailed
    <2>1. IsTable(queue') /\ DOMAIN queue' \subseteq DOMAIN queue
      BY <1>0, <1>3, RetryType DEF RetryFailed
    <2> QED BY <1>3, <2>1, ShrinkType DEF RetryFailed, TypeOK
  <1>4. CASE RetryDuplicates
    <2>1. IsTable(queue') /\ DOMAIN queue' \subseteq DOMAIN queue
      BY <1>0, <1>4, RetryType DEF RetryDuplicates
    <2> QED BY <1>4, <2>1, ShrinkType DEF RetryDuplicates, TypeOK
  <1>5. CASE RetryRest
    <2>1. IsTable(queue') /\ DOMAIN queue' \subseteq DOMAIN queue
      BY <1>0, <1>5, RetryType DEF RetryRest, IfAllowed
    <2> QED BY <1>5, <2>1, ShrinkType DEF RetryRest, TypeOK
  <1>6. ASSUME NEW S \in SUBSET DOMAIN queue, ClearDone(S)
        PROVE  TypeOK'
    <2>1. IsTable(queue') /\ DOMAIN queue' \subseteq DOMAIN queue
      BY <1>0, <1>6, OnlyType DEF ClearDone, Only
    <2> QED BY <1>6, <2>1, ShrinkType DEF ClearDone, TypeOK
  <1>7. ASSUME NEW S \in SUBSET DOMAIN queue, ForgetOldJobs(S)
        PROVE  TypeOK'
    <2>1. IsTable(queue') /\ DOMAIN queue' \subseteq DOMAIN queue
      BY <1>0, <1>7, OnlyType DEF ForgetOldJobs, Only
    <2> QED BY <1>7, <2>1, ShrinkType DEF ForgetOldJobs, TypeOK
  <1> QED
    BY <1>1, <1>2, <1>3, <1>4, <1>5, <1>6, <1>7 DEF Operator

LEMMA TypeStep == TypeOK /\ [Next]_vars => TypeOK'
  <1> SUFFICES ASSUME TypeOK, [Next]_vars
               PROVE  TypeOK'
    OBVIOUS
  <1>1. CASE Producer
    <2>1. PICK p \in Priorities :
             \/ \E w \in Work : Enqueue(w, p)
             \/ \E S \in SUBSET Work : EnqueueMany(S, p)
      BY <1>1 DEF Producer
    <2>2. \E S \in SUBSET Work : EnqueueMany(S, p)
      BY <2>1 DEF Enqueue
    <2> QED BY <2>2, EnqueueType
  <1>2. CASE Supervisor
    BY <1>2, SupervisorType
  <1>3. CASE Operator
    BY <1>3, OperatorType
  <1>4. CASE Tick
    BY <1>4 DEF Tick, TypeOK, Ids, table, memory, bounds, history
  <1>5. CASE UNCHANGED vars
    BY <1>5 DEF vars, TypeOK, table, memory, bounds, history
  <1> QED
    BY <1>1, <1>2, <1>3, <1>4, <1>5 DEF Next

LEMMA TypeInit == Init => TypeOK
  <1> SUFFICES ASSUME Init
               PROVE  TypeOK
    OBVIOUS
  <1>1. IsTable(queue) /\ DOMAIN queue = {}
    BY DEF Init, IsTable
  <1>2. reap \in [Reapers -> ReapState]
    BY DEF Init, NotReaping, ReapState
  <1>3. nextId \in Ids /\ now \in Ids /\ retry \in 0..3 /\ faults \in Nat /\ commands \in Nat
    BY DEF Init, Ids
  <1>5. up \in BOOLEAN
    BY Zenon DEF Init
  <1>4. claimed = {} /\ live = {} /\ fresh = {} /\ owed = {} /\ stolen = {} /\ forfeited = {}
    BY DEF Init
  <1> QED
    BY <1>1, <1>2, <1>3, <1>4, <1>5 DEF TypeOK, ReapState

\* The table stays a table, and the supervisor's memory a memory, whatever
\* the processes of class Queue's callers do and in whatever order.
THEOREM TypeCorrect == Spec => []TypeOK
  BY TypeInit, TypeStep, PTL DEF Spec

-----------------------------------------------------------------------------
(* A job in hand owns its row.                                             *)
(*                                                                         *)
(* LiveClaimHeld is almost inductive: two jobs in hand under one id that   *)
(* was not stolen are the same job, since both read what the row says.     *)
(* What is missing is that the job about to be submitted is not also in    *)
(* the pool: then handing it back would take the row from itself.          *)

ClaimedApart ==
    \A j \in claimed, k \in live : j.id = k.id => j.id \in stolen

ClaimInv == TypeOK /\ LiveClaimHeld /\ ClaimedApart

\* What becomes of the rows in hand decides.
LEMMA HeldStep ==
    ASSUME ClaimInv,
           claimed' \subseteq claimed, live' \subseteq InHand,
           claimed' = claimed => live' \subseteq live,
           claimed' # claimed => claimed' = {},
           stolen \subseteq stolen',
           \A job \in InHand' : job.id \notin stolen' =>
               /\ job.id \in DOMAIN queue'
               /\ queue'[job.id] = queue[job.id]
    PROVE  LiveClaimHeld' /\ ClaimedApart'
  BY DEF ClaimInv, LiveClaimHeld, ClaimedApart, InHand, JobOf

LEMMA ClaimStep == ClaimInv /\ [Next]_vars => ClaimInv'
  <1> SUFFICES ASSUME ClaimInv, [Next]_vars
               PROVE  LiveClaimHeld' /\ ClaimedApart'
    BY TypeStep DEF ClaimInv
  <1> USE DEF table, memory, bounds, history
  <1>0. IsTable(queue) /\ now \in Nat /\ TypeOK
    BY DEF ClaimInv, TypeOK, Ids
  <1>a. \A job \in InHand : job.id \notin stolen =>
            /\ job.id \in DOMAIN queue
            /\ queue[job.id].status = "running"
    BY DEF ClaimInv, LiveClaimHeld
  <1>1. CASE Producer
    <2>1. PICK p \in Priorities :
             \/ \E w \in Work : Enqueue(w, p)
             \/ \E S \in SUBSET Work : EnqueueMany(S, p)
      BY <1>1 DEF Producer
    <2>2. PICK S \in SUBSET Work : EnqueueMany(S, p)
      BY <2>1 DEF Enqueue
    <2>3. PICK f \in Numberings(queue, S, nextId) :
             queue' = Inserted(queue, f, p, now)
      BY <2>2 DEF EnqueueMany
    <2>4. p \in Nat /\ nextId \in Ids /\ \A i \in DOMAIN queue : i < nextId
      BY <1>0, WorkQueueAssumption DEF TypeOK
    <2>5. \A i \in DOMAIN queue : i \in DOMAIN queue' /\ queue'[i] = queue[i]
      BY <1>0, <2>3, <2>4, InsertedType
    <2> QED BY <1>a, <2>2, <2>5, HeldStep DEF EnqueueMany, InHand
  <1>2. CASE Start \/ Stop \/ SweepStart \/ Tick \/ UNCHANGED vars
    BY <1>2, <1>a, HeldStep DEF Start, Stop, SweepStart, Tick, vars, InHand
  <1>3. CASE Crash \/ ClaimLost
    BY <1>3, <1>a, HeldStep DEF Crash, ClaimLost, InHand
  <1>4. CASE Dequeue
    <2>1. PICK i \in Heads(queue) : /\ queue' = Claimed(queue, i, now)
                                    /\ claimed' = {JobOf(queue', i)}
      BY <1>4 DEF Dequeue
    <2>2. i \in DOMAIN queue /\ queue[i].status = "pending"
      BY DEF Heads, Having
    <2>3. /\ DOMAIN queue' = DOMAIN queue
          /\ queue'[i].status = "running"
          /\ \A j \in DOMAIN queue : j # i => queue'[j] = queue[j]
      BY <1>0, <2>1, <2>2, ClaimedType
    <2>4. live' = live /\ stolen' = stolen /\ claimed = {}
      BY <1>4 DEF Dequeue, Dispatching
    <2>5. \A job \in live : job.id \notin stolen => job.id # i
      BY <1>a, <2>2 DEF InHand
    <2>6. ClaimedApart'
      BY <2>1, <2>4, <2>5 DEF ClaimedApart, JobOf
    <2>7. ASSUME NEW job \in InHand', job.id \notin stolen'
          PROVE  /\ job.id \in DOMAIN queue'
                 /\ queue'[job.id].status = "running"
                 /\ job = JobOf(queue', job.id)
      <3>1. CASE job \in live
        <4>1. /\ job.id \in DOMAIN queue /\ queue[job.id].status = "running"
              /\ job = JobOf(queue, job.id)
          BY <2>4, <2>7, <3>1 DEF ClaimInv, LiveClaimHeld, InHand
        <4>2. queue'[job.id] = queue[job.id]
          BY <2>3, <2>4, <2>5, <2>7, <3>1, <4>1
        <4> QED BY <4>1, <4>2, <2>3 DEF JobOf
      <3>2. CASE job \in claimed'
        BY <2>1, <2>2, <2>3, <3>2 DEF JobOf
      <3> QED BY <2>4, <2>7, <3>1, <3>2 DEF InHand
    <2> QED BY <2>6, <2>7 DEF LiveClaimHeld
  <1>5. CASE Submit
    BY <1>5, <1>a, HeldStep DEF Submit, InHand
  <1>6. CASE SubmitFails
    <2>1. PICK job \in claimed :
             queue' = IfAllowed(HandedBack(queue, job.id), queue)
      BY <1>6 DEF SubmitFails
    <2>2. \A i \in DOMAIN queue : i # job.id =>
             i \in DOMAIN queue' /\ queue'[i] = queue[i]
      BY <1>0, <2>1, CloseType DEF IfAllowed
    <2>3. claimed' = {} /\ live' = live /\ stolen' = stolen
      BY <1>6 DEF SubmitFails
    <2>4. \A k \in live : k.id \notin stolen => k.id # job.id
      BY DEF ClaimInv, ClaimedApart
    <2> QED BY <1>a, <2>2, <2>3, <2>4, HeldStep DEF InHand
  <1>7. ASSUME NEW job \in live, Close(job)
        PROVE  LiveClaimHeld' /\ ClaimedApart'
    <2>1. \A i \in DOMAIN queue : i # job.id =>
             i \in DOMAIN queue' /\ queue'[i] = queue[i]
      BY <1>0, <1>7, CloseType DEF Close
    <2>2. claimed' = {} /\ claimed = {} /\ live' = live \ {job} /\ stolen' = stolen
      BY <1>7 DEF Close, Ended, Dispatching
    <2>3. \A k \in live' : k.id \notin stolen => k.id # job.id
      BY <2>2 DEF ClaimInv, LiveClaimHeld, InHand
    <2> QED BY <1>a, <2>1, <2>2, <2>3, HeldStep DEF InHand
  <1>8. ASSUME NEW job \in live, CloseLost(job)
        PROVE  LiveClaimHeld' /\ ClaimedApart'
    BY <1>8, <1>a, HeldStep DEF CloseLost, Ended, InHand
  <1>9. ASSUME NEW r \in Reapers, ReapStep(r)
        PROVE  LiveClaimHeld' /\ ClaimedApart'
    <2>1. PICK k \in 1..4 : \E q : ReapStatement(r, k, q)
      BY <1>9 DEF ReapStep, FailExhausted, DropTwins, DropDuplicates, RequeueRest
    <2>2. PICK q : ReapStatement(r, k, q)
      BY <2>1
    <2>3. /\ queue' = q /\ claimed' = claimed /\ live' = live
          /\ stolen' = stolen \cup {i \in IdsOf(InHand) \cap DOMAIN queue :
                                       i \notin DOMAIN q \/ q[i] # queue[i]}
      BY <2>2 DEF ReapStatement, Taken
    <2>4. ASSUME NEW job \in InHand, job.id \notin stolen'
          PROVE  job.id \in DOMAIN queue' /\ queue'[job.id] = queue[job.id]
      <3>1. job.id \in IdsOf(InHand)
        BY DEF IdsOf
      <3>2. job.id \in DOMAIN queue
        BY <1>a, <2>3, <2>4
      <3> QED BY <2>3, <2>4, <3>1, <3>2
    <2> QED BY <2>3, <2>4, HeldStep DEF InHand
  <1>10. CASE RetryFailed \/ RetryDuplicates \/ RetryRest
    <2>1. \A i \in DOMAIN queue : queue[i].status = "running" =>
              i \in DOMAIN queue' /\ queue'[i] = queue[i]
      BY <1>10 DEF RetryFailed, RetryDuplicates, RetryRest, IfAllowed,
                  RetryTwins, RetryCoalesce, RetryRequeue, Only
    <2>2. claimed' = claimed /\ live' = live /\ stolen' = stolen
      BY <1>10 DEF RetryFailed, RetryDuplicates, RetryRest
    <2> QED BY <1>a, <2>1, <2>2, HeldStep DEF InHand
  <1>11. ASSUME NEW S \in SUBSET DOMAIN queue, ClearDone(S) \/ ForgetOldJobs(S)
         PROVE  LiveClaimHeld' /\ ClaimedApart'
    <2>1. \A i \in DOMAIN queue : queue[i].status = "running" =>
              i \in DOMAIN queue' /\ queue'[i] = queue[i]
      BY <1>11 DEF ClearDone, ForgetOldJobs, Having, Only
    <2>2. claimed' = claimed /\ live' = live /\ stolen' = stolen
      BY <1>11 DEF ClearDone, ForgetOldJobs
    <2> QED BY <1>a, <2>1, <2>2, HeldStep DEF InHand
  <1>12. CASE OperatorReap
    BY <1>12, <1>a, HeldStep DEF OperatorReap, InHand
  <1> QED
    BY <1>1, <1>2, <1>3, <1>4, <1>5, <1>6, <1>7, <1>8, <1>9, <1>10, <1>11, <1>12
    DEF Next, Supervisor, Operator, Reapers

\* A job in the pool owns the row its closing write will name: the sweep, the
\* operator's commands and the producers leave it running and its own, unless
\* reap_zombies took it away (stolen).
THEOREM LiveClaimsHeld == Spec => []LiveClaimHeld
  <1>1. Init => ClaimInv
    BY TypeInit DEF Init, ClaimInv, LiveClaimHeld, ClaimedApart, InHand
  <1>2. ClaimInv => LiveClaimHeld
    BY DEF ClaimInv
  <1> QED
    BY <1>1, <1>2, ClaimStep, PTL DEF Spec

-----------------------------------------------------------------------------
(* No request is forgotten, and dedup loses no work.                       *)
(*                                                                         *)
(* That some unfinished row stands for every owed work is not inductive:   *)
(* a run that began before the last request may close the very row that    *)
(* stands for it.  What is, is that some row stands for the work that no   *)
(* such run has in hand.  To keep it through the reaping and the retrying  *)
(* one must know that the row kept in the place of a dropped one exists    *)
(* (the ranking has a first), and what work a row in hand is of.           *)

\* Jobs that began before the last request for their work.
Stale == live \ fresh

\* A row that answers for w: not closed, and in no stale job's hands.
StandsFor(i, w) ==
    /\ i \in DOMAIN queue
    /\ queue[i].work = w /\ queue[i].status # "done"
    /\ i \notin IdsOf(Stale)

OwedStands == \A w \in owed \ forfeited : \E i \in Ids : StandsFor(i, w)

\* What a job says of its row stays true of the row's work, stolen or not.
JobsKnown ==
    \A job \in InHand :
        /\ job.id < nextId
        /\ job.id \in DOMAIN queue => queue[job.id].work = job.work
        /\ job.id \in stolen => job.work \in forfeited

StolenKnown ==
    \A i \in stolen :
        /\ i < nextId
        /\ i \in DOMAIN queue => queue[i].work \in forfeited

\* A bound on attempts: what the ranking needs in order to have a first.
Attempted == \E n \in Nat : \A i \in DOMAIN queue : queue[i].attempts <= n

RequestInv ==
    /\ ClaimInv /\ JobsKnown /\ StolenKnown /\ Attempted
    /\ OwedStands

-----------------------------------------------------------------------------
(* The ranking of reap_zombies and of retry_failed has a first. *)

LEMMA LessThan ==
    \E R : /\ IsWellFoundedOn(R, Nat)
           /\ \A x, y \in Nat : y < x => <<y, x>> \in R
  <1> DEFINE R == OpToRel(<, Nat)
  <1>1. IsWellFoundedOn(R, Nat)
    BY NatLessThanWellFounded
  <1>2. \A x, y \in Nat : y < x => <<y, x>> \in R
    BY DEF OpToRel
  <1> HIDE DEF R
  <1> QED BY <1>1, <1>2

LEMMA Least ==
    ASSUME NEW S, S \subseteq Nat, S # {}
    PROVE  \E m \in S : \A n \in S : m <= n
  <1>1. PICK R : /\ IsWellFoundedOn(R, Nat)
                 /\ \A x, y \in Nat : y < x => <<y, x>> \in R
    BY LessThan
  <1>2. PICK x \in S : \A y \in S : ~(<<y, x>> \in R)
    BY <1>1, WFMin
  <1>3. ASSUME NEW y \in S
        PROVE  x <= y
    <2>1. ~(y < x)
      BY <1>1, <1>2
    <2> QED BY <2>1
  <1> QED BY <1>3

LEMMA FirstExists ==
    ASSUME NEW q, IsTable(q), NEW S \in SUBSET DOMAIN q, NEW i \in S,
           NEW n \in Nat, \A j \in DOMAIN q : q[j].attempts <= n
    PROVE  \E f \in FirstOf(q, S) : q[f].work = q[i].work
  <1> DEFINE same == {j \in S : q[j].work = q[i].work}
             room(j) == n - q[j].attempts
             rooms == {room(j) : j \in same}
  <1>1. \A j \in DOMAIN q : q[j].attempts \in Nat /\ j \in Nat
    BY DEF IsTable, Row
  <1>2. \A j \in same : room(j) \in Nat /\ j \in Nat
    BY <1>1
  <1>3. i \in same
    OBVIOUS
  <1>4. rooms \subseteq Nat /\ rooms # {}
    BY <1>2, <1>3
  <1>5. PICK m \in rooms : \A k \in rooms : m <= k
    BY <1>4, Least
  <1> DEFINE tried == {j \in same : room(j) = m}
  <1>6. tried \subseteq Nat /\ tried # {}
    BY <1>2, <1>5
  <1>7. PICK f \in tried : \A k \in tried : f <= k
    BY <1>6, Least
  <1>8. ASSUME NEW j \in S, q[j].work = q[f].work, f # j
        PROVE  Outranks(q, f, j)
    <2>1. j \in same /\ room(f) = m /\ m <= room(j)
      BY <1>5, <1>7, <1>8
    <2>2. q[f].attempts >= q[j].attempts
      BY <1>1, <2>1
    <2>3. CASE q[f].attempts = q[j].attempts
      <3>1. f <= j
        BY <1>7, <2>1, <2>3
      <3> QED BY <1>1, <1>8, <2>3, <3>1 DEF Outranks
    <2>4. CASE q[f].attempts # q[j].attempts
      BY <1>1, <2>2, <2>4 DEF Outranks
    <2> QED BY <2>3, <2>4
  <1> QED BY <1>7, <1>8 DEF FirstOf

-----------------------------------------------------------------------------
(* What each deletion leaves in the place of the rows it takes. *)

\* DropTwins and RetryTwins.
LEMMA TwinStays ==
    ASSUME NEW q, NEW keep, NEW t, NEW i \in DOMAIN q,
           i \notin DOMAIN ReapTwins(q, keep, t) \/ i \notin DOMAIN RetryTwins(q)
    PROVE  \E j \in Having(q, "pending") :
              /\ q[j].work = q[i].work
              /\ j \in DOMAIN ReapTwins(q, keep, t) /\ j \in DOMAIN RetryTwins(q)
  BY DEF ReapTwins, RetryTwins, Only, HasPending, Having, Zombies

\* DropDuplicates.
LEMMA FirstStays ==
    ASSUME NEW q, IsTable(q), NEW keep, NEW t, NEW n \in Nat,
           \A j \in DOMAIN q : q[j].attempts <= n,
           NEW i \in DOMAIN q, i \notin DOMAIN ReapDuplicates(q, keep, t)
    PROVE  /\ q[i].status = "running"
           /\ \E f \in Having(q, "running") :
                 /\ q[f].work = q[i].work
                 /\ f \in DOMAIN ReapDuplicates(q, keep, t)
  <1>1. i \in Having(q, "running")
    BY DEF ReapDuplicates, Only, Zombies, Having
  <1>2. Having(q, "running") \in SUBSET DOMAIN q
    BY DEF Having
  <1>3. PICK f \in FirstOf(q, Having(q, "running")) : q[f].work = q[i].work
    BY <1>1, <1>2, FirstExists
  <1>4. f \in Having(q, "running") /\ f \in DOMAIN q
    BY <1>2 DEF FirstOf
  <1> QED BY <1>1, <1>3, <1>4 DEF ReapDuplicates, Only, Having

\* RetryDuplicates.
LEMMA FailedFirstStays ==
    ASSUME NEW q, IsTable(q), NEW n \in Nat,
           \A j \in DOMAIN q : q[j].attempts <= n,
           NEW i \in DOMAIN q, i \notin DOMAIN RetryCoalesce(q)
    PROVE  \E f \in Having(q, "failed") :
              q[f].work = q[i].work /\ f \in DOMAIN RetryCoalesce(q)
  <1>1. i \in Having(q, "failed")
    BY DEF RetryCoalesce, Only, Having
  <1>2. Having(q, "failed") \in SUBSET DOMAIN q
    BY DEF Having
  <1>3. PICK f \in FirstOf(q, Having(q, "failed")) : q[f].work = q[i].work
    BY <1>1, <1>2, FirstExists
  <1>4. f \in Having(q, "failed") /\ f \in DOMAIN q
    BY <1>2 DEF FirstOf
  <1> QED BY <1>3, <1>4 DEF RetryCoalesce, Only

-----------------------------------------------------------------------------
(* What a step leaves of the table: rows keep their work, and new ones have *)
(* new ids.                                                                 *)

LEMMA InsertedRows ==
    ASSUME NEW q, IsTable(q), NEW S \in SUBSET Work, NEW p \in Nat,
           NEW t \in Nat, NEW n \in Ids, NEW f \in Numberings(q, S, n),
           \A i \in DOMAIN q : i < n
    PROVE  /\ \A i \in DOMAIN Inserted(q, f, p, t) \ DOMAIN q :
                 Inserted(q, f, p, t)[i].attempts = 0
           /\ \A w \in S : \E i \in DOMAIN Inserted(q, f, p, t) :
                 /\ Inserted(q, f, p, t)[i].work = w
                 /\ Inserted(q, f, p, t)[i].status = "pending"
                 /\ \/ i \in DOMAIN q /\ q[i].status = "pending"
                    \/ i >= n
  <1> DEFINE r == Inserted(q, f, p, t)
             ids == {f[w] : w \in DOMAIN f}
             asker(i) == CHOOSE w \in DOMAIN f : f[w] = i
  <1>1. f \in [NewIn(q, S) -> n .. n + Cardinality(NewIn(q, S)) - 1]
    BY DEF Numberings
  <1>2. \A v, w \in DOMAIN f : f[v] = f[w] => v = w
    BY <1>1 DEF Numberings
  <1>3. r = [i \in DOMAIN q \cup ids |->
                IF i \in ids THEN NewRow(asker(i), p, t) ELSE q[i]]
    BY DEF Inserted
  <1>4. \A i \in DOMAIN q : i \in DOMAIN r /\ r[i] = q[i]
    BY InsertedType
  <1>5. \A i \in ids : i >= n
    BY <1>1 DEF Ids
  <1>6. \A w \in DOMAIN f : asker(f[w]) = w
    BY <1>2
  <1> HIDE DEF asker
  <1>7. ASSUME NEW w \in S
        PROVE  \E i \in DOMAIN r :
                  /\ r[i].work = w /\ r[i].status = "pending"
                  /\ \/ i \in DOMAIN q /\ q[i].status = "pending"
                     \/ i >= n
    <2>1. CASE HasPending(q, w)
      BY <1>4, <2>1 DEF HasPending, Having
    <2>2. CASE ~HasPending(q, w)
      <3>1. w \in DOMAIN f /\ f[w] \in ids
        BY <1>1, <2>2 DEF NewIn
      <3>2. f[w] \in DOMAIN r /\ r[f[w]] = NewRow(w, p, t)
        BY <1>3, <1>6, <3>1
      <3> QED BY <1>5, <3>1, <3>2 DEF NewRow
    <2> QED BY <2>1, <2>2
  <1>8. \A i \in DOMAIN r \ DOMAIN q : r[i].attempts = 0
    BY <1>3 DEF NewRow
  <1> QED BY <1>7, <1>8

\* The statements that name one row.
LEMMA NamedRows ==
    ASSUME NEW q, IsTable(q), NEW i, NEW t, NEW j \in DOMAIN q,
           NEW r \in {Claimed(q, i, t), HandedBack(q, i),
                      MarkedDone(q, i), MarkedFailed(q, i)}
    PROVE  /\ DOMAIN r = DOMAIN q
           /\ r[j].work = q[j].work /\ r[j].attempts <= q[j].attempts + 1
  <1>1. q[j] \in Row /\ q[j].attempts \in Nat
    BY DEF IsTable, Row
  <1>2. CASE r = Claimed(q, i, t)
    <2>1. r[j] = IF j = i THEN [q[j] EXCEPT !.status = "running",
                                   !.started_at = t, !.attempts = @ + 1]
                 ELSE q[j]
      BY <1>2 DEF Claimed
    <2>2. DOMAIN r = DOMAIN q
      BY <1>2 DEF Claimed
    <2> QED BY <1>1, <2>1, <2>2 DEF Row
  <1>3. CASE r = HandedBack(q, i)
    <2>1. r[j] = IF j = i
                 THEN [q[j] EXCEPT !.status = "pending", !.started_at = 0,
                          !.attempts = IF q[j].attempts > 0
                                       THEN q[j].attempts - 1 ELSE 0]
                 ELSE q[j]
      BY <1>3 DEF HandedBack
    <2>2. (IF q[j].attempts > 0 THEN q[j].attempts - 1 ELSE 0)
              <= q[j].attempts + 1
      BY <1>1
    <2>3. DOMAIN r = DOMAIN q
      BY <1>3 DEF HandedBack
    <2> QED BY <1>1, <2>1, <2>2, <2>3 DEF Row
  <1>4. CASE r = MarkedDone(q, i) \/ r = MarkedFailed(q, i)
    BY <1>1, <1>4 DEF MarkedDone, MarkedFailed, Row
  <1> QED BY <1>2, <1>3, <1>4

\* Row i of r is that of q, of the same work and with at most one attempt more.
SameRow(q, r, i) ==
    /\ i \in DOMAIN q
    /\ r[i].work = q[i].work /\ r[i].attempts <= q[i].attempts + 1

LEMMA RowsStep ==
    ASSUME TypeOK, [Next]_vars
    PROVE  /\ nextId <= nextId'
           /\ \A i \in DOMAIN queue' :
                 \/ SameRow(queue, queue', i)
                 \/ i >= nextId /\ queue'[i].attempts = 0
  <1> USE DEF table, memory, bounds, history
  <1>0. IsTable(queue) /\ now \in Nat /\ nextId \in Nat
    BY DEF TypeOK, Ids
  <1>a. \A i \in DOMAIN queue : queue[i].attempts \in Nat
    BY <1>0 DEF IsTable, Row
  <1>1. CASE Producer
    <2>1. PICK p \in Priorities :
             \/ \E w \in Work : Enqueue(w, p)
             \/ \E S \in SUBSET Work : EnqueueMany(S, p)
      BY <1>1 DEF Producer
    <2>2. PICK S \in SUBSET Work : EnqueueMany(S, p)
      BY <2>1 DEF Enqueue
    <2>3. PICK f \in Numberings(queue, S, nextId) :
             queue' = Inserted(queue, f, p, now)
      BY <2>2 DEF EnqueueMany
    <2>4. p \in Nat /\ nextId \in Ids /\ \A i \in DOMAIN queue : i < nextId
      BY WorkQueueAssumption DEF TypeOK
    <2>5. \A i \in DOMAIN queue : queue'[i] = queue[i]
      BY <1>0, <2>3, <2>4, InsertedType
    <2>6. Cardinality(NewIn(queue, S)) \in Nat
      BY NewInFinite
    <2>7. ASSUME NEW i \in DOMAIN queue' \ DOMAIN queue
          PROVE  i >= nextId /\ queue'[i].attempts = 0
      <3>1. i \in nextId .. nextId + Cardinality(NewIn(queue, S)) - 1
        BY <1>0, <2>3, <2>4, InsertedType
      <3>2. queue'[i].attempts = 0
        BY <1>0, <2>3, <2>4, InsertedRows
      <3> QED BY <1>0, <2>6, <3>1, <3>2
    <2>8. nextId <= nextId'
      BY <1>0, <2>2, <2>6 DEF EnqueueMany
    <2>9. \A i \in DOMAIN queue : SameRow(queue, queue', i)
      BY <1>a, <2>5 DEF SameRow
    <2> QED BY <2>7, <2>8, <2>9
  <1>2. ASSUME queue' = queue, nextId' = nextId
        PROVE  /\ nextId <= nextId' /\ \A i \in DOMAIN queue' : SameRow(queue, queue', i)
    BY <1>0, <1>a, <1>2 DEF SameRow
  <1>3. CASE \/ Start \/ Stop \/ Crash \/ Submit \/ ClaimLost \/ SweepStart
             \/ (\E job \in live : CloseLost(job)) \/ OperatorReap
             \/ Tick \/ UNCHANGED vars
    BY <1>2, <1>3 DEF Start, Stop, Crash, Submit, ClaimLost, SweepStart, CloseLost,
                      OperatorReap, Tick, vars
  <1>4. CASE Dequeue
    <2>1. PICK i : queue' = Claimed(queue, i, now)
      BY <1>4 DEF Dequeue
    <2>2. DOMAIN queue' = DOMAIN queue
      BY <2>1 DEF Claimed
    <2>3. \A j \in DOMAIN queue' : SameRow(queue, queue', j)
      BY <1>0, <2>1, <2>2, NamedRows DEF SameRow
    <2> QED BY <1>0, <1>4, <2>3 DEF Dequeue
  <1>5. CASE SubmitFails
    <2>1. PICK i : queue' = HandedBack(queue, i) \/ queue' = queue
      BY <1>5 DEF SubmitFails, IfAllowed
    <2>2. nextId' = nextId
      BY <1>5 DEF SubmitFails
    <2>3. CASE queue' = HandedBack(queue, i)
      <3>1. DOMAIN queue' = DOMAIN queue
        BY <2>3 DEF HandedBack
      <3>2. \A j \in DOMAIN queue' : SameRow(queue, queue', j)
        BY <1>0, <2>3, <3>1, NamedRows DEF SameRow
      <3> QED BY <1>0, <2>2, <3>2
    <2> QED BY <1>2, <2>1, <2>2, <2>3
  <1>6. ASSUME NEW job \in live, Close(job)
        PROVE  nextId <= nextId' /\ \A i \in DOMAIN queue' : SameRow(queue, queue', i)
    <2>1. queue' \in {MarkedDone(queue, job.id), MarkedFailed(queue, job.id)}
      BY <1>6 DEF Close
    <2>2. DOMAIN queue' = DOMAIN queue
      BY <2>1 DEF MarkedDone, MarkedFailed
    <2>3. \A j \in DOMAIN queue' : SameRow(queue, queue', j)
      BY <1>0, <2>1, <2>2, NamedRows DEF SameRow
    <2> QED BY <1>0, <1>6, <2>3 DEF Close
  <1>7. ASSUME NEW r \in Reapers, ReapStep(r)
        PROVE  nextId <= nextId' /\ \A i \in DOMAIN queue' : SameRow(queue, queue', i)
    <2>1. \/ queue' = ReapFail(queue, reap[r].keep, now)
          \/ queue' = ReapTwins(queue, reap[r].keep, now)
          \/ queue' = ReapDuplicates(queue, reap[r].keep, now)
          \/ queue' = ReapRequeue(queue, reap[r].keep, now)
          \/ queue' = queue
      BY <1>7 DEF ReapStep, FailExhausted, DropTwins, DropDuplicates, RequeueRest,
                  ReapStatement, IfAllowed
    <2>2. nextId' = nextId
      BY <1>7 DEF ReapStep, FailExhausted, DropTwins, DropDuplicates, RequeueRest,
                  ReapStatement
    <2>3. \A i \in DOMAIN queue' :
             /\ i \in DOMAIN queue /\ queue'[i].work = queue[i].work
             /\ queue'[i].attempts = queue[i].attempts
      BY <1>0, <2>1 DEF ReapFail, ReapTwins, ReapDuplicates, ReapRequeue, Only,
                        IsTable, Row
    <2> QED BY <1>0, <1>a, <2>2, <2>3 DEF SameRow
  <1>8. CASE RetryFailed \/ RetryDuplicates \/ RetryRest
    <2>1. \A i \in DOMAIN queue' :
             /\ i \in DOMAIN queue /\ queue'[i].work = queue[i].work
             /\ queue'[i].attempts = queue[i].attempts
      BY <1>0, <1>8, ZenonT(40) DEF RetryFailed, RetryDuplicates, RetryRest, RetryTwins,
                                  RetryCoalesce, RetryRequeue, IfAllowed, Only, IsTable, Row
    <2>2. nextId' = nextId
      BY <1>8 DEF RetryFailed, RetryDuplicates, RetryRest
    <2> QED BY <1>0, <1>a, <2>1, <2>2 DEF SameRow
  <1>9. ASSUME NEW S \in SUBSET DOMAIN queue, ClearDone(S) \/ ForgetOldJobs(S)
        PROVE  nextId <= nextId' /\ \A i \in DOMAIN queue' : SameRow(queue, queue', i)
    BY <1>0, <1>a, <1>9 DEF ClearDone, ForgetOldJobs, Only, SameRow
  <1> QED
    BY <1>1, <1>3, <1>2, <1>4, <1>5, <1>6, <1>7, <1>8, <1>9
    DEF Next, Supervisor, Operator, Reapers

LEMMA AttemptedStep ==
    ASSUME TypeOK, Attempted, [Next]_vars
    PROVE  Attempted'
  <1>1. PICK n \in Nat : \A i \in DOMAIN queue : queue[i].attempts <= n
    BY DEF Attempted
  <1>2. \A i \in DOMAIN queue : queue[i].attempts \in Nat
    BY DEF TypeOK, IsTable, Row
  <1>3. \A i \in DOMAIN queue' : queue'[i].attempts \in Nat
    BY TypeStep DEF TypeOK, IsTable, Row
  <1>4. ASSUME NEW i \in DOMAIN queue'
        PROVE  queue'[i].attempts <= n + 1
    <2>1. SameRow(queue, queue', i) \/ queue'[i].attempts = 0
      BY RowsStep
    <2> QED BY <1>1, <1>2, <1>3, <2>1 DEF SameRow
  <1> QED BY <1>4 DEF Attempted

-----------------------------------------------------------------------------
(* Dedup loses no work. *)

LEMMA ReapKeeps ==
    ASSUME NEW q, IsTable(q), NEW keep, NEW t, NEW n \in Nat,
           \A j \in DOMAIN q : q[j].attempts <= n,
           NEW r \in {ReapFail(q, keep, t), ReapTwins(q, keep, t),
                      ReapDuplicates(q, keep, t), ReapRequeue(q, keep, t)},
           NEW i \in DOMAIN q, i \notin DOMAIN r
    PROVE  Unfinished(r, q[i].work)
  <1>1. CASE r = ReapFail(q, keep, t) \/ r = ReapRequeue(q, keep, t)
    BY <1>1 DEF ReapFail, ReapRequeue
  <1>2. CASE r = ReapTwins(q, keep, t)
    <2>1. PICK j \in Having(q, "pending") : q[j].work = q[i].work /\ j \in DOMAIN r
      BY <1>2, TwinStays
    <2> QED BY <1>2, <2>1 DEF Unfinished, ReapTwins, Only, Having
  <1>3. CASE r = ReapDuplicates(q, keep, t)
    <2>1. PICK f \in Having(q, "running") : q[f].work = q[i].work /\ f \in DOMAIN r
      BY <1>3, FirstStays
    <2> QED BY <1>3, <2>1 DEF Unfinished, ReapDuplicates, Only, Having
  <1> QED BY <1>1, <1>2, <1>3

LEMMA RetryKeeps ==
    ASSUME NEW q, IsTable(q), NEW n \in Nat,
           \A j \in DOMAIN q : q[j].attempts <= n,
           NEW r \in {RetryTwins(q), RetryCoalesce(q), RetryRequeue(q)},
           NEW i \in DOMAIN q, i \notin DOMAIN r
    PROVE  Unfinished(r, q[i].work)
  <1>1. CASE r = RetryTwins(q)
    <2>1. PICK j \in Having(q, "pending") : q[j].work = q[i].work /\ j \in DOMAIN r
      BY <1>1, TwinStays
    <2> QED BY <1>1, <2>1 DEF Unfinished, RetryTwins, Only, Having
  <1>2. CASE r = RetryCoalesce(q)
    <2>1. PICK f \in Having(q, "failed") : q[f].work = q[i].work /\ f \in DOMAIN r
      BY <1>2, FailedFirstStays
    <2> QED BY <1>2, <2>1 DEF Unfinished, RetryCoalesce, Only, Having
  <1>3. CASE r = RetryRequeue(q)
    BY <1>3 DEF RetryRequeue
  <1> QED BY <1>1, <1>2, <1>3

LEMMA DedupStep ==
    ASSUME TypeOK, Attempted, Next,
           NEW i \in DOMAIN queue, i \notin DOMAIN queue',
           reap' # reap \/ retry' # retry
    PROVE  Unfinished(queue', queue[i].work)
  <1> USE DEF table, memory, bounds, history
  <1>0. IsTable(queue)
    BY DEF TypeOK
  <1>1. PICK n \in Nat : \A j \in DOMAIN queue : queue[j].attempts <= n
    BY DEF Attempted
  <1>2. CASE Producer \/ Tick
    BY <1>2 DEF Producer, Enqueue, EnqueueMany, Tick
  <1>3. ASSUME NEW r \in Reapers, ReapStep(r)
        PROVE  Unfinished(queue', queue[i].work)
    <2>1. \/ queue' = queue
          \/ queue' \in {ReapFail(queue, reap[r].keep, now),
                         ReapTwins(queue, reap[r].keep, now),
                         ReapDuplicates(queue, reap[r].keep, now),
                         ReapRequeue(queue, reap[r].keep, now)}
      BY <1>3 DEF ReapStep, FailExhausted, DropTwins, DropDuplicates, RequeueRest,
                  ReapStatement, IfAllowed
    <2> QED BY <1>0, <1>1, <2>1, ReapKeeps
  <1>4. CASE RetryFailed \/ RetryDuplicates \/ RetryRest
    <2>1. \/ queue' = queue
          \/ queue' \in {RetryTwins(queue), RetryCoalesce(queue), RetryRequeue(queue)}
      BY <1>4 DEF RetryFailed, RetryDuplicates, RetryRest, IfAllowed
    <2> QED BY <1>0, <1>1, <2>1, RetryKeeps
  <1>5. CASE Supervisor /\ ~ReapStep("supervisor")
    <2>1. queue' = queue \/ (reap' = reap /\ retry' = retry)
      BY <1>5 DEF Supervisor, Start, Stop, Crash, Dequeue, Submit, SubmitFails,
                  ClaimLost, Close, CloseLost, SweepStart
    <2> QED BY <2>1
  <1>6. CASE OperatorReap \/ \E S \in SUBSET DOMAIN queue : ClearDone(S) \/ ForgetOldJobs(S)
    <2>1. queue' = queue \/ (reap' = reap /\ retry' = retry)
      BY <1>6 DEF OperatorReap, ClearDone, ForgetOldJobs
    <2> QED BY <2>1
  <1> QED
    BY <1>2, <1>3, <1>4, <1>5, <1>6 DEF Next, Operator, Reapers

\* reap_zombies and retry_failed delete a row only when another row that is not
\* done still stands for its work, whoever commits between their statements.
THEOREM DedupLosesNothing == Spec => DedupKeepsTheWork
  <1>1. Init => TypeOK /\ Attempted
    BY TypeInit DEF Init, Attempted
  <1>2. TypeOK /\ Attempted /\ [Next]_vars => (TypeOK /\ Attempted)'
    BY TypeStep, AttemptedStep
  <1>3. TypeOK /\ Attempted /\ [Next]_vars =>
          [\A i \in DOMAIN queue :
              /\ i \notin DOMAIN queue'
              /\ reap' # reap \/ retry' # retry
              => Unfinished(queue', queue[i].work)]_vars
    BY DedupStep
  <1> QED
    BY <1>1, <1>2, <1>3, PTL DEF Spec, DedupKeepsTheWork

-----------------------------------------------------------------------------
(* No request is forgotten. *)

\* A row that waits or has failed is in nobody's hands, unless it was stolen.
LEMMA WaitingIsFree ==
    ASSUME RequestInv, NEW i \in DOMAIN queue, queue[i].status # "running",
           queue[i].work \notin forfeited
    PROVE  i \notin IdsOf(InHand)
  BY DEF RequestInv, ClaimInv, LiveClaimHeld, JobsKnown, IdsOf

\* The names that jobs and history go by stay known, if jobs come from the
\* hand only and rows are the old ones.
LEMMA KnownStep ==
    ASSUME RequestInv, [Next]_vars, InHand' \subseteq InHand,
           forfeited \subseteq forfeited',
           \A i \in stolen' \ stolen :
               /\ i \in DOMAIN queue /\ queue[i].work \in forfeited'
    PROVE  JobsKnown' /\ StolenKnown'
  <1>1. nextId \in Nat /\ nextId' \in Nat /\ nextId <= nextId'
    BY RowsStep, TypeStep DEF RequestInv, ClaimInv, TypeOK, Ids
  <1>2. \A i \in DOMAIN queue : i \in Nat /\ i < nextId
    BY DEF RequestInv, ClaimInv, TypeOK, IsTable
  <1>3. \A i \in DOMAIN queue' : i < nextId =>
            i \in DOMAIN queue /\ queue'[i].work = queue[i].work
    <2>1. \A i \in DOMAIN queue' : i \in Nat
      BY TypeStep DEF RequestInv, ClaimInv, TypeOK, IsTable
    <2>2. \A i \in DOMAIN queue' : SameRow(queue, queue', i) \/ i >= nextId
      BY RowsStep DEF RequestInv, ClaimInv
    <2> QED BY <1>1, <2>1, <2>2 DEF SameRow
  <1>4. \A i \in stolen' : i \in Nat
    BY TypeStep DEF RequestInv, ClaimInv, TypeOK, Ids
  <1>5. \A job \in InHand : job.id \in Nat
    BY DEF RequestInv, ClaimInv, TypeOK, InHand, Job, Ids
  <1>6. ASSUME NEW i \in stolen'
        PROVE  /\ i < nextId /\ i < nextId'
               /\ i \in DOMAIN queue' => queue'[i].work \in forfeited'
    <2>1. i < nextId /\ (i \in DOMAIN queue => queue[i].work \in forfeited')
      BY <1>2, <1>6 DEF RequestInv, StolenKnown
    <2> QED BY <1>1, <1>3, <1>4, <1>6, <2>1
  <1>7. ASSUME NEW job \in InHand'
        PROVE  /\ job.id < nextId'
               /\ job.id \in DOMAIN queue' => queue'[job.id].work = job.work
               /\ job.id \in stolen' => job.work \in forfeited'
    <2>1. /\ job.id < nextId
          /\ job.id \in DOMAIN queue => queue[job.id].work = job.work
          /\ job.id \in stolen => job.work \in forfeited
      BY <1>7 DEF RequestInv, JobsKnown
    <2>2. job.id \in stolen' \ stolen => job.work \in forfeited'
      BY <2>1
    <2> QED BY <1>1, <1>3, <1>5, <1>7, <2>1, <2>2
  <1> QED BY <1>6, <1>7 DEF JobsKnown, StolenKnown

\* What stood for a work goes on standing for it, or is replaced.
LEMMA StandsStep ==
    ASSUME RequestInv, owed' \subseteq owed, forfeited \subseteq forfeited',
           Stale' \subseteq Stale,
           \A w \in owed' \ forfeited', i \in Ids :
               StandsFor(i, w) =>
                   \E j \in Ids : /\ j \in DOMAIN queue'
                                  /\ queue'[j].work = w
                                  /\ queue'[j].status # "done"
                                  /\ j \notin IdsOf(Stale)
    PROVE  OwedStands'
  <1>1. IdsOf(Stale)' \subseteq IdsOf(Stale)
    BY DEF IdsOf
  <1>2. ASSUME NEW w \in owed' \ forfeited'
        PROVE  \E i \in Ids : StandsFor(i, w)'
    <2>1. PICK i \in Ids : StandsFor(i, w)
      BY <1>2 DEF RequestInv, OwedStands
    <2>2. PICK j \in Ids : /\ j \in DOMAIN queue'
                           /\ queue'[j].work = w
                           /\ queue'[j].status # "done"
                           /\ j \notin IdsOf(Stale)
      BY <1>2, <2>1
    <2> QED BY <1>1, <2>2 DEF StandsFor
  <1> QED BY <1>2 DEF OwedStands

LEMMA EnqueueRequest ==
    ASSUME RequestInv, [Next]_vars, NEW S \in SUBSET Work, NEW p \in Priorities,
           EnqueueMany(S, p)
    PROVE  JobsKnown' /\ StolenKnown' /\ OwedStands'
  <1> USE DEF table, memory, bounds, history
  <1>0. IsTable(queue) /\ now \in Nat /\ nextId \in Ids /\ p \in Nat
    BY WorkQueueAssumption DEF RequestInv, ClaimInv, TypeOK, Ids
  <1>1. \A i \in DOMAIN queue : i < nextId
    BY DEF RequestInv, ClaimInv, TypeOK
  <1>2. PICK f \in Numberings(queue, S, nextId) :
           queue' = Inserted(queue, f, p, now)
    BY DEF EnqueueMany
  <1>3. /\ claimed' = claimed /\ live' = live
        /\ stolen' = stolen /\ forfeited' = forfeited
        /\ owed' = owed \cup S /\ fresh' = {j \in fresh : j.work \notin S}
    BY DEF EnqueueMany
  <1>4. JobsKnown' /\ StolenKnown'
    BY <1>3, KnownStep DEF InHand
  <1>5. \A i \in DOMAIN queue : i \in DOMAIN queue' /\ queue'[i] = queue[i]
    BY <1>0, <1>1, <1>2, InsertedType
  <1>6. \A w \in S : \E i \in DOMAIN queue' :
           /\ queue'[i].work = w /\ queue'[i].status = "pending"
           /\ \/ i \in DOMAIN queue /\ queue[i].status = "pending"
              \/ i >= nextId
    BY <1>0, <1>1, <1>2, InsertedRows
  <1>7. \A i \in DOMAIN queue' : i \in Ids
    BY TypeStep DEF RequestInv, ClaimInv, TypeOK, IsTable, Ids
  <1>8. ASSUME NEW w \in S \ forfeited
        PROVE  \E i \in Ids : StandsFor(i, w)'
    <2>1. PICK i \in DOMAIN queue' :
             /\ queue'[i].work = w /\ queue'[i].status = "pending"
             /\ \/ i \in DOMAIN queue /\ queue[i].status = "pending"
                \/ i >= nextId
      BY <1>6
    <2>2. i \notin IdsOf(InHand)
      <3>1. CASE i \in DOMAIN queue /\ queue[i].status = "pending"
        <4>1. queue[i].work = w
          BY <1>5, <2>1, <3>1
        <4> QED BY <1>8, <3>1, <4>1, WaitingIsFree
      <3>2. CASE i >= nextId
        <4>1. \A job \in InHand : job.id \in Nat /\ job.id < nextId
          BY DEF RequestInv, ClaimInv, TypeOK, JobsKnown, InHand, Job, Ids
        <4> QED BY <1>0, <1>7, <3>2, <4>1 DEF IdsOf, Ids
      <3> QED BY <2>1, <3>1, <3>2
    <2>3. Stale' \subseteq InHand
      BY <1>3 DEF Stale, InHand
    <2>4. i \notin IdsOf(Stale)'
      BY <2>2, <2>3 DEF IdsOf
    <2> QED BY <1>7, <2>1, <2>4 DEF StandsFor
  <1>9. ASSUME NEW w \in (owed \ S) \ forfeited
        PROVE  \E i \in Ids : StandsFor(i, w)'
    <2>1. PICK i \in Ids : StandsFor(i, w)
      BY <1>9 DEF RequestInv, OwedStands
    <2>2. i \in DOMAIN queue' /\ queue'[i] = queue[i] /\ queue[i].work = w
      BY <1>5, <2>1 DEF StandsFor
    <2>3. \A job \in Stale' : job.id # i
      <3>1. SUFFICES ASSUME NEW job \in Stale', job.id = i
                     PROVE  job \in Stale
        BY <2>1 DEF StandsFor, IdsOf
      <3>2. job \in live /\ job \in InHand
        BY <1>3, <3>1 DEF Stale, InHand
      <3>3. job.work = w
        BY <2>1, <2>2, <3>1, <3>2 DEF RequestInv, JobsKnown, StandsFor
      <3> QED BY <1>3, <1>9, <3>1, <3>2, <3>3 DEF Stale
    <2>4. i \notin IdsOf(Stale)'
      BY <2>3 DEF IdsOf
    <2> QED BY <2>1, <2>2, <2>4 DEF StandsFor
  <1> QED BY <1>3, <1>4, <1>8, <1>9 DEF OwedStands

LEMMA DequeueRequest ==
    ASSUME RequestInv, [Next]_vars, Dequeue
    PROVE  JobsKnown' /\ StolenKnown' /\ OwedStands'
  <1> USE DEF table, memory, bounds, history
  <1>1. PICK i \in Heads(queue) : /\ queue' = Claimed(queue, i, now)
                                  /\ claimed' = {JobOf(queue', i)}
    BY DEF Dequeue
  <1>2. IsTable(queue) /\ now \in Nat /\ i \in DOMAIN queue
    BY <1>1 DEF RequestInv, ClaimInv, TypeOK, Ids, Heads, Having
  <1>3. /\ live' = live /\ fresh' = fresh /\ nextId' = nextId /\ owed' = owed
        /\ stolen' = stolen /\ forfeited' = forfeited
    BY DEF Dequeue
  <1>4. /\ DOMAIN queue' = DOMAIN queue
        /\ \A j \in DOMAIN queue : queue'[j].work = queue[j].work
    <2>1. queue' \in {Claimed(queue, i, now), HandedBack(queue, i),
                      MarkedDone(queue, i), MarkedFailed(queue, i)}
      BY <1>1
    <2>2. DOMAIN queue' = DOMAIN queue
      BY <1>1 DEF Claimed
    <2> QED BY <1>2, <2>1, <2>2, NamedRows
  <1>5. StolenKnown'
    BY <1>3, <1>4 DEF RequestInv, StolenKnown
  <1>6. ASSUME NEW job \in InHand'
        PROVE  /\ job.id < nextId'
               /\ job.id \in DOMAIN queue' => queue'[job.id].work = job.work
               /\ job.id \in stolen' => job.work \in forfeited'
    <2>1. CASE job \in live
      BY <1>3, <1>4, <2>1 DEF RequestInv, JobsKnown, InHand
    <2>2. CASE job \in claimed'
      <3>1. job.id = i /\ job.work = queue'[i].work
        BY <1>1, <2>2 DEF JobOf
      <3>2. i < nextId
        BY <1>2 DEF RequestInv, ClaimInv, TypeOK
      <3> QED BY <1>2, <1>3, <1>4, <1>5, <3>1, <3>2 DEF StolenKnown
    <2> QED BY <1>3, <1>6, <2>1, <2>2 DEF InHand
  <1>7. \A j \in DOMAIN queue :
            queue[j].status # "done" => queue'[j].status # "done"
    <2>1. queue'[i].status = "running"
          /\ \A j \in DOMAIN queue : j # i => queue'[j] = queue[j]
      BY <1>1, <1>2, ClaimedType
    <2> QED BY <2>1
  <1>8. Stale' = Stale
    BY <1>3 DEF Stale
  <1>9. OwedStands'
    BY <1>3, <1>4, <1>7, <1>8, StandsStep DEF StandsFor
  <1> QED BY <1>5, <1>6, <1>9 DEF JobsKnown

LEMMA CloseRequest ==
    ASSUME RequestInv, [Next]_vars, NEW job \in live, Close(job)
    PROVE  JobsKnown' /\ StolenKnown' /\ OwedStands'
  <1> USE DEF table, memory, bounds, history
  <1>1. /\ live' = live \ {job} /\ fresh' = fresh \ {job} /\ claimed' = claimed
        /\ owed' = IF job \in fresh THEN owed \ {job.work} ELSE owed
        /\ stolen' = stolen /\ forfeited' = forfeited
    BY DEF Close, Ended
  <1>2. JobsKnown' /\ StolenKnown'
    BY <1>1, KnownStep DEF InHand
  <1>3. IsTable(queue) /\ DOMAIN queue' = DOMAIN queue
        /\ \A j \in DOMAIN queue : j # job.id => queue'[j] = queue[j]
    <2>1. IsTable(queue)
      BY DEF RequestInv, ClaimInv, TypeOK
    <2> QED BY <2>1, CloseType DEF Close
  <1>4. ASSUME NEW w \in owed', NEW i \in Ids, StandsFor(i, w)
        PROVE  i # job.id
    <2>1. CASE job \in fresh
      <3>1. w # job.work
        BY <1>1, <1>4, <2>1
      <3> QED BY <1>4, <3>1 DEF StandsFor, RequestInv, JobsKnown, InHand
    <2>2. CASE job \notin fresh
      BY <1>4, <2>2 DEF StandsFor, IdsOf, Stale
    <2> QED BY <2>1, <2>2
  <1>5. Stale' \subseteq Stale
    BY <1>1 DEF Stale
  <1>6. owed' \subseteq owed
    BY <1>1
  <1>7. OwedStands'
    BY <1>1, <1>3, <1>4, <1>5, <1>6, StandsStep DEF StandsFor
  <1> QED BY <1>2, <1>7

LEMMA BatchRows ==
    ASSUME NEW q, IsTable(q), NEW keep, NEW t,
           NEW r \in {q, ReapFail(q, keep, t), ReapTwins(q, keep, t),
                      ReapDuplicates(q, keep, t), ReapRequeue(q, keep, t),
                      RetryTwins(q), RetryCoalesce(q), RetryRequeue(q)},
           NEW i \in DOMAIN r
    PROVE  /\ i \in DOMAIN q /\ r[i].work = q[i].work
           /\ r[i].status \in {q[i].status, "failed", "pending"}
  <1>1. DOMAIN r \subseteq DOMAIN q
    BY DEF ReapFail, ReapTwins, ReapDuplicates, ReapRequeue, RetryTwins,
           RetryCoalesce, RetryRequeue, Only
  <1>2. q[i] \in Row
    BY <1>1 DEF IsTable
  <1>3. \/ r[i] = q[i]
        \/ r[i] = [q[i] EXCEPT !.status = "failed"]
        \/ r[i] = [q[i] EXCEPT !.status = "pending", !.started_at = 0]
    BY <1>1 DEF ReapFail, ReapTwins, ReapDuplicates, ReapRequeue, RetryTwins,
                RetryCoalesce, RetryRequeue, Only
  <1> QED BY <1>1, <1>2, <1>3 DEF Row

\* The three ways a reap deletes: against a waiting twin, a better-ranked claim,
\* or not at all.
LEMMA ReapRequest ==
    ASSUME RequestInv, [Next]_vars, NEW r \in Reapers, ReapStep(r)
    PROVE  JobsKnown' /\ StolenKnown' /\ OwedStands'
  <1> USE DEF table, memory, bounds, history
  <1> DEFINE keep == reap[r].keep
  <1>0. IsTable(queue)
    BY DEF RequestInv, ClaimInv, TypeOK
  <1>1. PICK k \in 1..4 : ReapStatement(r, k, queue')
    BY DEF ReapStep, FailExhausted, DropTwins, DropDuplicates, RequeueRest,
           ReapStatement
  <1>2. /\ claimed' = claimed /\ live' = live /\ fresh' = fresh /\ owed' = owed
        /\ stolen' = stolen \cup Taken(queue')
        /\ forfeited' = forfeited
               \cup {queue[i].work : i \in Taken(queue') \cup Outranked(queue')}
    BY <1>1 DEF ReapStatement
  <1>3. JobsKnown' /\ StolenKnown'
    BY <1>2, KnownStep DEF InHand, Taken
  <1>4. Stale' = Stale
    BY <1>2 DEF Stale
  <1>5. ASSUME NEW w \in owed' \ forfeited', NEW i \in Ids, StandsFor(i, w)
        PROVE  \E j \in Ids : /\ j \in DOMAIN queue' /\ queue'[j].work = w
                              /\ queue'[j].status # "done"
                              /\ j \notin IdsOf(Stale)
    <2>0. i \in DOMAIN queue /\ queue[i].work = w /\ queue[i].status # "done"
          /\ i \notin IdsOf(Stale)
      BY <1>5 DEF StandsFor
    <2>1. w \notin forfeited /\ \A j \in Outranked(queue') : queue[j].work # w
      BY <1>2, <1>5
    <2>2. CASE i \in DOMAIN queue'
      <3>1. queue' \in {queue, ReapFail(queue, keep, now), ReapTwins(queue, keep, now),
                ReapDuplicates(queue, keep, now), ReapRequeue(queue, keep, now)}
        BY DEF ReapStep, FailExhausted, DropTwins, DropDuplicates, RequeueRest,
               ReapStatement, IfAllowed
      <3> QED BY <1>0, <2>0, <2>2, <3>1, BatchRows
    <2>3. CASE i \notin DOMAIN queue' /\ queue' = ReapTwins(queue, keep, now)
      <3>1. PICK j \in Having(queue, "pending") :
               queue[j].work = w /\ j \in DOMAIN queue'
        BY <2>0, <2>3, TwinStays
      <3>2. j \in DOMAIN queue /\ queue[j].status = "pending" /\ queue'[j] = queue[j]
        BY <2>3, <3>1 DEF Having, ReapTwins, Only
      <3>3. j \notin IdsOf(InHand)
        BY <2>1, <3>1, <3>2, WaitingIsFree
      <3>4. j \in Ids
        BY <1>0, <3>2 DEF IsTable, Ids
      <3> QED BY <3>1, <3>2, <3>3, <3>4 DEF IdsOf, InHand, Stale
    <2>4. CASE i \notin DOMAIN queue' /\ queue' = ReapDuplicates(queue, keep, now)
      <3>0. PICK n \in Nat : \A j \in DOMAIN queue : queue[j].attempts <= n
        BY DEF RequestInv, Attempted
      <3>1. queue[i].status = "running"
        BY <1>0, <2>0, <2>4, <3>0, FirstStays
      <3>2. PICK f \in Having(queue, "running") :
               queue[f].work = w /\ f \in DOMAIN queue'
        BY <1>0, <2>0, <2>4, <3>0, FirstStays
      <3>3. queue'[f] = queue[f] /\ f \in DOMAIN queue /\ queue[f].status = "running"
        BY <2>4, <3>2 DEF ReapDuplicates, Only, Having
      <3>4. \A job \in InHand : job.id # f
        <4>1. SUFFICES ASSUME NEW job \in InHand, job.id = f
                       PROVE  i \in Outranked(queue')
          BY <2>0, <2>1
        <4>2. job.work = w
          BY <3>2, <3>3, <4>1 DEF RequestInv, JobsKnown
        <4> QED BY <2>0, <2>4, <3>1, <3>2, <4>1, <4>2 DEF Outranked, Having
      <3>5. f \in Ids
        BY <1>0, <3>3 DEF IsTable, Ids
      <3> QED BY <3>2, <3>3, <3>4, <3>5 DEF IdsOf, InHand, Stale
    <2>5. \/ DOMAIN queue' = DOMAIN queue
          \/ queue' = ReapTwins(queue, keep, now)
          \/ queue' = ReapDuplicates(queue, keep, now)
      BY DEF ReapStep, FailExhausted, DropTwins, DropDuplicates, RequeueRest,
             ReapStatement, ReapFail, ReapRequeue, IfAllowed
    <2> QED BY <2>0, <2>2, <2>3, <2>4, <2>5
  <1>6. OwedStands'
    <2>1. owed' \subseteq owed /\ forfeited \subseteq forfeited' /\ Stale' \subseteq Stale
      BY <1>2, <1>4
    <2> QED BY <1>5, <2>1, StandsStep
  <1> QED BY <1>3, <1>6

LEMMA RetryRequest ==
    ASSUME RequestInv, [Next]_vars, RetryFailed \/ RetryDuplicates \/ RetryRest
    PROVE  JobsKnown' /\ StolenKnown' /\ OwedStands'
  <1> USE DEF table, memory, bounds, history
  <1>0. IsTable(queue)
    BY DEF RequestInv, ClaimInv, TypeOK
  <1>2. /\ claimed' = claimed /\ live' = live /\ fresh' = fresh /\ owed' = owed
        /\ stolen' = stolen /\ forfeited' = forfeited
    BY DEF RetryFailed, RetryDuplicates, RetryRest
  <1>3. JobsKnown' /\ StolenKnown'
    BY <1>2, KnownStep DEF InHand
  <1>4. Stale' = Stale
    BY <1>2 DEF Stale
  <1>5. ASSUME NEW w \in owed' \ forfeited', NEW i \in Ids, StandsFor(i, w)
        PROVE  \E j \in Ids : /\ j \in DOMAIN queue' /\ queue'[j].work = w
                              /\ queue'[j].status # "done"
                              /\ j \notin IdsOf(Stale)
    <2>0. i \in DOMAIN queue /\ queue[i].work = w /\ queue[i].status # "done"
          /\ i \notin IdsOf(Stale) /\ w \notin forfeited
      BY <1>2, <1>5 DEF StandsFor
    <2>2. CASE i \in DOMAIN queue'
      <3>1. queue' \in {queue, RetryTwins(queue), RetryCoalesce(queue),
                        RetryRequeue(queue)}
        BY DEF RetryFailed, RetryDuplicates, RetryRest, IfAllowed
      <3> QED BY <1>0, <2>0, <2>2, <3>1, BatchRows
    <2>3. CASE i \notin DOMAIN queue' /\ queue' = RetryTwins(queue)
      <3>1. PICK j \in Having(queue, "pending") :
               queue[j].work = w /\ j \in DOMAIN queue'
        BY <2>0, <2>3, TwinStays
      <3>2. j \in DOMAIN queue /\ queue[j].status = "pending" /\ queue'[j] = queue[j]
        BY <2>3, <3>1 DEF Having, RetryTwins, Only
      <3>3. j \notin IdsOf(InHand)
        BY <2>0, <3>1, <3>2, WaitingIsFree
      <3>4. j \in Ids
        BY <1>0, <3>2 DEF IsTable, Ids
      <3> QED BY <3>1, <3>2, <3>3, <3>4 DEF IdsOf, InHand, Stale
    <2>4. CASE i \notin DOMAIN queue' /\ queue' = RetryCoalesce(queue)
      <3>0. PICK n \in Nat : \A j \in DOMAIN queue : queue[j].attempts <= n
        BY DEF RequestInv, Attempted
      <3>1. PICK f \in Having(queue, "failed") :
               queue[f].work = w /\ f \in DOMAIN queue'
        BY <1>0, <2>0, <2>4, <3>0, FailedFirstStays
      <3>2. f \in DOMAIN queue /\ queue[f].status = "failed" /\ queue'[f] = queue[f]
        BY <2>4, <3>1 DEF Having, RetryCoalesce, Only
      <3>3. f \notin IdsOf(InHand)
        BY <2>0, <3>1, <3>2, WaitingIsFree
      <3>4. f \in Ids
        BY <1>0, <3>2 DEF IsTable, Ids
      <3> QED BY <3>1, <3>2, <3>3, <3>4 DEF IdsOf, InHand, Stale
    <2>5. \/ DOMAIN queue' = DOMAIN queue
          \/ queue' = RetryTwins(queue) \/ queue' = RetryCoalesce(queue)
      BY DEF RetryFailed, RetryDuplicates, RetryRest, RetryRequeue, IfAllowed
    <2> QED BY <2>0, <2>2, <2>3, <2>4, <2>5
  <1>6. OwedStands'
    <2>1. owed' \subseteq owed /\ forfeited \subseteq forfeited' /\ Stale' \subseteq Stale
      BY <1>2, <1>4
    <2> QED BY <1>5, <2>1, StandsStep
  <1> QED BY <1>3, <1>6

LEMMA TrimRequest ==
    ASSUME RequestInv, [Next]_vars, NEW S \in SUBSET DOMAIN queue,
           ClearDone(S) \/ ForgetOldJobs(S)
    PROVE  JobsKnown' /\ StolenKnown' /\ OwedStands'
  <1> USE DEF table, memory, bounds, history
  <1>1. /\ claimed' = claimed /\ live' = live /\ fresh' = fresh
        /\ stolen' = stolen /\ forfeited' = forfeited /\ owed' \subseteq owed
    BY DEF ClearDone, ForgetOldJobs
  <1>2. JobsKnown' /\ StolenKnown'
    BY <1>1, KnownStep DEF InHand
  <1>3. queue' = Only(queue, DOMAIN queue \ S)
    BY DEF ClearDone, ForgetOldJobs
  <1>4. ASSUME NEW w \in owed', NEW i \in Ids, StandsFor(i, w)
        PROVE  i \in DOMAIN queue' /\ queue'[i] = queue[i]
    <2>1. i \in DOMAIN queue /\ queue[i].work = w /\ queue[i].status # "done"
      BY <1>4 DEF StandsFor
    <2>2. i \notin S
      BY <1>4, <2>1 DEF ClearDone, ForgetOldJobs, Having
    <2> QED BY <1>3, <2>1, <2>2 DEF Only
  <1>5. Stale' \subseteq Stale
    BY <1>1 DEF Stale
  <1>6. OwedStands'
    BY <1>1, <1>4, <1>5, StandsStep DEF StandsFor
  <1> QED BY <1>2, <1>6

\* The steps that leave the table alone, or hand a claim back.
LEMMA OtherRequest ==
    ASSUME RequestInv, [Next]_vars,
           \/ Start \/ Stop \/ Crash \/ Submit \/ SubmitFails \/ ClaimLost
           \/ SweepStart \/ (\E job \in live : CloseLost(job))
           \/ OperatorReap \/ Tick \/ UNCHANGED vars
    PROVE  JobsKnown' /\ StolenKnown' /\ OwedStands'
  <1> USE DEF table, memory, bounds, history
  <1>0. IsTable(queue) /\ fresh \subseteq live
    BY DEF RequestInv, ClaimInv, TypeOK
  <1>1. /\ claimed' \cup live' \subseteq claimed \cup live
        /\ live' \ fresh' \subseteq live \ fresh
        /\ owed' \subseteq owed
        /\ stolen' = stolen /\ forfeited' = forfeited
    BY <1>0 DEF Start, Stop, Crash, Submit, SubmitFails, ClaimLost, SweepStart,
                CloseLost, Ended, OperatorReap, Tick, vars
  <1>2. JobsKnown' /\ StolenKnown'
    BY <1>1, KnownStep DEF InHand
  <1>3. ASSUME NEW i \in DOMAIN queue, queue[i].status # "done"
        PROVE  /\ i \in DOMAIN queue' /\ queue'[i].work = queue[i].work
               /\ queue'[i].status # "done"
    <2>1. CASE queue' = queue
      BY <1>3, <2>1
    <2>2. CASE SubmitFails /\ queue' # queue
      <3>1. PICK k : queue' = HandedBack(queue, k)
        BY <2>2 DEF SubmitFails, IfAllowed
      <3>2. DOMAIN queue' = DOMAIN queue /\ queue[i] \in Row
        BY <1>0, <3>1 DEF HandedBack, IsTable
      <3>3. queue'[i].work = queue[i].work
        BY <1>0, <3>1, NamedRows
      <3>4. queue'[i].status \in {queue[i].status, "pending"}
        BY <3>1, <3>2 DEF HandedBack, Row
      <3> QED BY <1>3, <3>2, <3>3, <3>4
    <2> QED
      BY <2>1, <2>2 DEF Start, Stop, Crash, Submit, ClaimLost, SweepStart,
                        CloseLost, OperatorReap, Tick, vars
  <1>4. OwedStands'
    BY <1>1, <1>3, StandsStep DEF StandsFor, Stale
  <1> QED BY <1>2, <1>4

LEMMA RequestStep == RequestInv /\ [Next]_vars => RequestInv'
  <1> SUFFICES ASSUME RequestInv, [Next]_vars
               PROVE  JobsKnown' /\ StolenKnown' /\ OwedStands'
    BY ClaimStep, AttemptedStep DEF RequestInv, ClaimInv
  <1>1. CASE Producer
    <2>1. PICK p \in Priorities :
             \/ \E w \in Work : Enqueue(w, p)
             \/ \E S \in SUBSET Work : EnqueueMany(S, p)
      BY <1>1 DEF Producer
    <2>2. \E S \in SUBSET Work : EnqueueMany(S, p)
      BY <2>1 DEF Enqueue
    <2> QED BY <2>2, EnqueueRequest
  <1>2. CASE Dequeue
    BY <1>2, DequeueRequest
  <1>3. CASE \E job \in live : Close(job)
    BY <1>3, CloseRequest
  <1>4. CASE \E r \in Reapers : ReapStep(r)
    BY <1>4, ReapRequest
  <1>5. CASE RetryFailed \/ RetryDuplicates \/ RetryRest
    BY <1>5, RetryRequest
  <1>6. CASE \E S \in SUBSET DOMAIN queue : ClearDone(S) \/ ForgetOldJobs(S)
    BY <1>6, TrimRequest
  <1> QED
    BY <1>1, <1>2, <1>3, <1>4, <1>5, <1>6, OtherRequest
    DEF Next, Supervisor, Operator, Reapers

\* Whatever the producers, the supervisor with its crashes and lost writes, and
\* the operator do, a work that was asked for and not run since has a row that is
\* not done, unless its claim was reaped under a running job or given up for one.
THEOREM RequestsKept == Spec => []NoRequestForgotten
  <1>1. Init => RequestInv
    BY TypeInit DEF Init, RequestInv, ClaimInv, LiveClaimHeld, ClaimedApart, InHand,
                    JobsKnown, StolenKnown, Attempted, OwedStands
  <1>2. RequestInv => NoRequestForgotten
    BY DEF RequestInv, OwedStands, NoRequestForgotten, StandsFor, Unfinished
  <1> QED
    BY <1>1, <1>2, RequestStep, PTL DEF Spec

-----------------------------------------------------------------------------
(* The unique index has nothing to reject when nobody comes in between.    *)

\* Two rows of one work cannot both be first.
LEMMA OneFirst ==
    ASSUME NEW q, IsTable(q), NEW S \in SUBSET DOMAIN q,
           NEW i \in FirstOf(q, S), NEW j \in FirstOf(q, S),
           q[i].work = q[j].work
    PROVE  i = j
  <1>1. i \in Nat /\ j \in Nat /\ q[i].attempts \in Nat /\ q[j].attempts \in Nat
    BY DEF IsTable, Row, FirstOf
  <1>2. i # j => Outranks(q, i, j) /\ Outranks(q, j, i)
    BY DEF FirstOf
  <1> QED BY <1>1, <1>2 DEF Outranks

\* The four statements of reap_zombies, run without another commit between
\* them, never trip over idx_queue_unique_pending: what is requeued has no
\* pending twin and is requeued once.  (Why the code deletes in that order.)
THEOREM ReapNeverCollides ==
    ASSUME NEW q, IsTable(q), UniquePending(q), NEW keep, NEW t
    PROVE  UniquePending(Reap(q, keep, t))
  <1> DEFINE q1 == ReapFail(q, keep, t)
             q2 == ReapTwins(q1, keep, t)
             q3 == ReapDuplicates(q2, keep, t)
             q4 == ReapRequeue(q3, keep, t)
             Z(r) == Zombies(r, keep, t)
  <1>1. IsTable(q1) /\ IsTable(q2) /\ IsTable(q3) /\ IsTable(q4)
    BY ReapType
  <1>2. UniquePending(q1) /\ UniquePending(q2) /\ UniquePending(q3)
    <2>1. ASSUME NEW i \in Having(q1, "pending")
          PROVE  i \in Having(q, "pending") /\ q1[i].work = q[i].work
      <3>1. i \in DOMAIN q /\ q[i] \in Row /\ q1[i].status = "pending"
        BY <2>1 DEF Having, ReapFail, IsTable
      <3>2. q1[i] = q[i] \/ q1[i] = [q[i] EXCEPT !.status = "failed"]
        BY <3>1 DEF ReapFail
      <3> QED BY <3>1, <3>2 DEF Having, Row
    <2>2. UniquePending(q1)
      BY <2>1 DEF UniquePending
    <2>3. UniquePending(q2)
      BY <2>2 DEF UniquePending, Having, ReapTwins, Only
    <2> QED BY <2>2, <2>3 DEF UniquePending, Having, ReapDuplicates, Only
  <1>3. ASSUME NEW i \in Z(q3)
        PROVE  /\ i \in FirstOf(q2, Having(q2, "running"))
               /\ ~HasPending(q2, q2[i].work) /\ q3[i] = q2[i]
    <2>1. i \in DOMAIN q3 /\ q3[i] = q2[i] /\ i \in Z(q2)
      BY <1>3 DEF Zombies, Having, ReapDuplicates, Only
    <2>2. i \in DOMAIN q2 /\ q2[i] = q1[i] /\ i \in Z(q1)
      BY <2>1 DEF Zombies, Having, ReapTwins, Only
    <2>3. ~HasPending(q1, q1[i].work)
      BY <2>2 DEF ReapTwins, Only
    <2>4. ~HasPending(q2, q2[i].work)
      BY <2>2, <2>3 DEF HasPending, Having, ReapTwins, Only
    <2> QED BY <2>1, <2>4 DEF ReapDuplicates, Only
  <1>4. ASSUME NEW i \in Having(q4, "pending")
        PROVE  /\ i \in DOMAIN q2 /\ q4[i].work = q2[i].work
               /\ \/ i \in Having(q2, "pending")
                  \/ i \in Z(q3)
    <2>1. i \in DOMAIN q3 /\ q3[i] = q2[i] /\ i \in DOMAIN q2
      BY <1>4 DEF Having, ReapRequeue, ReapDuplicates, Only
    <2>2. q3[i] \in Row
      BY <1>1, <2>1 DEF IsTable
    <2>3. q4[i] = IF i \in Z(q3)
                  THEN [q3[i] EXCEPT !.status = "pending", !.started_at = 0]
                  ELSE q3[i]
      BY <2>1 DEF ReapRequeue
    <2>4. q4[i].work = q2[i].work
      BY <2>1, <2>2, <2>3 DEF Row
    <2> QED BY <1>4, <2>1, <2>3, <2>4 DEF Having
  <1>5. ASSUME NEW i \in Having(q4, "pending"), NEW j \in Having(q4, "pending"),
               q4[i].work = q4[j].work
        PROVE  i = j
    <2>1. q2[i].work = q2[j].work /\ i \in DOMAIN q2 /\ j \in DOMAIN q2
      BY <1>4, <1>5
    <2>2. CASE i \in Z(q3) /\ j \in Z(q3)
      <3>1. Having(q2, "running") \in SUBSET DOMAIN q2
        BY DEF Having
      <3> QED BY <1>1, <1>3, <2>1, <2>2, <3>1, OneFirst
    <2>3. CASE i \notin Z(q3) /\ j \notin Z(q3)
      BY <1>2, <1>4, <2>1, <2>3 DEF UniquePending
    <2>4. CASE i \in Z(q3) /\ j \notin Z(q3)
      BY <1>3, <1>4, <2>1, <2>4 DEF HasPending
    <2>5. CASE i \notin Z(q3) /\ j \in Z(q3)
      BY <1>3, <1>4, <2>1, <2>5 DEF HasPending
    <2> QED BY <2>2, <2>3, <2>4, <2>5
  <1> QED BY <1>5 DEF UniquePending, Reap

\* The same of the three statements of retry_failed.
THEOREM RetryNeverCollides ==
    ASSUME NEW q, IsTable(q), UniquePending(q)
    PROVE  UniquePending(Retry(q))
  <1> DEFINE q1 == RetryTwins(q)
             q2 == RetryCoalesce(q1)
             q3 == RetryRequeue(q2)
  <1>1. IsTable(q1) /\ IsTable(q2) /\ IsTable(q3)
    BY RetryType
  <1>2. UniquePending(q1)
    BY DEF UniquePending, Having, RetryTwins, Only
  <1>3. ASSUME NEW i \in Having(q2, "failed")
        PROVE  /\ i \in FirstOf(q1, Having(q1, "failed"))
               /\ ~HasPending(q1, q1[i].work)
    <2>1. i \in Having(q1, "failed") /\ i \in FirstOf(q1, Having(q1, "failed"))
      BY <1>3 DEF Having, RetryCoalesce, Only
    <2>2. ~HasPending(q, q[i].work) /\ q1[i] = q[i]
      BY <2>1 DEF Having, RetryTwins, Only
    <2> QED BY <2>1, <2>2 DEF HasPending, Having, RetryTwins, Only
  <1>4. ASSUME NEW i \in Having(q3, "pending")
        PROVE  /\ i \in DOMAIN q1 /\ q3[i].work = q1[i].work
               /\ \/ i \in Having(q1, "pending")
                  \/ i \in Having(q2, "failed")
    <2>1. i \in DOMAIN q2 /\ q2[i] = q1[i] /\ i \in DOMAIN q1
      BY <1>4 DEF Having, RetryRequeue, RetryCoalesce, Only
    <2>2. q2[i] \in Row
      BY <1>1, <2>1 DEF IsTable
    <2>3. q3[i] = IF q2[i].status = "failed"
                  THEN [q2[i] EXCEPT !.status = "pending", !.started_at = 0]
                  ELSE q2[i]
      BY <2>1 DEF RetryRequeue
    <2>4. q3[i].work = q1[i].work
      BY <2>1, <2>2, <2>3 DEF Row
    <2> QED BY <1>4, <2>1, <2>3, <2>4 DEF Having
  <1>5. ASSUME NEW i \in Having(q3, "pending"), NEW j \in Having(q3, "pending"),
               q3[i].work = q3[j].work
        PROVE  i = j
    <2>1. q1[i].work = q1[j].work /\ i \in DOMAIN q1 /\ j \in DOMAIN q1
      BY <1>4, <1>5
    <2>2. CASE i \in Having(q2, "failed") /\ j \in Having(q2, "failed")
      <3>1. Having(q1, "failed") \in SUBSET DOMAIN q1
        BY DEF Having
      <3> QED BY <1>1, <1>3, <2>1, <2>2, <3>1, OneFirst
    <2>3. CASE i \in Having(q1, "pending") /\ j \in Having(q1, "pending")
      BY <1>2, <2>1, <2>3 DEF UniquePending
    <2>4. CASE i \in Having(q2, "failed") /\ j \in Having(q1, "pending")
      BY <1>3, <2>1, <2>4 DEF HasPending
    <2>5. CASE i \in Having(q1, "pending") /\ j \in Having(q2, "failed")
      BY <1>3, <2>1, <2>5 DEF HasPending
    <2> QED BY <1>4, <2>2, <2>3, <2>4, <2>5
  <1> QED BY <1>5 DEF UniquePending, Retry

-----------------------------------------------------------------------------
(* What limits the retries and the sweep.                                  *)
(*                                                                         *)
(* While the supervisor reaps it claims and closes nothing, so the list it *)
(* keeps is exactly its pool (SweepKnows).  A claim that is neither in     *)
(* that list nor exhausted is all that its last statement can send back to *)
(* the queue, so a waiting row always has an attempt left of those it was  *)
(* granted: max_attempts, and one per operator command that has run to its *)
(* end.  A command still running has granted nothing yet: between two of   *)
(* its statements a row may be claimed and lost.                           *)

SweepKnows ==
    /\ ~up => claimed = {} /\ live = {}
    /\ reap["supervisor"].step # 0 =>
          up /\ claimed = {} /\ reap["supervisor"].keep = IdsOf(live)

\* The operator's commands that have run to their end.
Busy == IF reap["operator"].step = 0 THEN 0 ELSE 1
Retrying == IF retry = 0 THEN 0 ELSE 1
Granted == commands - Busy - Retrying

\* An attempt is left to every row that waits.
AttemptLeft ==
    \A i \in DOMAIN queue \ stolen :
        /\ queue[i].attempts <= MaxAttempts + Granted
        /\ queue[i].status = "pending" => queue[i].attempts < MaxAttempts + Granted

\* After its first statement the supervisor's reap knows no exhausted claim.
Unexhausted ==
    reap["supervisor"].step > 1 =>
        \A i \in Having(queue, "running") \ reap["supervisor"].keep :
            queue[i].attempts < MaxAttempts

AttemptInv ==
    /\ ClaimInv /\ SweepKnows
    /\ Granted \in Nat /\ AttemptLeft /\ Unexhausted

-----------------------------------------------------------------------------
(* The supervisor's list is its pool. *)

LEMMA KeepStep == TypeOK /\ SweepKnows /\ [Next]_vars => SweepKnows'
  <1> SUFFICES ASSUME TypeOK, SweepKnows, [Next]_vars
               PROVE  SweepKnows'
    OBVIOUS
  <1> USE DEF table, memory, bounds, history
  <1>0. reap \in [Reapers -> [step: 0..4, keep: SUBSET Ids]]
    BY DEF TypeOK
  <1>1. CASE Producer
    <2>1. up' = up /\ claimed' = claimed /\ live' = live /\ reap' = reap
      BY <1>1 DEF Producer, Enqueue, EnqueueMany
    <2> QED BY <2>1 DEF SweepKnows, IdsOf
  <1>2. CASE Start \/ Crash \/ SweepStart
    BY <1>0, <1>2 DEF Start, Crash, SweepStart, SweepKnows, Reapers, NotReaping,
                      Dispatching, IdsOf
  <1>3. CASE Stop \/ Dequeue \/ \E job \in live : Close(job) \/ CloseLost(job)
    <2>1. up /\ reap["supervisor"].step = 0 /\ reap' = reap
      BY <1>3 DEF Stop, Dequeue, Close, CloseLost, Dispatching
    <2>2. ~up' => claimed' = {} /\ live' = {}
      BY <1>3 DEF Stop, Dequeue, Close, CloseLost, Dispatching
    <2> QED BY <2>1, <2>2 DEF SweepKnows
  <1>4. CASE Submit \/ SubmitFails \/ ClaimLost
    BY <1>4 DEF Submit, SubmitFails, ClaimLost, SweepKnows
  <1>5. ASSUME NEW r \in Reapers, ReapStep(r)
        PROVE  SweepKnows'
    <2>1. PICK k \in 1..4 : ReapStatement(r, k, queue')
      BY <1>5 DEF ReapStep, FailExhausted, DropTwins, DropDuplicates, RequeueRest,
                  ReapStatement
    <2>2. up' = up /\ claimed' = claimed /\ live' = live
      BY <2>1 DEF ReapStatement
    <2>3. \/ reap'["supervisor"] = reap["supervisor"]
          \/ reap'["supervisor"] = NotReaping
          \/ /\ reap["supervisor"].step # 0
             /\ reap'["supervisor"].keep = reap["supervisor"].keep
      BY <1>0, <2>1 DEF ReapStatement, Reapers
    <2> QED BY <2>2, <2>3 DEF SweepKnows, NotReaping
  <1>6. CASE \/ RetryFailed \/ RetryDuplicates \/ RetryRest \/ Tick \/ UNCHANGED vars
             \/ \E S \in SUBSET DOMAIN queue : ClearDone(S) \/ ForgetOldJobs(S)
    BY <1>6 DEF RetryFailed, RetryDuplicates, RetryRest, Tick, vars, ClearDone,
                ForgetOldJobs, SweepKnows
  <1>7. CASE OperatorReap
    BY <1>0, <1>7 DEF OperatorReap, SweepKnows, Reapers
  <1> QED
    BY <1>1, <1>2, <1>3, <1>4, <1>5, <1>6, <1>7
    DEF Next, Supervisor, Operator, Reapers

-----------------------------------------------------------------------------
(* The sweep spares the live. *)

\* A day that is over is a day that began earlier.
LEMMA EarlierDay ==
    ASSUME NEW s \in Nat, NEW n \in Nat, Older(s, n)
    PROVE  n - s > MaxAge
  <1> DEFINE d == TicksPerDay
             m == n - MaxAge
  <1>1. d \in Nat \ {0} /\ m \in Int
    BY QueueAssumption
  <1>2. s \div d < m \div d
    BY DEF Older, Day
  <1>3. /\ s \div d \in Int /\ m \div d \in Int
        /\ s < d * (s \div d) + d /\ d * (m \div d) <= m
    BY <1>1
  <1> HIDE DEF d, m
  <1>4. (s \div d) + 1 <= m \div d
    BY <1>2, <1>3
  <1>5. d * ((s \div d) + 1) <= d * (m \div d)
    BY <1>1, <1>3, <1>4
  <1>6. s < m
    BY <1>1, <1>3, <1>5
  <1> QED BY <1>6, QueueAssumption DEF m

LEMMA SpareStep ==
    ASSUME ClaimInv, SweepKnows, [Next]_vars, NEW i \in stolen' \ stolen
    PROVE  \/ reap["operator"].step # 0
           \/ \E job \in InHand : job.id = i /\ now - job.started_at > MaxAge
  <1> USE DEF table, memory, bounds, history
  <1>1. PICK r \in Reapers : ReapStep(r)
    BY DEF Next, Producer, Supervisor, Operator, Reapers, Enqueue, EnqueueMany,
           Start, Stop, Crash, Dequeue, Submit, SubmitFails, ClaimLost, Close,
           CloseLost, SweepStart, OperatorReap, RetryFailed, RetryDuplicates,
           RetryRest, ClearDone, ForgetOldJobs, Tick, vars
  <1>2. PICK k \in 1..4 : ReapStatement(r, k, queue')
    BY <1>1 DEF ReapStep, FailExhausted, DropTwins, DropDuplicates, RequeueRest,
                ReapStatement
  <1>3. reap[r].step # 0 /\ i \in Taken(queue')
    BY <1>2 DEF ReapStatement
  <1>4. CASE r = "operator"
    BY <1>3, <1>4
  <1>5. CASE r = "supervisor"
    <2> DEFINE keep == reap[r].keep
    <2>1. PICK job \in InHand : job.id = i
      BY <1>3 DEF Taken, IdsOf
    <2>2. /\ i \in DOMAIN queue /\ queue[i].status = "running"
          /\ job.started_at = queue[i].started_at
      BY <2>1 DEF ClaimInv, LiveClaimHeld, JobOf
    <2>3. i \in keep
      BY <1>3, <1>5, <2>1 DEF SweepKnows, InHand, IdsOf
    <2>4. i \in Zombies(queue, keep, now)
      BY <1>1, <1>3, <2>2
      DEF ReapStep, FailExhausted, DropTwins, DropDuplicates, RequeueRest,
          ReapStatement, IfAllowed, ReapFail, ReapTwins, ReapDuplicates,
          ReapRequeue, Only, Taken
    <2>5. Older(queue[i].started_at, now)
      BY <2>3, <2>4 DEF Zombies
    <2>6. queue[i].started_at \in Nat /\ now \in Nat
      BY <2>2 DEF ClaimInv, TypeOK, IsTable, Row, Ids
    <2>7. now - queue[i].started_at > MaxAge
      BY <2>5, <2>6, EarlierDay
    <2> QED BY <2>1, <2>2, <2>7
  <1> QED BY <1>4, <1>5 DEF Reapers

LEMMA AttemptInit == Init => AttemptInv
  BY TypeInit DEF Init, AttemptInv, ClaimInv, LiveClaimHeld, ClaimedApart, InHand,
     SweepKnows, Granted, Busy, Retrying, AttemptLeft, Unexhausted, NotReaping,
     Reapers

\* A live job loses its row to the sweep only once its claim is overdue (or to
\* an operator whose look for a supervisor came too early): whatever happens
\* between the statements of reap_zombies, the list it keeps is the pool.
THEOREM SweepSpares == Spec => SweepSparesLiveJobs
  <1>1. ClaimInv /\ SweepKnows /\ [Next]_vars => ClaimInv' /\ SweepKnows'
    BY ClaimStep, KeepStep DEF ClaimInv
  <1>2. ClaimInv /\ SweepKnows /\ [Next]_vars =>
           [\A i \in stolen' \ stolen :
              \/ reap["operator"].step # 0
              \/ \E job \in InHand : job.id = i /\ now - job.started_at > MaxAge]_vars
    BY SpareStep
  <1> QED
    BY <1>1, <1>2, AttemptInit, PTL DEF Spec, SweepSparesLiveJobs, AttemptInv
-----------------------------------------------------------------------------
(* Attempts. *)

\* An operator's command grants its attempt when it ends.
LEMMA GrantStep ==
    ASSUME TypeOK, Granted \in Nat, [Next]_vars
    PROVE  /\ Granted' \in Nat /\ Granted <= Granted'
           /\ RequeueRest("operator") \/ RetryRest => Granted < Granted'
           /\ stolen \subseteq stolen'
  <1> USE DEF table, memory, bounds, history
  <1>0. /\ reap \in [Reapers -> [step: 0..4, keep: SUBSET Ids]]
        /\ commands \in Nat /\ retry \in 0..3
    BY DEF TypeOK
  <1>1. CASE OperatorReap
    <2>1. reap'["operator"].step = 1 /\ reap["operator"].step = 0
      BY <1>0, <1>1 DEF OperatorReap, Reapers
    <2>2. commands' = commands + 1 /\ retry' = retry /\ stolen' = stolen
      BY <1>1 DEF OperatorReap
    <2>3. Granted' = Granted
      BY <1>0, <2>1, <2>2 DEF Granted, Busy, Retrying
    <2> QED BY <2>1, <2>2, <2>3, <1>1 DEF RequeueRest, ReapStatement, RetryRest, OperatorReap
  <1>2. ASSUME NEW r \in Reapers, ReapStep(r)
        PROVE  /\ Granted' \in Nat /\ Granted <= Granted'
               /\ RequeueRest("operator") => Granted < Granted'
               /\ ~RetryRest /\ stolen \subseteq stolen'
    <2>1. PICK k \in 1..4 : ReapStatement(r, k, queue')
      BY <1>2 DEF ReapStep, FailExhausted, DropTwins, DropDuplicates, RequeueRest,
                  ReapStatement
    <2>2. /\ commands' = commands /\ retry' = retry /\ stolen \subseteq stolen'
          /\ reap[r].step = k
          /\ reap' = [reap EXCEPT ![r] =
                   IF k = 4 THEN NotReaping ELSE [@ EXCEPT !.step = k + 1]]
      BY <2>1 DEF ReapStatement
    <2>3. ~RetryRest
      BY <1>0, <2>1 DEF RetryRest, ReapStatement, Reapers, NotReaping
    <2>4. CASE r = "supervisor"
      <3>1. reap'["operator"] = reap["operator"]
        BY <1>0, <2>2, <2>4 DEF Reapers
      <3>2. Granted' = Granted
        BY <2>2, <3>1 DEF Granted, Busy, Retrying
      <3>3. ~RequeueRest("operator")
        BY <1>0, <3>1 DEF RequeueRest, ReapStatement, Reapers, NotReaping
      <3> QED BY <2>2, <2>3, <3>2, <3>3
    <2>5. CASE r = "operator"
      <3>1. reap'["operator"].step = IF k = 4 THEN 0 ELSE k + 1
        BY <1>0, <2>2, <2>5 DEF Reapers, NotReaping
      <3>2. Busy = 1 /\ Busy' = IF k = 4 THEN 0 ELSE 1
        BY <2>2, <2>5, <3>1 DEF Busy
      <3>3. Granted' = IF k = 4 THEN Granted + 1 ELSE Granted
        BY <1>0, <2>2, <3>2 DEF Granted, Retrying
      <3>4. RequeueRest("operator") => k = 4
        BY <2>2, <2>5 DEF RequeueRest, ReapStatement
      <3> QED BY <2>2, <2>3, <3>3, <3>4
    <2> QED BY <2>4, <2>5 DEF Reapers
  <1>3. CASE RetryFailed \/ RetryDuplicates \/ RetryRest
    <2>1. reap' = reap /\ stolen' = stolen
      BY <1>3 DEF RetryFailed, RetryDuplicates, RetryRest
    <2>2. ~RequeueRest("operator")
      BY <1>0, <2>1 DEF RequeueRest, ReapStatement, Reapers, NotReaping
    <2>3. Busy' = Busy
      BY <2>1 DEF Busy
    <2>4. \/ commands' = commands + 1 /\ retry = 0 /\ retry' = 2
          \/ commands' = commands /\ retry = 2 /\ retry' = 3
          \/ commands' = commands /\ retry = 3 /\ retry' = 0
      BY <1>3 DEF RetryFailed, RetryDuplicates, RetryRest
    <2>5. RetryRest => retry = 3 /\ retry' = 0
      BY DEF RetryRest
    <2>6. \/ Granted' = Granted /\ ~(retry = 3)
          \/ Granted' = Granted + 1
      BY <1>0, <2>3, <2>4 DEF Granted, Busy, Retrying
    <2> QED BY <2>1, <2>2, <2>5, <2>6
  <1>4. ASSUME commands' = commands, retry' = retry, stolen' = stolen,
               reap'["operator"] = reap["operator"]
        PROVE  /\ Granted' \in Nat /\ Granted <= Granted'
               /\ RequeueRest("operator") \/ RetryRest => Granted < Granted'
               /\ stolen \subseteq stolen'
    <2>1. Granted' = Granted
      BY <1>4 DEF Granted, Busy, Retrying
    <2>2. ~RetryRest
      BY <1>4 DEF RetryRest
    <2>3. ~RequeueRest("operator")
      BY <1>0, <1>4 DEF RequeueRest, ReapStatement, Reapers, NotReaping
    <2> QED BY <1>4, <2>1, <2>2, <2>3
  <1>5. CASE \/ Producer \/ Start \/ Stop \/ Crash \/ Dequeue \/ Submit
             \/ SubmitFails \/ ClaimLost \/ SweepStart \/ Tick \/ UNCHANGED vars
             \/ \E job \in live : Close(job) \/ CloseLost(job)
             \/ \E S \in SUBSET DOMAIN queue : ClearDone(S) \/ ForgetOldJobs(S)
    <2>1. commands' = commands /\ retry' = retry /\ stolen' = stolen
      BY <1>5 DEF Producer, Enqueue, EnqueueMany, Start, Stop, Crash, Dequeue,
                  Submit, SubmitFails, ClaimLost, SweepStart, Tick, vars, Close,
                  CloseLost, ClearDone, ForgetOldJobs, Fault
    <2>2. \/ reap' = reap
          \/ \E x : reap' = [reap EXCEPT !["supervisor"] = x]
      BY <1>5 DEF Producer, Enqueue, EnqueueMany, Start, Stop, Crash, Dequeue,
                  Submit, SubmitFails, ClaimLost, SweepStart, Tick, vars, Close,
                  CloseLost, ClearDone, ForgetOldJobs, Fault
    <2>3. reap'["operator"] = reap["operator"]
      BY <1>0, <2>2 DEF Reapers
    <2> QED BY <1>4, <2>1, <2>3
  <1> QED
    BY <1>1, <1>2, <1>3, <1>5 DEF Next, Supervisor, Operator, Reapers

\* What row i was before the step leaves it an attempt after it.
LeavesOne(i) ==
    \/ /\ i \in DOMAIN queue /\ queue'[i].attempts <= queue[i].attempts
       /\ queue'[i].status = "pending" =>
             \/ queue[i].status = "pending"
             \/ queue'[i].attempts < MaxAttempts + Granted'
    \/ /\ i \in DOMAIN queue /\ queue'[i].attempts = queue[i].attempts + 1
       /\ queue[i].status = "pending" /\ queue'[i].status # "pending"
    \/ queue'[i].attempts = 0

\* The bound moves from g to h; attempts are counted under it.
LEMMA Counting ==
    ASSUME NEW m \in Nat \ {0}, NEW g \in Nat, NEW h \in Nat, g <= h,
           NEW a \in Nat, NEW b \in Nat
    PROVE  /\ a = 0 => a <= m + h /\ a < m + h
           /\ a <= b /\ b <= m + g => a <= m + h
           /\ a <= b /\ b < m + g => a < m + h
           /\ a = b + 1 /\ b < m + g => a <= m + h
  OBVIOUS

LEMMA LeftStep ==
    ASSUME TypeOK, TypeOK', Granted \in Nat, AttemptLeft, Granted' \in Nat,
           Granted <= Granted', stolen \subseteq stolen',
           \A i \in DOMAIN queue' \ stolen' : LeavesOne(i)
    PROVE  AttemptLeft'
  <1> SUFFICES ASSUME NEW i \in DOMAIN queue' \ stolen'
               PROVE  /\ queue'[i].attempts <= MaxAttempts + Granted'
                      /\ queue'[i].status = "pending" =>
                            queue'[i].attempts < MaxAttempts + Granted'
    BY DEF AttemptLeft
  <1>1. queue'[i].attempts \in Nat /\ MaxAttempts \in Nat \ {0}
    <2>1. queue'[i] \in Row
      BY DEF TypeOK, IsTable
    <2> QED BY <2>1, QueueAssumption DEF Row
  <1>2. LeavesOne(i)
    OBVIOUS
  <1>3. CASE queue'[i].attempts = 0
    BY <1>1, <1>3, Counting
  <1>4. CASE i \in DOMAIN queue
    <2>1. queue[i].attempts \in Nat
      BY <1>4 DEF TypeOK, IsTable, Row
    <2>2. /\ queue[i].attempts <= MaxAttempts + Granted
          /\ queue[i].status = "pending" => queue[i].attempts < MaxAttempts + Granted
      BY <1>4 DEF AttemptLeft
    <2>3. /\ queue'[i].attempts <= queue[i].attempts =>
                /\ queue'[i].attempts <= MaxAttempts + Granted'
                /\ queue[i].status = "pending" =>
                      queue'[i].attempts < MaxAttempts + Granted'
          /\ queue'[i].attempts = queue[i].attempts + 1 /\ queue[i].status = "pending"
                => queue'[i].attempts <= MaxAttempts + Granted'
      BY <1>1, <2>1, <2>2, Counting
    <2> QED BY <1>2, <1>3, <2>3 DEF LeavesOne
  <1> QED BY <1>2, <1>3, <1>4 DEF LeavesOne

\* The statements of reap_zombies and of retry_failed leave attempts alone.
LEMMA BatchLeaves ==
    ASSUME NEW q, IsTable(q), NEW keep, NEW t,
           NEW r \in {q, ReapFail(q, keep, t), ReapTwins(q, keep, t),
                      ReapDuplicates(q, keep, t), ReapRequeue(q, keep, t),
                      RetryTwins(q), RetryCoalesce(q), RetryRequeue(q)},
           NEW i \in DOMAIN r
    PROVE  /\ i \in DOMAIN q /\ r[i].attempts = q[i].attempts
           /\ \/ r[i] = q[i]
              \/ r[i].status = "failed"
              \/ /\ r[i].status = "pending"
                 /\ \/ r = ReapRequeue(q, keep, t) /\ i \in Zombies(q, keep, t)
                    \/ r = RetryRequeue(q)
  <1>1. DOMAIN r \subseteq DOMAIN q
    BY DEF ReapFail, ReapTwins, ReapDuplicates, ReapRequeue, RetryTwins,
           RetryCoalesce, RetryRequeue, Only
  <1>2. q[i] \in Row
    BY <1>1 DEF IsTable
  <1>3. \/ r[i] = q[i]
        \/ r[i] = [q[i] EXCEPT !.status = "failed"]
        \/ /\ r[i] = [q[i] EXCEPT !.status = "pending", !.started_at = 0]
           /\ \/ r = ReapRequeue(q, keep, t) /\ i \in Zombies(q, keep, t)
              \/ r = RetryRequeue(q)
    BY <1>1 DEF ReapFail, ReapTwins, ReapDuplicates, ReapRequeue, RetryTwins,
                RetryCoalesce, RetryRequeue, Only
  <1> QED BY <1>1, <1>2, <1>3 DEF Row

LEMMA ReapLeaves ==
    ASSUME AttemptInv, Granted' \in Nat, Granted <= Granted',
           RequeueRest("operator") => Granted < Granted',
           NEW r \in Reapers, ReapStep(r), NEW i \in DOMAIN queue' \ stolen'
    PROVE  LeavesOne(i)
  <1> USE DEF table, memory, bounds, history
  <1> DEFINE keep == reap[r].keep
  <1>0. IsTable(queue) /\ TypeOK
    BY DEF AttemptInv, ClaimInv, TypeOK
  <1>1. /\ queue' \in {queue, ReapFail(queue, keep, now), ReapTwins(queue, keep, now),
                       ReapDuplicates(queue, keep, now), ReapRequeue(queue, keep, now)}
        /\ stolen' = stolen \cup Taken(queue')
    BY DEF ReapStep, FailExhausted, DropTwins, DropDuplicates, RequeueRest,
           ReapStatement, IfAllowed
  <1>2. /\ i \in DOMAIN queue /\ queue'[i].attempts = queue[i].attempts
        /\ \/ queue'[i] = queue[i]
           \/ queue'[i].status = "failed"
           \/ /\ queue'[i].status = "pending"
              /\ \/ queue' = ReapRequeue(queue, keep, now) /\ i \in Zombies(queue, keep, now)
                 \/ queue' = RetryRequeue(queue)
    BY <1>0, <1>1, BatchLeaves
  <1>3. queue[i].attempts \in Nat /\ MaxAttempts \in Nat
    BY <1>0, <1>2, QueueAssumption DEF IsTable, Row
  <1>4. CASE queue'[i].status # "pending" \/ queue[i].status = "pending"
    BY <1>2, <1>3, <1>4 DEF LeavesOne
  <1>5. CASE queue'[i].status = "pending" /\ queue[i].status # "pending"
    <2>1. RequeueRest(r) /\ queue' # queue /\ reap[r].step = 4
      <3>1. queue'[i] # queue[i] /\ queue'[i].status # "failed"
        BY <1>5
      <3>2. queue' # ReapTwins(queue, keep, now) /\ queue' # ReapDuplicates(queue, keep, now)
        BY <1>2, <3>1 DEF ReapTwins, ReapDuplicates, Only
      <3>3. queue' # ReapFail(queue, keep, now)
        <4>1. queue[i] \in Row
          BY <1>0, <1>2 DEF IsTable
        <4> QED BY <1>2, <1>5, <4>1 DEF ReapFail, Row
      <3> QED BY <3>1, <3>2, <3>3 DEF ReapStep, FailExhausted, DropTwins,
                 DropDuplicates, RequeueRest, ReapStatement
    <2>2. queue' = ReapRequeue(queue, keep, now) /\ i \in Zombies(queue, keep, now)
      BY <1>2, <1>5, <2>1 DEF RequeueRest, ReapStatement, IfAllowed, ReapRequeue
    <2>3. i \notin stolen /\ i \notin Taken(queue')
      BY <1>1
    <2>4. CASE r = "operator"
      <3>1. queue[i].attempts <= MaxAttempts + Granted
        BY <1>2, <2>3 DEF AttemptInv, AttemptLeft
      <3>2. Granted < Granted' /\ Granted \in Nat
        BY <2>1, <2>4 DEF AttemptInv
      <3> QED BY <1>2, <1>3, <3>1, <3>2 DEF LeavesOne
    <2>5. CASE r = "supervisor"
      <3>1. keep = IdsOf(live)
        BY <2>1, <2>5 DEF AttemptInv, SweepKnows
      <3>2. i \notin keep
        BY <1>2, <1>5, <2>3, <3>1 DEF Taken, IdsOf, InHand
      <3>3. queue[i].attempts < MaxAttempts
        BY <2>1, <2>2, <2>5, <3>2 DEF AttemptInv, Unexhausted, Zombies
      <3> QED BY <1>2, <1>3, <3>3 DEF LeavesOne
    <2> QED BY <2>4, <2>5 DEF Reapers
  <1> QED BY <1>4, <1>5

\* One step of anybody keeps an attempt for the rows that wait.
LEMMA LeavesStep ==
    ASSUME AttemptInv, TypeOK', Granted' \in Nat, Granted <= Granted',
           RequeueRest("operator") \/ RetryRest => Granted < Granted',
           [Next]_vars, NEW i \in DOMAIN queue' \ stolen'
    PROVE  LeavesOne(i)
  <1> USE DEF table, memory, bounds, history
  <1>0. IsTable(queue) /\ TypeOK /\ \A j \in DOMAIN queue : queue[j].attempts \in Nat
    BY DEF AttemptInv, ClaimInv, TypeOK, IsTable, Row
  <1>1. CASE i \in DOMAIN queue /\ queue'[i] = queue[i]
    BY <1>0, <1>1 DEF LeavesOne
  <1>2. CASE Producer
    <2>1. PICK p \in Priorities :
             \/ \E w \in Work : Enqueue(w, p)
             \/ \E S \in SUBSET Work : EnqueueMany(S, p)
      BY <1>2 DEF Producer
    <2>2. PICK S \in SUBSET Work : EnqueueMany(S, p)
      BY <2>1 DEF Enqueue
    <2>3. PICK f \in Numberings(queue, S, nextId) :
             queue' = Inserted(queue, f, p, now)
      BY <2>2 DEF EnqueueMany
    <2>4. /\ IsTable(queue) /\ p \in Nat /\ nextId \in Ids /\ now \in Nat
          /\ \A j \in DOMAIN queue : j < nextId
      BY <1>0, WorkQueueAssumption DEF TypeOK, Ids
    <2>5. \A j \in DOMAIN queue : queue'[j] = queue[j]
      BY <2>3, <2>4, InsertedType
    <2>6. i \notin DOMAIN queue => queue'[i].attempts = 0
      BY <2>3, <2>4, InsertedRows
    <2> QED BY <1>1, <2>5, <2>6 DEF LeavesOne
  <1>3. CASE queue' = queue
    BY <1>1, <1>3
  <1>4. CASE Dequeue
    <2>1. PICK h \in Heads(queue) : queue' = Claimed(queue, h, now)
      BY <1>4 DEF Dequeue
    <2>2. h \in DOMAIN queue /\ queue[h].status = "pending" /\ i \in DOMAIN queue
      BY <2>1 DEF Heads, Having, Claimed
    <2>3. i # h => queue'[i] = queue[i]
      BY <2>1, <2>2 DEF Claimed
    <2>4. /\ queue'[h].status = "running"
          /\ queue'[h].attempts = queue[h].attempts + 1
      <3>1. queue'[h] = [queue[h] EXCEPT !.status = "running", !.started_at = now,
                                         !.attempts = @ + 1]
        BY <2>1, <2>2 DEF Claimed
      <3>2. queue[h] \in Row
        BY <1>0, <2>2 DEF IsTable
      <3> QED BY <3>1, <3>2 DEF Row
    <2> QED BY <1>1, <2>2, <2>3, <2>4 DEF LeavesOne
  <1>5. CASE SubmitFails
    <2>1. PICK job \in claimed :
             queue' = IfAllowed(HandedBack(queue, job.id), queue)
      BY <1>5 DEF SubmitFails
    <2>2. CASE queue' = HandedBack(queue, job.id)
      <3>1. i \in DOMAIN queue /\ queue[i] \in Row
        BY <1>0, <2>2 DEF HandedBack, IsTable
      <3>2. CASE i = job.id
        <4>1. queue'[i] = [queue[i] EXCEPT !.status = "pending", !.started_at = 0,
                               !.attempts = IF queue[i].attempts > 0
                                            THEN queue[i].attempts - 1 ELSE 0]
          BY <2>2, <3>1, <3>2 DEF HandedBack
        <4>2. queue'[i].attempts = IF queue[i].attempts > 0
                                   THEN queue[i].attempts - 1 ELSE 0
          BY <3>1, <4>1 DEF Row
        <4>3. CASE queue[i].attempts > 0
          <5>1. queue'[i].attempts = queue[i].attempts - 1
            BY <4>2, <4>3
          <5>2. i \notin stolen
            BY <1>5 DEF SubmitFails
          <5>3. /\ queue[i].attempts <= MaxAttempts + Granted
                /\ Granted \in Nat /\ MaxAttempts \in Nat
            BY <3>1, <5>2, QueueAssumption DEF AttemptInv, AttemptLeft
          <5>4. queue'[i].attempts \in Nat /\ queue[i].attempts \in Nat
            BY <1>0, <3>1, <4>3, <5>1
          <5>5. queue[i].attempts - 1 < MaxAttempts + Granted'
            BY <5>3, <5>4
          <5> QED BY <3>1, <5>1, <5>4, <5>5 DEF LeavesOne
        <4>4. CASE ~(queue[i].attempts > 0)
          BY <4>2, <4>4 DEF LeavesOne
        <4> QED BY <4>3, <4>4
      <3>3. CASE i # job.id
        BY <1>1, <2>2, <3>1, <3>3 DEF HandedBack
      <3> QED BY <3>2, <3>3
    <2> QED BY <1>3, <2>1, <2>2 DEF IfAllowed
  <1>6. ASSUME NEW job \in live, Close(job)
        PROVE  LeavesOne(i)
    <2>1. queue' \in {MarkedDone(queue, job.id), MarkedFailed(queue, job.id)}
      BY <1>6 DEF Close
    <2>2. i \in DOMAIN queue /\ queue[i] \in Row
      BY <1>0, <2>1 DEF MarkedDone, MarkedFailed, IsTable
    <2>3. \/ queue'[i] = queue[i]
          \/ queue'[i] = [queue[i] EXCEPT !.status = "done"]
          \/ queue'[i] = [queue[i] EXCEPT !.status = "failed"]
      BY <2>1, <2>2 DEF MarkedDone, MarkedFailed
    <2> QED BY <1>0, <1>1, <2>2, <2>3 DEF Row, LeavesOne
  <1>7. ASSUME NEW r \in Reapers, ReapStep(r)
        PROVE  LeavesOne(i)
    BY <1>7, ReapLeaves
  <1>8. CASE RetryFailed \/ RetryDuplicates \/ RetryRest
    <2>1. queue' \in {queue, RetryTwins(queue), RetryCoalesce(queue),
                      RetryRequeue(queue)}
      BY <1>8 DEF RetryFailed, RetryDuplicates, RetryRest, IfAllowed
    <2>2. /\ i \in DOMAIN queue /\ queue'[i].attempts = queue[i].attempts
          /\ \/ queue'[i] = queue[i]
             \/ queue'[i].status = "failed"
             \/ queue'[i].status = "pending"
      BY <1>0, <2>1, BatchLeaves
    <2>3. CASE RetryRest
      <3>1. i \notin stolen
        BY <2>3 DEF RetryRest
      <3>2. /\ queue[i].attempts <= MaxAttempts + Granted
            /\ Granted \in Nat /\ MaxAttempts \in Nat
        BY <2>2, <3>1, QueueAssumption DEF AttemptInv, AttemptLeft
      <3>3. queue[i].attempts < MaxAttempts + Granted'
        BY <1>0, <2>2, <2>3, <3>2
      <3> QED BY <1>0, <2>2, <3>3 DEF LeavesOne
    <2>4. CASE RetryFailed \/ RetryDuplicates
      <3>1. queue'[i] = queue[i]
        BY <2>2, <2>4 DEF RetryFailed, RetryDuplicates, RetryTwins, RetryCoalesce, Only
      <3> QED BY <1>1, <2>2, <3>1
    <2> QED BY <1>8, <2>3, <2>4
  <1>9. ASSUME NEW S \in SUBSET DOMAIN queue, ClearDone(S) \/ ForgetOldJobs(S)
        PROVE  LeavesOne(i)
    <2>1. i \in DOMAIN queue /\ queue'[i] = queue[i]
      BY <1>9 DEF ClearDone, ForgetOldJobs, Only
    <2> QED BY <1>1, <2>1
  <1>10. CASE \/ Start \/ Stop \/ Crash \/ Submit \/ ClaimLost \/ SweepStart
              \/ (\E job \in live : CloseLost(job)) \/ OperatorReap
              \/ Tick \/ UNCHANGED vars
    BY <1>3, <1>10 DEF Start, Stop, Crash, Submit, ClaimLost, SweepStart, CloseLost,
                       OperatorReap, Tick, vars
  <1> QED
    BY <1>2, <1>4, <1>5, <1>6, <1>7, <1>8, <1>9, <1>10
    DEF Next, Supervisor, Operator, Reapers

LEMMA UnexhaustedStep ==
    ASSUME AttemptInv, [Next]_vars
    PROVE  Unexhausted'
  <1> USE DEF table, memory, bounds, history
  <1>0. /\ IsTable(queue) /\ TypeOK
        /\ reap \in [Reapers -> [step: 0..4, keep: SUBSET Ids]]
        /\ MaxAttempts \in Nat \ {0}
    BY QueueAssumption DEF AttemptInv, ClaimInv, TypeOK
  <1>1. ASSUME reap'["supervisor"] = reap["supervisor"],
               \A i \in DOMAIN queue' : queue'[i].status = "running" =>
                   \/ i \in DOMAIN queue /\ queue'[i] = queue[i]
                   \/ queue'[i].attempts = 0
        PROVE  Unexhausted'
    BY <1>0, <1>1 DEF AttemptInv, Unexhausted, Having
  <1>2. CASE Producer
    <2>1. PICK p \in Priorities :
             \/ \E w \in Work : Enqueue(w, p)
             \/ \E S \in SUBSET Work : EnqueueMany(S, p)
      BY <1>2 DEF Producer
    <2>2. PICK S \in SUBSET Work : EnqueueMany(S, p)
      BY <2>1 DEF Enqueue
    <2>3. PICK f \in Numberings(queue, S, nextId) :
             queue' = Inserted(queue, f, p, now)
      BY <2>2 DEF EnqueueMany
    <2>4. /\ IsTable(queue) /\ p \in Nat /\ nextId \in Ids /\ now \in Nat
          /\ \A j \in DOMAIN queue : j < nextId
      BY <1>0, WorkQueueAssumption DEF TypeOK, Ids
    <2>5. \A j \in DOMAIN queue : queue'[j] = queue[j]
      BY <2>3, <2>4, InsertedType
    <2>6. \A i \in DOMAIN queue' \ DOMAIN queue : queue'[i].attempts = 0
      BY <2>3, <2>4, InsertedRows
    <2>7. reap' = reap
      BY <2>2 DEF EnqueueMany
    <2> QED BY <1>1, <2>5, <2>6, <2>7
  <1>3. ASSUME reap'["supervisor"].step \in {0, 1}
        PROVE  Unexhausted'
    BY <1>3 DEF Unexhausted
  <1>4. CASE Start \/ Crash \/ SweepStart
    BY <1>0, <1>3, <1>4 DEF Start, Crash, SweepStart, NotReaping, Reapers
  <1>5. CASE Stop \/ Dequeue \/ \E job \in live : Close(job) \/ CloseLost(job)
    <2>1. reap["supervisor"].step = 0 /\ reap' = reap
      BY <1>5 DEF Stop, Dequeue, Close, CloseLost, Dispatching
    <2> QED BY <1>3, <2>1
  <1>6. CASE SubmitFails
    <2>1. PICK job \in claimed :
             queue' = IfAllowed(HandedBack(queue, job.id), queue)
      BY <1>6 DEF SubmitFails
    <2>2. ASSUME NEW i \in DOMAIN queue', queue'[i].status = "running"
          PROVE  i \in DOMAIN queue /\ queue'[i] = queue[i]
      <3>1. i \in DOMAIN queue /\ queue[i] \in Row
        BY <1>0, <2>1 DEF IfAllowed, HandedBack, IsTable
      <3>2. \/ queue'[i] = queue[i]
            \/ \E a : queue'[i] = [queue[i] EXCEPT !.status = "pending",
                                       !.started_at = 0, !.attempts = a]
        BY <2>1, <3>1 DEF IfAllowed, HandedBack
      <3> QED BY <2>2, <3>1, <3>2 DEF Row
    <2>3. reap' = reap
      BY <1>6 DEF SubmitFails
    <2> QED BY <1>1, <2>2, <2>3
  <1>7. CASE \/ Submit \/ ClaimLost \/ OperatorReap \/ Tick \/ UNCHANGED vars
             \/ \E S \in SUBSET DOMAIN queue : ClearDone(S) \/ ForgetOldJobs(S)
    <2>1. \A i \in DOMAIN queue' : i \in DOMAIN queue /\ queue'[i] = queue[i]
      BY <1>7 DEF Submit, ClaimLost, OperatorReap, Tick, vars, ClearDone,
                  ForgetOldJobs, Only
    <2>2. reap'["supervisor"] = reap["supervisor"]
      BY <1>0, <1>7 DEF Submit, ClaimLost, OperatorReap, Tick, vars, ClearDone,
                        ForgetOldJobs, Reapers
    <2> QED BY <1>1, <2>1, <2>2
  <1>8. CASE RetryFailed \/ RetryDuplicates \/ RetryRest
    <2>1. queue' \in {queue, RetryTwins(queue), RetryCoalesce(queue),
                      RetryRequeue(queue)}
      BY <1>8 DEF RetryFailed, RetryDuplicates, RetryRest, IfAllowed
    <2>2. \A i \in DOMAIN queue' : queue'[i].status = "running" =>
              i \in DOMAIN queue /\ queue'[i] = queue[i]
      BY <1>0, <2>1, BatchLeaves
    <2>3. reap' = reap
      BY <1>8 DEF RetryFailed, RetryDuplicates, RetryRest
    <2> QED BY <1>1, <2>2, <2>3
  <1>9. ASSUME NEW r \in Reapers, ReapStep(r)
        PROVE  Unexhausted'
    <2> DEFINE keep == reap[r].keep
    <2>1. queue' \in {queue, ReapFail(queue, keep, now), ReapTwins(queue, keep, now),
                      ReapDuplicates(queue, keep, now), ReapRequeue(queue, keep, now)}
      BY <1>9 DEF ReapStep, FailExhausted, DropTwins, DropDuplicates, RequeueRest,
                  ReapStatement, IfAllowed
    <2>2. \A i \in DOMAIN queue' : queue'[i].status = "running" =>
              i \in DOMAIN queue /\ queue'[i] = queue[i]
      BY <1>0, <2>1, BatchLeaves
    <2>3. PICK k \in 1..4 : ReapStatement(r, k, queue')
      BY <1>9 DEF ReapStep, FailExhausted, DropTwins, DropDuplicates, RequeueRest,
                  ReapStatement
    <2>4. /\ reap[r].step = k
          /\ reap' = [reap EXCEPT ![r] =
                   IF k = 4 THEN NotReaping ELSE [@ EXCEPT !.step = k + 1]]
      BY <2>3 DEF ReapStatement
    <2>5. CASE r = "operator"
      BY <1>0, <1>1, <2>2, <2>4, <2>5 DEF Reapers
    <2>6. CASE r = "supervisor" /\ k = 4
      BY <1>0, <1>3, <2>4, <2>6 DEF NotReaping, Reapers
    <2>7. CASE r = "supervisor" /\ k # 4
      <3>1. reap'["supervisor"].keep = keep
        BY <1>0, <2>4, <2>7 DEF Reapers
      <3>2. SUFFICES ASSUME NEW i \in DOMAIN queue, queue'[i] = queue[i],
                            i \in DOMAIN queue',
                            queue[i].status = "running", i \notin keep
                     PROVE  queue[i].attempts < MaxAttempts
        BY <2>2, <3>1 DEF Unexhausted, Having
      <3>3. CASE k > 1
        BY <2>4, <2>7, <3>2, <3>3 DEF AttemptInv, Unexhausted, Having
      <3>4. CASE k = 1
        <4>1. queue' = ReapFail(queue, keep, now)
          BY <1>9, <2>4, <3>4 DEF ReapStep, FailExhausted, DropTwins,
             DropDuplicates, RequeueRest, ReapStatement
        <4>2. i \in Zombies(queue, keep, now)
          BY <3>2 DEF Zombies, Having
        <4>3. queue[i] \in Row
          BY <1>0, <3>2 DEF IsTable
        <4>4. ~(queue[i].attempts >= MaxAttempts)
          BY <3>2, <4>1, <4>2, <4>3 DEF ReapFail, Row
        <4> QED BY <1>0, <4>3, <4>4 DEF Row
      <3> QED BY <3>3, <3>4
    <2> QED BY <2>5, <2>6, <2>7 DEF Reapers
  <1> QED
    BY <1>2, <1>4, <1>5, <1>6, <1>7, <1>8, <1>9
    DEF Next, Supervisor, Operator, Reapers

LEMMA AttemptStep == AttemptInv /\ [Next]_vars => AttemptInv'
  <1> SUFFICES ASSUME AttemptInv, [Next]_vars
               PROVE  AttemptInv'
    OBVIOUS
  <1>1. ClaimInv' /\ SweepKnows' /\ TypeOK /\ TypeOK'
    BY ClaimStep, KeepStep DEF AttemptInv, ClaimInv
  <1>2. /\ Granted \in Nat /\ Granted' \in Nat /\ Granted <= Granted'
        /\ RequeueRest("operator") \/ RetryRest => Granted < Granted'
        /\ stolen \subseteq stolen'
    BY <1>1, GrantStep DEF AttemptInv
  <1>3. \A i \in DOMAIN queue' \ stolen' : LeavesOne(i)
    BY <1>1, <1>2, LeavesStep
  <1>4. AttemptLeft'
    BY <1>1, <1>2, <1>3, LeftStep DEF AttemptInv
  <1> QED
    BY <1>1, <1>2, <1>4, UnexhaustedStep DEF AttemptInv

\* max_attempts bounds the runs a row can take down with it: every claim counts
\* one, the reaps give up a claim that has none left whatever commits between
\* their statements, and each operator command adds at most one.
THEOREM AttemptsAreBounded == Spec => []AttemptsBounded
  <1>1. Init => AttemptInv
    BY AttemptInit
  <1>2. AttemptInv => AttemptsBounded
    <2> SUFFICES ASSUME AttemptInv, NEW i \in DOMAIN queue \ stolen
                 PROVE  queue[i].attempts <= MaxAttempts + commands
      BY DEF AttemptsBounded
    <2>1. /\ queue[i].attempts \in Nat /\ commands \in Nat
          /\ MaxAttempts \in Nat /\ Granted \in Nat
      BY QueueAssumption DEF AttemptInv, ClaimInv, TypeOK, IsTable, Row
    <2>2. queue[i].attempts <= MaxAttempts + Granted
      BY DEF AttemptInv, AttemptLeft
    <2>3. Granted <= commands
      BY <2>1 DEF Granted, Busy, Retrying
    <2> QED BY <2>1, <2>2, <2>3
  <1> QED
    BY <1>1, <1>2, AttemptStep, PTL DEF Spec
=============================================================================
