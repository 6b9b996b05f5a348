-------------------------- MODULE SupervisorProofs --------------------------
(***************************************************************************)
(* The supervisor's books, lanes and claims, for any projects, works,      *)
(* bounds and mixture of faults.                                           *)
(*                                                                         *)
(* The inductive invariant IInv adds to what is promised                   *)
(*   - that only a project being served has jobs or the exclusive flag     *)
(*     (SlotInv), so that an opener at work or a slot dropped from the     *)
(*     list takes no job with it;                                          *)
(*   - what the peek established and the dequeue relies on (PickInv):      *)
(*     the only thing that touches the picked project in between is an     *)
(*     insertion, and HeadStays says an insertion can only bring a more    *)
(*     urgent head, so the reserved lanes still get user work;             *)
(*   - that rows are queued at the priorities there are and keep them      *)
(*     (RowInv): background OCR has the last, so an insertion cannot bring *)
(*     it to the head, and the cap on it holds though only the peek looks; *)
(*   - that the row of a job counts at least the attempt of its claim      *)
(*     (JobInv), hence a new claim is never equal to a job in flight and   *)
(*     the set of jobs grows by one when the counter does.                 *)
(* The claims (ClaimInv) need in addition that nothing is or is said to be *)
(* corrupt, for _recover_slot swaps a connection under running jobs: the   *)
(* row of a job is not pending and, if running, is too young for the       *)
(* sweep, which keeps the ids in flight.                                   *)
(***************************************************************************)
EXTENDS Supervisor, FiniteSetTheorems, TLAPS

-----------------------------------------------------------------------------
(* What the statements of JobQueue keep of a table and of its rows. *)

LEMMA ClaimedType ==
    ASSUME NEW q, IsTable(q), NEW i \in DOMAIN q, NEW t \in Nat
    PROVE  /\ IsTable(Claimed(q, i, t))
           /\ DOMAIN Claimed(q, i, t) = DOMAIN q
           /\ Claimed(q, i, t)[i].status = "running"
           /\ \A j \in DOMAIN q : j # i => Claimed(q, i, t)[j] = q[j]
  <1> DEFINE row == [q[i] EXCEPT !.status = "running", !.started_at = t,
                                 !.attempts = @ + 1]
             r == Claimed(q, i, t)
  <1>1. q[i] \in Row
    BY DEF IsTable
  <1>2. q[i].attempts + 1 \in Nat
    BY <1>1 DEF Row
  <1>3. row \in Row /\ row.status = "running"
    BY <1>1, <1>2 DEF Row, Statuses
  <1>4. r = [j \in DOMAIN q |-> IF j = i THEN row ELSE q[j]]
    BY DEF Claimed
  <1> QED
    BY <1>3, <1>4 DEF IsTable

LEMMA CloseType ==
    ASSUME NEW q, IsTable(q), NEW i
    PROVE  /\ IsTable(MarkedDone(q, i)) /\ DOMAIN MarkedDone(q, i) = DOMAIN q
           /\ IsTable(MarkedFailed(q, i)) /\ DOMAIN MarkedFailed(q, i) = DOMAIN q
           /\ IsTable(HandedBack(q, i)) /\ DOMAIN HandedBack(q, i) = DOMAIN q
           /\ \A j \in DOMAIN q : j # i =>
                 /\ MarkedDone(q, i)[j] = q[j]
                 /\ MarkedFailed(q, i)[j] = q[j]
                 /\ HandedBack(q, i)[j] = q[j]
  <1> DEFINE back(j) == [q[j] EXCEPT !.status = "pending", !.started_at = 0,
                             !.attempts = IF @ > 0 THEN @ - 1 ELSE 0]
  <1>1. \A j \in DOMAIN q : q[j] \in Row
    BY DEF IsTable
  <1>2. \A j \in DOMAIN q : /\ [q[j] EXCEPT !.status = "done"] \in Row
                           /\ [q[j] EXCEPT !.status = "failed"] \in Row
    BY <1>1 DEF Row, Statuses
  <1>3. ASSUME NEW j \in DOMAIN q
        PROVE  back(j) \in Row
    <2>1. (IF q[j].attempts > 0 THEN q[j].attempts - 1 ELSE 0) \in Nat
      BY <1>1 DEF Row
    <2> QED BY <1>1, <2>1 DEF Row, Statuses
  <1>4. HandedBack(q, i) = [j \in DOMAIN q |-> IF j = i THEN back(j) ELSE q[j]]
    BY DEF HandedBack
  <1>5. IsTable(HandedBack(q, i)) /\ DOMAIN HandedBack(q, i) = DOMAIN q
    <2> HIDE DEF back
    <2> QED BY <1>3, <1>4 DEF IsTable
  <1>6. /\ IsTable(MarkedDone(q, i)) /\ DOMAIN MarkedDone(q, i) = DOMAIN q
        /\ IsTable(MarkedFailed(q, i)) /\ DOMAIN MarkedFailed(q, i) = DOMAIN q
    BY <1>2 DEF IsTable, MarkedDone, MarkedFailed
  <1> QED
    BY <1>5, <1>6 DEF MarkedDone, MarkedFailed, HandedBack

LEMMA ReapType ==
    ASSUME NEW q, IsTable(q), NEW keep, NEW t
    PROVE  /\ IsTable(ReapFail(q, keep, t)) /\ DOMAIN ReapFail(q, keep, t) = DOMAIN q
           /\ IsTable(ReapTwins(q, keep, t))
           /\ DOMAIN ReapTwins(q, keep, t) \subseteq DOMAIN q
           /\ IsTable(ReapDuplicates(q, keep, t))
           /\ DOMAIN ReapDuplicates(q, keep, t) \subseteq DOMAIN q
           /\ IsTable(ReapRequeue(q, keep, t))
           /\ DOMAIN ReapRequeue(q, keep, t) = DOMAIN q
  BY DEF IsTable, ReapFail, ReapTwins, ReapDuplicates, ReapRequeue, Only, Row, Statuses

\* What decides a row's turn, its id apart.
SameTurn(x, y) == x.priority = y.priority /\ x.created_at = y.created_at

\* Claims add up: no row is lost, none counts fewer attempts or changes its turn.
CountsUp(q, r) ==
    /\ IsTable(r) /\ DOMAIN r = DOMAIN q
    /\ \A j \in DOMAIN q : q[j].attempts <= r[j].attempts /\ SameTurn(q[j], r[j])

LEMMA ClaimCounts ==
    ASSUME NEW q, IsTable(q), NEW i \in DOMAIN q, NEW t \in Nat,
           NEW c, c = Claimed(q, i, t)
    PROVE  /\ CountsUp(q, c) /\ c[i].attempts = q[i].attempts + 1
           /\ c[i].status = "running" /\ c[i].started_at = t
           /\ \A j \in DOMAIN q : j # i => c[j] = q[j]
  <1>1. \A j \in DOMAIN q : q[j] \in Row /\ q[j].attempts \in Nat
    BY DEF IsTable, Row
  <1>2. IsTable(c) /\ DOMAIN c = DOMAIN q
    BY ClaimedType
  <1>3. /\ c[i].attempts = q[i].attempts + 1
        /\ c[i].status = "running" /\ c[i].started_at = t
        /\ \A j \in DOMAIN q : j # i => c[j] = q[j]
        /\ SameTurn(q[i], c[i])
    BY <1>1 DEF Claimed, Row, SameTurn
  <1> QED
    BY <1>1, <1>2, <1>3 DEF CountsUp, SameTurn

LEMMA HandBackCounts ==
    ASSUME NEW q, IsTable(q), NEW i \in DOMAIN q, NEW t \in Nat,
           NEW c, c = Claimed(q, i, t), NEW b, b = HandedBack(c, i)
    PROVE  /\ CountsUp(q, b) /\ b[i].status = "pending"
           /\ \A j \in DOMAIN q : j # i => b[j] = q[j]
  <1>1. \A j \in DOMAIN q : q[j] \in Row /\ q[j].attempts \in Nat
    BY DEF IsTable, Row
  <1>2. /\ IsTable(c) /\ DOMAIN c = DOMAIN q
        /\ c[i].attempts = q[i].attempts + 1
        /\ \A j \in DOMAIN q : j # i => c[j] = q[j]
        /\ SameTurn(q[i], c[i])
    BY ClaimCounts DEF CountsUp
  <1>3. IsTable(b) /\ DOMAIN b = DOMAIN c
    BY <1>2, CloseType
  <1>4. c[i] \in Row /\ c[i].attempts > 0
    BY <1>1, <1>2 DEF IsTable
  <1>5. /\ b[i].attempts = c[i].attempts - 1 /\ b[i].status = "pending"
        /\ SameTurn(c[i], b[i])
    BY <1>2, <1>4 DEF HandedBack, Row, SameTurn
  <1>6. \A j \in DOMAIN q : j # i => b[j] = c[j]
    BY <1>2 DEF HandedBack
  <1> QED
    BY <1>1, <1>2, <1>3, <1>5, <1>6 DEF CountsUp, SameTurn

\* r is q and one row more, the n-th.
WithRow(q, r, n, row) ==
    /\ IsTable(r) /\ DOMAIN r = DOMAIN q \cup {n}
    /\ \A i \in DOMAIN q : r[i] = q[i]
    /\ r[n] = row

LEMMA InsertOne ==
    ASSUME NEW q, IsTable(q), NEW w \in Work, NEW p \in Nat, NEW t \in Nat,
           NEW n \in Nat \ {0}, \A i \in DOMAIN q : i < n,
           NEW f \in [{w} -> {n}], NEW r, r = Inserted(q, f, p, t)
    PROVE  WithRow(q, r, n, NewRow(w, p, t))
  <1>1. {f[v] : v \in DOMAIN f} = {n} /\ (CHOOSE v \in DOMAIN f : f[v] = n) = w
    OBVIOUS
  <1>2. r = [i \in DOMAIN q \cup {n} |-> IF i \in {n} THEN NewRow(w, p, t) ELSE q[i]]
    BY <1>1 DEF Inserted
  <1>3. NewRow(w, p, t) \in Row
    BY DEF NewRow, Row, Statuses
  <1>4. n \notin DOMAIN q
    BY DEF IsTable
  <1> QED
    BY <1>2, <1>3, <1>4 DEF IsTable, WithRow

-----------------------------------------------------------------------------
(* The four statements of reap_zombies in a row. *)

LEMMA ReapAll ==
    ASSUME NEW q, IsTable(q), NEW keep, NEW t
    PROVE  /\ IsTable(Reap(q, keep, t)) /\ DOMAIN Reap(q, keep, t) \subseteq DOMAIN q
           /\ \A i \in DOMAIN Reap(q, keep, t) :
                 /\ Reap(q, keep, t)[i].attempts = q[i].attempts
                 /\ Reap(q, keep, t)[i].work = q[i].work
                 /\ SameTurn(q[i], Reap(q, keep, t)[i])
  <1> DEFINE q1 == ReapFail(q, keep, t)
             q2 == ReapTwins(q1, keep, t)
             q3 == ReapDuplicates(q2, keep, t)
             q4 == ReapRequeue(q3, keep, t)
  <1>1. IsTable(q1) /\ DOMAIN q1 = DOMAIN q
    BY ReapType
  <1>2. \A i \in DOMAIN q1 : /\ q1[i].attempts = q[i].attempts /\ q1[i].work = q[i].work
                           /\ SameTurn(q[i], q1[i])
    BY DEF ReapFail, IsTable, Row, SameTurn
  <1>3. IsTable(q2) /\ DOMAIN q2 \subseteq DOMAIN q1 /\ \A i \in DOMAIN q2 : q2[i] = q1[i]
    <2> HIDE DEF q1
    <2> QED BY <1>1, ReapType, ZenonT(40) DEF ReapTwins, Only
  <1>4. IsTable(q3) /\ DOMAIN q3 \subseteq DOMAIN q2 /\ \A i \in DOMAIN q3 : q3[i] = q2[i]
    <2> HIDE DEF q2
    <2> QED BY <1>3, ReapType DEF ReapDuplicates, Only
  <1>5. IsTable(q4) /\ DOMAIN q4 = DOMAIN q3
    <2>1. IsTable(q3)
      BY <1>4
    <2> HIDE DEF q3
    <2> QED BY <2>1, ReapType
  <1>6. \A i \in DOMAIN q3 : /\ q4[i].attempts = q3[i].attempts /\ q4[i].work = q3[i].work
                           /\ SameTurn(q3[i], q4[i])
    BY <1>4 DEF ReapRequeue, IsTable, Row, SameTurn
  <1>7. Reap(q, keep, t) = q4
    BY DEF Reap
  <1> HIDE DEF q1, q2, q3, q4
  <1> QED
    BY <1>1, <1>2, <1>3, <1>4, <1>5, <1>6, <1>7 DEF SameTurn

LEMMA DayOrder ==
    ASSUME NEW a \in Int, NEW b \in Int, a <= b
    PROVE  Day(a) <= Day(b)
  BY QueueAssumption DEF Day

LEMMA NowIsYoung ==
    ASSUME NEW t \in Nat
    PROVE  ~Older(t, t)
  <1>1. t - MaxAge \in Int /\ t - MaxAge <= t
    BY QueueAssumption
  <1>2. Day(t - MaxAge) <= Day(t) /\ Day(t) \in Int /\ Day(t - MaxAge) \in Int
    BY <1>1, DayOrder, QueueAssumption DEF Day
  <1> QED
    BY <1>2 DEF Older

\* A row the caller keeps is left alone, if it is not running or is young.
LEMMA KeptStays ==
    ASSUME NEW q, IsTable(q), NEW keep, NEW t, NEW i \in DOMAIN q,
           i \in keep \/ q[i].status # "running",
           q[i].status # "running" \/ ~Older(q[i].started_at, t)
    PROVE  i \in DOMAIN Reap(q, keep, t) /\ Reap(q, keep, t)[i] = q[i]
  <1> DEFINE q1 == ReapFail(q, keep, t)
             q2 == ReapTwins(q1, keep, t)
             q3 == ReapDuplicates(q2, keep, t)
             q4 == ReapRequeue(q3, keep, t)
  <1>1. i \in DOMAIN q1 /\ q1[i] = q[i]
    BY DEF ReapFail, Zombies, Having
  <1>2. i \in DOMAIN q2 /\ q2[i] = q[i]
    <2> HIDE DEF q1
    <2> QED BY <1>1 DEF ReapTwins, Only, Zombies, Having
  <1>3. i \in DOMAIN q3 /\ q3[i] = q[i]
    <2> HIDE DEF q2
    <2> QED BY <1>2 DEF ReapDuplicates, Only, Zombies, Having
  <1>4. i \in DOMAIN q4 /\ q4[i] = q[i]
    <2> HIDE DEF q3
    <2> QED BY <1>3 DEF ReapRequeue, Zombies, Having
  <1>5. Reap(q, keep, t) = q4
    BY DEF Reap
  <1> QED
    BY <1>4, <1>5

-----------------------------------------------------------------------------
(* The order in which jobs are claimed. *)

\* An insertion leaves a head, which is the new row or was a head.
LEMMA HeadStays ==
    ASSUME NEW q, IsTable(q), NEW w \in Work, NEW p \in Nat, NEW t \in Nat,
           NEW n \in Nat \ {0}, \A i \in DOMAIN q : i < n,
           NEW f \in [{w} -> {n}], NEW r, r = Inserted(q, f, p, t),
           NEW h \in Heads(q)
    PROVE  /\ Heads(r) # {}
           /\ \A k \in Heads(r) : k \in Heads(q) \/ r[k].priority <= q[h].priority
  <1>1. /\ IsTable(r) /\ DOMAIN r = DOMAIN q \cup {n}
        /\ \A i \in DOMAIN q : r[i] = q[i]
        /\ r[n] = NewRow(w, p, t)
    <2>1. WithRow(q, r, n, NewRow(w, p, t))
      BY InsertOne
    <2> QED BY <2>1 DEF WithRow
  <1>2. Having(r, "pending") = Having(q, "pending") \cup {n}
    BY <1>1 DEF Having, NewRow
  <1>3. h \in Having(q, "pending") /\ Having(q, "pending") \subseteq DOMAIN q
    BY DEF Heads, Having
  <1>4. \A i \in DOMAIN r : /\ i \in Nat /\ r[i].priority \in Nat
                            /\ r[i].created_at \in Nat
    BY <1>1 DEF IsTable, Row
  <1>5. \A i, j \in Having(q, "pending") : Precedes(r, i, j) <=> Precedes(q, i, j)
    BY <1>1, <1>3 DEF Precedes
  <1>6. CASE Precedes(r, n, h)
    <2>1. ASSUME NEW j \in Having(q, "pending"), j # h PROVE Precedes(r, n, j)
      <3>1. Precedes(r, h, j)
        BY <1>3, <1>5, <2>1 DEF Heads
      <3> QED BY <1>1, <1>3, <1>4, <1>6, <3>1 DEF Precedes
    <2>2. n \in Heads(r)
      BY <1>2, <1>6, <2>1 DEF Heads
    <2>3. r[n].priority <= q[h].priority
      BY <1>1, <1>3, <1>4, <1>6 DEF Precedes
    <2>4. ASSUME NEW k \in Heads(r), k # n PROVE k \in Heads(q)
      BY <1>2, <1>5, <2>4 DEF Heads
    <2> QED BY <2>2, <2>3, <2>4
  <1>7. CASE ~Precedes(r, n, h)
    <2>1. h # n
      BY <1>3 DEF IsTable
    <2>2. Precedes(r, h, n)
      BY <1>1, <1>3, <1>4, <1>7, <2>1 DEF Precedes
    <2>3. h \in Heads(r)
      BY <1>2, <1>3, <1>5, <2>2 DEF Heads
    <2>4. ASSUME NEW k \in Heads(r) PROVE k \in Heads(q)
      <3>1. k # n
        BY <1>2, <1>3, <1>7, <2>1, <2>4 DEF Heads
      <3> QED BY <1>2, <1>5, <2>4, <3>1 DEF Heads
    <2> QED BY <2>3, <2>4
  <1> QED BY <1>6, <1>7

-----------------------------------------------------------------------------
(* The state. *)

Phases == {"absent", "opening", "opened", "failed", "serving"}
SlotType == [phase: Phases, queue: Nat, inflight: Nat, exclusive: BOOLEAN,
             backoff: BOOLEAN, stale: BOOLEAN]
Tables == UNION {[D -> Row] : D \in SUBSET (Nat \ {0})}
FileType == {f \in [rows: Tables, next: Nat \ {0}] :
                \A i \in DOMAIN f.rows : i < f.next}
JobType == [project: Projects, file: Nat, id: Nat, work: Work, attempts: Nat,
            priority: Nat]

TypeInv ==
    /\ registry \in SUBSET Projects /\ unread \in BOOLEAN
    /\ wanted \in SUBSET Projects
    /\ slot \in [Projects -> SlotType]
    /\ db \in [Projects -> Seq(FileType)]
    /\ \A p \in Projects : Len(db[p]) > 0 /\ slot[p].queue <= Len(db[p])
    /\ corrupt \in SUBSET Projects /\ picked \in SUBSET Projects
    /\ inflight \in SUBSET JobType /\ IsFiniteSet(inflight)

-----------------------------------------------------------------------------
(* What each way of writing does to the files.  *)

LEMMA TablesAre == \A q : q \in Tables <=> IsTable(q)
  BY DEF Tables, IsTable

\* File e of p is replaced by file f; every other is as it was.
Writes(p, e, f) ==
    /\ db' \in [Projects -> Seq(FileType)]
    /\ \A o \in Projects : Len(db'[o]) = Len(db[o])
    /\ \A o \in Projects : \A g \in 1 .. Len(db[o]) :
          db'[o][g] = IF o = p /\ g = e THEN f ELSE db[o][g]

\* A file f is added to those of p.
Adds(p, f) ==
    /\ db' \in [Projects -> Seq(FileType)]
    /\ Len(db'[p]) = Len(db[p]) + 1 /\ db'[p][Len(db[p]) + 1] = f
    /\ \A o \in Projects : o # p => db'[o] = db[o]
    /\ \A g \in 1 .. Len(db[p]) : db'[p][g] = db[p][g]

LEMMA WriteFile ==
    ASSUME TypeInv, NEW p \in Projects, NEW e \in 1 .. Len(db[p]),
           NEW f \in FileType, db' = [db EXCEPT ![p] = [@ EXCEPT ![e] = f]]
    PROVE  Writes(p, e, f)
  <1>1. db[p] \in Seq(FileType)
    BY DEF TypeInv
  <1>2. [db[p] EXCEPT ![e] = f] \in Seq(FileType)
    BY <1>1
  <1>3. Len([db[p] EXCEPT ![e] = f]) = Len(db[p])
    BY <1>1
  <1>4. \A g \in 1 .. Len(db[p]) : [db[p] EXCEPT ![e] = f][g] = IF g = e THEN f ELSE db[p][g]
    BY <1>1
  <1>5. /\ db' \in [Projects -> Seq(FileType)]
        /\ db'[p] = [db[p] EXCEPT ![e] = f]
        /\ \A o \in Projects : o # p => db'[o] = db[o]
    BY <1>2 DEF TypeInv
  <1> QED
    BY <1>3, <1>4, <1>5 DEF Writes

LEMMA WriteRows ==
    ASSUME TypeInv, NEW p \in Projects, NEW e \in 1 .. Len(db[p]),
           NEW x, IsTable(x), DOMAIN x \subseteq DOMAIN db[p][e].rows,
           db' = [db EXCEPT ![p][e].rows = x]
    PROVE  Writes(p, e, [rows |-> x, next |-> db[p][e].next])
  <1> DEFINE f == [rows |-> x, next |-> db[p][e].next]
  <1>1. db[p][e] \in FileType
    BY DEF TypeInv
  <1>2. f \in FileType
    BY <1>1, TablesAre DEF FileType
  <1>3. [db[p][e] EXCEPT !.rows = x] = f
    BY <1>1 DEF FileType
  <1>4. db' = [db EXCEPT ![p] = [@ EXCEPT ![e] = f]]
    BY <1>3
  <1> QED
    BY <1>2, <1>4, WriteFile

LEMMA AddFile ==
    ASSUME TypeInv, NEW p \in Projects, NEW f \in FileType,
           db' = [db EXCEPT ![p] = Append(@, f)]
    PROVE  Adds(p, f)
  <1>1. db[p] \in Seq(FileType)
    BY DEF TypeInv
  <1>2. /\ Append(db[p], f) \in Seq(FileType)
        /\ Len(Append(db[p], f)) = Len(db[p]) + 1
        /\ Append(db[p], f)[Len(db[p]) + 1] = f
        /\ \A g \in 1 .. Len(db[p]) : Append(db[p], f)[g] = db[p][g]
    BY <1>1
  <1>3. /\ db' \in [Projects -> Seq(FileType)]
        /\ db'[p] = Append(db[p], f)
        /\ \A o \in Projects : o # p => db'[o] = db[o]
    BY <1>2 DEF TypeInv
  <1> QED
    BY <1>2, <1>3 DEF Adds

LEMMA EmptyIsFile == EmptyFile \in FileType /\ DOMAIN EmptyFile.rows = {}
  <1>1. IsTable(EmptyFile.rows) /\ DOMAIN EmptyFile.rows = {}
    BY DEF EmptyFile, IsTable
  <1> QED
    BY <1>1, TablesAre DEF EmptyFile, FileType

InsertedFile(f, w, p) ==
    [rows |-> Inserted(f.rows, [v \in {w} |-> f.next], p, 1), next |-> f.next + 1]

\* Table x has a head if q had one, and it is that one or more urgent.
MoreUrgent(q, x) ==
    \A h \in Heads(q) :
        /\ Heads(x) # {}
        /\ \A k \in Heads(x) : k \in Heads(q) \/ x[k].priority <= q[h].priority

LEMMA InsertedRows ==
    ASSUME NEW f \in FileType, NEW w \in Work, NEW p \in Nat,
           NEW g, g = InsertedFile(f, w, p)
    PROVE  /\ g \in FileType /\ g.next = f.next + 1
           /\ DOMAIN g.rows = DOMAIN f.rows \cup {f.next}
           /\ \A i \in DOMAIN f.rows : g.rows[i] = f.rows[i]
           /\ g.rows[f.next] = NewRow(w, p, 1)
           /\ MoreUrgent(f.rows, g.rows)
  <1> DEFINE q == f.rows
             n == f.next
             one == [v \in {w} |-> n]
             x == Inserted(q, one, p, 1)
  <1>1. /\ IsTable(q) /\ n \in Nat \ {0} /\ (\A i \in DOMAIN q : i < n)
        /\ one \in [{w} -> {n}]
    BY TablesAre DEF FileType
  <1>2. g = [rows |-> x, next |-> n + 1]
    BY DEF InsertedFile
  <1>3. x = Inserted(q, one, p, 1)
    OBVIOUS
  <1> HIDE DEF q, n, one, x
  <1>4. WithRow(q, x, n, NewRow(w, p, 1))
    BY <1>1, <1>3, InsertOne
  <1>5. /\ IsTable(x) /\ DOMAIN x = DOMAIN q \cup {n}
        /\ \A i \in DOMAIN q : x[i] = q[i]
        /\ x[n] = NewRow(w, p, 1)
    BY <1>4 DEF WithRow
  <1>8. ASSUME NEW h \in Heads(q)
        PROVE  Heads(x) # {}
    BY <1>1, <1>3, HeadStays
  <1>9. ASSUME NEW h \in Heads(q), NEW k \in Heads(x)
        PROVE  k \in Heads(q) \/ x[k].priority <= q[h].priority
    BY <1>1, <1>3, HeadStays
  <1>10. \A i \in DOMAIN x : i < n + 1
    BY <1>1, <1>5 DEF IsTable
  <1>12. MoreUrgent(q, x)
    BY <1>8, <1>9 DEF MoreUrgent
  <1>11. g \in FileType
    BY <1>1, <1>2, <1>5, <1>10, TablesAre DEF FileType
  <1> QED
    BY <1>2, <1>5, <1>11, <1>12 DEF q, n

LEMMA PutFacts ==
    ASSUME TypeInv, NEW p \in Projects, NEW e \in 1 .. Len(db[p]),
           NEW w \in Work, NEW priority \in Nat, Put(p, e, w, priority)
    PROVE  Writes(p, e, InsertedFile(db[p][e], w, priority))
  <1> DEFINE f == InsertedFile(db[p][e], w, priority)
  <1>1. db[p][e] \in FileType
    BY DEF TypeInv
  <1>2. f \in FileType
    BY <1>1, InsertedRows
  <1>3. db' = [db EXCEPT ![p] = [@ EXCEPT ![e] = f]]
    BY DEF Put, Now, InsertedFile
  <1> QED
    BY <1>2, <1>3, WriteFile

\* Opening: the last file, or an empty one in its place, reaped.
LEMMA OpenFacts ==
    ASSUME TypeInv, NEW p \in Projects, OpenSlot(p)
    PROVE  \/ /\ p \notin corrupt
              /\ Writes(p, Current(p),
                        [rows |-> Reap(db[p][Current(p)].rows, {}, 1),
                         next |-> db[p][Current(p)].next])
           \/ /\ p \in corrupt
              /\ \E f \in FileType : Adds(p, f) /\ DOMAIN f.rows = {}
  <1> DEFINE e == Len(db[p])
  <1>0. db[p] \in Seq(FileType) /\ e \in 1 .. Len(db[p]) /\ db[p][e] \in FileType
    BY DEF TypeInv
  <1>1. CASE p \notin corrupt
    <2> DEFINE x == Reap(db[p][e].rows, {}, 1)
    <2>1. IsTable(db[p][e].rows)
      BY <1>0, TablesAre DEF FileType
    <2>2. IsTable(x) /\ DOMAIN x \subseteq DOMAIN db[p][e].rows
      BY <2>1, ReapAll
    <2>3. db' = [db EXCEPT ![p][e].rows = x]
      BY <1>1 DEF OpenSlot, Opened, Guarded, Now
    <2> QED
      BY <1>0, <1>1, <2>2, <2>3, WriteRows DEF Current
  <1>2. CASE p \in corrupt
    <2> DEFINE g == Append(db[p], EmptyFile)
               x == Reap(EmptyFile.rows, {}, 1)
               f == [rows |-> x, next |-> EmptyFile.next]
    <2>1. EmptyFile \in FileType /\ DOMAIN EmptyFile.rows = {} /\ IsTable(EmptyFile.rows)
      BY EmptyIsFile, TablesAre DEF FileType
    <2>2. IsTable(x) /\ DOMAIN x = {}
      BY <2>1, ReapAll
    <2>3. f \in FileType
      BY <2>1, <2>2, TablesAre DEF FileType
    <2>4. Len(g) = e + 1 /\ g[Len(g)] = EmptyFile
      BY <1>0
    <2>5. [EmptyFile EXCEPT !.rows = x] = f
      BY <2>1 DEF FileType
    <2>6. db'[p] = [g EXCEPT ![e + 1] = f] /\ db' = [db EXCEPT ![p] = db'[p]]
      BY <1>2, <2>4, <2>5 DEF OpenSlot, Opened, Guarded, Now, TypeInv
    <2>7. /\ g \in Seq(FileType) /\ Len(g) = e + 1
          /\ \A i \in 1 .. e : g[i] = db[p][i]
      BY <1>0, <2>1
    <2>8. /\ [g EXCEPT ![e + 1] = f] \in Seq(FileType)
          /\ Len([g EXCEPT ![e + 1] = f]) = e + 1
          /\ [g EXCEPT ![e + 1] = f][e + 1] = f
          /\ \A i \in 1 .. e : [g EXCEPT ![e + 1] = f][i] = db[p][i]
      <3> HIDE DEF f, g
      <3> QED BY <1>0, <2>3, <2>7
    <2>9. Adds(p, f)
      <3> HIDE DEF f, g
      <3> QED BY <2>6, <2>8 DEF Adds, TypeInv
    <2> QED
      BY <1>2, <2>2, <2>3, <2>9
  <1> QED
    BY <1>1, <1>2

-----------------------------------------------------------------------------
(* The invariant. *)

SlotInv ==
    \A p \in Projects : slot[p].phase # "serving" =>
        slot[p].inflight = 0 /\ slot[p].exclusive = FALSE

BackgroundOcr(row) == TypeOf[row.work] = "ocr" /\ row.priority > P_USER

\* Between the peek and the dequeue the heads only get more urgent.
PickInv ==
    \A p \in picked :
        /\ picked = {p} /\ Serving(p) /\ ~slot[p].exclusive
        /\ Cardinality(inflight) < MaxConcurrent + ReservedLanes
        /\ Heads(Rows(p)) # {}
        /\ \/ Cardinality(inflight) < MaxConcurrent
           \/ \A i \in Heads(Rows(p)) : Rows(p)[i].priority = P_USER
        /\ \/ Cardinality(RunningOcr) < OcrMax
           \/ \A i \in Heads(Rows(p)) : ~BackgroundOcr(Rows(p)[i])

\* Rows are queued at one of the priorities there are, all at one instant.
Ordinary(row) == row.priority <= 60 /\ row.created_at = 1
RowInv ==
    \A p \in Projects : \A e \in 1 .. Len(db[p]) :
        \A i \in DOMAIN db[p][e].rows : Ordinary(db[p][e].rows[i])

\* The row a job was claimed from counts at least that claim.
JobInv ==
    \A job \in inflight :
        /\ job.file \in 1 .. Len(db[job.project])
        /\ job.id < db[job.project][job.file].next
        /\ job.id \in DOMAIN db[job.project][job.file].rows =>
              job.attempts <= db[job.project][job.file].rows[job.id].attempts

OneExclusive ==
    \A j, k \in inflight :
        j.project = k.project /\ ExclusiveJob(j) /\ ExclusiveJob(k) => j = k

IInv == TypeInv /\ SlotInv /\ PickInv /\ RowInv /\ JobInv /\ OneExclusive
          /\ BooksBalance /\ LanesBounded

-----------------------------------------------------------------------------
(* Files are added, rows are not given back their ids, attempts add up. *)

RowsKept(f, g) ==
    /\ f.next <= g.next
    /\ \A i \in DOMAIN g.rows : i < f.next =>
          /\ i \in DOMAIN f.rows /\ f.rows[i].attempts <= g.rows[i].attempts
          /\ SameTurn(f.rows[i], g.rows[i])
    /\ \A i \in DOMAIN g.rows : i >= f.next => Ordinary(g.rows[i])

Grown ==
    /\ db' \in [Projects -> Seq(FileType)]
    /\ \A o \in Projects : Len(db[o]) <= Len(db'[o])
    /\ \A o \in Projects : \A g \in 1 .. Len(db[o]) : RowsKept(db[o][g], db'[o][g])
    /\ \A o \in Projects : \A g \in 1 .. Len(db'[o]) :
          g > Len(db[o]) => DOMAIN db'[o][g].rows = {}

LEMMA NewIsOrdinary ==
    ASSUME NEW w, NEW priority \in 0 .. 60
    PROVE  Ordinary(NewRow(w, priority, 1))
  BY DEF NewRow, Ordinary

LEMMA FileIs ==
    ASSUME TypeInv, NEW p \in Projects, NEW e \in 1 .. Len(db[p])
    PROVE  /\ db[p][e] \in FileType /\ IsTable(db[p][e].rows)
           /\ db[p][e].next \in Nat \ {0}
           /\ \A i \in DOMAIN db[p][e].rows : i \in Nat /\ i < db[p][e].next
           /\ \A i \in DOMAIN db[p][e].rows :
                 db[p][e].rows[i] \in Row /\ db[p][e].rows[i].attempts \in Nat
  <1>1. db[p][e] \in FileType
    BY DEF TypeInv
  <1>2. IsTable(db[p][e].rows)
    BY <1>1, TablesAre DEF FileType
  <1> QED
    BY <1>1, <1>2 DEF FileType, IsTable, Row

LEMMA KeptItself ==
    ASSUME TypeInv, NEW p \in Projects, NEW e \in 1 .. Len(db[p])
    PROVE  RowsKept(db[p][e], db[p][e])
  BY FileIs DEF RowsKept, SameTurn

LEMMA SameGrown == TypeInv /\ db' = db => Grown
  BY KeptItself DEF Grown, TypeInv

LEMMA WritesGrow ==
    ASSUME TypeInv, NEW p \in Projects, NEW e \in 1 .. Len(db[p]), NEW f,
           Writes(p, e, f), RowsKept(db[p][e], f)
    PROVE  Grown
  BY KeptItself DEF Writes, Grown, TypeInv

LEMMA RewriteGrows ==
    ASSUME TypeInv, NEW p \in Projects, NEW e \in 1 .. Len(db[p]), NEW x,
           IsTable(x), DOMAIN x \subseteq DOMAIN db[p][e].rows,
           \A i \in DOMAIN x : /\ db[p][e].rows[i].attempts <= x[i].attempts
                              /\ SameTurn(db[p][e].rows[i], x[i]),
           db' = [db EXCEPT ![p][e].rows = x]
    PROVE  Grown /\ Writes(p, e, [rows |-> x, next |-> db[p][e].next])
  <1>1. Writes(p, e, [rows |-> x, next |-> db[p][e].next])
    BY WriteRows
  <1>2. RowsKept(db[p][e], [rows |-> x, next |-> db[p][e].next])
    BY FileIs DEF RowsKept
  <1> QED
    BY <1>1, <1>2, WritesGrow

LEMMA AddsGrow ==
    ASSUME TypeInv, NEW p \in Projects, NEW f, Adds(p, f), DOMAIN f.rows = {}
    PROVE  Grown
  <1>1. ASSUME NEW o \in Projects, NEW g \in 1 .. Len(db[o])
        PROVE  RowsKept(db[o][g], db'[o][g])
    BY <1>1, KeptItself DEF Adds
  <1>2. \A o \in Projects : Len(db[o]) \in Nat
    BY DEF TypeInv
  <1>3. \A o \in Projects : Len(db[o]) <= Len(db'[o])
    BY <1>2 DEF Adds
  <1>4. ASSUME NEW o \in Projects, NEW g \in 1 .. Len(db'[o]), g > Len(db[o])
        PROVE  DOMAIN db'[o][g].rows = {}
    <2>1. o = p /\ g = Len(db[p]) + 1
      BY <1>2, <1>4 DEF Adds
    <2> QED BY <2>1 DEF Adds
  <1> QED
    BY <1>1, <1>3, <1>4 DEF Adds, Grown

LEMMA OpenGrows ==
    ASSUME TypeInv, NEW p \in Projects, OpenSlot(p)
    PROVE  Grown
  <1>0. Current(p) \in 1 .. Len(db[p])
    BY DEF TypeInv, Current
  <1>1. CASE \E f \in FileType : Adds(p, f) /\ DOMAIN f.rows = {}
    BY <1>1, AddsGrow
  <1>2. CASE Writes(p, Current(p), [rows |-> Reap(db[p][Current(p)].rows, {}, 1),
                                    next |-> db[p][Current(p)].next])
    <2> DEFINE q == db[p][Current(p)].rows
               x == Reap(q, {}, 1)
    <2>1. IsTable(q)
      BY <1>0, FileIs
    <2>2. /\ DOMAIN x \subseteq DOMAIN q
          /\ \A i \in DOMAIN x : x[i].attempts = q[i].attempts /\ SameTurn(q[i], x[i])
      BY <2>1, ReapAll
    <2>3. RowsKept(db[p][Current(p)], [rows |-> x, next |-> db[p][Current(p)].next])
      <3> HIDE DEF x
      <3> QED BY <1>0, <2>2, FileIs DEF RowsKept
    <2> QED
      BY <1>0, <1>2, <2>3, WritesGrow
  <1> QED
    BY <1>1, <1>2, OpenFacts

LEMMA PutGrows ==
    ASSUME TypeInv, NEW p \in Projects, NEW e \in 1 .. Len(db[p]),
           NEW w \in Work, NEW priority \in 0 .. 60, Put(p, e, w, priority)
    PROVE  Grown
  <1> DEFINE q == db[p][e].rows
             n == db[p][e].next
             f == InsertedFile(db[p][e], w, priority)
  <1>1. Writes(p, e, f)
    BY PutFacts
  <1>2. /\ f.next = n + 1 /\ DOMAIN f.rows = DOMAIN q \cup {n}
        /\ \A i \in DOMAIN q : f.rows[i] = q[i]
        /\ f.rows[n] = NewRow(w, priority, 1)
    <2>1. db[p][e] \in FileType
      BY FileIs
    <2>2. priority \in Nat
      OBVIOUS
    <2>3. f = InsertedFile(db[p][e], w, priority)
      OBVIOUS
    <2> HIDE DEF f
    <2> QED BY <2>1, <2>2, <2>3, InsertedRows
  <1>3. RowsKept(db[p][e], f)
    <2> HIDE DEF f
    <2>1. Ordinary(f.rows[n])
      BY <1>2, NewIsOrdinary
    <2> QED BY <1>2, <2>1, FileIs DEF RowsKept, SameTurn
  <1> QED
    BY <1>1, <1>3, WritesGrow

-----------------------------------------------------------------------------
(* The one table the loop writes: what the connection of a project sees. *)

LEMMA Connection ==
    ASSUME TypeInv, NEW p \in Projects, Serving(p)
    PROVE  slot[p].queue \in 1 .. Len(db[p]) /\ Rows(p) = db[p][slot[p].queue].rows
  BY DEF TypeInv, Serving, SlotType, Rows

LEMMA HeadIs ==
    ASSUME TypeInv, PickInv, NEW p \in picked
    PROVE  /\ p \in Projects /\ slot[p].queue \in 1 .. Len(db[p])
           /\ HeadOf(p) \in Heads(Rows(p)) /\ HeadOf(p) \in DOMAIN Rows(p)
           /\ HeadOf(p) \in Nat \ {0} /\ Rows(p)[HeadOf(p)] \in Row
           /\ Rows(p)[HeadOf(p)].status = "pending"
           /\ Rows(p) = db[p][slot[p].queue].rows /\ IsTable(Rows(p))
  <1>1. p \in Projects /\ Serving(p) /\ Heads(Rows(p)) # {}
    BY DEF TypeInv, PickInv
  <1>2. slot[p].queue \in 1 .. Len(db[p]) /\ Rows(p) = db[p][slot[p].queue].rows
    BY <1>1, Connection
  <1>3. IsTable(Rows(p))
    BY <1>1, <1>2, FileIs
  <1>4. HeadOf(p) \in Heads(Rows(p))
    BY <1>1 DEF HeadOf
  <1>5. HeadOf(p) \in DOMAIN Rows(p) /\ Rows(p)[HeadOf(p)].status = "pending"
    BY <1>4 DEF Heads, Having
  <1> QED
    BY <1>1, <1>2, <1>3, <1>4, <1>5 DEF IsTable

LEMMA PriorityIs ==
    ASSUME NEW w \in Work
    PROVE  DefaultPriority[TypeOf[w]] \in 0 .. 60 /\ P_USER \in 0 .. 60
  <1>1. TypeOf[w] \in Types
    BY SupervisorAssumption
  <1> QED
    BY <1>1 DEF DefaultPriority, Types, P_USER

LEMMA ReapGrows ==
    ASSUME TypeInv, NEW p \in Projects, NEW e \in 1 .. Len(db[p]), NEW keep,
           db' = [db EXCEPT ![p][e].rows = Reap(@, keep, 1)]
    PROVE  Grown /\ Writes(p, e, [rows |-> Reap(db[p][e].rows, keep, 1),
                                  next |-> db[p][e].next])
  <1> DEFINE q == db[p][e].rows
             x == Reap(q, keep, 1)
  <1>1. IsTable(q) /\ \A i \in DOMAIN q : q[i].attempts \in Nat
    BY FileIs
  <1>2. /\ IsTable(x) /\ DOMAIN x \subseteq DOMAIN q
        /\ \A i \in DOMAIN x : x[i].attempts = q[i].attempts /\ SameTurn(q[i], x[i])
    BY <1>1, ReapAll
  <1>3. db' = [db EXCEPT ![p][e].rows = x]
    OBVIOUS
  <1>4. \A i \in DOMAIN x : q[i].attempts <= x[i].attempts /\ SameTurn(q[i], x[i])
    BY <1>1, <1>2
  <1> HIDE DEF x
  <1>5. Grown /\ Writes(p, e, [rows |-> x, next |-> db[p][e].next])
    BY <1>2, <1>3, <1>4, RewriteGrows
  <1> QED
    BY <1>5 DEF x

LEMMA FinishGrows ==
    ASSUME TypeInv, NEW p \in Projects, NEW e \in 1 .. Len(db[p]), NEW id,
           NEW x \in {MarkedDone(db[p][e].rows, id), MarkedFailed(db[p][e].rows, id)},
           db' = [db EXCEPT ![p][e].rows = x]
    PROVE  Grown /\ Writes(p, e, [rows |-> x, next |-> db[p][e].next])
  <1> DEFINE q == db[p][e].rows
  <1>1. IsTable(q) /\ \A i \in DOMAIN q : q[i] \in Row /\ q[i].attempts \in Nat
    BY FileIs
  <1>2. IsTable(x) /\ DOMAIN x = DOMAIN q
    BY <1>1, CloseType
  <1>3. \A i \in DOMAIN x : x[i].attempts = q[i].attempts /\ SameTurn(q[i], x[i])
    BY <1>1, ZenonT(40) DEF MarkedDone, MarkedFailed, Row, SameTurn
  <1>4. \A i \in DOMAIN x : q[i].attempts <= x[i].attempts /\ SameTurn(q[i], x[i])
    BY <1>1, <1>2, <1>3
  <1> QED
    BY <1>2, <1>4, RewriteGrows

LEMMA CountsUpGrows ==
    ASSUME TypeInv, NEW p \in Projects, NEW e \in 1 .. Len(db[p]),
           NEW x, CountsUp(db[p][e].rows, x),
           db' = [db EXCEPT ![p][e].rows = x]
    PROVE  Grown /\ Writes(p, e, [rows |-> x, next |-> db[p][e].next])
  BY RewriteGrows DEF CountsUp

LEMMA TakeGrows ==
    ASSUME TypeInv, PickInv, NEW p \in picked,
           NEW x, \/ x = Claimed(Rows(p), HeadOf(p), 1)
                  \/ x = HandedBack(Claimed(Rows(p), HeadOf(p), 1), HeadOf(p)),
           db' = [db EXCEPT ![p][slot[p].queue].rows = x]
    PROVE  /\ Grown
           /\ Writes(p, slot[p].queue, [rows |-> x, next |-> db[p][slot[p].queue].next])
  <1>1. /\ IsTable(Rows(p)) /\ HeadOf(p) \in DOMAIN Rows(p)
        /\ Rows(p) = db[p][slot[p].queue].rows
        /\ p \in Projects /\ slot[p].queue \in 1 .. Len(db[p])
    BY HeadIs
  <1>2. CountsUp(Rows(p), x)
    BY <1>1, ClaimCounts, HandBackCounts
  <1> QED
    BY <1>1, <1>2, CountsUpGrows

\* Whatever the step, every file keeps its ids and its counts.
LEMMA GrownStep ==
    ASSUME TypeInv, PickInv, [Next]_vars
    PROVE  Grown
  <1> USE DEF loop, disk, world
  <1>1. CASE db' = db
    BY <1>1, SameGrown
  <1>2. ASSUME NEW p \in Projects, NEW w \in Work, Produce(p, w)
        PROVE  Grown
    <2>1. PICK priority \in 0 .. 60 : Put(p, Current(p), w, priority)
      BY <1>2, PriorityIs DEF Produce
    <2>2. Current(p) \in 1 .. Len(db[p])
      BY DEF Current, TypeInv
    <2> QED BY <2>1, <2>2, PutGrows
  <1>3. ASSUME NEW p \in Projects, NEW w \in Work, EnqueuePeriodic(p, w)
        PROVE  Grown
    <2>1. PICK priority \in 0 .. 60 : Put(p, slot[p].queue, w, priority)
      BY <1>3, PriorityIs DEF EnqueuePeriodic
    <2>2. slot[p].queue \in 1 .. Len(db[p])
      BY <1>3, Connection DEF EnqueuePeriodic
    <2> QED BY <2>1, <2>2, PutGrows
  <1>4. ASSUME NEW p \in Projects, Replace(p)
        PROVE  Grown
    BY <1>4, EmptyIsFile, AddFile, AddsGrow DEF Replace
  <1>5. ASSUME NEW p \in Projects, OpenSlot(p)
        PROVE  Grown
    BY <1>5, OpenGrows
  <1>6. ASSUME NEW p \in Projects, Sweep(p)
        PROVE  Grown
    <2>1. slot[p].queue \in 1 .. Len(db[p])
      BY <1>6, Connection DEF Sweep
    <2>2. PICK keep : db' = [db EXCEPT ![p][slot[p].queue].rows = Reap(@, keep, 1)]
      BY <1>6 DEF Sweep, Now
    <2> QED BY <2>1, <2>2, ReapGrows
  <1>7. ASSUME NEW p \in picked, Take(p) \/ TakeFails(p)
        PROVE  Grown
    <2>1. Rows(p) = db[p][slot[p].queue].rows
      BY HeadIs
    <2>2. PICK x : /\ \/ x = Claimed(Rows(p), HeadOf(p), 1)
                      \/ x = HandedBack(Claimed(Rows(p), HeadOf(p), 1), HeadOf(p))
                   /\ db' = [db EXCEPT ![p][slot[p].queue].rows = x]
      BY <1>7, <2>1 DEF Take, TakeFails, Now
    <2> QED BY <2>2, TakeGrows
  <1>8. ASSUME NEW job \in inflight, Finish(job)
        PROVE  Grown
    <2> DEFINE p == job.project
    <2>1. p \in Projects
      BY DEF TypeInv, JobType
    <2>2. CASE db' = db
      BY <2>2, SameGrown
    <2>3. CASE CanWrite(p)
      <3>1. slot[p].queue \in 1 .. Len(db[p])
        BY <2>1, <2>3, Connection DEF CanWrite, Readable
      <3>2. CASE db' # db
        <4>1. PICK x \in {MarkedDone(db[p][slot[p].queue].rows, job.id),
                          MarkedFailed(db[p][slot[p].queue].rows, job.id)} :
                  db' = [db EXCEPT ![p][slot[p].queue].rows = x]
          BY <1>8, <2>3 DEF Finish
        <4> QED BY <2>1, <3>1, <4>1, FinishGrows
      <3> QED BY <2>2, <3>2
    <2> QED BY <1>8, <2>2, <2>3 DEF Finish
  <1>9. ASSUME NEW p \in Projects,
               ReopenReplaced(p) \/ CorruptionError(p) \/ SpuriousError(p) \/ StaleError(p)
        PROVE  Grown
    <2>1. OpenSlot(p) \/ db' = db
      BY <1>9 DEF ReopenReplaced, CorruptionError, SpuriousError, StaleError,
                  Reopen, RecoverSlot
    <2> QED BY <1>1, <1>5, <2>1
  <1>10. CASE \/ EditRegistry \/ SyncRegistry \/ DropUnwanted
              \/ (\E p \in Projects :
                    Corrupt(p) \/ Stale(p) \/ OpenFails(p) \/ CollectOpened(p)
                      \/ Pick(p) \/ BackoffOver(p))
              \/ UNCHANGED vars
    BY <1>1, <1>10 DEF EditRegistry, SyncRegistry, DropUnwanted, Corrupt, Stale,
        OpenFails, CollectOpened, Pick, BackoffOver, vars
  <1>11. ASSUME NEW p \in Projects, Open(p)
         PROVE  Grown
    BY <1>5, <1>11 DEF Open
  <1>12. ASSUME NEW p \in Projects, Take(p) \/ TakeFails(p)
         PROVE  Grown
    BY <1>7, <1>12 DEF Take, TakeFails
  <1> QED
    BY <1>2, <1>3, <1>4, <1>6, <1>8, <1>9, <1>10, <1>11, <1>12
    DEF Next, World, Opener, Loop

-----------------------------------------------------------------------------
(* Types. *)

LEMMA SlotUpdate ==
    ASSUME TypeInv, NEW p \in Projects, NEW s \in SlotType,
           slot' = [slot EXCEPT ![p] = s]
    PROVE  /\ slot' \in [Projects -> SlotType] /\ slot'[p] = s
           /\ \A o \in Projects : o # p => slot'[o] = slot[o]
  BY DEF TypeInv

LEMMA ConnectedIs ==
    ASSUME TypeInv, NEW p \in Projects, Grown
    PROVE  /\ Connected(p) \in SlotType /\ Connected(p).queue = Len(db'[p])
           /\ Connected(p).phase = slot[p].phase
           /\ Connected(p).inflight = slot[p].inflight
           /\ Connected(p).exclusive = slot[p].exclusive
           /\ [Connected(p) EXCEPT !.phase = "opened"] \in SlotType
           /\ [Connected(p) EXCEPT !.backoff = TRUE] \in SlotType
           /\ [Connected(p) EXCEPT !.backoff = FALSE] \in SlotType
  <1>1. slot[p] \in SlotType /\ Len(db'[p]) \in Nat
    BY DEF TypeInv, Grown
  <1>2. Connected(p) = [slot[p] EXCEPT !.queue = Len(db'[p]), !.stale = FALSE]
    BY DEF Connected
  <1>3. Connected(p) \in SlotType /\ Connected(p).queue = Len(db'[p])
           /\ Connected(p).phase = slot[p].phase
           /\ Connected(p).inflight = slot[p].inflight
           /\ Connected(p).exclusive = slot[p].exclusive
    BY <1>1, <1>2 DEF SlotType
  <1> QED
    BY <1>3 DEF SlotType, Phases

-----------------------------------------------------------------------------
(* Every step but a dequeue and the end of a job leaves the books alone. *)

LEMMA IdleIs ==
    ASSUME TypeInv, BooksBalance, NEW p \in Projects, slot[p].inflight = 0
    PROVE  JobsOf(p) = {} /\ slot[p].exclusive = FALSE
  <1>1. JobsOf(p) \subseteq inflight /\ IsFiniteSet(inflight)
    BY DEF JobsOf, TypeInv
  <1>2. JobsOf(p) = {}
    BY <1>1, FS_Subset, FS_EmptySet DEF BooksBalance
  <1>3. slot[p].exclusive \in BOOLEAN
    BY DEF TypeInv, SlotType
  <1> QED
    BY <1>2, <1>3 DEF BooksBalance

Calm(s, o) ==
    /\ s \in SlotType
    /\ s.inflight = slot[o].inflight /\ s.exclusive = slot[o].exclusive
    /\ s.phase # "serving" => s.inflight = 0 /\ s.exclusive = FALSE

CalmSlots ==
    /\ slot' \in [Projects -> SlotType]
    /\ \A o \in Projects : Calm(slot'[o], o) /\ slot'[o].queue <= Len(db'[o])

LEMMA CalmItself ==
    ASSUME TypeInv, SlotInv, Grown, NEW o \in Projects
    PROVE  Calm(slot[o], o) /\ slot[o].queue <= Len(db'[o])
  <1>1. slot[o] \in SlotType /\ slot[o].queue <= Len(db[o]) /\ Len(db[o]) <= Len(db'[o])
    BY DEF TypeInv, Grown
  <1>2. slot[o].queue \in Nat /\ Len(db[o]) \in Nat /\ Len(db'[o]) \in Nat
    BY <1>1 DEF TypeInv, Grown, SlotType
  <1> QED
    BY <1>1, <1>2 DEF Calm, SlotInv

LEMMA SameCalm == TypeInv /\ SlotInv /\ Grown /\ slot' = slot => CalmSlots
  BY CalmItself DEF CalmSlots, TypeInv

LEMMA OneCalm ==
    ASSUME TypeInv, SlotInv, Grown, NEW p \in Projects, NEW s, Calm(s, p),
           s.queue <= Len(db'[p]), slot' = [slot EXCEPT ![p] = s]
    PROVE  CalmSlots
  <1>1. s \in SlotType
    BY DEF Calm
  <1> QED
    BY <1>1, SlotUpdate, CalmItself DEF CalmSlots

LEMMA AbsentIs == Absent \in SlotType /\ [Absent EXCEPT !.phase = "opening"] \in SlotType
  BY DEF Absent, SlotType, Phases

LEMMA OpeningCalm ==
    ASSUME IInv, Grown, NEW p \in Projects,
           Open(p) \/ OpenFails(p) \/ CollectOpened(p)
    PROVE  CalmSlots
  <1> USE DEF IInv
  <1>1. slot[p] \in SlotType /\ slot[p].phase # "serving"
    BY DEF Open, OpenFails, CollectOpened, TypeInv
  <1>2. slot[p].inflight = 0 /\ slot[p].exclusive = FALSE
    BY <1>1 DEF SlotInv
  <1>3. CASE Open(p)
    <2> DEFINE s == [Connected(p) EXCEPT !.phase = "opened"]
    <2>1. /\ s \in SlotType /\ s.inflight = slot[p].inflight
          /\ s.exclusive = slot[p].exclusive /\ s.queue = Len(db'[p])
      BY ConnectedIs DEF SlotType
    <2>2. Calm(s, p) /\ s.queue <= Len(db'[p])
      <3> HIDE DEF s
      <3> QED BY <1>2, <2>1 DEF Calm, SlotType
    <2>3. slot' = [slot EXCEPT ![p] = s]
      BY <1>3 DEF Open
    <2> HIDE DEF s
    <2> QED BY <2>2, <2>3, OneCalm
  <1>4. CASE OpenFails(p)
    <2> DEFINE s == [slot[p] EXCEPT !.phase = "failed"]
    <2>1. Calm(s, p) /\ s.queue = slot[p].queue
      BY <1>1, <1>2 DEF Calm, SlotType, Phases
    <2>2. slot' = [slot EXCEPT ![p] = s]
      BY <1>4 DEF OpenFails
    <2> HIDE DEF s
    <2> QED BY <2>1, <2>2, OneCalm, CalmItself
  <1>5. CASE CollectOpened(p)
    <2> DEFINE s == IF p \in wanted /\ slot[p].phase = "opened"
                    THEN [slot[p] EXCEPT !.phase = "serving"] ELSE Absent
    <2>1. Calm(s, p) /\ s.queue \in {slot[p].queue, 0}
      BY <1>1, <1>2, AbsentIs DEF Calm, SlotType, Phases, Absent
    <2>2. slot' = [slot EXCEPT ![p] = s]
      BY <1>5 DEF CollectOpened
    <2>3. s.queue <= Len(db'[p])
      <3>1. Len(db'[p]) \in Nat
        BY DEF Grown
      <3> HIDE DEF s
      <3> QED BY <2>1, <3>1, CalmItself
    <2> HIDE DEF s
    <2> QED BY <2>1, <2>2, <2>3, OneCalm
  <1> QED
    BY <1>3, <1>4, <1>5

LEMMA DroppedCalm ==
    ASSUME IInv, Grown, SyncRegistry \/ DropUnwanted
    PROVE  CalmSlots
  <1> USE DEF IInv
  <1>1. ASSUME NEW o \in Projects
        PROVE  Calm(slot'[o], o) /\ slot'[o].queue <= Len(db'[o])
    <2>1. \/ slot'[o] = slot[o]
          \/ slot'[o] = Absent /\ slot[o].inflight = 0
          \/ slot'[o] = [Absent EXCEPT !.phase = "opening"] /\ slot[o].phase = "absent"
      BY DEF SyncRegistry, DropUnwanted, Dropped, Absent
    <2>2. Len(db'[o]) \in Nat
      BY DEF Grown
    <2>3. CASE slot'[o] = slot[o]
      BY <2>3, CalmItself
    <2>4. CASE slot[o].inflight = 0 /\ slot'[o] \in {Absent, [Absent EXCEPT !.phase = "opening"]}
      <3>1. slot[o].exclusive = FALSE
        BY <2>4, IdleIs
      <3>2. /\ slot'[o].phase \in {"absent", "opening"} /\ slot'[o].queue = 0
            /\ slot'[o].inflight = 0 /\ slot'[o].exclusive = FALSE
        BY <2>4 DEF Absent
      <3>3. slot'[o] \in SlotType
        BY <2>4, AbsentIs
      <3>4. slot'[o].phase # "serving"
        BY <3>2
      <3>5. Calm(slot'[o], o)
        BY <2>4, <3>1, <3>2, <3>3, <3>4 DEF Calm
      <3>6. slot'[o].queue <= Len(db'[o])
        BY <2>2, <3>2
      <3> QED BY <3>5, <3>6
    <2>5. CASE slot[o].phase = "absent" /\ slot'[o] \in {Absent, [Absent EXCEPT !.phase = "opening"]}
      BY <2>2, <2>4, <2>5 DEF SlotInv
    <2> QED BY <2>1, <2>3, <2>4, <2>5
  <1>2. slot' = [o \in Projects |-> slot'[o]]
    BY DEF SyncRegistry, DropUnwanted, Dropped
  <1> QED
    BY <1>1, <1>2 DEF CalmSlots, Calm

LEMMA ReopenedCalm ==
    ASSUME IInv, Grown, NEW p \in Projects, Serving(p), NEW b \in BOOLEAN,
           slot' = [slot EXCEPT ![p] = [Connected(p) EXCEPT !.backoff = b]]
    PROVE  CalmSlots
  <1> USE DEF IInv
  <1> DEFINE s == [Connected(p) EXCEPT !.backoff = b]
  <1>1. s \in SlotType /\ s.phase = "serving" /\ s.inflight = slot[p].inflight
        /\ s.exclusive = slot[p].exclusive /\ s.queue = Len(db'[p])
    BY ConnectedIs DEF SlotType, Serving
  <1>2. Calm(s, p) /\ s.queue <= Len(db'[p])
    BY <1>1 DEF Calm, SlotType
  <1> HIDE DEF s
  <1> QED BY <1>2, OneCalm DEF s

LEMMA ServingCalm ==
    ASSUME IInv, Grown, NEW p \in Projects, slot[p].phase = "serving", NEW s,
           s \in {[slot[p] EXCEPT !.queue = 0],
                  [slot[p] EXCEPT !.queue = 0, !.backoff = TRUE],
                  [slot[p] EXCEPT !.backoff = TRUE],
                  [slot[p] EXCEPT !.stale = TRUE]},
           slot' = [slot EXCEPT ![p] = s]
    PROVE  CalmSlots
  <1> USE DEF IInv
  <1>1. slot[p] \in SlotType /\ Len(db'[p]) \in Nat /\ slot[p].queue <= Len(db'[p])
    BY CalmItself DEF TypeInv, Grown
  <1>2. /\ s \in SlotType /\ s.phase = "serving"
        /\ s.inflight = slot[p].inflight /\ s.exclusive = slot[p].exclusive
        /\ s.queue \in {0, slot[p].queue}
    <2>1. CASE s = [slot[p] EXCEPT !.queue = 0]
      BY <1>1, <2>1 DEF SlotType
    <2>2. CASE s = [slot[p] EXCEPT !.queue = 0, !.backoff = TRUE]
      BY <1>1, <2>2 DEF SlotType
    <2>3. CASE s = [slot[p] EXCEPT !.backoff = TRUE]
      BY <1>1, <2>3 DEF SlotType
    <2>4. CASE s = [slot[p] EXCEPT !.stale = TRUE]
      BY <1>1, <2>4 DEF SlotType
    <2> QED BY <2>1, <2>2, <2>3, <2>4
  <1>3. Calm(s, p) /\ s.queue <= Len(db'[p])
    BY <1>1, <1>2 DEF Calm
  <1> QED BY <1>3, OneCalm

LEMMA BackoffCalm ==
    ASSUME IInv, Grown, NEW p \in Projects, BackoffOver(p)
    PROVE  CalmSlots
  <1> USE DEF IInv
  <1> DEFINE s == [slot[p] EXCEPT !.backoff = FALSE]
  <1>1. slot[p] \in SlotType /\ Calm(slot[p], p) /\ slot[p].queue <= Len(db'[p])
    BY CalmItself DEF TypeInv
  <1>2. Calm(s, p) /\ s.queue <= Len(db'[p])
    BY <1>1 DEF Calm, SlotType
  <1>3. slot' = [slot EXCEPT ![p] = s]
    BY DEF BackoffOver
  <1> HIDE DEF s
  <1> QED BY <1>2, <1>3, OneCalm

\* A step that is neither a dequeue nor the end of a job.
LEMMA CalmStep ==
    ASSUME IInv, [Next]_vars,
           \A p \in Projects : ~Take(p), \A job \in inflight : ~Finish(job)
    PROVE  CalmSlots /\ Grown /\ inflight' = inflight
  <1> USE DEF loop, disk, world, IInv
  <1>0. Grown
    BY GrownStep
  <1>1. CASE slot' = slot /\ inflight' = inflight
    BY <1>0, <1>1, SameCalm
  <1>2. CASE \/ EditRegistry \/ UNCHANGED vars
             \/ \E p \in Projects :
                  \/ \E w \in Work : Produce(p, w) \/ EnqueuePeriodic(p, w)
                  \/ Replace(p) \/ Corrupt(p) \/ Sweep(p) \/ Pick(p) \/ TakeFails(p)
    BY <1>1, <1>2 DEF EditRegistry, Produce, EnqueuePeriodic, Replace, Corrupt,
                      Sweep, Pick, TakeFails, vars
  <1>3. ASSUME NEW p \in Projects, Stale(p)
        PROVE  CalmSlots /\ inflight' = inflight
    <2>1. slot[p].phase = "serving" /\ inflight' = inflight
          /\ slot' = [slot EXCEPT ![p] = [slot[p] EXCEPT !.stale = TRUE]]
      BY <1>3 DEF Stale
    <2> QED BY <1>0, <2>1, ServingCalm
  <1>4. ASSUME NEW p \in Projects, Open(p) \/ OpenFails(p) \/ CollectOpened(p)
        PROVE  CalmSlots /\ inflight' = inflight
    BY <1>0, <1>4, OpeningCalm DEF Open, OpenFails, CollectOpened
  <1>5. CASE SyncRegistry \/ DropUnwanted
    BY <1>0, <1>5, DroppedCalm DEF SyncRegistry, DropUnwanted
  <1>6. ASSUME NEW p \in Projects,
               ReopenReplaced(p) \/ CorruptionError(p) \/ SpuriousError(p) \/ StaleError(p)
        PROVE  CalmSlots /\ inflight' = inflight
    <2>1. Serving(p) /\ slot[p].phase = "serving" /\ inflight' = inflight
      BY <1>6 DEF ReopenReplaced, CorruptionError, SpuriousError, StaleError,
                  Readable, Serving
    <2>2. \/ slot' = [slot EXCEPT ![p] = [Connected(p) EXCEPT !.backoff = TRUE]]
          \/ slot' = [slot EXCEPT ![p] = [Connected(p) EXCEPT !.backoff = FALSE]]
          \/ slot' = [slot EXCEPT ![p].queue = 0]
          \/ slot' = [slot EXCEPT ![p].queue = 0, ![p].backoff = TRUE]
          \/ slot' = [slot EXCEPT ![p].backoff = TRUE]
      BY <1>6 DEF ReopenReplaced, CorruptionError, SpuriousError, StaleError,
                  Reopen, RecoverSlot
    <2>3. CASE slot' = [slot EXCEPT ![p].queue = 0, ![p].backoff = TRUE]
      <3>1. slot' = [slot EXCEPT ![p] = [slot[p] EXCEPT !.queue = 0, !.backoff = TRUE]]
        BY <2>3 DEF TypeInv
      <3> QED BY <1>0, <2>1, <3>1, ServingCalm
    <2>4. CASE \/ slot' = [slot EXCEPT ![p].queue = 0]
               \/ slot' = [slot EXCEPT ![p].backoff = TRUE]
      <3>1. \/ slot' = [slot EXCEPT ![p] = [slot[p] EXCEPT !.queue = 0]]
            \/ slot' = [slot EXCEPT ![p] = [slot[p] EXCEPT !.backoff = TRUE]]
        BY <2>4
      <3> QED BY <1>0, <2>1, <3>1, ServingCalm
    <2>5. CASE \E b \in BOOLEAN :
                  slot' = [slot EXCEPT ![p] = [Connected(p) EXCEPT !.backoff = b]]
      BY <1>0, <2>1, <2>5, ReopenedCalm
    <2> QED BY <2>1, <2>2, <2>3, <2>4, <2>5
  <1>7. ASSUME NEW p \in Projects, BackoffOver(p)
        PROVE  CalmSlots /\ inflight' = inflight
    BY <1>0, <1>7, BackoffCalm DEF BackoffOver
  <1> QED
    BY <1>0, <1>2, <1>3, <1>4, <1>5, <1>6, <1>7 DEF Next, World, Opener, Loop

-----------------------------------------------------------------------------
(* A dequeue. *)

Dequeued(p) ==
    [project |-> p, file |-> slot[p].queue, id |-> HeadOf(p),
     work |-> HeadRow(p).work, attempts |-> HeadRow(p).attempts + 1,
     priority |-> HeadRow(p).priority]

LEMMA TakeFacts ==
    ASSUME IInv, NEW p \in Projects, Take(p)
    PROVE  /\ p \in picked /\ picked' = {}
           /\ inflight' = inflight \cup {Dequeued(p)}
           /\ Dequeued(p) \in JobType \ inflight
           /\ slot' \in [Projects -> SlotType]
           /\ slot'[p].phase = slot[p].phase /\ slot'[p].queue = slot[p].queue
           /\ slot'[p].inflight = slot[p].inflight + 1
           /\ slot'[p].exclusive = ExclusiveJob(Dequeued(p))
           /\ \A o \in Projects : o # p => slot'[o] = slot[o]
           /\ db' = [db EXCEPT ![p][slot[p].queue].rows =
                                  Claimed(Rows(p), HeadOf(p), 1)]
           /\ Writes(p, slot[p].queue,
                     [rows |-> Claimed(Rows(p), HeadOf(p), 1),
                      next |-> db[p][slot[p].queue].next])
           /\ Grown
  <1> USE DEF IInv
  <1>1. p \in picked /\ picked' = {}
    BY DEF Take
  <1>2. /\ slot[p].queue \in 1 .. Len(db[p]) /\ HeadOf(p) \in DOMAIN Rows(p)
        /\ HeadOf(p) \in Nat \ {0} /\ Rows(p)[HeadOf(p)] \in Row
        /\ Rows(p) = db[p][slot[p].queue].rows /\ IsTable(Rows(p))
    BY <1>1, HeadIs
  <1>3. /\ HeadRow(p).work \in Work /\ HeadRow(p).attempts \in Nat
        /\ HeadRow(p).priority \in Nat
    BY <1>2 DEF HeadRow, Row
  <1>4. Dequeued(p) \in JobType
    BY <1>2, <1>3 DEF Dequeued, JobType
  <1>5. inflight' = inflight \cup {Dequeued(p)}
    BY DEF Take, Dequeued, HeadRow
  <1>6. Dequeued(p) \notin inflight
    <2> SUFFICES ASSUME NEW job \in inflight, job = Dequeued(p) PROVE FALSE
      OBVIOUS
    <2>1. /\ job.project = p /\ job.file = slot[p].queue /\ job.id = HeadOf(p)
          /\ job.attempts = HeadRow(p).attempts + 1
      BY DEF Dequeued
    <2>2. job.attempts <= Rows(p)[HeadOf(p)].attempts
      BY <1>2, <2>1 DEF JobInv
    <2> QED BY <1>3, <2>1, <2>2 DEF HeadRow
  <1>7. db' = [db EXCEPT ![p][slot[p].queue].rows = Claimed(Rows(p), HeadOf(p), 1)]
    BY <1>2 DEF Take, Now
  <1>8. Grown /\ Writes(p, slot[p].queue,
                     [rows |-> Claimed(Rows(p), HeadOf(p), 1),
                      next |-> db[p][slot[p].queue].next])
    BY <1>1, <1>7, TakeGrows
  <1> DEFINE e == ExclusiveJob(Dequeued(p))
             s == [slot[p] EXCEPT !.inflight = @ + 1, !.exclusive = e]
  <1>9. e \in BOOLEAN /\ slot[p] \in SlotType /\ slot[p].exclusive = FALSE
    <2>1. ~slot[p].exclusive
      BY <1>1 DEF PickInv
    <2>2. slot[p] \in SlotType /\ slot[p].exclusive \in BOOLEAN
      BY DEF TypeInv, SlotType
    <2> QED BY <2>1, <2>2 DEF ExclusiveJob
  <1>10. slot' = [slot EXCEPT ![p] = s]
    <2>1. e = (TypeOf[Rows(p)[HeadOf(p)].work] \in EXCLUSIVE_JOB_TYPES)
      BY DEF ExclusiveJob, Dequeued, HeadRow
    <2>2. slot' = [slot EXCEPT ![p].inflight = @ + 1, ![p].exclusive = @ \/ e]
      BY <2>1 DEF Take
    <2> HIDE DEF e
    <2>3. (slot[p].exclusive \/ e) = e
      BY <1>9
    <2> QED BY <2>2, <2>3 DEF TypeInv, SlotType
  <1>11. /\ s \in SlotType /\ s.phase = slot[p].phase /\ s.queue = slot[p].queue
         /\ s.inflight = slot[p].inflight + 1 /\ s.exclusive = e
    <2> DEFINE n == slot[p].inflight + 1
    <2>1. n \in Nat
      BY <1>9 DEF SlotType
    <2>2. s = [slot[p] EXCEPT !.inflight = n, !.exclusive = e]
      OBVIOUS
    <2> HIDE DEF e, n, s
    <2>3. s \in SlotType
      BY <1>9, <2>1, <2>2 DEF SlotType
    <2>4. s.phase = slot[p].phase /\ s.queue = slot[p].queue /\ s.inflight = n /\ s.exclusive = e
      BY <1>9, <2>2 DEF SlotType
    <2> QED BY <2>3, <2>4 DEF n
  <1>12. /\ slot' \in [Projects -> SlotType] /\ slot'[p] = s
         /\ \A o \in Projects : o # p => slot'[o] = slot[o]
    <2> HIDE DEF s
    <2> QED BY <1>10, <1>11, SlotUpdate
  <1> HIDE DEF s, e
  <1> QED
    BY <1>1, <1>4, <1>5, <1>6, <1>7, <1>8, <1>11, <1>12 DEF e

\* The end of a job of project p.
Ends(job, p) ==
    /\ p \in Projects /\ picked = {} /\ picked' = {}
    /\ inflight' = inflight \ {job}
    /\ slot' \in [Projects -> SlotType]
    /\ slot'[p].phase = slot[p].phase /\ slot'[p].queue = slot[p].queue
    /\ slot'[p].inflight = slot[p].inflight - 1
    /\ slot'[p].exclusive = IF ExclusiveJob(job) THEN FALSE ELSE slot[p].exclusive
    /\ \A o \in Projects : o # p => slot'[o] = slot[o]
    /\ slot[p].inflight = Cardinality(JobsOf(p)) /\ job \in JobsOf(p)
    /\ Cardinality(JobsOf(p)) \in Nat \ {0}

LEMMA FinishFacts ==
    ASSUME IInv, NEW job \in inflight, Finish(job)
    PROVE  Ends(job, job.project)
  <1> DEFINE p == job.project
  <1> USE DEF IInv
  <1>1. p \in Projects /\ slot[p] \in SlotType /\ job \in JobsOf(p)
    BY DEF TypeInv, JobType, JobsOf
  <1>2. IsFiniteSet(JobsOf(p))
    <2>1. JobsOf(p) \subseteq inflight /\ IsFiniteSet(inflight)
      BY DEF JobsOf, TypeInv
    <2> QED BY <2>1, FS_Subset
  <1>3. slot[p].inflight = Cardinality(JobsOf(p)) /\ Cardinality(JobsOf(p)) \in Nat \ {0}
    BY <1>1, <1>2, FS_CardinalityType, FS_EmptySet DEF BooksBalance
  <1> DEFINE x == IF ExclusiveJob(job) THEN FALSE ELSE slot[p].exclusive
             s == [slot[p] EXCEPT !.inflight = @ - 1, !.exclusive = x]
  <1>4. x \in BOOLEAN /\ slot[p].inflight - 1 \in Nat
    <2>1. slot[p].exclusive \in BOOLEAN
      BY <1>1 DEF SlotType
    <2>2. x \in BOOLEAN
      BY <2>1
    <2>3. slot[p].inflight - 1 \in Nat
      BY <1>3
    <2> QED BY <2>2, <2>3
  <1>5. slot' = [slot EXCEPT ![p] = s]
    BY <1>1 DEF Finish, Released, TypeInv, SlotType
  <1>6. /\ s \in SlotType /\ s.phase = slot[p].phase /\ s.queue = slot[p].queue
        /\ s.inflight = slot[p].inflight - 1 /\ s.exclusive = x
    <2> HIDE DEF x
    <2> QED BY <1>1, <1>4 DEF SlotType
  <1>7. /\ slot' \in [Projects -> SlotType] /\ slot'[p] = s
        /\ \A o \in Projects : o # p => slot'[o] = slot[o]
    <2> HIDE DEF s
    <2> QED BY <1>1, <1>5, <1>6, SlotUpdate
  <1>8. inflight' = inflight \ {job} /\ picked = {} /\ picked' = {}
    BY DEF Finish
  <1> HIDE DEF s
  <1> QED
    BY <1>1, <1>3, <1>6, <1>7, <1>8 DEF Ends

-----------------------------------------------------------------------------
(* Each part of the invariant is kept. *)

LEMMA SetsType ==
    ASSUME IInv, [Next]_vars
    PROVE  /\ registry' \in SUBSET Projects /\ unread' \in BOOLEAN
           /\ wanted' \in SUBSET Projects /\ corrupt' \in SUBSET Projects
           /\ picked' \in SUBSET Projects
  <1> USE DEF loop, disk, world, IInv, TypeInv, Fault
  <1>1. CASE EditRegistry \/ UNCHANGED vars \/ SyncRegistry \/ DropUnwanted
    BY <1>1 DEF EditRegistry, vars, SyncRegistry, DropUnwanted
  <1>2. ASSUME NEW p \in Projects, NEW w \in Work, Produce(p, w) \/ EnqueuePeriodic(p, w)
        PROVE  /\ registry' \in SUBSET Projects /\ unread' \in BOOLEAN
               /\ wanted' \in SUBSET Projects /\ corrupt' \in SUBSET Projects
               /\ picked' \in SUBSET Projects
    BY <1>2 DEF Produce, EnqueuePeriodic
  <1>3. ASSUME NEW p \in Projects,
               \/ Replace(p) \/ Corrupt(p) \/ Stale(p) \/ Open(p) \/ OpenFails(p)
               \/ CollectOpened(p) \/ Sweep(p) \/ Pick(p) \/ Take(p) \/ TakeFails(p)
               \/ BackoffOver(p)
        PROVE  /\ registry' \in SUBSET Projects /\ unread' \in BOOLEAN
               /\ wanted' \in SUBSET Projects /\ corrupt' \in SUBSET Projects
               /\ picked' \in SUBSET Projects
    BY <1>3 DEF Replace, Corrupt, Stale, Open, OpenFails, CollectOpened, Sweep, Pick,
                Take, TakeFails, BackoffOver
  <1>4. ASSUME NEW p \in Projects,
               ReopenReplaced(p) \/ CorruptionError(p) \/ SpuriousError(p) \/ StaleError(p)
        PROVE  /\ registry' \in SUBSET Projects /\ unread' \in BOOLEAN
               /\ wanted' \in SUBSET Projects /\ corrupt' \in SUBSET Projects
               /\ picked' \in SUBSET Projects
    BY <1>4 DEF ReopenReplaced, CorruptionError, SpuriousError, StaleError, Reopen,
                RecoverSlot
  <1>5. ASSUME NEW job \in inflight, Finish(job)
        PROVE  /\ registry' \in SUBSET Projects /\ unread' \in BOOLEAN
               /\ wanted' \in SUBSET Projects /\ corrupt' \in SUBSET Projects
               /\ picked' \in SUBSET Projects
    BY <1>5 DEF Finish
  <1> QED
    BY <1>1, <1>2, <1>3, <1>4, <1>5 DEF Next, World, Opener, Loop

\* The three ways of a step with the jobs.
LEMMA ThreeWays ==
    ASSUME IInv, [Next]_vars
    PROVE  \/ CalmSlots /\ Grown /\ inflight' = inflight
           \/ \E p \in Projects : Take(p)
           \/ \E job \in inflight : Finish(job)
  BY CalmStep

\* A step keeps the types.
LEMMA TypeStep ==
    ASSUME IInv, [Next]_vars
    PROVE  TypeInv'
  <1> USE DEF IInv
  <1>1. Grown
    BY GrownStep
  <1>2. /\ slot' \in [Projects -> SlotType]
        /\ \A o \in Projects : slot'[o].queue <= Len(db'[o])
    <2>1. CASE CalmSlots
      BY <2>1 DEF CalmSlots
    <2>2. ASSUME NEW p \in Projects, NEW job \in inflight,
                 p = job.project, Finish(job)
          PROVE  /\ slot' \in [Projects -> SlotType]
                 /\ \A o \in Projects : slot'[o].queue = slot[o].queue
      <3>1. Ends(job, p)
        BY <2>2, FinishFacts
      <3> QED BY <3>1 DEF Ends
    <2>3. ASSUME /\ slot' \in [Projects -> SlotType]
                 /\ \A o \in Projects : slot'[o].queue = slot[o].queue
          PROVE  \A o \in Projects : slot'[o].queue <= Len(db'[o])
      BY <1>1, <2>3, CalmItself
    <2>4. ASSUME NEW p \in Projects, Take(p)
          PROVE  /\ slot' \in [Projects -> SlotType]
                 /\ \A o \in Projects : slot'[o].queue = slot[o].queue
      BY <2>4, TakeFacts
    <2>5. \A job \in inflight : job.project \in Projects
      BY DEF TypeInv, JobType
    <2> QED BY <2>1, <2>2, <2>3, <2>4, <2>5, ThreeWays
  <1>3. inflight' \in SUBSET JobType /\ IsFiniteSet(inflight')
    <2>1. inflight \in SUBSET JobType /\ IsFiniteSet(inflight)
      BY DEF TypeInv
    <2>2. ASSUME NEW p \in Projects, Take(p)
          PROVE  inflight' \in SUBSET JobType /\ IsFiniteSet(inflight')
      <3>1. inflight' = inflight \cup {Dequeued(p)} /\ Dequeued(p) \in JobType
        BY <2>2, TakeFacts
      <3> QED BY <2>1, <3>1, FS_AddElement
    <2>3. ASSUME NEW job \in inflight, Finish(job)
          PROVE  inflight' \in SUBSET JobType /\ IsFiniteSet(inflight')
      <3>1. Ends(job, job.project)
        BY <2>3, FinishFacts
      <3>2. inflight' = inflight \ {job}
        BY <3>1 DEF Ends
      <3> QED BY <2>1, <3>2, FS_RemoveElement
    <2> QED BY <2>1, <2>2, <2>3, ThreeWays
  <1>4. \A p \in Projects : Len(db'[p]) > 0
    BY <1>1 DEF Grown, TypeInv
  <1> QED
    BY <1>1, <1>2, <1>3, <1>4, SetsType DEF TypeInv, Grown

\* A step gives jobs to no project that is not served.
LEMMA SlotStep ==
    ASSUME IInv, [Next]_vars
    PROVE  SlotInv'
  <1> USE DEF IInv
  <1>1. CASE CalmSlots
    BY <1>1 DEF CalmSlots, Calm, SlotInv
  <1>2. ASSUME NEW p \in Projects, Take(p)
        PROVE  SlotInv'
    <2>1. slot[p].phase = "serving"
      BY <1>2, TakeFacts DEF PickInv, Serving
    <2>2. slot'[p].phase = "serving" /\ \A o \in Projects : o # p => slot'[o] = slot[o]
      BY <1>2, <2>1, TakeFacts
    <2> QED BY <2>2 DEF SlotInv
  <1>3. ASSUME NEW job \in inflight, Finish(job)
        PROVE  SlotInv'
    <2>0. PICK p : p = job.project /\ Ends(job, p)
      BY <1>3, FinishFacts
    <2>1. /\ p \in Projects /\ slot[p].inflight # 0 /\ slot'[p].phase = slot[p].phase
          /\ \A o \in Projects : o # p => slot'[o] = slot[o]
      BY <2>0 DEF Ends
    <2>2. slot'[p].phase = "serving"
      BY <2>1 DEF SlotInv
    <2> QED BY <2>1, <2>2 DEF SlotInv
  <1> QED
    BY <1>1, <1>2, <1>3, ThreeWays

\* A step changes the counter and the flag with the set of jobs.
LEMMA BooksStep ==
    ASSUME IInv, [Next]_vars
    PROVE  BooksBalance' /\ OneExclusive'
  <1> USE DEF IInv
  <1>0. \A o \in Projects : IsFiniteSet(JobsOf(o)) /\ Cardinality(JobsOf(o)) \in Nat
    <2>1. \A o \in Projects : JobsOf(o) \subseteq inflight /\ IsFiniteSet(inflight)
      BY DEF JobsOf, TypeInv
    <2> QED BY <2>1, FS_Subset, FS_CardinalityType
  <1>1. CASE CalmSlots /\ inflight' = inflight
    <2>1. /\ \A o \in Projects : JobsOf(o)' = JobsOf(o)
          /\ \A o \in Projects : /\ slot'[o].inflight = slot[o].inflight
                                 /\ slot'[o].exclusive = slot[o].exclusive
      BY <1>1 DEF JobsOf, CalmSlots, Calm
    <2> QED BY <1>1, <2>1 DEF BooksBalance, OneExclusive, ExclusiveJob
  <1>2. ASSUME NEW p \in Projects, Take(p)
        PROVE  BooksBalance' /\ OneExclusive'
    <2> DEFINE d == Dequeued(p)
    <2>1. /\ inflight' = inflight \cup {d} /\ d \notin inflight /\ d.project = p
          /\ slot'[p].inflight = slot[p].inflight + 1
          /\ slot'[p].exclusive = ExclusiveJob(d)
          /\ \A o \in Projects : o # p => slot'[o] = slot[o]
      BY <1>2, TakeFacts DEF Dequeued
    <2>2. \A job \in JobsOf(p) : ~ExclusiveJob(job)
      BY <1>2, TakeFacts DEF PickInv, BooksBalance
    <2> HIDE DEF d
    <2>3. JobsOf(p)' = JobsOf(p) \cup {d} /\ d \notin JobsOf(p)
      BY <2>1 DEF JobsOf
    <2>4. \A o \in Projects : o # p => JobsOf(o)' = JobsOf(o)
      BY <2>1 DEF JobsOf
    <2>5. Cardinality(JobsOf(p)') = Cardinality(JobsOf(p)) + 1
      BY <1>0, <2>3, FS_AddElement
    <2>6. slot'[p].inflight = Cardinality(JobsOf(p)')
      BY <2>1, <2>5 DEF BooksBalance
    <2>7. slot'[p].exclusive <=> \E job \in JobsOf(p)' : ExclusiveJob(job)
      BY <2>1, <2>2, <2>3
    <2>8. BooksBalance'
      BY <2>1, <2>4, <2>6, <2>7 DEF BooksBalance, ExclusiveJob
    <2>9. OneExclusive'
      BY <2>1, <2>2 DEF OneExclusive, ExclusiveJob, JobsOf
    <2> QED BY <2>8, <2>9
  <1>3. ASSUME NEW job \in inflight, Finish(job)
        PROVE  BooksBalance' /\ OneExclusive'
    <2>0. PICK p : p = job.project /\ Ends(job, p)
      BY <1>3, FinishFacts
    <2>1. /\ p \in Projects /\ inflight' = inflight \ {job} /\ job \in JobsOf(p)
          /\ slot'[p].inflight = slot[p].inflight - 1
          /\ slot'[p].exclusive = IF ExclusiveJob(job) THEN FALSE ELSE slot[p].exclusive
          /\ \A o \in Projects : o # p => slot'[o] = slot[o]
      BY <2>0 DEF Ends
    <2>2. JobsOf(p)' = JobsOf(p) \ {job}
      BY <2>1 DEF JobsOf
    <2>3. \A o \in Projects : o # p => JobsOf(o)' = JobsOf(o)
      BY <2>1 DEF JobsOf
    <2>4. Cardinality(JobsOf(p)') = Cardinality(JobsOf(p)) - 1
      BY <1>0, <2>1, <2>2, FS_RemoveElement
    <2>5. slot'[p].inflight = Cardinality(JobsOf(p)')
      BY <2>1, <2>4 DEF BooksBalance
    <2>6. \A j \in JobsOf(p) : ExclusiveJob(j) /\ ExclusiveJob(job) => j = job
      BY <2>1 DEF OneExclusive, JobsOf
    <2>7. slot'[p].exclusive <=> \E j \in JobsOf(p)' : ExclusiveJob(j)
      <3>1. CASE ExclusiveJob(job)
        BY <2>1, <2>2, <2>6, <3>1
      <3>2. CASE ~ExclusiveJob(job)
        <4>1. slot'[p].exclusive = slot[p].exclusive
          BY <2>1, <3>2
        <4> QED BY <2>1, <2>2, <3>2, <4>1 DEF BooksBalance
      <3> QED BY <3>1, <3>2
    <2>8. BooksBalance'
      BY <2>1, <2>3, <2>5, <2>7 DEF BooksBalance, ExclusiveJob
    <2>9. OneExclusive'
      BY <2>1 DEF OneExclusive, ExclusiveJob
    <2> QED BY <2>8, <2>9
  <1> QED
    BY <1>1, <1>2, <1>3, ThreeWays

\* A step gives no id out again and counts no attempt down below a job's.
LEMMA JobStep ==
    ASSUME IInv, [Next]_vars
    PROVE  JobInv'
  <1> USE DEF IInv
  <1>0. Grown
    BY GrownStep
  <1>1. ASSUME NEW job \in inflight
        PROVE  /\ job.file \in 1 .. Len(db'[job.project])
               /\ job.id < db'[job.project][job.file].next
               /\ job.id \in DOMAIN db'[job.project][job.file].rows =>
                     job.attempts <= db'[job.project][job.file].rows[job.id].attempts
    <2> DEFINE p == job.project
               f == db[p][job.file]
               g == db'[p][job.file]
    <2>1. p \in Projects /\ job.attempts \in Nat /\ job.id \in Nat
      BY DEF TypeInv, JobType
    <2>2. /\ job.file \in 1 .. Len(db[p]) /\ job.id < f.next
          /\ job.id \in DOMAIN f.rows => job.attempts <= f.rows[job.id].attempts
      BY DEF JobInv
    <2>3. Len(db[p]) \in Nat /\ Len(db'[p]) \in Nat /\ Len(db[p]) <= Len(db'[p])
      BY <1>0, <2>1 DEF Grown, TypeInv
    <2>4. job.file \in 1 .. Len(db'[p])
      BY <2>2, <2>3
    <2>5. RowsKept(f, g)
      BY <1>0, <2>1, <2>2 DEF Grown
    <2>6. /\ g \in FileType /\ f.next \in Nat
          /\ \A i \in DOMAIN f.rows : f.rows[i].attempts \in Nat
      BY <1>0, <2>1, <2>2, <2>4, FileIs DEF Grown
    <2>7. g.next \in Nat /\ \A i \in DOMAIN g.rows : g.rows[i].attempts \in Nat
      <3>1. IsTable(g.rows) /\ g.next \in Nat
        BY <2>6, TablesAre DEF FileType
      <3> QED BY <3>1 DEF IsTable, Row
    <2> HIDE DEF f, g
    <2>8. job.id < g.next
      BY <2>1, <2>2, <2>5, <2>6, <2>7 DEF RowsKept
    <2>9. job.id \in DOMAIN g.rows => job.attempts <= g.rows[job.id].attempts
      BY <2>1, <2>2, <2>5, <2>6, <2>7 DEF RowsKept
    <2> QED BY <2>4, <2>8, <2>9 DEF g
  <1>2. CASE inflight' \subseteq inflight
    BY <1>1, <1>2 DEF JobInv
  <1>3. ASSUME NEW p \in Projects, Take(p)
        PROVE  JobInv'
    <2> DEFINE d == Dequeued(p)
               e == slot[p].queue
               i == HeadOf(p)
    <2>1. /\ p \in picked /\ inflight' = inflight \cup {d}
          /\ Writes(p, e, [rows |-> Claimed(Rows(p), i, 1), next |-> db[p][e].next])
      BY <1>3, TakeFacts
    <2>2. /\ e \in 1 .. Len(db[p]) /\ i \in DOMAIN Rows(p) /\ IsTable(Rows(p))
          /\ Rows(p) = db[p][e].rows
      BY <2>1, HeadIs
    <2>3. Claimed(Rows(p), i, 1)[i].attempts = Rows(p)[i].attempts + 1
      BY <2>2, ClaimCounts
    <2>4. i < db[p][e].next /\ Rows(p)[i].attempts \in Nat
      BY <2>2, FileIs
    <2>5. /\ db'[p][e] = [rows |-> Claimed(Rows(p), i, 1), next |-> db[p][e].next]
          /\ Len(db'[p]) = Len(db[p])
      BY <2>1, <2>2 DEF Writes
    <2>6. /\ d.project = p /\ d.file = e /\ d.id = i
          /\ d.attempts = Rows(p)[i].attempts + 1
      BY DEF Dequeued, HeadRow
    <2> HIDE DEF d, e, i
    <2>7. /\ d.file \in 1 .. Len(db'[d.project])
          /\ d.id < db'[d.project][d.file].next
          /\ d.attempts <= db'[d.project][d.file].rows[d.id].attempts
      BY <2>2, <2>3, <2>4, <2>5, <2>6, SMTT(30)
    <2> QED BY <1>1, <2>1, <2>7 DEF JobInv
  <1>4. ASSUME NEW job \in inflight, Finish(job)
        PROVE  inflight' \subseteq inflight
    BY <1>4, FinishFacts DEF Ends
  <1> QED
    BY <1>2, <1>3, <1>4, ThreeWays

\* Rows keep their turn, and a new one is queued like the others.
LEMMA RowStep ==
    ASSUME IInv, [Next]_vars
    PROVE  RowInv'
  <1> USE DEF IInv
  <1>0. Grown
    BY GrownStep
  <1>1. ASSUME NEW p \in Projects, NEW e \in 1 .. Len(db'[p]),
               NEW i \in DOMAIN db'[p][e].rows
        PROVE  Ordinary(db'[p][e].rows[i])
    <2>1. Len(db[p]) \in Nat /\ Len(db'[p]) \in Nat
      BY <1>0 DEF Grown, TypeInv
    <2>2. CASE e > Len(db[p])
      BY <1>0, <1>1, <2>2 DEF Grown
    <2>3. CASE e \in 1 .. Len(db[p])
      <3> DEFINE f == db[p][e]
                 g == db'[p][e]
      <3>1. RowsKept(f, g)
        BY <1>0, <2>3 DEF Grown
      <3>2. f.next \in Nat /\ \A j \in DOMAIN f.rows : Ordinary(f.rows[j])
        BY <2>3, FileIs DEF RowInv
      <3>3. i \in DOMAIN g.rows /\ i \in Nat
        <4>1. g \in FileType
          BY <1>0 DEF Grown
        <4>2. IsTable(g.rows)
          BY <4>1, TablesAre DEF FileType
        <4> QED BY <1>1, <4>2 DEF IsTable
      <3> HIDE DEF f, g
      <3>4. Ordinary(g.rows[i])
        BY <3>1, <3>2, <3>3 DEF RowsKept, SameTurn, Ordinary
      <3> QED BY <3>4 DEF g
    <2> QED BY <2>1, <2>2, <2>3
  <1> QED
    BY <1>1 DEF RowInv

\* Nothing touches a picked project but an insertion, and that at most
\* brings a more urgent head.
Spared(p) ==
    /\ picked' = picked /\ inflight' = inflight
    /\ slot'[p].phase = slot[p].phase /\ slot'[p].queue = slot[p].queue
    /\ slot'[p].exclusive = slot[p].exclusive
    /\ \/ Rows(p)' = Rows(p)
       \/ \A h \in Heads(Rows(p)) :
             /\ Heads(Rows(p)') # {}
             /\ \A k \in Heads(Rows(p)') :
                   /\ Rows(p)'[k].priority \in Nat
                   /\ \/ k \in Heads(Rows(p)) /\ Rows(p)'[k] = Rows(p)[k]
                      \/ /\ Rows(p)'[k].priority <= Rows(p)[h].priority
                         /\ ~BackgroundOcr(Rows(p)'[k])

LEMMA SparedPick ==
    ASSUME PickInv, NEW p \in picked, Spared(p)
    PROVE  PickInv'
  <1>1. /\ picked = {p} /\ Serving(p) /\ ~slot[p].exclusive
        /\ Cardinality(inflight) < MaxConcurrent + ReservedLanes
        /\ Heads(Rows(p)) # {}
        /\ \/ Cardinality(inflight) < MaxConcurrent
           \/ \A i \in Heads(Rows(p)) : Rows(p)[i].priority = P_USER
        /\ \/ Cardinality(RunningOcr) < OcrMax
           \/ \A i \in Heads(Rows(p)) : ~BackgroundOcr(Rows(p)[i])
    BY DEF PickInv
  <1>2. Heads(Rows(p)') # {}
    BY <1>1 DEF Spared
  <1>3. ASSUME \A i \in Heads(Rows(p)) : Rows(p)[i].priority = P_USER
        PROVE  \A k \in Heads(Rows(p)') : Rows(p)'[k].priority = P_USER
    <2>1. CASE Rows(p)' = Rows(p)
      BY <1>3, <2>1
    <2>2. PICK h : h \in Heads(Rows(p)) /\ Rows(p)[h].priority = 0
      BY <1>1, <1>3 DEF P_USER
    <2>3. CASE Rows(p)' # Rows(p)
      BY <1>3, <2>2, <2>3 DEF Spared, P_USER
    <2> QED BY <2>1, <2>3
  <1>8. ASSUME \A i \in Heads(Rows(p)) : ~BackgroundOcr(Rows(p)[i])
        PROVE  \A k \in Heads(Rows(p)') : ~BackgroundOcr(Rows(p)'[k])
    <2>1. CASE Rows(p)' = Rows(p)
      BY <1>8, <2>1
    <2>2. CASE Rows(p)' # Rows(p)
      BY <1>1, <1>8, <2>2 DEF Spared
    <2> QED BY <2>1, <2>2
  <1>4. Serving(p)'
    BY <1>1 DEF Spared, Serving
  <1>5. /\ picked' = picked /\ inflight' = inflight /\ ~slot'[p].exclusive
        /\ RunningOcr' = RunningOcr
    BY <1>1 DEF Spared, RunningOcr
  <1>6. \/ Cardinality(inflight) < MaxConcurrent
        \/ \A k \in Heads(Rows(p)') : Rows(p)'[k].priority = P_USER
    BY <1>1, <1>3
  <1>7. /\ picked' = {p} /\ Serving(p)' /\ (~slot[p].exclusive)'
        /\ (Cardinality(inflight) < MaxConcurrent + ReservedLanes)'
        /\ (Heads(Rows(p)) # {})'
        /\ \/ (Cardinality(inflight) < MaxConcurrent)'
           \/ (\A i \in Heads(Rows(p)) : Rows(p)[i].priority = P_USER)'
        /\ \/ (Cardinality(RunningOcr) < OcrMax)'
           \/ (\A i \in Heads(Rows(p)) : ~BackgroundOcr(Rows(p)[i]))'
    BY <1>1, <1>2, <1>4, <1>5, <1>6, <1>8 DEF BackgroundOcr
  <1> QED
    BY <1>7 DEF PickInv

\* Ids break every tie.
LEMMA OneHead ==
    ASSUME NEW q, IsTable(q), NEW h \in Heads(q), NEW k \in Heads(q)
    PROVE  h = k
  <1>1. h \in DOMAIN q /\ k \in DOMAIN q /\ (h # k => Precedes(q, h, k) /\ Precedes(q, k, h))
    BY DEF Heads, Having
  <1>2. /\ q[h].priority \in Nat /\ q[k].priority \in Nat /\ h \in Nat /\ k \in Nat
        /\ q[h].created_at \in Nat /\ q[k].created_at \in Nat
    BY <1>1 DEF IsTable, Row
  <1> QED
    BY <1>1, <1>2 DEF Precedes

LEMMA PickedNow ==
    ASSUME IInv, NEW p \in Projects, Pick(p)
    PROVE  PickInv'
  <1> USE DEF IInv
  <1>1. /\ picked' = {p} /\ slot' = slot /\ db' = db /\ inflight' = inflight
        /\ FreeReserved > 0 /\ Dispatchable(p)
    BY DEF Pick, disk
  <1>2. /\ Serving(p) /\ ~slot[p].exclusive /\ Heads(Rows(p)) # {}
        /\ HeadRow(p).priority = P_USER \/ Free > 0
    BY <1>1 DEF Dispatchable, Readable, SlotCanAccept
  <1>3. Cardinality(inflight) \in Nat
    BY FS_CardinalityType DEF TypeInv
  <1>4. MaxConcurrent \in Nat /\ ReservedLanes \in Nat
    BY SupervisorAssumption
  <1>5. Cardinality(inflight) < MaxConcurrent + ReservedLanes
    BY <1>1, <1>3, <1>4 DEF FreeReserved
  <1>6. Free > 0 => Cardinality(inflight) < MaxConcurrent
    BY <1>3, <1>4 DEF Free
  <1>7. ASSUME HeadRow(p).priority = P_USER
        PROVE  \A i \in Heads(Rows(p)) : Rows(p)[i].priority = P_USER
    <2>1. HeadOf(p) \in Heads(Rows(p))
      BY <1>2 DEF HeadOf
    <2>2. IsTable(Rows(p))
      BY <1>2, Connection, FileIs
    <2> QED BY <1>7, <2>1, <2>2, OneHead DEF HeadRow
  <1>9. \/ Cardinality(RunningOcr) < OcrMax
        \/ \A i \in Heads(Rows(p)) : ~BackgroundOcr(Rows(p)[i])
    <2>1. HeadOf(p) \in Heads(Rows(p)) /\ IsTable(Rows(p))
      BY <1>2, Connection, FileIs DEF HeadOf
    <2>2. \A i \in Heads(Rows(p)) : i = HeadOf(p)
      BY <2>1, OneHead
    <2>3. TypeOf[HeadRow(p).work] = "ocr" => Cardinality(RunningOcr) < OcrMax
      BY <1>1 DEF Dispatchable, SlotCanAccept
    <2> QED BY <2>2, <2>3 DEF HeadRow, BackgroundOcr
  <1>8. /\ Rows(p)' = Rows(p) /\ Serving(p)' = Serving(p) /\ RunningOcr' = RunningOcr
    BY <1>1 DEF Rows, Serving, RunningOcr
  <1> QED
    BY <1>1, <1>2, <1>5, <1>6, <1>7, <1>8, <1>9 DEF PickInv, BackgroundOcr

LEMMA AddsSpares ==
    ASSUME IInv, NEW p \in picked, NEW o \in Projects, NEW f,
           slot' = slot \/ (o # p /\ slot'[p] = slot[p]),
           Adds(o, f), picked' = picked, inflight' = inflight
    PROVE  Spared(p)
  <1> USE DEF IInv
  <1>1. p \in Projects /\ Serving(p)
    BY DEF TypeInv, PickInv
  <1>2. slot[p].queue \in 1 .. Len(db[p]) /\ slot'[p] = slot[p]
    BY <1>1, Connection
  <1>3. db'[p][slot[p].queue] = db[p][slot[p].queue]
    BY <1>1, <1>2 DEF Adds
  <1> QED
    BY <1>2, <1>3 DEF Spared, Rows

LEMMA WritesSpare ==
    ASSUME IInv, NEW p \in picked, NEW o \in Projects, NEW e, NEW f,
           slot'[p] = slot[p], o # p \/ e # slot[p].queue,
           Writes(o, e, f), picked' = picked, inflight' = inflight
    PROVE  Spared(p)
  <1> USE DEF IInv
  <1>1. p \in Projects /\ Serving(p)
    BY DEF TypeInv, PickInv
  <1>2. slot[p].queue \in 1 .. Len(db[p])
    BY <1>1, Connection
  <1>3. db'[p][slot[p].queue] = db[p][slot[p].queue]
    BY <1>1, <1>2 DEF Writes
  <1> QED
    BY <1>2, <1>3 DEF Spared, Rows

\* A row added to a table with a head comes to the head only by its priority,
\* and background OCR has the last there is.
LEMMA NewHead ==
    ASSUME NEW q, IsTable(q), NEW x, IsTable(x), NEW n \in DOMAIN x,
           DOMAIN x = DOMAIN q \cup {n},
           \A i \in DOMAIN q : i < n /\ x[i] = q[i] /\ Ordinary(q[i]),
           Ordinary(x[n]), BackgroundOcr(x[n]) => x[n].priority = 60,
           NEW h \in Heads(q), NEW k \in Heads(x), k \notin Heads(q)
    PROVE  ~BackgroundOcr(x[k])
  <1>1. h \in DOMAIN q /\ q[h].status = "pending" /\ k \in DOMAIN x
    BY DEF Heads, Having
  <1>2. h \in Nat /\ n \in Nat /\ h < n /\ x[h] = q[h] /\ Ordinary(q[h])
        /\ q[h].priority \in Nat /\ x[n].priority \in Nat
    BY <1>1 DEF IsTable, Row
  <1>3. k = n
    <2>1. SUFFICES ASSUME k # n PROVE k \in Heads(q)
      OBVIOUS
    <2>2. k \in DOMAIN q /\ x[k] = q[k] /\ q[k].status = "pending"
      BY <1>1, <2>1 DEF Heads, Having
    <2>3. ASSUME NEW j \in Having(q, "pending"), k # j PROVE Precedes(q, k, j)
      <3>1. j \in DOMAIN q /\ x[j] = q[j] /\ j \in Having(x, "pending")
        BY DEF Having
      <3>2. Precedes(x, k, j)
        BY <2>3, <3>1 DEF Heads
      <3> QED BY <2>2, <3>1, <3>2 DEF Precedes
    <2> QED BY <2>2, <2>3 DEF Heads, Having
  <1>4. h \in Having(x, "pending") /\ h # n
    BY <1>1, <1>2 DEF Having
  <1>5. Precedes(x, n, h)
    BY <1>3, <1>4 DEF Heads
  <1> QED
    BY <1>2, <1>3, <1>5 DEF Precedes, Ordinary

LEMMA ProduceSpares ==
    ASSUME IInv, NEW p \in picked, NEW o \in Projects, NEW w \in Work, Produce(o, w)
    PROVE  Spared(p)
  <1> USE DEF IInv
  <1>0. p \in Projects /\ Serving(p)
    BY DEF TypeInv, PickInv
  <1>1. PICK priority \in {P_USER, DefaultPriority[TypeOf[w]]} :
           Put(o, Current(o), w, priority)
    BY DEF Produce
  <1>7. priority \in 0 .. 60 /\ (TypeOf[w] = "ocr" /\ priority > P_USER => priority = 60)
    BY <1>1, PriorityIs DEF DefaultPriority, P_USER
  <1>2. Current(o) \in 1 .. Len(db[o])
    BY DEF Current, TypeInv
  <1> DEFINE g == InsertedFile(db[o][Current(o)], w, priority)
  <1>3. Writes(o, Current(o), g)
    BY <1>1, <1>2, <1>7, PutFacts
  <1>4. slot' = slot /\ picked' = picked /\ inflight' = inflight
    BY DEF Produce, loop
  <1>5. CASE o # p \/ Current(o) # slot[p].queue
    BY <1>3, <1>4, <1>5, WritesSpare
  <1>6. CASE o = p /\ Current(p) = slot[p].queue
    <2>1. Rows(p) = db[p][Current(p)].rows /\ Rows(p)' = g.rows
      <3> HIDE DEF g
      <3> QED BY <1>0, <1>2, <1>3, <1>4, <1>6 DEF Rows, Writes
    <2>2. /\ g \in FileType
          /\ DOMAIN g.rows = DOMAIN Rows(p) \cup {db[p][Current(p)].next}
          /\ g.rows[db[p][Current(p)].next] = NewRow(w, priority, 1)
          /\ \A i \in DOMAIN Rows(p) : g.rows[i] = Rows(p)[i]
          /\ MoreUrgent(Rows(p), g.rows)
      <3>1. db[p][Current(p)] \in FileType
        BY <1>0, <1>2, <1>6, FileIs
      <3>2. priority \in Nat
        BY <1>7
      <3>3. g = InsertedFile(db[p][Current(p)], w, priority)
        BY <1>6
      <3> DEFINE f == db[p][Current(p)]
      <3>4. Rows(p) = f.rows
        BY <2>1
      <3> HIDE DEF f, g
      <3>5. f \in FileType /\ g = InsertedFile(f, w, priority)
        BY <3>1, <3>3 DEF f
      <3>6. /\ g \in FileType /\ DOMAIN g.rows = DOMAIN f.rows \cup {f.next}
            /\ g.rows[f.next] = NewRow(w, priority, 1)
            /\ \A i \in DOMAIN f.rows : g.rows[i] = f.rows[i]
            /\ MoreUrgent(f.rows, g.rows)
        BY <3>2, <3>5, InsertedRows
      <3> QED BY <3>4, <3>6 DEF f
    <2> HIDE DEF g
    <2>3. IsTable(g.rows)
      BY <2>2, TablesAre DEF FileType
    <2>4. /\ \A k \in Heads(g.rows) : g.rows[k].priority \in Nat
          /\ \A k \in Heads(Rows(p)) : k \in DOMAIN Rows(p)
      BY <2>3 DEF Heads, Having, IsTable, Row
    <2>5. ASSUME NEW h \in Heads(Rows(p)), NEW k \in Heads(g.rows), k \notin Heads(Rows(p))
          PROVE  ~BackgroundOcr(g.rows[k])
      <3> DEFINE n == db[p][Current(p)].next
      <3>1. /\ IsTable(Rows(p)) /\ n \in DOMAIN g.rows
            /\ DOMAIN g.rows = DOMAIN Rows(p) \cup {n}
        BY <1>0, <1>2, <1>6, <2>1, <2>2, FileIs
      <3>2. \A i \in DOMAIN Rows(p) :
               i < n /\ g.rows[i] = Rows(p)[i] /\ Ordinary(Rows(p)[i])
        BY <1>0, <1>2, <1>6, <2>1, <2>2, FileIs DEF RowInv
      <3>3. Ordinary(g.rows[n]) /\ (BackgroundOcr(g.rows[n]) => g.rows[n].priority = 60)
        BY <1>7, <2>2 DEF NewRow, Ordinary, BackgroundOcr
      <3> HIDE DEF n
      <3> QED BY <2>3, <2>5, <3>1, <3>2, <3>3, NewHead
    <2> QED BY <1>4, <2>1, <2>2, <2>4, <2>5 DEF Spared, MoreUrgent
  <1> QED
    BY <1>5, <1>6

LEMMA OpenSpares ==
    ASSUME IInv, NEW p \in picked, NEW o \in Projects, Open(o)
    PROVE  Spared(p)
  <1> USE DEF IInv
  <1>1. o # p
    BY DEF Open, PickInv, Serving
  <1>2. OpenSlot(o) /\ picked' = picked /\ inflight' = inflight /\ slot'[p] = slot[p]
    BY <1>1 DEF Open, TypeInv
  <1>3. CASE \E f : Adds(o, f)
    BY <1>1, <1>2, <1>3, AddsSpares
  <1>4. CASE \E e, f : Writes(o, e, f)
    BY <1>1, <1>2, <1>4, WritesSpare
  <1> QED
    BY <1>2, <1>3, <1>4, OpenFacts

\* A step leaves a picked project fit for the dequeue.
LEMMA PickStep ==
    ASSUME IInv, [Next]_vars
    PROVE  PickInv'
  <1> USE DEF loop, disk, world, IInv
  <1>1. CASE picked' = {}
    BY <1>1 DEF PickInv
  <1>2. ASSUME NEW p \in Projects, Pick(p)
        PROVE  PickInv'
    BY <1>2, PickedNow
  <1>3. ASSUME NEW p \in picked, picked' = picked
        PROVE  PickInv'
    <2>0. p \in Projects /\ slot[p].phase = "serving"
      BY DEF TypeInv, PickInv, Serving
    <2>1. CASE EditRegistry \/ UNCHANGED vars \/ (\E o \in Projects : Corrupt(o))
      BY <2>1, SparedPick DEF EditRegistry, vars, Corrupt, Spared, Rows
    <2>2. ASSUME NEW o \in Projects, Stale(o) \/ OpenFails(o)
          PROVE  PickInv'
      <3>1. /\ slot'[p].phase = slot[p].phase /\ slot'[p].queue = slot[p].queue
            /\ slot'[p].exclusive = slot[p].exclusive
            /\ db' = db /\ inflight' = inflight
        <4>1. CASE Stale(o)
          BY <2>0, <4>1 DEF Stale, TypeInv, SlotType
        <4>2. CASE OpenFails(o)
          BY <2>0, <4>2 DEF OpenFails, TypeInv, SlotType
        <4> QED BY <2>2, <4>1, <4>2
      <3>2. Spared(p)
        BY <1>3, <3>1 DEF Spared, Rows
      <3> QED BY <3>2, SparedPick
    <2>3. ASSUME NEW o \in Projects, NEW w \in Work, Produce(o, w)
          PROVE  PickInv'
      BY <2>3, ProduceSpares, SparedPick
    <2>4. ASSUME NEW o \in Projects, Replace(o)
          PROVE  PickInv'
      <3>1. Adds(o, EmptyFile) /\ slot' = slot /\ inflight' = inflight
        BY <2>4, EmptyIsFile, AddFile DEF Replace
      <3> QED BY <1>3, <3>1, AddsSpares, SparedPick
    <2>5. ASSUME NEW o \in Projects, Open(o)
          PROVE  PickInv'
      BY <2>5, OpenSpares, SparedPick
    <2>6. picked # {}
      OBVIOUS
    <2>7. CASE World \/ Opener \/ UNCHANGED vars
      BY <2>1, <2>2, <2>3, <2>4, <2>5, <2>7 DEF World, Opener
    <2>8. ASSUME Loop
          PROVE  PickInv'
      <3>1. \A o \in Projects :
               (Take(o) \/ TakeFails(o) \/ CorruptionError(o) \/ SpuriousError(o)
                  \/ StaleError(o)) => picked' = {}
        BY DEF Take, TakeFails, CorruptionError, SpuriousError, StaleError
      <3> QED BY <1>1, <1>2, <2>6, <2>8, <3>1
        DEF Loop, SyncRegistry, DropUnwanted, CollectOpened, ReopenReplaced, Sweep,
            EnqueuePeriodic, Pick, BackoffOver, Finish
    <2> QED BY <2>7, <2>8 DEF Next
  <1>4. \/ picked' = {} \/ (\E p \in Projects : Pick(p)) \/ picked' = picked
    <2>1. CASE World \/ Opener \/ UNCHANGED vars
      BY <2>1 DEF World, Opener, EditRegistry, Produce, Replace, Corrupt, Stale, Open,
                  OpenFails, vars
    <2>2. CASE Loop
      BY <2>2 DEF Loop, SyncRegistry, DropUnwanted, CollectOpened, ReopenReplaced, Sweep,
            EnqueuePeriodic, BackoffOver, Finish, Take, TakeFails,
            CorruptionError, SpuriousError, StaleError
    <2> QED BY <2>1, <2>2 DEF Next
  <1> QED
    BY <1>1, <1>2, <1>3, <1>4

\* A step starts no more jobs than there are lanes.
LEMMA LanesStep ==
    ASSUME IInv, [Next]_vars
    PROVE  LanesBounded'
  <1> USE DEF IInv
  <1> DEFINE B == {job \in inflight : job.priority > P_USER}
             O == {job \in RunningOcr : job.priority > P_USER}
  <1>0. /\ IsFiniteSet(inflight) /\ B \subseteq inflight /\ IsFiniteSet(B)
        /\ Cardinality(inflight) \in Nat /\ Cardinality(B) \in Nat
        /\ MaxConcurrent \in Nat /\ ReservedLanes \in Nat
    <2>1. IsFiniteSet(inflight) /\ B \subseteq inflight
      BY DEF TypeInv
    <2> QED BY <2>1, FS_Subset, FS_CardinalityType, SupervisorAssumption
  <1>5. /\ IsFiniteSet(RunningOcr) /\ IsFiniteSet(O)
        /\ Cardinality(RunningOcr) \in Nat /\ Cardinality(O) \in Nat
        /\ Cardinality(O) <= Cardinality(RunningOcr) /\ OcrMax \in Nat
    <2>1. RunningOcr \subseteq inflight /\ O \subseteq RunningOcr
      BY DEF RunningOcr
    <2>2. IsFiniteSet(RunningOcr)
      BY <1>0, <2>1, FS_Subset
    <2> HIDE DEF O
    <2> QED BY <2>1, <2>2, FS_Subset, FS_CardinalityType, SupervisorAssumption
  <1>4. /\ Cardinality(B) <= MaxConcurrent /\ Cardinality(inflight) <= MaxConcurrent + ReservedLanes
        /\ Cardinality(O) <= OcrMax
    BY DEF LanesBounded
  <1>1. CASE inflight' \subseteq inflight
    <2>1. B' \subseteq B
      BY <1>1
    <2>2. /\ Cardinality(inflight') <= Cardinality(inflight) /\ Cardinality(B') <= Cardinality(B)
          /\ Cardinality(inflight') \in Nat /\ Cardinality(B') \in Nat
      BY <1>0, <1>1, <2>1, FS_Subset, FS_CardinalityType
    <2>4. O' \subseteq O
      BY <1>1 DEF RunningOcr
    <2> HIDE DEF B, O
    <2>5. Cardinality(O') <= Cardinality(O) /\ Cardinality(O') \in Nat
      BY <1>5, <2>4, FS_Subset, FS_CardinalityType
    <2>3. /\ Cardinality(inflight') <= MaxConcurrent + ReservedLanes /\ Cardinality(B') <= MaxConcurrent
          /\ Cardinality(O') <= OcrMax
      BY <1>0, <1>4, <1>5, <2>2, <2>5
    <2> QED BY <2>3 DEF LanesBounded, B, O
  <1>2. ASSUME NEW p \in Projects, Take(p)
        PROVE  LanesBounded'
    <2> DEFINE d == Dequeued(p)
    <2>1. p \in picked /\ inflight' = inflight \cup {d} /\ d \notin inflight
      BY <1>2, TakeFacts
    <2>2. /\ Cardinality(inflight) < MaxConcurrent + ReservedLanes
          /\ \/ Cardinality(inflight) < MaxConcurrent
             \/ \A i \in Heads(Rows(p)) : Rows(p)[i].priority = P_USER
      BY <2>1 DEF PickInv
    <2>3. Cardinality(inflight') = Cardinality(inflight) + 1 /\ IsFiniteSet(inflight')
      <3> HIDE DEF d
      <3> QED BY <1>0, <2>1, FS_AddElement
    <2>6. Cardinality(O') <= OcrMax
      <3>1. \/ Cardinality(RunningOcr) < OcrMax
            \/ \A i \in Heads(Rows(p)) : ~BackgroundOcr(Rows(p)[i])
        BY <2>1 DEF PickInv
      <3>2. CASE Cardinality(RunningOcr) < OcrMax
        <4>1. O' \subseteq RunningOcr \cup {d}
          <5> HIDE DEF d
          <5> QED BY <2>1 DEF RunningOcr
        <4> HIDE DEF O, d
        <4>2. /\ IsFiniteSet(RunningOcr \cup {d})
              /\ \/ Cardinality(RunningOcr \cup {d}) = Cardinality(RunningOcr) + 1
                 \/ Cardinality(RunningOcr \cup {d}) = Cardinality(RunningOcr)
          BY <1>5, FS_AddElement
        <4>3. Cardinality(O') <= Cardinality(RunningOcr \cup {d}) /\ Cardinality(O') \in Nat
          BY <4>1, <4>2, FS_Subset, FS_CardinalityType
        <4> QED BY <1>5, <3>2, <4>2, <4>3
      <3>3. CASE \A i \in Heads(Rows(p)) : ~BackgroundOcr(Rows(p)[i])
        <4>1. ~(TypeOf[d.work] = "ocr" /\ d.priority > P_USER)
          BY <2>1, <3>3, HeadIs DEF Dequeued, HeadRow, BackgroundOcr
        <4>2. O' = O
          <5> HIDE DEF d
          <5> QED BY <2>1, <4>1 DEF RunningOcr
        <4> HIDE DEF O
        <4> QED BY <1>4, <4>2
      <3> QED BY <3>1, <3>2, <3>3
    <2> HIDE DEF O
    <2>4. CASE Cardinality(inflight) < MaxConcurrent
      <3>1. B' \subseteq inflight'
        OBVIOUS
      <3>2. Cardinality(B') <= Cardinality(inflight') /\ Cardinality(B') \in Nat
        BY <2>3, <3>1, FS_Subset, FS_CardinalityType
      <3> HIDE DEF B
      <3>3. Cardinality(B') <= MaxConcurrent /\ Cardinality(inflight') <= MaxConcurrent + ReservedLanes
        BY <1>0, <2>3, <2>4, <3>2
      <3> QED BY <2>6, <3>3 DEF LanesBounded, B, O
    <2>5. CASE \A i \in Heads(Rows(p)) : Rows(p)[i].priority = P_USER
      <3>1. d.priority = P_USER
        BY <2>1, <2>5, HeadIs DEF Dequeued, HeadRow
      <3>2. B' = B
        <4> HIDE DEF d
        <4>1. ~(d.priority > P_USER)
          BY <3>1 DEF P_USER
        <4> QED BY <2>1, <4>1
      <3> HIDE DEF B
      <3>3. Cardinality(B') <= MaxConcurrent /\ Cardinality(inflight') <= MaxConcurrent + ReservedLanes
        BY <1>0, <1>4, <2>2, <2>3, <3>2
      <3> QED BY <2>6, <3>3 DEF LanesBounded, B, O
    <2> QED BY <2>2, <2>4, <2>5
  <1>3. ASSUME NEW job \in inflight, Finish(job)
        PROVE  inflight' \subseteq inflight
    BY <1>3, FinishFacts DEF Ends
  <1> QED
    BY <1>1, <1>2, <1>3, ThreeWays

\* The invariant holds before the first turn of the loop.
LEMMA Initially == Init => IInv
  <1> SUFFICES ASSUME Init PROVE IInv
    OBVIOUS
  <1>1. /\ inflight = {} /\ picked = {} /\ slot = [p \in Projects |-> Absent]
        /\ db = [p \in Projects |-> <<EmptyFile>>]
    BY DEF Init
  <1>2. EmptyFile \in FileType /\ Absent \in SlotType /\ Absent.queue = 0
        /\ Absent.inflight = 0 /\ Absent.exclusive = FALSE
    BY EmptyIsFile, AbsentIs DEF Absent
  <1>3. <<EmptyFile>> \in Seq(FileType) /\ Len(<<EmptyFile>>) = 1
    BY <1>2
  <1>4. IsFiniteSet({}) /\ Cardinality({}) = 0
    BY FS_EmptySet
  <1>5. TypeInv
    BY <1>1, <1>2, <1>3, <1>4 DEF TypeInv, Init
  <1>6. \A p \in Projects : JobsOf(p) = {} /\ slot[p].inflight = 0 /\ slot[p].exclusive = FALSE
    BY <1>1, <1>2 DEF JobsOf
  <1>7. SlotInv /\ PickInv /\ JobInv /\ OneExclusive
    BY <1>1, <1>6 DEF SlotInv, PickInv, JobInv, OneExclusive
  <1>8. BooksBalance
    BY <1>4, <1>6 DEF BooksBalance
  <1>9. LanesBounded
    <2>1. /\ {job \in inflight : job.priority > P_USER} = {}
          /\ {job \in RunningOcr : job.priority > P_USER} = {}
      BY <1>1 DEF RunningOcr
    <2>2. MaxConcurrent \in Nat /\ ReservedLanes \in Nat /\ OcrMax \in Nat
      BY SupervisorAssumption
    <2> QED BY <1>1, <1>4, <2>1, <2>2 DEF LanesBounded
  <1>10. RowInv
    <2>1. DOMAIN EmptyFile.rows = {}
      BY EmptyIsFile
    <2> QED BY <1>1, <1>3, <2>1 DEF RowInv
  <1> QED
    BY <1>5, <1>7, <1>8, <1>9, <1>10 DEF IInv

\* No step of the world, the opener or the loop breaks the invariant.
THEOREM Invariance == Spec => []IInv
  <1>1. IInv /\ [Next]_vars => IInv'
    BY TypeStep, SlotStep, PickStep, RowStep, JobStep, BooksStep, LanesStep DEF IInv
  <1> QED
    BY Initially, <1>1, PTL DEF Spec

\* Every reachable state of the supervisor is well typed.
THEOREM TypeCorrect == Spec => []TypeOK
  <1>1. IInv => TypeOK
    <2> SUFFICES ASSUME IInv PROVE TypeOK
      OBVIOUS
    <2> USE DEF IInv
    <2>1. /\ registry \subseteq Projects /\ wanted \subseteq Projects
          /\ unread \in BOOLEAN /\ DOMAIN db = Projects /\ DOMAIN slot = Projects
          /\ corrupt \subseteq Projects /\ picked \subseteq Projects
      BY DEF TypeInv
    <2>2. ASSUME NEW p \in Projects
          PROVE  /\ \A e \in DOMAIN db[p] : IsTable(db[p][e].rows)
                 /\ slot[p].phase \in {"absent", "opening", "opened", "failed", "serving"}
                 /\ slot[p].queue \in 0 .. Current(p)
                 /\ slot[p].inflight \in Nat
                 /\ {slot[p].exclusive, slot[p].backoff, slot[p].stale} \subseteq BOOLEAN
      <3>1. db[p] \in Seq(FileType) /\ slot[p] \in SlotType /\ slot[p].queue <= Len(db[p])
        BY DEF TypeInv
      <3>2. \A e \in DOMAIN db[p] : e \in 1 .. Len(db[p])
        BY <3>1
      <3>3. \A e \in DOMAIN db[p] : IsTable(db[p][e].rows)
        BY <3>2, FileIs
      <3> QED BY <3>1, <3>3 DEF SlotType, Phases, Current
    <2>3. \A job \in inflight : job.project \in Projects /\ job.work \in Work /\ job.file \in Nat
      BY DEF TypeInv, JobType
    <2> QED BY <2>1, <2>2, <2>3 DEF TypeOK
  <1> QED
    BY <1>1, Invariance, PTL

\* _Slot.inflight and _Slot.exclusive agree with the pool, whatever happens to
\* the project's file, its connection and its place on the list.
THEOREM BooksBalanced == Spec => []BooksBalance
  <1>1. IInv => BooksBalance
    BY DEF IInv
  <1> QED
    BY <1>1, Invariance, PTL

\* Background work never takes a reserved lane, and user work no more than those,
\* although _dispatch peeks and dequeues in two statements.
THEOREM LanesKept == Spec => []LanesBounded
  <1>1. IInv => LanesBounded
    BY DEF IInv
  <1> QED
    BY <1>1, Invariance, PTL

\* While a project runs a scan, a reconcile or a vacuum it starts no other job.
THEOREM ExclusiveAlone == Spec => NothingJoinsExclusive
  <1> DEFINE A == \A p \in Projects :
                     slot[p].exclusive /\ (\E job \in JobsOf(p) : ExclusiveJob(job))
                     => JobsOf(p)' \subseteq JobsOf(p)
  <1>1. IInv /\ [Next]_vars => A
    <2> SUFFICES ASSUME IInv, [Next]_vars, NEW p \in Projects, slot[p].exclusive
                 PROVE  JobsOf(p)' \subseteq JobsOf(p)
      OBVIOUS
    <2>1. ASSUME NEW o \in Projects, Take(o)
          PROVE  JobsOf(p)' \subseteq JobsOf(p)
      <3>1. ~slot[o].exclusive
        BY <2>1, TakeFacts DEF PickInv, IInv
      <3>2. inflight' = inflight \cup {Dequeued(o)} /\ Dequeued(o).project = o
        BY <2>1, TakeFacts DEF Dequeued
      <3> QED BY <3>1, <3>2 DEF JobsOf
    <2>2. ASSUME NEW job \in inflight, Finish(job)
          PROVE  inflight' \subseteq inflight
      BY <2>2, FinishFacts DEF Ends
    <2> QED BY <2>1, <2>2, ThreeWays DEF JobsOf
  <1>2. IInv /\ [Next]_vars => [A]_vars
    BY <1>1
  <1> QED
    BY <1>2, Invariance, PTL DEF Spec, NothingJoinsExclusive

-----------------------------------------------------------------------------
(* Where no file turns corrupt and no error says that one did. *)

NoCorruption == "corrupt" \notin Faults /\ "spurious" \notin Faults

\* The row a job was claimed from is still its own.
Held(job, f) ==
    job.id \in DOMAIN f.rows =>
        /\ f.rows[job.id].status # "pending"
        /\ f.rows[job.id].status = "running" => f.rows[job.id].started_at = 1

HeldInv ==
    /\ corrupt = {}
    /\ \A job \in inflight : Held(job, db[job.project][job.file])

ClaimInv == HeldInv /\ ClaimsFollowTheFile /\ NoRowRunTwice

\* What a step may do to the rows of the jobs in flight.
Holds == \A job \in inflight : Held(job, db'[job.project][job.file])

LEMMA WritesHold ==
    ASSUME IInv, HeldInv, NEW p \in Projects, NEW e, NEW f, Writes(p, e, f),
           \A job \in JobsOf(p) : job.file = e => Held(job, f)
    PROVE  Holds
  <1> SUFFICES ASSUME NEW job \in inflight PROVE Held(job, db'[job.project][job.file])
    BY DEF Holds
  <1>1. job.project \in Projects /\ job.file \in 1 .. Len(db[job.project])
    BY DEF IInv, TypeInv, JobType, JobInv
  <1>2. CASE job.project = p /\ job.file = e
    BY <1>1, <1>2 DEF Writes, JobsOf
  <1>3. CASE ~(job.project = p /\ job.file = e)
    <2>1. db'[job.project][job.file] = db[job.project][job.file]
      BY <1>1, <1>3 DEF Writes
    <2> QED BY <2>1 DEF HeldInv
  <1> QED
    BY <1>2, <1>3

LEMMA AddsHold ==
    ASSUME IInv, HeldInv, NEW p \in Projects, NEW f, Adds(p, f)
    PROVE  Holds
  <1> SUFFICES ASSUME NEW job \in inflight PROVE Held(job, db'[job.project][job.file])
    BY DEF Holds
  <1>1. job.project \in Projects /\ job.file \in 1 .. Len(db[job.project])
    BY DEF IInv, TypeInv, JobType, JobInv
  <1>2. db'[job.project][job.file] = db[job.project][job.file]
    BY <1>1 DEF Adds
  <1> QED
    BY <1>2 DEF HeldInv

LEMMA PutHolds ==
    ASSUME IInv, HeldInv, NEW p \in Projects, NEW e \in 1 .. Len(db[p]),
           NEW w \in Work, NEW priority \in 0 .. 60, Put(p, e, w, priority)
    PROVE  Holds
  <1> DEFINE f == db[p][e]
             g == InsertedFile(f, w, priority)
  <1>1. Writes(p, e, g)
    BY PutFacts DEF IInv
  <1>2. f \in FileType /\ f.next \in Nat
    BY FileIs DEF IInv
  <1>3. /\ DOMAIN g.rows = DOMAIN f.rows \cup {f.next}
        /\ \A i \in DOMAIN f.rows : g.rows[i] = f.rows[i]
    <2> HIDE DEF f
    <2>1. priority \in Nat
      OBVIOUS
    <2> QED BY <1>2, <2>1, InsertedRows
  <1>4. ASSUME NEW job \in JobsOf(p), job.file = e
        PROVE  Held(job, g)
    <2>1. job.id < f.next /\ job.id \in Nat /\ Held(job, f)
      BY <1>4 DEF JobsOf, IInv, JobInv, HeldInv, TypeInv, JobType
    <2> HIDE DEF f, g
    <2>2. job.id # f.next
      BY <1>2, <2>1
    <2> QED BY <1>3, <2>1, <2>2 DEF Held
  <1> HIDE DEF g
  <1> QED
    BY <1>1, <1>4, WritesHold

\* A project with no job may be opened.
LEMMA OpenHolds ==
    ASSUME IInv, HeldInv, NEW p \in Projects, OpenSlot(p), JobsOf(p) = {}
    PROVE  Holds
  <1>1. p \notin corrupt
    BY DEF HeldInv
  <1>2. PICK f : Writes(p, Current(p), f)
    BY <1>1, OpenFacts DEF IInv
  <1> QED
    BY <1>2, WritesHold

LEMMA SweepHolds ==
    ASSUME IInv, ClaimInv, NEW p \in Projects, Sweep(p)
    PROVE  Holds
  <1> DEFINE e == slot[p].queue
             q == db[p][e].rows
             keep == {job.id : job \in JobsOf(p)}
             x == Reap(q, keep, 1)
  <1>1. e \in 1 .. Len(db[p])
    BY Connection DEF Sweep, IInv
  <1>2. Writes(p, e, [rows |-> x, next |-> db[p][e].next])
    BY <1>1, ReapGrows DEF Sweep, Now, IInv
  <1>3. IsTable(q)
    BY <1>1, FileIs DEF IInv
  <1>4. DOMAIN x \subseteq DOMAIN q
    BY <1>3, ReapAll
  <1>5. ASSUME NEW job \in JobsOf(p), job.file = e
        PROVE  Held(job, [rows |-> x, next |-> db[p][e].next])
    <2>1. Held(job, db[p][e]) /\ job.id \in keep
      BY <1>5 DEF JobsOf, ClaimInv, HeldInv
    <2>2. ASSUME job.id \in DOMAIN q
          PROVE  x[job.id] = q[job.id]
      <3>1. q[job.id].status = "running" => q[job.id].started_at = 1
        BY <2>1, <2>2 DEF Held
      <3>2. ~Older(1, 1)
        BY NowIsYoung
      <3>3. q[job.id].status # "running" \/ ~Older(q[job.id].started_at, 1)
        BY <3>1, <3>2
      <3> HIDE DEF q, keep
      <3> QED BY <1>3, <2>1, <2>2, <3>3, KeptStays
    <2> HIDE DEF x
    <2> QED BY <1>4, <2>1, <2>2 DEF Held
  <1> HIDE DEF x
  <1> QED
    BY <1>2, <1>5, WritesHold DEF ClaimInv

LEMMA FinishHolds ==
    ASSUME IInv, HeldInv, NEW job \in inflight, Finish(job)
    PROVE  Holds
  <1> DEFINE p == job.project
             e == slot[p].queue
             q == db[p][e].rows
  <1>1. CASE db' = db
    BY <1>1 DEF Holds, HeldInv
  <1>2. CASE CanWrite(p) /\ db' # db
    <2>1. p \in Projects /\ e \in 1 .. Len(db[p])
      BY <1>2, Connection DEF CanWrite, Readable, IInv, TypeInv, JobType
    <2>2. PICK x \in {MarkedDone(q, job.id), MarkedFailed(q, job.id)} :
              db' = [db EXCEPT ![p][e].rows = x]
      BY <1>2 DEF Finish
    <2>3. Writes(p, e, [rows |-> x, next |-> db[p][e].next])
      BY <2>1, <2>2, FinishGrows DEF IInv
    <2>4. IsTable(q)
      BY <2>1, FileIs DEF IInv
    <2>5. /\ DOMAIN x = DOMAIN q
          /\ \A i \in DOMAIN q : x[i] = q[i] \/ x[i].status \in {"done", "failed"}
      <3> HIDE DEF q
      <3>1. \A i \in DOMAIN q : q[i] \in Row
        BY <2>4 DEF IsTable
      <3> QED BY <3>1 DEF MarkedDone, MarkedFailed, Row
    <2>6. ASSUME NEW j \in JobsOf(p), j.file = e
          PROVE  Held(j, [rows |-> x, next |-> db[p][e].next])
      <3>1. Held(j, db[p][e])
        BY <2>6 DEF JobsOf, HeldInv
      <3> QED BY <2>5, <3>1 DEF Held
    <2> QED BY <2>1, <2>3, <2>6, WritesHold
  <1> QED
    BY <1>1, <1>2 DEF Finish

LEMMA TakeHolds ==
    ASSUME IInv, HeldInv, NEW p \in picked, Take(p) \/ TakeFails(p)
    PROVE  /\ Holds
           /\ \A job \in JobsOf(p) : job.file = slot[p].queue => job.id # HeadOf(p)
  <1> DEFINE e == slot[p].queue
             q == Rows(p)
             i == HeadOf(p)
             c == Claimed(q, i, 1)
  <1>1. /\ p \in Projects /\ e \in 1 .. Len(db[p]) /\ i \in DOMAIN q
        /\ q = db[p][e].rows /\ IsTable(q) /\ q[i].status = "pending"
    BY HeadIs DEF IInv
  <1>2. PICK x : (x = c \/ x = HandedBack(c, i)) /\ db' = [db EXCEPT ![p][e].rows = x]
    BY <1>1 DEF Take, TakeFails, Now
  <1>3. Writes(p, e, [rows |-> x, next |-> db[p][e].next])
    BY <1>2, TakeGrows DEF IInv
  <1>4. DOMAIN x = DOMAIN q /\ \A j \in DOMAIN q : j # i => x[j] = q[j]
    <2> HIDE DEF q, i
    <2>1. /\ DOMAIN c = DOMAIN q /\ IsTable(c)
          /\ \A j \in DOMAIN q : j # i => c[j] = q[j]
      BY <1>1, ClaimedType
    <2> HIDE DEF c
    <2>2. /\ DOMAIN HandedBack(c, i) = DOMAIN c
          /\ \A j \in DOMAIN c : j # i => HandedBack(c, i)[j] = c[j]
      BY <2>1, CloseType
    <2> QED BY <1>2, <2>1, <2>2
  <1>5. ASSUME NEW job \in JobsOf(p), job.file = e
        PROVE  job.id # i /\ Held(job, [rows |-> x, next |-> db[p][e].next])
    <2>1. Held(job, db[p][e])
      BY <1>5 DEF JobsOf, HeldInv
    <2> HIDE DEF q, i
    <2>2. job.id # i
      BY <1>1, <2>1 DEF Held
    <2> QED BY <1>1, <1>4, <2>1, <2>2 DEF Held
  <1> QED
    BY <1>1, <1>3, <1>5, WritesHold

\* A connection is swapped only where no job is in flight.
QueueKept ==
    \A job \in inflight :
        slot'[job.project].queue \in {0, slot[job.project].queue}

\* Such a step leaves the claims of the jobs in flight as they were.
LEMMA BusyKeeps ==
    ASSUME IInv, ClaimInv, NoCorruption, [Next]_vars,
           \A p \in Projects : ~Take(p), \A job \in inflight : ~Finish(job)
    PROVE  QueueKept /\ Holds /\ corrupt' = {}
  <1> USE DEF loop, disk, world, ClaimInv
  <1>0. /\ \A job \in inflight : job.project \in Projects
        /\ slot \in [Projects -> SlotType] /\ corrupt = {}
    BY DEF IInv, TypeInv, JobType, HeldInv
  <1>1. CASE slot' = slot /\ db' = db /\ corrupt' = corrupt
    BY <1>0, <1>1 DEF QueueKept, Holds, HeldInv
  <1>2. ASSUME slot' = slot
        PROVE  QueueKept
    BY <1>2 DEF QueueKept
  <1>3. ASSUME db' = db
        PROVE  Holds
    BY <1>3 DEF Holds, HeldInv
  <1>4. ASSUME NEW p \in Projects, slot[p].inflight = 0
        PROVE  JobsOf(p) = {}
    BY <1>4, IdleIs DEF IInv
  <1>5. ASSUME NEW p \in Projects, JobsOf(p) = {},
               \A o \in Projects : o # p => slot'[o] = slot[o]
        PROVE  QueueKept
    BY <1>0, <1>5 DEF QueueKept, JobsOf
  <1>6. CASE EditRegistry \/ UNCHANGED vars \/ \E p \in Projects : Pick(p)
    BY <1>1, <1>6 DEF EditRegistry, vars, Pick
  <1>7. ASSUME NEW p \in Projects, NEW w \in Work, Produce(p, w)
        PROVE  QueueKept /\ Holds /\ corrupt' = {}
    <2>1. PICK priority \in 0 .. 60 : Put(p, Current(p), w, priority)
      BY <1>7, PriorityIs DEF Produce
    <2>2. Current(p) \in 1 .. Len(db[p])
      BY DEF Current, TypeInv, IInv
    <2> QED BY <1>0, <1>2, <1>7, <2>1, <2>2, PutHolds DEF Produce
  <1>8. ASSUME NEW p \in Projects, NEW w \in Work, EnqueuePeriodic(p, w)
        PROVE  QueueKept /\ Holds /\ corrupt' = {}
    <2>1. PICK priority \in 0 .. 60 : Put(p, slot[p].queue, w, priority)
      BY <1>8, PriorityIs DEF EnqueuePeriodic
    <2>2. slot[p].queue \in 1 .. Len(db[p])
      BY <1>8, Connection DEF EnqueuePeriodic, IInv
    <2> QED BY <1>0, <1>2, <1>8, <2>1, <2>2, PutHolds DEF EnqueuePeriodic
  <1>9. ASSUME NEW p \in Projects, Replace(p)
        PROVE  QueueKept /\ Holds /\ corrupt' = {}
    <2>1. Adds(p, EmptyFile)
      BY <1>9, EmptyIsFile, AddFile DEF Replace, IInv
    <2> QED BY <1>0, <1>2, <1>9, <2>1, AddsHold DEF Replace
  <1>10. ASSUME NEW p \in Projects, Corrupt(p) \/ SpuriousError(p) \/ CorruptionError(p)
         PROVE  FALSE
    BY <1>0, <1>10 DEF NoCorruption, Corrupt, SpuriousError, CorruptionError, Fault,
                       Readable
  <1>11. ASSUME NEW p \in Projects, Stale(p) \/ BackoffOver(p)
         PROVE  QueueKept /\ Holds /\ corrupt' = {}
    <2>1. db' = db /\ corrupt' = corrupt
      BY <1>11 DEF Stale, BackoffOver
    <2>2. \A o \in Projects : slot'[o].queue = slot[o].queue
      <3>1. CASE Stale(p)
        BY <1>0, <3>1 DEF Stale, SlotType
      <3>2. CASE BackoffOver(p)
        BY <1>0, <3>2 DEF BackoffOver, SlotType
      <3> QED BY <1>11, <3>1, <3>2
    <2> QED BY <1>0, <1>3, <2>1, <2>2 DEF QueueKept
  <1>12. ASSUME NEW p \in Projects, Open(p) \/ OpenFails(p) \/ CollectOpened(p)
         PROVE  QueueKept /\ Holds /\ corrupt' = {}
    <2>1. slot[p].phase # "serving"
      BY <1>12 DEF Open, OpenFails, CollectOpened
    <2>2. JobsOf(p) = {}
      BY <1>4, <2>1 DEF IInv, SlotInv
    <2>3. \A o \in Projects : o # p => slot'[o] = slot[o]
      BY <1>0, <1>12 DEF Open, OpenFails, CollectOpened
    <2>4. /\ OpenSlot(p) \/ db' = db
          /\ corrupt' \in {corrupt, corrupt \ {p}}
      BY <1>12 DEF Open, OpenFails, CollectOpened
    <2> QED BY <1>0, <1>3, <1>5, <2>2, <2>3, <2>4, OpenHolds
  <1>13. CASE SyncRegistry \/ DropUnwanted
    <2>1. db' = db /\ corrupt' = corrupt
      BY <1>13 DEF SyncRegistry, DropUnwanted
    <2>2. ASSUME NEW o \in Projects
          PROVE  slot'[o].queue \in {0, slot[o].queue}
      <3>1. \/ slot'[o] = slot[o]
            \/ slot'[o] \in {Absent, [Absent EXCEPT !.phase = "opening"]}
        BY <1>13 DEF SyncRegistry, DropUnwanted, Dropped
      <3> QED BY <3>1 DEF Absent
    <2> QED BY <1>0, <1>3, <2>1, <2>2 DEF QueueKept
  <1>14. ASSUME NEW p \in Projects, ReopenReplaced(p) \/ StaleError(p)
         PROVE  QueueKept /\ Holds /\ corrupt' = {}
    <2>1. CASE slot[p].inflight = 0
      <3>1. JobsOf(p) = {}
        BY <1>4, <2>1
      <3>2. /\ \A o \in Projects : o # p => slot'[o] = slot[o]
            /\ OpenSlot(p) \/ db' = db
            /\ corrupt' \in {corrupt, corrupt \ {p}}
        BY <1>0, <1>14 DEF ReopenReplaced, StaleError, Reopen
      <3> QED BY <1>0, <1>3, <1>5, <3>1, <3>2, OpenHolds
    <2>2. CASE slot[p].inflight # 0
      <3>1. /\ slot' = [slot EXCEPT ![p].backoff = TRUE]
            /\ db' = db /\ corrupt' = corrupt
        BY <1>14, <2>2 DEF ReopenReplaced, StaleError, Idle
      <3>2. \A o \in Projects : slot'[o].queue = slot[o].queue
        BY <1>0, <3>1 DEF SlotType
      <3> QED BY <1>0, <1>3, <3>1, <3>2 DEF QueueKept
    <2> QED BY <2>1, <2>2
  <1>15. ASSUME NEW p \in Projects, TakeFails(p)
         PROVE  QueueKept /\ Holds /\ corrupt' = {}
    <2>1. p \in picked /\ slot' = slot /\ corrupt' = corrupt
      BY <1>15 DEF TakeFails
    <2> QED BY <1>0, <1>2, <1>15, <2>1, TakeHolds
  <1>16. ASSUME NEW p \in Projects, Sweep(p)
         PROVE  QueueKept /\ Holds /\ corrupt' = {}
    BY <1>0, <1>2, <1>16, SweepHolds DEF Sweep, ClaimInv
  <1> QED
    BY <1>6, <1>7, <1>8, <1>9, <1>10, <1>11, <1>12, <1>13, <1>14, <1>15, <1>16
    DEF Next, World, Opener, Loop

\* A step keeps every claim with its file and its row.
LEMMA ClaimStep ==
    ASSUME IInv, ClaimInv, NoCorruption, [Next]_vars
    PROVE  ClaimInv'
  <1> USE DEF ClaimInv
  <1>1. ASSUME \A p \in Projects : ~Take(p), \A job \in inflight : ~Finish(job)
        PROVE  ClaimInv'
    <2>1. QueueKept /\ Holds /\ corrupt' = {}
      BY <1>1, BusyKeeps
    <2>2. inflight' = inflight
      BY <1>1, CalmStep
    <2>3. HeldInv'
      BY <2>1, <2>2 DEF HeldInv, Holds, Held
    <2>4. ClaimsFollowTheFile'
      BY <2>1, <2>2 DEF ClaimsFollowTheFile, QueueKept
    <2>5. NoRowRunTwice'
      BY <2>2 DEF NoRowRunTwice
    <2> QED BY <2>3, <2>4, <2>5
  <1>2. ASSUME NEW job \in inflight, Finish(job)
        PROVE  ClaimInv'
    <2>1. PICK p : p = job.project /\ Ends(job, p)
      BY <1>2, FinishFacts
    <2>2. /\ inflight' \subseteq inflight
          /\ \A o \in Projects : slot'[o].queue = slot[o].queue
      BY <2>1 DEF Ends
    <2>3. Holds /\ corrupt' = corrupt
      BY <1>2, FinishHolds DEF Finish
    <2>4. \A j \in inflight : j.project \in Projects
      BY DEF IInv, TypeInv, JobType
    <2>5. HeldInv'
      BY <2>2, <2>3 DEF HeldInv, Holds, Held
    <2>6. ClaimsFollowTheFile'
      BY <2>2, <2>4 DEF ClaimsFollowTheFile
    <2>7. NoRowRunTwice'
      BY <2>2 DEF NoRowRunTwice
    <2> QED BY <2>5, <2>6, <2>7
  <1>3. ASSUME NEW p \in Projects, Take(p)
        PROVE  ClaimInv'
    <2> DEFINE d == Dequeued(p)
               e == slot[p].queue
               i == HeadOf(p)
    <2>1. /\ p \in picked /\ inflight' = inflight \cup {d}
          /\ \A o \in Projects : slot'[o].queue = slot[o].queue
          /\ Writes(p, e, [rows |-> Claimed(Rows(p), i, 1), next |-> db[p][e].next])
      BY <1>3, TakeFacts
    <2>2. /\ e \in 1 .. Len(db[p]) /\ i \in DOMAIN Rows(p) /\ IsTable(Rows(p))
      BY <2>1, HeadIs DEF IInv
    <2>3. /\ Holds /\ corrupt' = corrupt
          /\ \A job \in JobsOf(p) : job.file = e => job.id # i
      BY <1>3, <2>1, TakeHolds DEF Take
    <2>4. d.project = p /\ d.file = e /\ d.id = i
      BY DEF Dequeued
    <2>5. \A j \in inflight : j.project \in Projects
      BY DEF IInv, TypeInv, JobType
    <2>6. Held(d, db'[p][e])
      <3>1. db'[p][e] = [rows |-> Claimed(Rows(p), i, 1), next |-> db[p][e].next]
        BY <2>1, <2>2 DEF Writes
      <3>2. /\ Claimed(Rows(p), i, 1)[i].status = "running"
            /\ Claimed(Rows(p), i, 1)[i].started_at = 1
        BY <2>2, ClaimCounts
      <3> HIDE DEF d, e, i
      <3> QED BY <2>4, <3>1, <3>2 DEF Held
    <2> HIDE DEF d, e, i
    <2>7. HeldInv'
      <3>1. corrupt' = {}
        BY <2>3 DEF HeldInv
      <3>2. \A job \in inflight' : Held(job, db'[job.project][job.file])
        BY <2>1, <2>3, <2>4, <2>6 DEF Holds
      <3> QED BY <3>1, <3>2 DEF HeldInv, Held
    <2>8. ClaimsFollowTheFile'
      BY <2>1, <2>4, <2>5 DEF ClaimsFollowTheFile, e
    <2>9. NoRowRunTwice'
      BY <2>1, <2>3, <2>4 DEF NoRowRunTwice, JobsOf
    <2> QED BY <2>7, <2>8, <2>9
  <1> QED
    BY <1>1, <1>2, <1>3

\* The row a job was claimed from stays its own until the job is closed.
THEOREM ClaimsKept ==
    ASSUME NoCorruption
    PROVE  Spec => []ClaimInv
  <1>1. Init => ClaimInv
    BY DEF Init, ClaimInv, HeldInv, ClaimsFollowTheFile, NoRowRunTwice
  <1>2. IInv /\ ClaimInv /\ [Next]_vars => ClaimInv'
    BY ClaimStep
  <1> QED
    BY <1>1, <1>2, Invariance, PTL DEF Spec

\* Without corruption the closing write of a job goes to the file it was claimed
\* in: _reopen_slot is only reached with no job in flight.
THEOREM ClaimsFollow ==
    ASSUME NoCorruption
    PROVE  Spec => []ClaimsFollowTheFile
  <1>1. ClaimInv => ClaimsFollowTheFile
    BY DEF ClaimInv
  <1> QED
    BY <1>1, ClaimsKept, PTL

\* Without corruption no row is in the hands of two jobs: neither the boot reap
\* of an opening nor the sweep takes the row of a running job.
THEOREM RowsRunOnce ==
    ASSUME NoCorruption
    PROVE  Spec => []NoRowRunTwice
  <1>1. ClaimInv => NoRowRunTwice
    BY DEF ClaimInv
  <1> QED
    BY <1>1, ClaimsKept, PTL
=============================================================================
