------------------------------ MODULE JobQueue ------------------------------
(***************************************************************************)
(* The work_queue table of rtfm/core/queue.py, as a value.                 *)
(*                                                                         *)
(* A table is a function from the ids present in it to rows.  Each         *)
(* operator below is one SQL statement of class Queue, from a table to the *)
(* table it leaves.  The connection is opened with isolation_level=None,   *)
(* so every statement commits by itself: the modules that use these        *)
(* operators decide what may happen between two of them.                   *)
(*                                                                         *)
(* A (type, payload) pair is one element of Work: nothing the queue does   *)
(* looks inside it except to compare it with another.                      *)
(*                                                                         *)
(* Definitions named Mutant_... are plausible mistakes in the definition   *)
(* that follows them.  No action uses them: each is there to show that a   *)
(* property checked on the real definition would notice the mistake.       *)
(***************************************************************************)
EXTENDS Integers, FiniteSets

CONSTANTS
    Work,          \* the (type, payload) pairs that producers ask for
    MaxAttempts,   \* reap_zombies(max_attempts): 3 in the code
    TicksPerDay,   \* clock ticks in a calendar day
    MaxAge         \* reap_zombies(max_age_seconds) in ticks: three hours

ASSUME QueueAssumption ==
    /\ MaxAttempts \in Nat \ {0}
    /\ TicksPerDay \in Nat \ {0}
    /\ MaxAge \in Nat

Statuses == {"pending", "running", "done", "failed"}

\* started_at is 0 where the column is NULL: clocks start at 1.
Row == [work: Work, priority: Nat, status: Statuses,
        created_at: Nat, started_at: Nat, attempts: Nat]

IsTable(q) == /\ DOMAIN q \subseteq Nat \ {0}
              /\ q \in [DOMAIN q -> Row]

Having(q, s) == {i \in DOMAIN q : q[i].status = s}

\* idx_queue_unique_pending: at most one pending row per (type, payload).
UniquePending(q) ==
    \A i, j \in Having(q, "pending") : q[i].work = q[j].work => i = j

HasPending(q, w) == \E i \in Having(q, "pending") : q[i].work = w

Only(q, ids) == [i \in ids |-> q[i]]              \* DELETE ... the others

\* A row as INSERT leaves it.
NewRow(w, p, now) ==
    [work |-> w, priority |-> p, status |-> "pending",
     created_at |-> now, started_at |-> 0, attempts |-> 0]

\* INSERT of the works of S that no pending row holds already.  An id is an
\* AUTOINCREMENT key: never reused, so the new ones follow the last one ever
\* given, in the order the caller lists the payloads (numbering).
Mutant_NewIn(q, S) ==          \* dedup against running rows too
    {w \in S : \A i \in DOMAIN q :
        q[i].work = w => q[i].status \notin {"pending", "running"}}

NewIn(q, S) == {w \in S : ~HasPending(q, w)}

Numberings(q, S, next) ==
    LET new == NewIn(q, S)
    IN  {f \in [new -> next .. next + Cardinality(new) - 1] :
            \A v, w \in new : f[v] = f[w] => v = w}

Inserted(q, numbering, p, now) ==
    LET ids == {numbering[w] : w \in DOMAIN numbering}
    IN  [i \in DOMAIN q \cup ids |->
            IF i \in ids
            THEN NewRow(CHOOSE w \in DOMAIN numbering : numbering[w] = i, p, now)
            ELSE q[i]]

-----------------------------------------------------------------------------
(* The consumer's statements. *)

\* ORDER BY priority ASC, created_at ASC over the partial index, whose
\* entries of equal key are in rowid order.
Precedes(q, i, j) ==
    \/ q[i].priority < q[j].priority
    \/ /\ q[i].priority = q[j].priority
       /\ \/ q[i].created_at < q[j].created_at
          \/ q[i].created_at = q[j].created_at /\ i < j

Heads(q) ==
    {i \in Having(q, "pending") :
        \A j \in Having(q, "pending") : i = j \/ Precedes(q, i, j)}

Mutant_Claimed(q, id, now) ==  \* counts down
    [i \in DOMAIN q |->
        IF i = id
        THEN [q[i] EXCEPT !.status = "running", !.started_at = now,
                          !.attempts = @ - 1]
        ELSE q[i]]

Claimed(q, id, now) ==
    [i \in DOMAIN q |->
        IF i = id
        THEN [q[i] EXCEPT !.status = "running", !.started_at = now,
                          !.attempts = @ + 1]
        ELSE q[i]]

\* The closing writes name the row by id and check nothing else of it; an id
\* that is not in the table updates no row.
MarkedDone(q, id) ==
    [i \in DOMAIN q |-> IF i = id THEN [q[i] EXCEPT !.status = "done"] ELSE q[i]]

MarkedFailed(q, id) ==
    [i \in DOMAIN q |-> IF i = id THEN [q[i] EXCEPT !.status = "failed"] ELSE q[i]]

\* mark_pending, before the unique index has its say.
HandedBack(q, id) ==
    [i \in DOMAIN q |->
        IF i = id
        THEN [q[i] EXCEPT !.status = "pending", !.started_at = 0,
                          !.attempts = IF @ > 0 THEN @ - 1 ELSE 0]
        ELSE q[i]]

\* An UPDATE the unique index rejects changes nothing and raises.
Rejected(q) == ~UniquePending(q)
IfAllowed(new, old) == IF Rejected(new) THEN old ELSE new

-----------------------------------------------------------------------------
(* reap_zombies: four statements. *)

\* started_at is written '2026-07-28T09:00:00.000Z', and compared as text with
\* datetime('now', ...), which reads '2026-07-28 06:00:00'.  On the same day
\* 'T' sorts after ' ', so the claim is older only if its day is.
Day(t) == t \div TicksPerDay
Older(started, now) == Day(started) < Day(now - MaxAge)

Mutant_Zombies(q, keep, now) ==      \* AND where the code says OR
    {i \in Having(q, "running") : i \notin keep /\ Older(q[i].started_at, now)}

\* The running rows that are not the caller's, or that it has held too long.
Zombies(q, keep, now) ==
    {i \in Having(q, "running") : i \notin keep \/ Older(q[i].started_at, now)}

Mutant_ReapFail(q, keep, now) ==     \* attempts > max_attempts
    [i \in DOMAIN q |->
        IF i \in Zombies(q, keep, now) /\ q[i].attempts > MaxAttempts
        THEN [q[i] EXCEPT !.status = "failed"] ELSE q[i]]

ReapFail(q, keep, now) ==
    [i \in DOMAIN q |->
        IF i \in Zombies(q, keep, now) /\ q[i].attempts >= MaxAttempts
        THEN [q[i] EXCEPT !.status = "failed"] ELSE q[i]]

ReapTwins(q, keep, now) ==
    Only(q, {i \in DOMAIN q : i \in Zombies(q, keep, now)
                                => ~HasPending(q, q[i].work)})

Mutant_Outranks(q, i, j) == q[i].attempts > q[j].attempts   \* no tie-break

\* ROW_NUMBER() OVER (PARTITION BY type, payload
\*                    ORDER BY attempts DESC, id ASC) = 1 among the rows S.
Outranks(q, i, j) == \/ q[i].attempts > q[j].attempts
                     \/ q[i].attempts = q[j].attempts /\ i < j
FirstOf(q, S) ==
    {i \in S : \A j \in S : q[j].work = q[i].work /\ i # j => Outranks(q, i, j)}

\* The ranking is over every running row, the kept ones included.
ReapDuplicates(q, keep, now) ==
    Only(q, {i \in DOMAIN q : i \in Zombies(q, keep, now)
                                => i \in FirstOf(q, Having(q, "running"))})

ReapRequeue(q, keep, now) ==
    [i \in DOMAIN q |->
        IF i \in Zombies(q, keep, now)
        THEN [q[i] EXCEPT !.status = "pending", !.started_at = 0]
        ELSE q[i]]

\* The four in a row, with nothing between them.
Reap(q, keep, now) ==
    LET q1 == ReapFail(q, keep, now)
        q2 == ReapTwins(q1, keep, now)
        q3 == ReapDuplicates(q2, keep, now)
    IN  ReapRequeue(q3, keep, now)

-----------------------------------------------------------------------------
(* retry_failed: three statements. *)

RetryTwins(q) ==
    Only(q, {i \in DOMAIN q : q[i].status = "failed"
                                => ~HasPending(q, q[i].work)})

RetryCoalesce(q) ==
    Only(q, {i \in DOMAIN q : q[i].status = "failed"
                                => i \in FirstOf(q, Having(q, "failed"))})

Mutant_RetryRequeue(q) ==            \* running rows too
    [i \in DOMAIN q |->
        IF q[i].status \in {"failed", "running"}
        THEN [q[i] EXCEPT !.status = "pending", !.started_at = 0]
        ELSE q[i]]

RetryRequeue(q) ==
    [i \in DOMAIN q |->
        IF q[i].status = "failed"
        THEN [q[i] EXCEPT !.status = "pending", !.started_at = 0]
        ELSE q[i]]

Retry(q) == RetryRequeue(RetryCoalesce(RetryTwins(q)))
=============================================================================
