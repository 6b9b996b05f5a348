--------------------------- MODULE ReadingProofs ----------------------------
(***************************************************************************)
(* For any files, contents and setups: an answer that waited for a scan or *)
(* for repairs has earned what it says (Answers).  For any paths and       *)
(* rules: the index follows the rules, and the watcher hears of what the   *)
(* scan lists (Selection).  For any file of any format: its passages hold  *)
(* it and cite it where it stands (Passages).                              *)
(***************************************************************************)
EXTENDS PassagesProofs

-----------------------------------------------------------------------------
(* Answers: the invariant.  What the reader waits for is tied, file by      *)
(* file, to what the jobs saw: a file that is steady since the question is  *)
(* in the index as it is on disk, or has a job among those waited for, and  *)
(* no running job holds an older sight of it.                               *)

Trees == [Files -> Contents \cup {Absent}]
Sightings == [tree : Trees, mounted : BOOLEAN]
Rows == [work : Work, status : Statuses, saw : Views]
Waiting == {"empty", "draining", "scanning", "settling"}
Shown == UNION {[S -> Contents \cup {Absent}] : S \in SUBSET Files}
Readers == [pc : Waiting \cup {"idle", "verify", "repairing", "answered"},
            op : {"search", "expand"}, visiting : BOOLEAN, ids : SUBSET Nat,
            looked : BOOLEAN, repaired : SUBSET Files, misled : BOOLEAN,
            entries : Shown, marks : SUBSET Files]

\* A job that runs has looked at the disk.
QueueTyped ==
    /\ queue \in Seq(Rows)
    /\ \A i \in Running(queue) : queue[i].saw \in Sightings
\* A scan runs alone.
ScanAlone == \A i, j \in Running(queue) : queue[i].work = Scan => i = j
\* Files are steady only under a mounted volume: a change of mount forgets them.
World ==
    /\ disk \in Trees /\ index \in Trees /\ mounted \in BOOLEAN
    /\ known \subseteq Files \X Broken /\ up \in BOOLEAN
    /\ steady \subseteq Files /\ (steady # {} => mounted)
    /\ QueueTyped /\ ScanAlone
\* Only a search comes back empty and looks again; repairs come last.
Reader ==
    /\ reader \in Readers
    /\ reader.ids \subseteq DOMAIN queue
    /\ reader.pc \in Waiting => reader.op = "search"
    /\ reader.looked => reader.op = "search" /\ reader.pc \in {"verify", "repairing", "answered"}
    /\ reader.pc \in Waiting \cup {"idle", "verify"} => reader.repaired = {}

\* The jobs that ingest f saw the file as it is.
Sighted(f) ==
    \A i \in Running(queue) : queue[i].work = <<"ingest", f>> => queue[i].saw.tree[f] = disk[f]
\* In the index as it is, or known to the parser as what it cannot read.
Current(f) == index[f] = disk[f] \/ Unreadable(f)
\* One of the jobs waited for is to ingest f.
Awaited(f, ids) == \E i \in ids \cap Live(queue) : queue[i].work = <<"ingest", f>>
Good(f, ids) == Sighted(f) /\ (Current(f) \/ Awaited(f, ids))

\* The scan waited for is to come; or sees the steady files; or is done, and has
\* left each of them current or with a job.
ScanInHand(id) ==
    /\ id \in DOMAIN queue /\ queue[id].work = Scan
    /\ \/ queue[id].status = "pending"
       \/ /\ queue[id].status = "running"
          /\ \A f \in steady : queue[id].saw.mounted /\ queue[id].saw.tree[f] = disk[f]
       \/ /\ queue[id].status = "done"
          /\ \A f \in steady : disk[f] # Absent => Good(f, Live(queue))
Scanning ==
    reader.pc = "scanning" /\ ~reader.misled =>
        \E id \in DOMAIN queue : reader.ids = {id} /\ ScanInHand(id)
Settling ==
    reader.pc = "settling" /\ ~reader.misled =>
        \A f \in steady : disk[f] # Absent => Good(f, reader.ids)
Looked ==
    reader.looked =>
        \A f \in steady : disk[f] \in Matches =>
            /\ Sighted(f) /\ Current(f)
            /\ Unreadable(f) \/ f \in DOMAIN reader.entries
Repairing ==
    reader.pc = "repairing" /\ ~reader.misled =>
        \A f \in reader.repaired \cap steady : disk[f] # Absent /\ Good(f, reader.ids)
Answering ==
    reader.pc = "answered" /\ ~reader.misled =>
        \A f \in reader.repaired \cap steady \cap DOMAIN reader.entries :
            Sighted(f) /\ (reader.entries[f] = disk[f] \/ Unreadable(f))
\* Each place where the reader waits, and each kind of answer, has its own part.
Waits == Scanning /\ Settling /\ Looked /\ Repairing /\ Answering
AnswersInv == World /\ Reader /\ Waits

-----------------------------------------------------------------------------
(* Operators of the queue. *)

LEMMA MinIsIn ==
    ASSUME NEW S, S \subseteq Nat, S # {}
    PROVE  Min(S) \in S
  <1>1. \E m \in S : \A n \in S : m <= n
    BY Least
  <1>2. QED
    BY <1>1 DEF Min

\* SetToSeq lists every member of a finite set.
LEMMA Listed ==
    ASSUME NEW S, IsFiniteSet(S)
    PROVE  /\ SetToSeq(S) \in Seq(S)
           /\ \A x \in S : \E n \in DOMAIN SetToSeq(S) : SetToSeq(S)[n] = x
  <1> DEFINE c == Cardinality(S)
             s == SetToSeq(S)
  <1>1. c \in Nat /\ Bijection(1 .. c, S) # {}
    BY FS_CardinalityType DEF ExistsBijection
  <1>2. PICK g : g \in Injection(1 .. c, S)
    BY <1>1 DEF Bijection
  <1>3. g \in [1 .. c -> S] /\ IsInjective(g)
    BY <1>2 DEF Injection
  <1>4. s \in [1 .. c -> S] /\ IsInjective(s)
    BY <1>3 DEF SetToSeq
  <1>5. s \in Injection(1 .. c, S)
    BY <1>4 DEF Injection
  <1>6. IsFiniteSet(1 .. c) /\ Cardinality(1 .. c) = c
    <2>1. IsFiniteSet(1 .. c) /\ Cardinality(1 .. c) = IF 1 > c THEN 0 ELSE c - 1 + 1
      BY <1>1, FS_Interval
    <2>2. QED
      BY <1>1, <2>1
  <1>7. s \in Surjection(1 .. c, S)
    <2> HIDE DEF s
    <2>1. QED
      BY <1>5, <1>6, FS_Injection
  <1>8. s \in Seq(S)
    <2> HIDE DEF s, c
    <2>1. QED
      BY <1>1, <1>4
  <1>9. QED
    BY <1>4, <1>7, <1>8 DEF Surjection

\* The queue only grows, by jobs to do.
Grown(q, r) ==
    /\ r \in Seq(Rows)
    /\ DOMAIN q \subseteq DOMAIN r
    /\ \A i \in DOMAIN q : r[i] = q[i]
    /\ \A i \in DOMAIN r \ DOMAIN q : r[i].status = "pending"

LEMMA RowTyped ==
    ASSUME NEW work \in Work
    PROVE  /\ Row(work) \in Rows
           /\ Row(work).work = work /\ Row(work).status = "pending"
  BY DEF Row, Rows, Statuses, Views

LEMMA GrownTwice ==
    ASSUME NEW q, NEW r, NEW s, Grown(q, r), Grown(r, s)
    PROVE  Grown(q, s)
  BY DEF Grown

LEMMA OneQueued ==
    ASSUME NEW q \in Seq(Rows), NEW work \in Work
    PROVE  /\ Grown(q, enqueue(q, work))
           /\ Queued(enqueue(q, work), work)
           /\ ~Queued(q, work) =>
                 /\ Len(q) + 1 \in DOMAIN enqueue(q, work) \ DOMAIN q
                 /\ enqueue(q, work)[Len(q) + 1].work = work
  <1>1. CASE Queued(q, work)
    BY <1>1 DEF Grown, enqueue
  <1>2. CASE ~Queued(q, work)
    <2> DEFINE r == Append(q, Row(work))
    <2>1. Row(work) \in Rows /\ Row(work).work = work /\ Row(work).status = "pending"
      BY RowTyped
    <2>2. /\ r \in Seq(Rows) /\ Len(r) = Len(q) + 1
          /\ \A i \in 1 .. Len(q) : r[i] = q[i]
          /\ r[Len(q) + 1] = Row(work)
      BY <2>1, AppendProperties
    <2>3. Len(q) \in Nat /\ DOMAIN q = 1 .. Len(q) /\ DOMAIN r = 1 .. Len(q) + 1
      BY <2>2, LenProperties
    <2>4. enqueue(q, work) = r
      BY <1>2 DEF enqueue
    <2> HIDE DEF r
    <2>5. QED
      BY <2>1, <2>2, <2>3, <2>4 DEF Grown, Queued
  <1>3. QED
    BY <1>1, <1>2

LEMMA ManyQueued ==
    ASSUME NEW q \in Seq(Rows), NEW works, works \subseteq Work, IsFiniteSet(works)
    PROVE  /\ Grown(q, enqueue_many(q, works))
           /\ \A work \in works :
                 \/ Queued(q, work)
                 \/ \E i \in DOMAIN enqueue_many(q, works) \ DOMAIN q :
                       enqueue_many(q, works)[i].work = work
  <1> DEFINE T == {work \in works : ~Queued(q, work)}
             new == SetToSeq(T)
             rows == [n \in DOMAIN new |-> Row(new[n])]
             r == enqueue_many(q, works)
  <1>1. IsFiniteSet(T)
    BY FS_Subset
  <1>2. new \in Seq(T) /\ \A work \in T : \E n \in DOMAIN new : new[n] = work
    <2> HIDE DEF T
    <2>1. QED
      BY <1>1, Listed
  <1>3. Len(new) \in Nat /\ DOMAIN new = 1 .. Len(new) /\ \A n \in DOMAIN new : new[n] \in T
    <2> HIDE DEF T, new
    <2>1. QED
      BY <1>2, LenProperties, ElementOfSeq
  <1>4. \A n \in DOMAIN new : /\ rows[n] \in Rows /\ rows[n].work = new[n]
                              /\ rows[n].status = "pending"
    <2> HIDE DEF new
    <2>1. QED
      BY <1>3, RowTyped
  <1>5. rows \in Seq(Rows) /\ Len(rows) = Len(new)
    <2>1. rows \in [1 .. Len(new) -> Rows]
      <3> HIDE DEF new
      <3>1. QED
        BY <1>3, <1>4
    <2> HIDE DEF rows, new
    <2>2. QED
      BY <1>3, <2>1
  <1>6. r = q \o rows
    BY DEF enqueue_many
  <1>7. /\ r \in Seq(Rows) /\ Len(r) = Len(q) + Len(rows)
        /\ \A i \in 1 .. Len(q) + Len(rows) :
              r[i] = IF i <= Len(q) THEN q[i] ELSE rows[i - Len(q)]
    <2> HIDE DEF r, rows
    <2>1. QED
      BY <1>5, <1>6, ConcatProperties
  <1>8. Len(q) \in Nat /\ DOMAIN q = 1 .. Len(q) /\ DOMAIN r = 1 .. Len(q) + Len(new)
    <2> HIDE DEF r, rows, new
    <2>1. QED
      BY <1>5, <1>7, LenProperties
  <1>9. Grown(q, r)
    <2> HIDE DEF r, rows, new
    <2>1. \A i \in DOMAIN r \ DOMAIN q : /\ i - Len(q) \in DOMAIN new
                                         /\ r[i] = rows[i - Len(q)]
      BY <1>3, <1>5, <1>7, <1>8
    <2>2. \A i \in DOMAIN q : i \in DOMAIN r /\ r[i] = q[i]
      BY <1>3, <1>5, <1>7, <1>8
    <2>3. QED
      BY <1>4, <1>7, <2>1, <2>2 DEF Grown
  <1>10. \A work \in T : \E i \in DOMAIN r \ DOMAIN q : r[i].work = work
    <2> SUFFICES ASSUME NEW work \in T
                 PROVE  \E i \in DOMAIN r \ DOMAIN q : r[i].work = work
      OBVIOUS
    <2>1. PICK n \in DOMAIN new : new[n] = work
      BY <1>2
    <2> HIDE DEF r, rows, new, T
    <2>2. /\ Len(q) + n \in DOMAIN r \ DOMAIN q
          /\ r[Len(q) + n] = rows[n]
      BY <1>3, <1>5, <1>7, <1>8
    <2>3. QED
      BY <1>4, <2>1, <2>2
  <1> HIDE DEF r
  <1>11. QED
    BY <1>9, <1>10 DEF r

LEMMA IdFound ==
    ASSUME NEW q \in Seq(Rows), NEW work \in Work
    PROVE  /\ Queued(q, work) => /\ IdOf(q, work) \in Live(q)
                                 /\ q[IdOf(q, work)].work = work
           /\ ~Queued(q, work) => IdOf(q, work) = Len(q) + 1 /\ IdOf(q, work) \notin DOMAIN q
  <1>1. Len(q) \in Nat /\ DOMAIN q = 1 .. Len(q)
    BY LenProperties
  <1>2. CASE Queued(q, work)
    <2> DEFINE S == {i \in Live(q) : q[i].work = work}
    <2>1. S # {} /\ S \subseteq Nat
      BY <1>1, <1>2 DEF Queued, Live
    <2>2. Min(S) \in S
      <3> HIDE DEF S
      <3>1. QED
        BY <2>1, MinIsIn
    <2>3. QED
      BY <1>2, <2>2 DEF IdOf
  <1>3. CASE ~Queued(q, work)
    BY <1>1, <1>3 DEF IdOf
  <1>4. QED
    BY <1>2, <1>3

\* What a reader waits for is a job for each stale file, in the queue.
LEMMA IdsFound ==
    ASSUME NEW q \in Seq(Rows), NEW stale \in SUBSET Files, IsFiniteSet(Files)
    PROVE  /\ Grown(q, requeue(q, stale))
           /\ RequeueIds(q, stale) \subseteq DOMAIN requeue(q, stale)
           /\ \A f \in stale : \E i \in RequeueIds(q, stale) :
                 /\ i \in Live(requeue(q, stale))
                 /\ requeue(q, stale)[i].work = <<"ingest", f>>
  <1> DEFINE works == {<<"ingest", f>> : f \in stale}
             r == requeue(q, stale)
             Twin(f) == CHOOSE i \in DOMAIN r \ DOMAIN q : r[i].work = <<"ingest", f>>
             Id(f) == IF IdOf(q, <<"ingest", f>>) \in DOMAIN q
                      THEN IdOf(q, <<"ingest", f>>) ELSE Twin(f)
  <1>1. works \subseteq Work
    BY DEF Work
  <1>2. IsFiniteSet(works)
    <2>1. IsFiniteSet({"ingest"} \X Files)
      BY FS_Singleton, FS_Product
    <2>2. works \subseteq {"ingest"} \X Files
      OBVIOUS
    <2>3. QED
      BY <2>1, <2>2, FS_Subset
  <1>3. /\ Grown(q, r)
        /\ \A work \in works : \/ Queued(q, work)
                               \/ \E i \in DOMAIN r \ DOMAIN q : r[i].work = work
    <2> HIDE DEF works
    <2>1. r = enqueue_many(q, works)
      BY DEF requeue, works
    <2>2. QED
      BY <1>1, <1>2, <2>1, ManyQueued
  <1>4. \A f \in stale : /\ Id(f) \in Live(r) /\ r[Id(f)].work = <<"ingest", f>>
    <2> SUFFICES ASSUME NEW f \in stale
                 PROVE  Id(f) \in Live(r) /\ r[Id(f)].work = <<"ingest", f>>
      OBVIOUS
    <2> DEFINE work == <<"ingest", f>>
    <2>1. work \in Work /\ work \in works
      BY <1>1
    <2> HIDE DEF works, work, r
    <2>2. CASE Queued(q, work)
      <3>1. IdOf(q, work) \in Live(q) /\ q[IdOf(q, work)].work = work
        BY <2>1, <2>2, IdFound
      <3>2. IdOf(q, work) \in DOMAIN q
        BY <3>1 DEF Live
      <3>3. Id(f) = IdOf(q, work)
        BY <3>2 DEF work
      <3>4. QED
        BY <1>3, <3>1, <3>2, <3>3 DEF Grown, Live, work
    <2>3. CASE ~Queued(q, work)
      <3>1. \E i \in DOMAIN r \ DOMAIN q : r[i].work = work
        BY <1>3, <2>1, <2>3
      <3>2. Twin(f) \in DOMAIN r \ DOMAIN q /\ r[Twin(f)].work = work
        BY <3>1 DEF work
      <3>3. Id(f) = Twin(f)
        BY <2>1, <2>3, IdFound DEF work
      <3> HIDE DEF Twin, Id
      <3>4. QED
        BY <1>3, <3>2, <3>3 DEF Grown, Live, work
    <2>4. QED
      BY <2>2, <2>3
  <1>5. RequeueIds(q, stale) = {Id(f) : f \in stale}
    BY DEF RequeueIds
  <1> HIDE DEF Id, Twin, r
  <1>6. QED
    BY <1>3, <1>4, <1>5 DEF Live, r
-----------------------------------------------------------------------------
(* What a step does to the queue. *)

LEMMA SeqOfFunction ==
    ASSUME NEW S, NEW n \in Nat, NEW g \in [1 .. n -> S]
    PROVE  g \in Seq(S)
  OBVIOUS

Updated(q, i, st, sw) == [q EXCEPT ![i].status = st, ![i].saw = sw]

LEMMA RowUpdated ==
    ASSUME NEW q \in Seq(Rows), NEW i \in DOMAIN q, NEW st \in Statuses, NEW sw \in Views
    PROVE  /\ Updated(q, i, st, sw) \in Seq(Rows)
           /\ DOMAIN Updated(q, i, st, sw) = DOMAIN q
           /\ \A j \in DOMAIN q \ {i} : Updated(q, i, st, sw)[j] = q[j]
           /\ Updated(q, i, st, sw)[i].work = q[i].work
           /\ Updated(q, i, st, sw)[i].status = st /\ Updated(q, i, st, sw)[i].saw = sw
  <1> DEFINE r == Updated(q, i, st, sw)
  <1>1. Len(q) \in Nat /\ DOMAIN q = 1 .. Len(q) /\ q \in [1 .. Len(q) -> Rows]
    BY LenProperties
  <1>2. q[i] \in Rows
    BY <1>1
  <1>3. [q[i] EXCEPT !.status = st, !.saw = sw] \in Rows
    BY <1>2 DEF Rows
  <1>4. r = [q EXCEPT ![i] = [q[i] EXCEPT !.status = st, !.saw = sw]]
    BY <1>1 DEF Updated
  <1> HIDE DEF r
  <1>5. r \in [1 .. Len(q) -> Rows]
    BY <1>1, <1>3, <1>4
  <1>6. r \in Seq(Rows)
    BY <1>1, <1>5, SeqOfFunction
  <1>7. QED
    BY <1>1, <1>2, <1>4, <1>5, <1>6 DEF Rows, r

\* The reader adds to the queue.
LEMMA QueueGrows ==
    ASSUME World, Grown(queue, queue')
    PROVE  QueueTyped' /\ ScanAlone' /\ Running(queue') = Running(queue)
  <1>1. Running(queue') = Running(queue)
    BY DEF Grown, Running
  <1>2. QED
    BY <1>1 DEF World, QueueTyped, ScanAlone, Grown, Running

LEMMA FileStays ==
    ASSUME World, Grown(queue, queue'), UNCHANGED <<index, known>>,
           NEW f, disk'[f] = disk[f], NEW ids
    PROVE  /\ Sighted(f) => Sighted(f)'
           /\ Unreadable(f)' <=> Unreadable(f)
           /\ Current(f)' <=> Current(f)
           /\ Awaited(f, ids) => Awaited(f, ids)'
           /\ Good(f, ids) => Good(f, ids)'
  <1>1. Sighted(f) => Sighted(f)'
    BY QueueGrows DEF Sighted, Grown, Running
  <1>2. Unreadable(f)' <=> Unreadable(f)
    BY DEF Unreadable
  <1>3. Current(f)' <=> Current(f)
    BY <1>2 DEF Current
  <1>4. Awaited(f, ids) => Awaited(f, ids)'
    BY DEF Awaited, Grown, Live
  <1>5. QED
    BY <1>1, <1>2, <1>3, <1>4 DEF Good

\* Job i ends, and what it leads to is queued.
Ended(i, st) ==
    /\ QueueTyped' /\ ScanAlone'
    /\ DOMAIN queue \subseteq DOMAIN queue'
    /\ \A j \in DOMAIN queue \ {i} : queue'[j] = queue[j]
    /\ queue'[i].work = queue[i].work /\ queue'[i].status = st
    /\ Running(queue') = Running(queue) \ {i}

LEMMA JobEnds ==
    ASSUME World, NEW i \in Running(queue), NEW st \in {"done", "failed"},
           Closed(queue, i, st) \in Seq(Rows) => Grown(Closed(queue, i, st), queue')
    PROVE  Ended(i, st)
  <1> DEFINE q == Closed(queue, i, st)
  <1>1. /\ queue \in Seq(Rows) /\ i \in DOMAIN queue /\ st \in Statuses /\ NotRead \in Views
    BY DEF World, QueueTyped, Running, Statuses, Views
  <1>2. /\ q \in Seq(Rows) /\ DOMAIN q = DOMAIN queue
        /\ \A j \in DOMAIN queue \ {i} : q[j] = queue[j]
        /\ q[i].work = queue[i].work /\ q[i].status = st
    <2>1. q = Updated(queue, i, st, NotRead)
      BY DEF Closed, Updated
    <2> HIDE DEF q
    <2>2. QED
      BY <1>1, <2>1, RowUpdated
  <1>3. Grown(q, queue')
    BY <1>2
  <1> HIDE DEF q
  <1>4. /\ DOMAIN queue \subseteq DOMAIN queue'
        /\ \A j \in DOMAIN queue \ {i} : queue'[j] = queue[j]
        /\ queue'[i].work = queue[i].work /\ queue'[i].status = st
        /\ \A j \in DOMAIN queue' \ DOMAIN queue : queue'[j].status = "pending"
        /\ queue' \in Seq(Rows)
    BY <1>1, <1>2, <1>3 DEF Grown
  <1>5. Running(queue') = Running(queue) \ {i}
    BY <1>1, <1>4 DEF Running
  <1>6. QueueTyped' /\ ScanAlone'
    BY <1>1, <1>4, <1>5 DEF World, QueueTyped, ScanAlone, Running
  <1>7. QED
    BY <1>4, <1>5, <1>6 DEF Ended
-----------------------------------------------------------------------------
(* What a step of the world does to a file the question is about. *)

\* A row waited for is dropped for its twin.
Lost(ids) == up' # up /\ \E i \in ids \cap Running(queue) : queue'[i].status = "done"
Kept(f) ==
    /\ f \in steady /\ disk'[f] = disk[f]
    /\ Sighted(f) => Sighted(f)'
    /\ Sighted(f) /\ Unreadable(f) => Unreadable(f)'
    /\ disk[f] # Absent /\ Sighted(f) /\ Current(f) => Current(f)'
    /\ \A ids \in SUBSET Nat :
          disk[f] # Absent /\ Sighted(f) /\ Awaited(f, ids) =>
              Current(f)' \/ Awaited(f, ids)' \/ Lost(ids)
FilesKept == \A f \in steady' : Kept(f)
ScansKept == \A id \in DOMAIN queue : ScanInHand(id) => ScanInHand(id)' \/ Lost({id})
WorldKept == World' /\ DOMAIN queue \subseteq DOMAIN queue' /\ FilesKept /\ ScansKept

LEMMA ScanStays ==
    ASSUME World, FilesKept, \A ids : ~Lost(ids), NEW id, ScanInHand(id),
           id \in DOMAIN queue', queue'[id] = queue[id]
    PROVE  ScanInHand(id)'
  <1>1. CASE queue[id].status = "pending"
    BY <1>1 DEF ScanInHand
  <1>2. CASE queue[id].status = "running"
    BY <1>2 DEF ScanInHand, FilesKept, Kept
  <1>3. CASE queue[id].status = "done"
    <2> SUFFICES ASSUME NEW f \in steady', disk'[f] # Absent
                 PROVE  Good(f, Live(queue))'
      BY <1>3 DEF ScanInHand
    <2>1. Kept(f) /\ disk[f] # Absent /\ f \in steady
      BY DEF FilesKept, Kept
    <2>2. Good(f, Live(queue))
      BY <1>3, <2>1 DEF ScanInHand
    <2>3. Sighted(f) /\ Sighted(f)'
      BY <2>1, <2>2 DEF Good, Kept
    <2>4. CASE Current(f)
      BY <2>1, <2>3, <2>4 DEF Kept, Good
    <2>5. CASE Awaited(f, Live(queue))
      <3>1. Live(queue) \in SUBSET Nat
        BY LenProperties DEF World, QueueTyped, Live
      <3>2. \/ Current(f)'
            \/ \E i \in Live(queue) \cap Live(queue') : queue'[i].work = <<"ingest", f>>
        BY <2>1, <2>3, <2>5, <3>1 DEF Kept, Awaited
      <3>3. QED
        BY <2>3, <3>2 DEF Good, Awaited
    <2>6. QED
      BY <2>2, <2>4, <2>5 DEF Good
  <1>4. QED
    BY <1>1, <1>2, <1>3 DEF ScanInHand
-----------------------------------------------------------------------------
(* The steps of the world. *)

\* A step that at most queues something, and changes no file that is steady.
LEMMA QuietStep ==
    ASSUME World, World', Grown(queue, queue'), UNCHANGED <<index, known>>,
           steady' \subseteq steady, \A f \in steady' : disk'[f] = disk[f]
    PROVE  WorldKept
  <1>1. \A ids : ~Lost(ids)
    BY DEF Grown, Lost, Running
  <1>2. FilesKept
    BY FileStays DEF FilesKept, Kept
  <1>3. ScansKept
    <2> SUFFICES ASSUME NEW id \in DOMAIN queue, ScanInHand(id)
                 PROVE  ScanInHand(id)'
      BY DEF ScansKept
    <2>1. id \in DOMAIN queue' /\ queue'[id] = queue[id]
      BY DEF Grown
    <2>2. QED
      BY <1>1, <1>2, <2>1, ScanStays
  <1>4. QED
    BY <1>2, <1>3 DEF WorldKept, Grown

LEMMA QueueItself ==
    ASSUME World
    PROVE  Grown(queue, queue)
  BY DEF World, QueueTyped, Grown

LEMMA EditKept ==
    ASSUME World, NEW f \in Files, NEW c \in Contents \cup {Absent}, Edit(f, c)
    PROVE  WorldKept
  <1>1. Grown(queue, queue')
    BY QueueItself DEF Edit
  <1>2. disk' \in Trees /\ \A g \in Files \ {f} : disk'[g] = disk[g]
    BY DEF World, Trees, Edit
  <1>3. World'
    BY <1>1, <1>2, QueueGrows DEF World, Edit
  <1>4. QED
    BY <1>1, <1>2, <1>3, QuietStep DEF World, Edit

LEMMA HookKept ==
    ASSUME World, NEW f \in Files, Hook(f)
    PROVE  WorldKept
  <1>1. Grown(queue, queue')
    <2>1. <<"ingest", f>> \in Work
      BY DEF Work
    <2>2. QED
      BY <2>1, OneQueued DEF Hook, World, QueueTyped
  <1>2. World'
    BY <1>1, QueueGrows DEF World, Hook
  <1>3. QED
    BY <1>1, <1>2, QuietStep DEF World, Hook

LEMMA ClockKept ==
    ASSUME World, Clock
    PROVE  WorldKept
  <1>1. Grown(queue, queue')
    <2>1. Scan \in Work
      BY DEF Work, Scan
    <2>2. QED
      BY <2>1, OneQueued DEF Clock, World, QueueTyped
  <1>2. World'
    BY <1>1, QueueGrows DEF World, Clock
  <1>3. QED
    BY <1>1, <1>2, QuietStep DEF World, Clock

LEMMA MountKept ==
    ASSUME World, Mount
    PROVE  WorldKept
  <1>1. Grown(queue, queue')
    BY QueueItself DEF Mount
  <1>2. World'
    BY <1>1, QueueGrows DEF World, Mount
  <1>3. QED
    BY <1>1, <1>2, QuietStep DEF World, Mount

LEMMA CrashKept ==
    ASSUME World, Crash
    PROVE  WorldKept
  <1>1. Grown(queue, queue')
    BY QueueItself DEF Crash
  <1>2. World'
    BY <1>1, QueueGrows DEF World, Crash
  <1>3. QED
    BY <1>1, <1>2, QuietStep DEF World, Crash

\* What is claimed sees the steady files as they are.
LEMMA SeenAsItIs ==
    ASSUME World
    PROVE  /\ Seen \in Trees
           /\ \A f \in steady : mounted /\ Seen[f] = disk[f]
  BY DEF World, Seen, Trees

LEMMA ClaimKept ==
    ASSUME World, NEW i \in DOMAIN queue, Claim(i)
    PROVE  WorldKept
  <1> DEFINE view == [tree |-> Seen, mounted |-> mounted]
  <1>1. view \in Sightings /\ view \in Views
    BY SeenAsItIs DEF World, Sightings, Views, Trees
  <1>2. /\ queue' \in Seq(Rows) /\ DOMAIN queue' = DOMAIN queue
        /\ \A j \in DOMAIN queue \ {i} : queue'[j] = queue[j]
        /\ queue'[i].work = queue[i].work
        /\ queue'[i].status = "running" /\ queue'[i].saw = view
    <2>1. queue' = Updated(queue, i, "running", view)
      BY DEF Claim, Updated
    <2>2. queue \in Seq(Rows) /\ "running" \in Statuses
      BY DEF World, QueueTyped, Statuses
    <2> HIDE DEF view
    <2>3. QED
      BY <1>1, <2>1, <2>2, RowUpdated
  <1>3. Running(queue') = Running(queue) \cup {i} /\ i \notin Running(queue)
    BY <1>2 DEF Running, Claim
  <1>4. QueueTyped'
    BY <1>1, <1>2, <1>3 DEF World, QueueTyped, Running
  <1>5. ScanAlone'
    <2> SUFFICES ASSUME NEW j \in Running(queue'), NEW k \in Running(queue'),
                        queue'[j].work = Scan
                 PROVE  j = k
      BY DEF ScanAlone
    <2>1. CASE queue[i].work = Scan
      BY <1>3, <2>1 DEF Claim
    <2>2. CASE queue[i].work # Scan
      <3>1. j # i /\ queue[j].work = Scan /\ j \in Running(queue)
        BY <1>2, <1>3, <2>2 DEF Running
      <3>2. QED
        BY <2>2, <3>1 DEF Claim
    <2>3. QED
      BY <2>1, <2>2
  <1>6. World'
    BY <1>4, <1>5 DEF World, Claim
  <1>7. \A ids : ~Lost(ids)
    BY DEF Lost, Claim
  <1>8. FilesKept
    <2> SUFFICES ASSUME NEW f \in steady'
                 PROVE  Kept(f)
      BY DEF FilesKept
    <2>1. f \in steady /\ disk' = disk /\ index' = index /\ known' = known
      BY DEF Claim
    <2>2. Sighted(f) => Sighted(f)'
      BY <1>2, <1>3, <2>1, SeenAsItIs DEF Sighted, Running
    <2>3. \A ids : Awaited(f, ids) => Awaited(f, ids)'
      BY <1>2 DEF Awaited, Live
    <2>4. QED
      BY <2>1, <2>2, <2>3 DEF Kept, Current, Unreadable
  <1>9. ScansKept
    <2> SUFFICES ASSUME NEW id \in DOMAIN queue, ScanInHand(id)
                 PROVE  ScanInHand(id)'
      BY DEF ScansKept
    <2>1. CASE id = i
      <3>1. steady' = steady /\ disk' = disk
        BY DEF Claim
      <3>2. QED
        BY <1>2, <2>1, <3>1, SeenAsItIs DEF ScanInHand
    <2>2. CASE id # i
      BY <1>2, <1>7, <1>8, <2>2, ScanStays
    <2>3. QED
      BY <2>1, <2>2
  <1>10. QED
    BY <1>2, <1>6, <1>8, <1>9 DEF WorldKept

\* The end of job i, of which only the file it is about may notice.
LEMMA EndKept ==
    ASSUME World, World', UNCHANGED <<disk, up, steady>>,
           NEW i \in Running(queue), NEW st \in {"done", "failed"}, Ended(i, st),
           \A f \in steady :
              /\ Unreadable(f) /\ Sighted(f) => Unreadable(f)'
              /\ disk[f] # Absent /\ Sighted(f) =>
                    (Current(f) \/ queue[i].work = <<"ingest", f>> => Current(f)')
    PROVE  /\ FilesKept
           /\ \A id \in DOMAIN queue \ {i} : ScanInHand(id) => ScanInHand(id)'
  <1>1. \A ids : ~Lost(ids)
    BY DEF Lost
  <1>2. FilesKept
    <2> SUFFICES ASSUME NEW f \in steady'
                 PROVE  Kept(f)
      BY DEF FilesKept
    <2>1. f \in steady /\ disk' = disk
      OBVIOUS
    <2>2. Sighted(f) => Sighted(f)'
      BY <2>1 DEF Sighted, Ended, Running
    <2>3. \A ids : queue[i].work # <<"ingest", f>> /\ Awaited(f, ids) => Awaited(f, ids)'
      BY DEF Awaited, Ended, Live
    <2>4. QED
      BY <2>1, <2>2, <2>3 DEF Kept
  <1>3. \A id \in DOMAIN queue \ {i} : ScanInHand(id) => ScanInHand(id)'
    BY <1>1, <1>2, ScanStays DEF Ended
  <1>4. QED
    BY <1>2, <1>3

LEMMA JobAtItsEnd ==
    ASSUME World, NEW i \in DOMAIN queue, NEW kind, Ends(i, kind)
    PROVE  /\ i \in Running(queue) /\ queue[i].saw \in Sightings
           /\ queue[i].work \in Work /\ queue[i].work[1] = kind
  <1>1. queue \in Seq(Rows)
    BY DEF World, QueueTyped
  <1>2. queue[i] \in Rows
    BY <1>1, ElementOfSeq, LenProperties
  <1>3. i \in Running(queue)
    BY DEF Ends, Running
  <1>4. QED
    BY <1>2, <1>3 DEF Ends, World, QueueTyped, Rows

LEMMA IngestKept ==
    ASSUME AnswersAssumption, World, NEW i \in DOMAIN queue, handle_ingest(i)
    PROVE  WorldKept
  <1> DEFINE g == queue[i].work[2]
             text == queue[i].saw.tree[g]
  <1>1. /\ i \in Running(queue) /\ queue[i].work \in Work /\ queue[i].work[1] = "ingest"
        /\ queue[i].saw \in Sightings
    BY JobAtItsEnd DEF handle_ingest
  <1>2. g \in Files /\ queue[i].work = <<"ingest", g>>
    BY <1>1 DEF Work
  <1>3. text \in Contents \cup {Absent}
    BY <1>1, <1>2 DEF Sightings, Trees
  <1>4. UNCHANGED <<disk, mounted, up, configured, reader, steady>>
    BY DEF handle_ingest
  <1>5. \/ /\ text \notin Broken \cup {Absent}
           /\ index' = [index EXCEPT ![g] = text]
           /\ known' = {k \in known : k[1] # g}
           /\ queue' = Closed(queue, i, "done")
        \/ /\ text = Absent
           /\ index' = [index EXCEPT ![g] = Absent] \/ index' = index
           /\ known' = known
           /\ \E st \in {"done", "failed"} : queue' = Closed(queue, i, st)
        \/ /\ text \in Broken
           /\ known' = known \cup {<<g, text>>}
           /\ queue' = Closed(queue, i, "failed")
           /\ index' = index
        \/ /\ text \in Broken /\ Seen[g] \notin {Absent, text}
           /\ queue' = enqueue(Closed(queue, i, "done"), <<"ingest", g>>)
           /\ index' = index /\ known' = known
    BY <1>2 DEF handle_ingest
  <1>6. PICK st \in {"done", "failed"} : Ended(i, st)
    <2>1. PICK st \in {"done", "failed"} :
             \/ queue' = Closed(queue, i, st)
             \/ queue' = enqueue(Closed(queue, i, st), <<"ingest", g>>)
      BY <1>5
    <2>2. Closed(queue, i, st) \in Seq(Rows) => Grown(Closed(queue, i, st), queue')
      <3>1. <<"ingest", g>> \in Work
        BY <1>1, <1>2
      <3> HIDE DEF g
      <3>2. QED
        BY <2>1, <3>1, OneQueued DEF Grown
    <2>3. QED
      BY <1>1, <2>2, JobEnds
  <1>7. index' \in Trees /\ \A f \in Files \ {g} : index'[f] = index[f]
    BY <1>2, <1>3, <1>5 DEF World, Trees
  <1>8. /\ known' \subseteq Files \X Broken
        /\ \A f \in Files \ {g}, c \in Broken : <<f, c>> \in known => <<f, c>> \in known'
    BY <1>2, <1>5 DEF World
  <1>9. World'
    BY <1>4, <1>6, <1>7, <1>8 DEF World, Ended
  <1>10. ASSUME NEW f \in steady, Sighted(f)
         PROVE  /\ Unreadable(f) => Unreadable(f)'
                /\ disk[f] # Absent =>
                      (Current(f) \/ queue[i].work = <<"ingest", f>> => Current(f)')
    <2>1. f \in Files /\ Seen[f] = disk[f] /\ disk' = disk
      BY <1>4, SeenAsItIs DEF World
    <2>2. CASE f # g
      <3>1. index'[f] = index[f]
        BY <1>7, <2>1, <2>2
      <3>2. Unreadable(f) => Unreadable(f)'
        BY <1>8, <2>1, <2>2 DEF Unreadable, World
      <3>3. queue[i].work # <<"ingest", f>>
        BY <1>2, <2>2
      <3>4. QED
        BY <2>1, <3>1, <3>2, <3>3 DEF Current
    <2>3. CASE f = g
      <3>1. text = disk[f]
        BY <1>1, <1>2, <1>10, <2>3 DEF Sighted
      <3>2. Unreadable(f) => text \in Broken
        BY <2>1, <3>1 DEF Unreadable, World
      <3>3. Unreadable(f) => Unreadable(f)'
        BY <1>5, <2>1, <3>1, <3>2 DEF Unreadable
      <3>4. disk[f] # Absent => index'[f] = disk'[f] \/ Unreadable(f)'
        BY <1>2, <1>5, <2>1, <2>3, <3>1 DEF Unreadable, World, Trees
      <3>5. QED
        BY <3>3, <3>4 DEF Current
    <2>4. QED
      BY <2>2, <2>3
  <1> HIDE DEF g, text
  <1>11. FilesKept /\ \A id \in DOMAIN queue \ {i} : ScanInHand(id) => ScanInHand(id)'
    BY <1>1, <1>4, <1>6, <1>9, <1>10, EndKept
  <1>12. ~ScanInHand(i)
    BY <1>1 DEF ScanInHand, Scan
  <1>13. QED
    BY <1>6, <1>9, <1>11, <1>12 DEF WorldKept, ScansKept, Ended

LEMMA RemoveKept ==
    ASSUME World, NEW i \in DOMAIN queue, handle_remove(i)
    PROVE  WorldKept
  <1> DEFINE g == queue[i].work[2]
  <1>1. /\ i \in Running(queue) /\ queue[i].work \in Work /\ queue[i].work[1] = "remove"
    BY JobAtItsEnd DEF handle_remove
  <1>2. g \in Files /\ \A f : queue[i].work # <<"ingest", f>>
    BY <1>1 DEF Work, Scan
  <1>3. UNCHANGED <<disk, mounted, known, up, configured, reader, steady>>
    BY DEF handle_remove
  <1>4. Ended(i, "done")
    BY <1>1, JobEnds DEF handle_remove, Grown
  <1>5. /\ index' \in Trees /\ \A f \in Files \ {g} : index'[f] = index[f]
        /\ Seen[g] # Absent => index' = index
    BY <1>2 DEF World, Trees, handle_remove
  <1>6. World'
    BY <1>3, <1>4, <1>5 DEF World, Ended
  <1>7. \A f \in steady :
           /\ Unreadable(f)' <=> Unreadable(f)
           /\ disk[f] # Absent /\ Current(f) => Current(f)'
    <2> SUFFICES ASSUME NEW f \in steady
                 PROVE  /\ Unreadable(f)' <=> Unreadable(f)
                        /\ disk[f] # Absent /\ Current(f) => Current(f)'
      OBVIOUS
    <2>1. f \in Files /\ Seen[f] = disk[f]
      BY SeenAsItIs DEF World
    <2>2. disk[f] # Absent => index'[f] = index[f]
      BY <1>5, <2>1
    <2>3. QED
      BY <1>3, <2>2 DEF Unreadable, Current
  <1> HIDE DEF g
  <1>8. FilesKept /\ \A id \in DOMAIN queue \ {i} : ScanInHand(id) => ScanInHand(id)'
    BY <1>1, <1>2, <1>3, <1>4, <1>6, <1>7, EndKept
  <1>9. ~ScanInHand(i)
    BY <1>1 DEF ScanInHand, Scan
  <1>10. QED
    BY <1>4, <1>6, <1>8, <1>9 DEF WorldKept, ScansKept, Ended

\* A scan that saw the steady files as they are leaves each of them as it is in
\* the index, or with a job to ingest it.
LEMMA ScanKept ==
    ASSUME AnswersAssumption, World, NEW i \in DOMAIN queue, handle_scan(i)
    PROVE  WorldKept
  <1> DEFINE saw == queue[i].saw
             changed == {f \in Files : /\ saw.tree[f] \notin {Absent, index[f]}
                                       /\ <<f, saw.tree[f]>> \notin known}
             missing == {f \in Files : /\ index[f] # Absent /\ saw.tree[f] = Absent
                                       /\ mounted /\ disk[f] = Absent}
             found == {<<"remove", f>> : f \in missing} \cup {<<"ingest", f>> : f \in changed}
             works == IF saw.mounted THEN found ELSE {}
             q == Closed(queue, i, "done")
  <1>1. /\ i \in Running(queue) /\ queue[i].work \in Work /\ queue[i].work[1] = "scan"
    BY JobAtItsEnd DEF handle_scan
  <1>2. queue[i].work = Scan /\ \A f : queue[i].work # <<"ingest", f>>
    BY <1>1 DEF Work, Scan
  <1>3. UNCHANGED <<disk, mounted, index, known, up, configured, reader, steady>>
    BY DEF handle_scan
  <1>4. works \subseteq ({"ingest"} \X Files) \cup ({"remove"} \X Files) /\ works \subseteq Work
    <2>1. changed \subseteq Files /\ missing \subseteq Files
      OBVIOUS
    <2> HIDE DEF changed, missing
    <2>2. found \subseteq ({"ingest"} \X Files) \cup ({"remove"} \X Files)
      BY <2>1
    <2> HIDE DEF found
    <2>3. QED
      BY <2>2 DEF Work
  <1>5. IsFiniteSet(works)
    <2>1. IsFiniteSet({"ingest"} \X Files) /\ IsFiniteSet({"remove"} \X Files)
      BY FS_Singleton, FS_Product DEF AnswersAssumption
    <2>2. IsFiniteSet(({"ingest"} \X Files) \cup ({"remove"} \X Files))
      BY <2>1, FS_Union
    <2> HIDE DEF works
    <2>3. QED
      BY <1>4, <2>2, FS_Subset
  <1>6. queue' = enqueue_many(q, works)
    BY DEF handle_scan
  <1>7. q \in Seq(Rows) => /\ Grown(q, queue')
                           /\ \A work \in works : Queued(queue', work)
    <2> SUFFICES ASSUME q \in Seq(Rows)
                 PROVE  /\ Grown(q, queue')
                        /\ \A work \in works : Queued(queue', work)
      OBVIOUS
    <2> HIDE DEF q, works
    <2>1. /\ Grown(q, queue')
          /\ \A work \in works : \/ Queued(q, work)
                                 \/ \E j \in DOMAIN queue' \ DOMAIN q : queue'[j].work = work
      BY <1>4, <1>5, <1>6, ManyQueued
    <2>2. QED
      BY <2>1 DEF Grown, Queued
  <1>8. Ended(i, "done")
    <2> HIDE DEF works
    <2>1. QED
      BY <1>1, <1>7, JobEnds
  <1>9. World'
    BY <1>3, <1>8 DEF World, Ended
  <1>10. \A f \in steady : (Unreadable(f)' <=> Unreadable(f)) /\ (Current(f)' <=> Current(f))
    BY <1>3 DEF Unreadable, Current
  <1>11. FilesKept /\ \A id \in DOMAIN queue \ {i} : ScanInHand(id) => ScanInHand(id)'
    BY <1>1, <1>2, <1>3, <1>8, <1>9, <1>10, EndKept
  <1>12. ASSUME ScanInHand(i)
         PROVE  ScanInHand(i)'
    <2>1. \A f \in steady : saw.mounted /\ saw.tree[f] = disk[f]
      BY <1>1, <1>12 DEF ScanInHand, Running
    <2>2. Running(queue') = {}
      BY <1>1, <1>2, <1>8 DEF World, ScanAlone, Ended
    <2>3. \A work \in works : Queued(queue', work)
      <3> HIDE DEF works
      <3>1. q \in Seq(Rows)
        <4>1. queue \in Seq(Rows) /\ "done" \in Statuses /\ NotRead \in Views
          BY DEF World, QueueTyped, Statuses, Views
        <4>2. q = Updated(queue, i, "done", NotRead)
          BY DEF Closed, Updated
        <4> HIDE DEF q
        <4>3. QED
          BY <4>1, <4>2, RowUpdated
      <3>2. QED
        BY <1>7, <3>1
    <2>4. ASSUME NEW f \in steady, disk[f] # Absent, ~Current(f)
          PROVE  Queued(queue', <<"ingest", f>>)
      <3>1. f \in changed
        BY <2>1, <2>4 DEF Current, Unreadable, World
      <3>2. <<"ingest", f>> \in works
        BY <2>1, <3>1
      <3>3. QED
        BY <2>3, <3>2
    <2>5. ASSUME NEW f \in steady', disk'[f] # Absent
          PROVE  Good(f, Live(queue))'
      <3>1. Sighted(f)'
        BY <2>2 DEF Sighted
      <3>2. CASE Current(f)
        BY <1>3, <1>10, <2>5, <3>1, <3>2 DEF Good
      <3>3. CASE ~Current(f)
        BY <1>3, <2>4, <2>5, <3>1, <3>3 DEF Good, Awaited, Queued, Live
      <3>4. QED
        BY <3>2, <3>3
    <2>6. QED
      BY <1>2, <1>8, <2>5 DEF ScanInHand, Ended
  <1>13. QED
    BY <1>8, <1>9, <1>11, <1>12 DEF WorldKept, ScansKept, Ended

\* A restart: what ran is to do again, or has a twin that is.
LEMMA StartedQueue ==
    ASSUME World, Start
    PROVE  /\ queue' \in Seq(Rows) /\ DOMAIN queue' = DOMAIN queue
           /\ \A i \in DOMAIN queue \ Running(queue) : queue'[i] = queue[i]
           /\ \A i \in Running(queue) : /\ queue'[i].work = queue[i].work
                                        /\ queue'[i].status \in {"pending", "done"}
           /\ Running(queue') = {}
           /\ \A i \in Live(queue) : \E j \in Live(queue') : queue'[j].work = queue[i].work
  <1> DEFINE Twin(i) == \E j \in DOMAIN queue : /\ queue[j].work = queue[i].work
                                                /\ \/ queue[j].status = "pending"
                                                   \/ j \in Running(queue) /\ j < i
             done(i) == [queue[i] EXCEPT !.status = "done", !.saw = NotRead]
             after(i) == IF i \notin Running(queue) THEN queue[i]
                         ELSE IF Twin(i) THEN done(i) ELSE Row(queue[i].work)
  <1>1. /\ Len(queue) \in Nat /\ DOMAIN queue = 1 .. Len(queue)
        /\ \A i \in DOMAIN queue : queue[i] \in Rows
    BY ElementOfSeq, LenProperties DEF World, QueueTyped
  <1>2. queue' = [i \in DOMAIN queue |-> after(i)]
    BY DEF Start
  <1>3. \A i \in DOMAIN queue : /\ Row(queue[i].work) \in Rows
                                /\ Row(queue[i].work).work = queue[i].work
                                /\ Row(queue[i].work).status = "pending"
    BY <1>1, RowTyped DEF Rows
  <1>4. \A i \in DOMAIN queue : /\ done(i) \in Rows
                                /\ done(i).work = queue[i].work /\ done(i).status = "done"
    BY <1>1 DEF Rows, Statuses, Views
  <1> HIDE DEF done
  <1>5. \A i \in DOMAIN queue : after(i) \in Rows
    BY <1>1, <1>3, <1>4
  <1>6. queue' \in Seq(Rows) /\ DOMAIN queue' = DOMAIN queue
    <2> HIDE DEF after
    <2>1. queue' \in [1 .. Len(queue) -> Rows]
      BY <1>1, <1>2, <1>5
    <2>2. QED
      BY <1>1, <1>2, <2>1, SeqOfFunction
  <1>7. \A i \in DOMAIN queue \ Running(queue) : queue'[i] = queue[i]
    BY <1>2
  <1>8. \A i \in Running(queue) :
           /\ i \in DOMAIN queue /\ queue'[i].work = queue[i].work
           /\ queue'[i].status = IF Twin(i) THEN "done" ELSE "pending"
    <2> SUFFICES ASSUME NEW i \in Running(queue)
                 PROVE  /\ i \in DOMAIN queue /\ queue'[i].work = queue[i].work
                        /\ queue'[i].status = IF Twin(i) THEN "done" ELSE "pending"
      OBVIOUS
    <2>1. i \in DOMAIN queue
      BY DEF Running
    <2>2. queue'[i] = IF Twin(i) THEN done(i) ELSE Row(queue[i].work)
      BY <1>2, <2>1
    <2> HIDE DEF Twin
    <2>3. QED
      BY <1>3, <1>4, <2>1, <2>2
  <1> HIDE DEF after
  <1>9. Running(queue') = {}
    <2> HIDE DEF Twin
    <2>1. QED
      BY <1>6, <1>7, <1>8 DEF Running
  <1>10. ASSUME NEW i \in Live(queue)
         PROVE  \E j \in Live(queue') : queue'[j].work = queue[i].work
    <2>1. CASE \E j \in DOMAIN queue : /\ queue[j].work = queue[i].work
                                       /\ queue[j].status = "pending"
      <3>1. PICK j \in DOMAIN queue : /\ queue[j].work = queue[i].work
                                      /\ queue[j].status = "pending"
        BY <2>1
      <3>2. j \notin Running(queue) /\ queue'[j] = queue[j]
        BY <1>7, <3>1 DEF Running
      <3>3. QED
        BY <1>6, <3>1, <3>2 DEF Live
    <2>2. CASE ~\E j \in DOMAIN queue : /\ queue[j].work = queue[i].work
                                        /\ queue[j].status = "pending"
      <3> DEFINE S == {j \in Running(queue) : queue[j].work = queue[i].work}
      <3>1. i \in S
        BY <2>2 DEF Live, Running
      <3>2. S \subseteq Nat
        BY <1>1 DEF Running
      <3>3. PICK m \in S : \A n \in S : m <= n
        <4> HIDE DEF S
        <4>1. QED
          BY <3>1, <3>2, Least
      <3>4. ~Twin(m)
        <4>1. \A j \in DOMAIN queue : queue[j].work = queue[m].work /\ j \in Running(queue)
                                         => m <= j /\ j \in Nat /\ m \in Nat
          BY <3>2, <3>3
        <4>2. QED
          BY <2>2, <3>3, <4>1
      <3>5. QED
        BY <1>6, <1>8, <3>3, <3>4 DEF Live
    <2>3. QED
      BY <2>1, <2>2
  <1>11. QED
    <2> HIDE DEF Twin
    <2>1. QED
      BY <1>6, <1>7, <1>8, <1>9, <1>10

LEMMA StartKept ==
    ASSUME World, Start
    PROVE  WorldKept
  <1>1. /\ UNCHANGED <<disk, mounted, index, known, configured, steady>>
        /\ up' = TRUE /\ up' # up
    BY DEF Start
  <1>2. QueueTyped' /\ ScanAlone'
    BY StartedQueue DEF QueueTyped, ScanAlone
  <1>3. World'
    BY <1>1, <1>2 DEF World
  <1>4. \A f \in steady : Sighted(f)' /\ (Unreadable(f)' <=> Unreadable(f))
                          /\ (Current(f)' <=> Current(f))
    BY <1>1, StartedQueue DEF Sighted, Unreadable, Current
  <1>5. FilesKept
    <2>1. ASSUME NEW f \in steady, NEW ids, Awaited(f, ids)
          PROVE  Awaited(f, ids)' \/ Lost(ids)
      <3>1. PICK i \in ids \cap Live(queue) : queue[i].work = <<"ingest", f>>
        BY <2>1 DEF Awaited
      <3>2. CASE i \in Running(queue)
        <4>1. /\ i \in DOMAIN queue' /\ queue'[i].work = <<"ingest", f>>
              /\ queue'[i].status \in {"pending", "done"}
          BY <3>1, <3>2, StartedQueue DEF Running
        <4>2. CASE queue'[i].status = "done"
          BY <1>1, <3>1, <3>2, <4>2 DEF Lost
        <4>3. CASE queue'[i].status = "pending"
          BY <3>1, <4>1, <4>3 DEF Awaited, Live
        <4>4. QED
          BY <4>1, <4>2, <4>3
      <3>3. CASE i \notin Running(queue)
        BY <3>1, <3>3, StartedQueue DEF Awaited, Live
      <3>4. QED
        BY <3>2, <3>3
    <2>2. QED
      BY <1>1, <1>4, <2>1 DEF FilesKept, Kept
  <1>6. ScansKept
    <2> SUFFICES ASSUME NEW id \in DOMAIN queue, ScanInHand(id)
                 PROVE  ScanInHand(id)' \/ Lost({id})
      BY DEF ScansKept
    <2>1. CASE id \in Running(queue)
      BY <1>1, <2>1, StartedQueue DEF ScanInHand, Lost
    <2>2. CASE id \notin Running(queue)
      <3>1. queue'[id] = queue[id] /\ id \in DOMAIN queue' /\ queue[id].status # "running"
        BY <2>2, StartedQueue DEF Running
      <3>2. ASSUME NEW f \in steady, Good(f, Live(queue))
            PROVE  Good(f, Live(queue))'
        <4>1. Awaited(f, Live(queue)) => \E j \in Live(queue') : queue'[j].work = <<"ingest", f>>
          BY StartedQueue DEF Awaited
        <4>2. QED
          BY <1>4, <3>2, <4>1 DEF Good, Awaited
      <3>3. QED
        BY <1>1, <3>1, <3>2 DEF ScanInHand
    <2>3. QED
      BY <2>1, <2>2
  <1>7. QED
    BY <1>3, <1>5, <1>6, StartedQueue DEF WorldKept
-----------------------------------------------------------------------------
(* What the reader waits for survives the steps of the world. *)

LEMMA WaitsKept ==
    ASSUME AnswersAssumption, World, Reader, Waits, WorldKept, reader' \in Readers,
           reader'.pc = reader.pc, reader'.op = reader.op, reader'.ids = reader.ids,
           reader'.looked = reader.looked, reader'.repaired = reader.repaired,
           reader'.entries = reader.entries,
           reader.misled \/ Lost(reader.ids) => reader'.misled
    PROVE  Reader' /\ Waits'
  <1>1. Reader'
    BY DEF Reader, WorldKept
  <1>2. \A f \in steady' : Kept(f)
    BY DEF WorldKept, FilesKept
  <1>3. reader.ids \in SUBSET Nat
    BY DEF Reader, Readers
  <1>4. ASSUME NEW f \in steady', disk[f] # Absent, Good(f, reader.ids), ~reader'.misled
        PROVE  Good(f, reader.ids)'
    <2>1. Kept(f) /\ ~Lost(reader.ids)
      BY <1>2, <1>4
    <2>2. Sighted(f) /\ Sighted(f)'
      BY <1>4, <2>1 DEF Good, Kept
    <2>3. CASE Current(f)
      BY <1>4, <2>1, <2>2, <2>3 DEF Kept, Good
    <2>4. CASE Awaited(f, reader.ids)
      <3>1. \/ Current(f)'
            \/ \E i \in reader.ids \cap Live(queue') : queue'[i].work = <<"ingest", f>>
        BY <1>3, <1>4, <2>1, <2>2, <2>4 DEF Kept, Awaited
      <3>2. QED
        BY <2>2, <3>1 DEF Good, Awaited
    <2>5. QED
      BY <1>4, <2>3, <2>4 DEF Good
  <1>5. Scanning'
    BY DEF Waits, Scanning, WorldKept, ScansKept
  <1>6. Settling'
    BY <1>2, <1>4 DEF Waits, Settling, Kept
  <1>7. Looked'
    <2> SUFFICES ASSUME reader.looked, NEW f \in steady', disk'[f] \in Matches
                 PROVE  /\ Sighted(f)' /\ Current(f)'
                        /\ Unreadable(f)' \/ f \in DOMAIN reader.entries
      BY DEF Looked
    <2>1. Kept(f)
      BY <1>2
    <2>2. disk[f] # Absent
      BY <2>1 DEF AnswersAssumption, Kept
    <2>3. QED
      BY <2>1, <2>2 DEF Waits, Looked, Kept
  <1>8. Repairing'
    BY <1>2, <1>4 DEF Waits, Repairing, Kept
  <1>9. Answering'
    BY <1>2 DEF Waits, Answering, Kept
  <1>10. QED
    BY <1>1, <1>5, <1>6, <1>7, <1>8, <1>9 DEF Waits
-----------------------------------------------------------------------------
(* The steps of the reader. *)

LEMMA WorldStays ==
    ASSUME World, Grown(queue, queue'), UNCHANGED <<disk, mounted, index, known, up>>,
           steady' \subseteq Files, steady' # {} => mounted
    PROVE  World'
  BY QueueGrows DEF World

\* Nothing the invariant is about moves but the reader.
LEMMA FilesUnchanged ==
    ASSUME UNCHANGED <<disk, index, known, queue>>, NEW f
    PROVE  /\ Sighted(f)' <=> Sighted(f)
           /\ Unreadable(f)' <=> Unreadable(f)
           /\ Current(f)' <=> Current(f)
  BY DEF Sighted, Unreadable, Current

LEMMA FoundTyped ==
    ASSUME World
    PROVE  /\ Found \in Shown
           /\ DOMAIN Found = {f \in Files : index[f] \in Matches}
           /\ \A f \in DOMAIN Found : Found[f] = index[f]
  <1> DEFINE S == {f \in Files : index[f] \in Matches}
  <1>1. index \in Trees /\ S \in SUBSET Files
    BY DEF World
  <1>2. Found = [f \in S |-> index[f]]
    BY DEF Found
  <1> HIDE DEF S
  <1>3. Found \in [S -> Contents \cup {Absent}] /\ DOMAIN Found = S
        /\ \A f \in S : Found[f] = index[f]
    BY <1>1, <1>2 DEF Trees
  <1>4. QED
    BY <1>1, <1>3 DEF Shown, S

LEMMA AnsweredTyped ==
    ASSUME NEW r \in Readers
    PROVE  /\ Answered(r) \in Readers
           /\ Answered(r).pc = "answered" /\ Answered(r).ids = {}
           /\ Answered(r).op = r.op /\ Answered(r).looked = r.looked
           /\ Answered(r).repaired = r.repaired /\ Answered(r).misled = r.misled
           /\ Answered(r).entries = r.entries
  BY DEF Answered, Readers

LEMMA RequeriedTyped ==
    ASSUME World, NEW r \in Readers
    PROVE  /\ Requeried(r) \in Readers
           /\ Requeried(r).pc \in {"answered", "verify"} /\ Requeried(r).ids = {}
           /\ Requeried(r).op = r.op /\ Requeried(r).looked = r.looked
           /\ Requeried(r).repaired = r.repaired /\ Requeried(r).misled = r.misled
           /\ Requeried(r).entries = Found
  <1>1. CASE Found = <<>>
    <2> DEFINE s == [r EXCEPT !.entries = <<>>]
    <2>1. /\ s \in Readers /\ s.op = r.op /\ s.looked = r.looked
          /\ s.repaired = r.repaired /\ s.misled = r.misled /\ s.entries = Found
      BY <1>1, FoundTyped DEF Readers
    <2>2. Requeried(r) = Answered(s)
      BY <1>1 DEF Requeried
    <2> HIDE DEF s
    <2>3. QED
      BY <2>1, <2>2, AnsweredTyped
  <1>2. CASE Found # <<>>
    BY <1>2, FoundTyped DEF Requeried, Readers
  <1>3. QED
    BY <1>1, <1>2

\* An answer for which nothing was looked for or repaired.
LEMMA NothingWaited ==
    ASSUME World', reader' \in Readers, reader'.ids \subseteq DOMAIN queue',
           reader'.pc \notin {"scanning", "settling", "repairing"},
           reader'.pc \in Waiting => reader'.op = "search",
           ~reader'.looked, reader'.repaired = {}
    PROVE  AnswersInv'
  BY DEF AnswersInv, Reader, Waits, Scanning, Settling, Looked, Repairing, Answering

LEMMA AskKept ==
    ASSUME AnswersInv, NEW op \in {"search", "expand"}, NEW visiting \in BOOLEAN,
           Ask(op, visiting)
    PROVE  AnswersInv'
  <1>1. World'
    BY QueueItself, WorldStays DEF AnswersInv, Ask
  <1>2. PICK shown \in IF op = "search" THEN {Found}
                       ELSE {[g \in {f} |-> index[g]] : f \in {g \in Files : index[g] # Absent}} :
            reader' = [NoAnswer EXCEPT !.pc = IF shown = <<>> THEN "empty" ELSE "verify",
                                       !.op = op, !.visiting = visiting, !.entries = shown]
    BY DEF Ask
  <1>3. shown \in Shown /\ (op = "expand" => shown # <<>>)
    <2>1. CASE op = "search"
      BY <1>2, <2>1, FoundTyped DEF AnswersInv
    <2>2. CASE op = "expand"
      <3>1. PICK f \in Files : shown = [g \in {f} |-> index[g]]
        BY <1>2, <2>2
      <3>2. index \in Trees
        BY DEF AnswersInv, World
      <3>3. shown \in [{f} -> Contents \cup {Absent}] /\ f \in DOMAIN shown
        BY <3>1, <3>2 DEF Trees
      <3>4. DOMAIN <<>> = {}
        OBVIOUS
      <3>5. QED
        BY <3>3, <3>4, <2>2 DEF Shown
    <2>3. QED
      BY <2>1, <2>2
  <1>4. /\ reader' \in Readers /\ reader'.ids = {} /\ ~reader'.looked /\ reader'.repaired = {}
        /\ reader'.pc \in {"empty", "verify"} /\ (reader'.pc = "empty" => shown = <<>>)
        /\ reader'.op = op
    BY <1>2, <1>3 DEF NoAnswer, Readers, Waiting
  <1>5. QED
    BY <1>1, <1>3, <1>4, NothingWaited DEF Waiting

LEMMA CatchUpKept ==
    ASSUME AnswersInv, CatchUp
    PROVE  AnswersInv'
  <1> DEFINE ids == pending_content_jobs(queue)
             id == IdOf(queue, Scan)
  <1>1. /\ queue \in Seq(Rows) /\ Scan \in Work
        /\ reader \in Readers /\ reader.pc = "empty"
        /\ reader.op = "search" /\ ~reader.looked /\ reader.repaired = {}
        /\ UNCHANGED <<disk, mounted, index, known, up, configured, steady>>
    BY DEF AnswersInv, World, QueueTyped, Reader, Waiting, CatchUp, Work, Scan
  <1>2. CASE /\ reader' = Answered(reader) /\ queue' = queue
    <2>1. World'
      BY <1>1, <1>2, QueueItself, WorldStays DEF AnswersInv, World
    <2>2. QED
      BY <1>1, <1>2, <2>1, AnsweredTyped, NothingWaited DEF Waiting
  <1>3. CASE /\ reader' = [reader EXCEPT !.pc = "draining", !.ids = ids] /\ queue' = queue
    <2>1. World'
      BY <1>1, <1>3, QueueItself, WorldStays DEF AnswersInv, World
    <2>2. ids \subseteq DOMAIN queue /\ ids \in SUBSET Nat
      BY <1>1, LenProperties DEF pending_content_jobs, Live
    <2> HIDE DEF ids
    <2>3. QED
      BY <1>1, <1>3, <2>1, <2>2, NothingWaited DEF Readers, Waiting
  <1>4. CASE /\ reader' = [reader EXCEPT !.pc = "scanning", !.ids = {id},
                                         !.misled = id \in Running(queue)]
             /\ queue' = enqueue(queue, Scan)
    <2>1. /\ Grown(queue, queue')
          /\ ~Queued(queue, Scan) =>
                /\ Len(queue) + 1 \in DOMAIN queue' \ DOMAIN queue
                /\ queue'[Len(queue) + 1].work = Scan
      BY <1>1, <1>4, OneQueued
    <2>2. World'
      BY <1>1, <2>1, WorldStays DEF AnswersInv, World
    <2>3. /\ id \in DOMAIN queue' /\ queue'[id].work = Scan
          /\ id \notin Running(queue) => queue'[id].status = "pending"
      <3>1. CASE Queued(queue, Scan)
        BY <1>1, <2>1, <3>1, IdFound DEF Live, Running, Grown
      <3>2. CASE ~Queued(queue, Scan)
        BY <1>1, <2>1, <3>2, IdFound DEF Grown
      <3>3. QED
        BY <3>1, <3>2
    <2>4. queue' \in Seq(Rows) /\ DOMAIN queue' \subseteq Nat
      BY <2>1, LenProperties DEF Grown
    <2> DEFINE running == id \in Running(queue)
    <2>5. /\ reader' \in Readers /\ reader'.ids = {id} /\ ~reader'.looked
          /\ reader'.repaired = {} /\ reader'.pc = "scanning" /\ reader'.op = "search"
          /\ reader'.misled = running
      <3>1. running \in BOOLEAN /\ id \in Nat
        BY <2>3, <2>4
      <3>2. reader' = [reader EXCEPT !.pc = "scanning", !.ids = {id}, !.misled = running]
        BY <1>4
      <3> HIDE DEF id, running
      <3>3. QED
        BY <1>1, <3>1, <3>2 DEF Readers, Waiting
    <2> HIDE DEF id
    <2>6. Reader'
      BY <2>3, <2>5 DEF Reader
    <2>7. Scanning'
      BY <2>3, <2>5 DEF Scanning, ScanInHand
    <2>8. QED
      BY <2>2, <2>5, <2>6, <2>7
         DEF AnswersInv, Waits, Settling, Looked, Repairing, Answering
  <1>5. QED
    BY <1>2, <1>3, <1>4 DEF CatchUp

LEMMA DrainedKept ==
    ASSUME AnswersInv, Drained
    PROVE  AnswersInv'
  <1>1. World'
    BY QueueItself, WorldStays DEF AnswersInv, World, Drained
  <1>2. reader \in Readers /\ ~reader.looked /\ reader.repaired = {} /\ reader' = Requeried(reader)
    BY DEF AnswersInv, Reader, Waiting, Drained
  <1>3. QED
    BY <1>1, <1>2, RequeriedTyped, NothingWaited DEF AnswersInv, Waiting

LEMMA GiveUpKept ==
    ASSUME AnswersInv, GiveUp
    PROVE  AnswersInv'
  <1>1. World'
    BY QueueItself, WorldStays DEF AnswersInv, World, GiveUp
  <1>2. reader \in Readers /\ ~reader.looked /\ reader.repaired = {} /\ reader' = Answered(reader)
    BY DEF AnswersInv, Reader, Waiting, GiveUp
  <1>3. QED
    BY <1>1, <1>2, AnsweredTyped, NothingWaited DEF Waiting

\* An answer that looked: every steady file that matches is in the index.
LEMMA LookedKept ==
    ASSUME AnswersAssumption, World, World', UNCHANGED <<disk, index, known, queue, steady>>,
           NEW r \in Readers, reader' = Requeried(r), r.op = "search", r.repaired = {},
           r.looked => \A f \in steady : disk[f] # Absent => Sighted(f) /\ Current(f)
    PROVE  AnswersInv'
  <1>1. /\ reader' \in Readers /\ reader'.pc \in {"answered", "verify"}
        /\ reader'.ids = {} /\ reader'.op = "search" /\ reader'.looked = r.looked
        /\ reader'.repaired = {} /\ reader'.entries = Found
    BY RequeriedTyped
  <1>2. Reader'
    BY <1>1 DEF Reader, Waiting
  <1>3. Looked'
    <2> SUFFICES ASSUME r.looked, NEW f \in steady, disk[f] \in Matches
                 PROVE  /\ Sighted(f)' /\ Current(f)'
                        /\ Unreadable(f)' \/ f \in DOMAIN Found
      BY <1>1 DEF Looked
    <2>1. disk[f] # Absent /\ f \in Files
      BY DEF AnswersAssumption, World
    <2>2. Sighted(f) /\ Current(f)
      BY <2>1
    <2>3. Unreadable(f) \/ f \in DOMAIN Found
      BY <2>1, <2>2, FoundTyped DEF Current
    <2>4. QED
      BY <2>2, <2>3, FilesUnchanged
  <1>4. QED
    BY <1>1, <1>2, <1>3 DEF AnswersInv, Waits, Scanning, Settling, Repairing, Answering

LEMMA ScannedKept ==
    ASSUME AnswersAssumption, AnswersInv, Scanned
    PROVE  AnswersInv'
  <1> DEFINE found == pending_content_jobs(queue)
  <1>1. /\ UNCHANGED <<disk, mounted, index, known, queue, up, steady>>
        /\ reader \in Readers /\ reader.pc = "scanning" /\ WaitOver
        /\ reader.op = "search" /\ ~reader.looked /\ reader.repaired = {}
    BY DEF AnswersInv, Reader, Waiting, Scanned
  <1>2. World'
    BY <1>1, QueueItself, WorldStays DEF AnswersInv, World
  <1>3. ~reader.misled => \A f \in steady : disk[f] # Absent => Good(f, Live(queue))
    BY <1>1 DEF AnswersInv, Waits, Scanning, ScanInHand, WaitOver, Live
  <1>4. CASE found = {}
    <2> DEFINE r == [reader EXCEPT !.looked = ~reader.misled]
    <2>1. /\ r \in Readers /\ r.op = "search" /\ r.repaired = {} /\ r.looked = ~reader.misled
      BY <1>1 DEF Readers
    <2>2. reader' = Requeried(r)
      BY <1>4 DEF Scanned
    <2>3. \A f : ~Awaited(f, Live(queue))
      BY <1>4 DEF Awaited, pending_content_jobs, Scan
    <2> HIDE DEF r, found
    <2>4. QED
      BY <1>1, <1>2, <1>3, <2>1, <2>2, <2>3, LookedKept DEF AnswersInv, Good
  <1>5. CASE found # {}
    <2>1. found \subseteq DOMAIN queue /\ found \in SUBSET Nat
      BY LenProperties DEF AnswersInv, World, QueueTyped, pending_content_jobs, Live
    <2>2. \A f : Awaited(f, Live(queue)) => Awaited(f, found)
      BY DEF Awaited, pending_content_jobs, Scan
    <2>3. reader' = [reader EXCEPT !.pc = "settling", !.ids = found]
      BY <1>5 DEF Scanned
    <2> HIDE DEF found
    <2>4. /\ reader' \in Readers /\ reader'.pc = "settling" /\ reader'.ids = found
          /\ reader'.op = "search" /\ ~reader'.looked /\ reader'.repaired = {}
          /\ reader'.misled = reader.misled
      BY <1>1, <2>1, <2>3 DEF Readers, Waiting
    <2>5. Reader'
      BY <1>1, <2>1, <2>4 DEF Reader
    <2>6. Settling'
      <3> SUFFICES ASSUME ~reader.misled, NEW f \in steady, disk[f] # Absent
                   PROVE  /\ Sighted(f)'
                          /\ \/ Current(f)'
                             \/ \E i \in found \cap Live(queue') :
                                   queue'[i].work = <<"ingest", f>>
        BY <1>1, <2>4 DEF Settling, Good, Awaited
      <3>1. Sighted(f) /\ (Current(f) \/ Awaited(f, found))
        BY <1>3, <2>2 DEF Good
      <3>2. QED
        BY <1>1, <3>1, FilesUnchanged DEF Awaited
    <2>7. QED
      BY <1>2, <2>4, <2>5, <2>6
         DEF AnswersInv, Waits, Scanning, Looked, Repairing, Answering
  <1>6. QED
    BY <1>4, <1>5

LEMMA SettledKept ==
    ASSUME AnswersAssumption, AnswersInv, Settled
    PROVE  AnswersInv'
  <1> DEFINE r == [reader EXCEPT !.looked = WaitOver /\ ~reader.misled]
  <1>1. /\ UNCHANGED <<disk, mounted, index, known, queue, up, steady>>
        /\ reader \in Readers /\ reader.pc = "settling"
        /\ reader.op = "search" /\ reader.repaired = {} /\ reader' = Requeried(r)
    BY DEF AnswersInv, Reader, Waiting, Settled
  <1>2. World'
    BY <1>1, QueueItself, WorldStays DEF AnswersInv, World
  <1>3. WaitOver \in BOOLEAN
    BY DEF WaitOver
  <1>4. r \in Readers /\ r.op = "search" /\ r.repaired = {} /\ r.looked = (WaitOver /\ ~reader.misled)
    BY <1>1, <1>3 DEF Readers
  <1>5. ~reader.misled => \A f \in steady : disk[f] # Absent => Good(f, reader.ids)
    BY <1>1 DEF AnswersInv, Waits, Settling
  <1>6. WaitOver => \A f : ~Awaited(f, reader.ids)
    BY DEF WaitOver, Awaited
  <1> HIDE DEF r
  <1>7. QED
    BY <1>1, <1>2, <1>4, <1>5, <1>6, LookedKept DEF AnswersInv, Good

\* A file that looked for and found stays so while it is among what is shown.
LEMMA StaysLooked ==
    ASSUME World, Looked, Grown(queue, queue'), UNCHANGED <<disk, index, known, steady>>,
           reader'.looked => reader.looked,
           \A f \in steady \cap DOMAIN reader.entries :
              disk[f] \in Matches /\ Current(f) =>
                  Unreadable(f) \/ f \in DOMAIN reader'.entries
    PROVE  Looked'
  <1> SUFFICES ASSUME reader'.looked, NEW f \in steady, disk[f] \in Matches
               PROVE  /\ Sighted(f)' /\ Current(f)'
                      /\ Unreadable(f)' \/ f \in DOMAIN reader'.entries
    BY DEF Looked
  <1>1. /\ Sighted(f) /\ Current(f)
        /\ Unreadable(f) \/ f \in DOMAIN reader.entries
    BY DEF Looked
  <1>2. Unreadable(f) \/ f \in DOMAIN reader'.entries
    BY <1>1
  <1>3. QED
    BY <1>1, <1>2, FileStays

LEMMA ShownTyped ==
    ASSUME NEW e \in Shown, NEW S
    PROVE  /\ DOMAIN e \subseteq Files
           /\ S \subseteq DOMAIN e => Restrict(e, S) \in Shown /\ DOMAIN Restrict(e, S) = S
  <1>1. PICK T \in SUBSET Files : e \in [T -> Contents \cup {Absent}]
    BY DEF Shown
  <1>2. DOMAIN e = T
    BY <1>1
  <1>3. ASSUME S \subseteq DOMAIN e
        PROVE  Restrict(e, S) \in Shown /\ DOMAIN Restrict(e, S) = S
    <2>1. S \in SUBSET Files
      BY <1>2, <1>3
    <2>2. Restrict(e, S) \in [S -> Contents \cup {Absent}]
      BY <1>1, <1>2, <1>3 DEF Restrict
    <2>3. QED
      BY <2>1, <2>2 DEF Shown, Restrict
  <1>4. QED
    BY <1>2, <1>3

LEMMA VerifyKept ==
    ASSUME AnswersAssumption, AnswersInv, Verify
    PROVE  AnswersInv'
  <1> DEFINE shown == DOMAIN reader.entries
             marked == {f \in shown : Verdict(f) # "fresh"}
             stale == {f \in marked : Verdict(f) = "stale"}
             withheld == {f \in marked : /\ Verdict(f) = "gone" /\ deleted_source_is_certain
                                         /\ reader.op = "search"}
             drops == {<<"remove", f>> : f \in withheld}
             asked == enqueue_many(queue, drops)
             left == Restrict(reader.entries, shown \ withheld)
             kept == [reader EXCEPT !.entries = left, !.marks = marked \ withheld]
             told == \E i \in Running(asked) : asked[i].work \in {"ingest"} \X stale
  <1>1. /\ UNCHANGED <<disk, mounted, index, known, up, steady>>
        /\ reader \in Readers /\ reader.pc = "verify" /\ reader.repaired = {}
        /\ reader.looked => reader.op = "search"
        /\ queue \in Seq(Rows) /\ World /\ Looked
    BY DEF AnswersInv, World, QueueTyped, Reader, Waiting, Waits, Verify
  <1>2. shown \subseteq Files /\ reader.entries \in Shown
    BY <1>1, ShownTyped DEF Readers
  <1>3. marked \subseteq Files /\ stale \in SUBSET Files /\ withheld \subseteq Files
    BY <1>2
  <1>4. left \in Shown /\ DOMAIN left = shown \ withheld
    <2> HIDE DEF withheld
    <2>1. QED
      BY <1>2, ShownTyped
  <1>5. kept \in Readers /\ kept = [reader EXCEPT !.entries = left, !.marks = marked \ withheld]
    <2> HIDE DEF marked, withheld, left
    <2>1. QED
      BY <1>1, <1>3, <1>4 DEF Readers
  <1>6. /\ kept.pc = "verify" /\ kept.op = reader.op /\ kept.looked = reader.looked
        /\ kept.repaired = {} /\ kept.entries = left
    <2> HIDE DEF marked, withheld, left
    <2>1. QED
      BY <1>1, <1>5 DEF Readers
  <1>7. Grown(queue, asked) /\ asked \in Seq(Rows)
    <2>1. drops \subseteq {"remove"} \X Files
      BY <1>3
    <2>2. IsFiniteSet({"remove"} \X Files)
      BY FS_Singleton, FS_Product DEF AnswersAssumption
    <2> HIDE DEF drops
    <2>3. IsFiniteSet(drops) /\ drops \subseteq Work
      BY <2>1, <2>2, FS_Subset DEF Work
    <2>4. QED
      BY <1>1, <2>3, ManyQueued DEF Grown
  <1>8. /\ Grown(asked, requeue(asked, stale))
        /\ RequeueIds(asked, stale) \subseteq DOMAIN requeue(asked, stale)
        /\ \A f \in stale : \E i \in RequeueIds(asked, stale) :
              /\ i \in Live(requeue(asked, stale))
              /\ requeue(asked, stale)[i].work = <<"ingest", f>>
    <2> HIDE DEF stale, asked
    <2>1. QED
      BY <1>3, <1>7, IdsFound DEF AnswersAssumption
  \* A steady file that matches is not withheld.
  <1>9. \A f \in steady \cap shown : disk[f] \in Matches => f \in DOMAIN left
    <2> SUFFICES ASSUME NEW f \in steady \cap shown, disk[f] \in Matches
                 PROVE  f \notin withheld
      BY <1>4
    <2>1. Seen[f] # Absent
      BY <1>1, SeenAsItIs DEF AnswersAssumption
    <2>2. Verdict(f) # "gone"
      BY <2>1 DEF Verdict
    <2>3. QED
      BY <2>2
  <1>10. CASE reader.visiting
    <2> DEFINE r == [reader EXCEPT !.marks = marked]
    <2>1. /\ r \in Readers /\ r.looked = reader.looked /\ r.op = reader.op
          /\ r.repaired = {} /\ r.entries = reader.entries
      <3> HIDE DEF marked
      <3>1. QED
        BY <1>1, <1>3 DEF Readers
    <2>2. reader' = Answered(r) /\ queue' = queue
      BY <1>10 DEF Verify
    <2> HIDE DEF r
    <2>3. /\ reader' \in Readers /\ reader'.pc = "answered" /\ reader'.ids = {}
          /\ reader'.op = reader.op /\ reader'.looked = reader.looked
          /\ reader'.repaired = {} /\ reader'.entries = reader.entries
      BY <2>1, <2>2, AnsweredTyped
    <2>4. World'
      BY <1>1, <2>2, QueueItself, WorldStays DEF World
    <2>5. Reader'
      BY <1>1, <2>3 DEF Reader, Waiting
    <2>6. Looked'
      BY <1>1, <2>2, <2>3, QueueItself, StaysLooked
    <2>7. QED
      BY <2>3, <2>4, <2>5, <2>6 DEF AnswersInv, Waits, Scanning, Settling, Repairing, Answering
  <1>11. CASE ~reader.visiting
    <2>1. queue' = requeue(asked, stale)
      BY <1>11 DEF Verify
    <2>2. Grown(queue, queue')
      BY <1>7, <1>8, <2>1, GrownTwice
    <2>3. World'
      BY <1>1, <2>2, WorldStays DEF World
    <2>4. CASE reader' = Answered(kept)
      <3> HIDE DEF kept, left
      <3>1. /\ reader' \in Readers /\ reader'.pc = "answered" /\ reader'.ids = {}
            /\ reader'.op = reader.op /\ reader'.looked = reader.looked
            /\ reader'.repaired = {} /\ reader'.entries = left
        BY <1>5, <1>6, <2>4, AnsweredTyped
      <3>2. Reader'
        BY <1>1, <3>1 DEF Reader, Waiting
      <3>3. Looked'
        BY <1>1, <1>9, <2>2, <3>1, StaysLooked
      <3>4. QED
        BY <2>3, <3>1, <3>2, <3>3
           DEF AnswersInv, Waits, Scanning, Settling, Repairing, Answering
    <2>5. CASE reader' = [kept EXCEPT !.pc = "repairing", !.ids = RequeueIds(asked, stale),
                                      !.repaired = stale, !.misled = told]
      <3> HIDE DEF kept, left, stale, asked
      <3>1. RequeueIds(asked, stale) \in SUBSET Nat /\ told \in BOOLEAN
        BY <1>8, LenProperties DEF Grown
      <3> HIDE DEF told
      <3>2. /\ reader' \in Readers /\ reader'.pc = "repairing"
            /\ reader'.ids = RequeueIds(asked, stale)
            /\ reader'.op = reader.op /\ reader'.looked = reader.looked
            /\ reader'.repaired = stale /\ reader'.misled = told /\ reader'.entries = left
        BY <1>1, <1>3, <1>5, <1>6, <2>5, <3>1 DEF Readers, Waiting
      <3>3. Reader'
        BY <1>1, <1>8, <2>1, <3>2 DEF Reader, Waiting
      <3>4. Looked'
        BY <1>1, <1>9, <2>2, <3>2, StaysLooked
      <3>5. Repairing'
        <4> SUFFICES ASSUME ~told, NEW f \in stale \cap steady
                     PROVE  /\ disk[f] # Absent /\ Sighted(f)'
                            /\ \E i \in RequeueIds(asked, stale) \cap Live(queue') :
                                  queue'[i].work = <<"ingest", f>>
          BY <1>1, <3>2 DEF Repairing, Good, Awaited
        <4>1. disk[f] # Absent
          BY <1>1, SeenAsItIs DEF stale, Verdict
        <4>2. \A i \in Running(asked) : asked[i].work # <<"ingest", f>>
          <5>1. <<"ingest", f>> \in {"ingest"} \X stale
            OBVIOUS
          <5>2. QED
            BY <5>1 DEF told
        <4>3. \A i \in Running(queue') : i \in Running(asked) /\ queue'[i] = asked[i]
          BY <1>8, <2>1 DEF Grown, Running
        <4>4. Sighted(f)'
          BY <4>2, <4>3 DEF Sighted
        <4>5. QED
          BY <1>8, <2>1, <4>1, <4>4
      <3>6. QED
        BY <2>3, <3>2, <3>3, <3>4, <3>5
           DEF AnswersInv, Waits, Scanning, Settling, Answering
    <2>6. QED
      BY <1>11, <2>4, <2>5 DEF Verify
  <1>12. QED
    BY <1>10, <1>11

LEMMA RepairedKept ==
    ASSUME AnswersAssumption, AnswersInv, Repaired
    PROVE  AnswersInv'
  <1> DEFINE T == {g \in DOMAIN reader.entries : index[g] # Absent}
             shown == IF reader.op = "search" THEN Found ELSE [f \in T |-> index[f]]
             r == [reader EXCEPT !.entries = shown, !.marks = {}]
  <1>1. /\ UNCHANGED <<disk, mounted, index, known, queue, up, steady>>
        /\ reader \in Readers /\ reader.pc = "repairing" /\ WaitOver
        /\ reader.looked => reader.op = "search"
        /\ World /\ Looked /\ index \in Trees
    BY DEF AnswersInv, World, Reader, Waits, Repaired
  <1>2. shown \in Shown /\ \A f \in DOMAIN shown : f \in Files /\ shown[f] = index[f]
    <2>1. CASE reader.op = "search"
      BY <1>1, <2>1, FoundTyped
    <2>2. CASE reader.op # "search"
      <3>1. T \subseteq Files
        BY <1>1, ShownTyped DEF Readers
      <3>2. shown = [f \in T |-> index[f]]
        BY <2>2
      <3> HIDE DEF T
      <3>3. shown \in [T -> Contents \cup {Absent}]
        BY <1>1, <3>1, <3>2 DEF Trees
      <3>4. T \in SUBSET Files
        BY <3>1
      <3> HIDE DEF shown
      <3>5. QED
        BY <3>2, <3>3, <3>4 DEF Shown
    <2>3. QED
      BY <2>1, <2>2
  <1>3. reader' = Answered(r)
    BY DEF Repaired
  <1>4. \A f \in Files : disk[f] \in Matches /\ Current(f) /\ reader.op = "search" =>
                             Unreadable(f) \/ f \in DOMAIN shown
    BY <1>1, FoundTyped DEF Current
  <1> HIDE DEF shown
  <1>5. /\ r \in Readers /\ r.op = reader.op /\ r.looked = reader.looked
        /\ r.repaired = reader.repaired /\ r.misled = reader.misled /\ r.entries = shown
    BY <1>1, <1>2 DEF Readers
  <1> HIDE DEF r
  <1>6. /\ reader' \in Readers /\ reader'.pc = "answered" /\ reader'.ids = {}
        /\ reader'.op = reader.op /\ reader'.looked = reader.looked
        /\ reader'.repaired = reader.repaired /\ reader'.misled = reader.misled
        /\ reader'.entries = shown
    BY <1>3, <1>5, AnsweredTyped
  <1>7. World'
    BY <1>1, QueueItself, WorldStays DEF World
  <1>8. Reader'
    BY <1>1, <1>6 DEF Reader, Waiting
  <1>9. Looked'
    <2>1. reader.looked =>
             \A f \in steady \cap DOMAIN reader.entries :
                disk[f] \in Matches /\ Current(f) =>
                    Unreadable(f) \/ f \in DOMAIN shown
      BY <1>1, <1>4 DEF World
    <2>2. CASE reader.looked
      BY <1>1, <1>6, <2>1, <2>2, QueueItself, StaysLooked
    <2>3. CASE ~reader.looked
      BY <1>6, <2>3 DEF Looked
    <2>4. QED
      BY <2>2, <2>3
  <1>10. Answering'
    <2> SUFFICES ASSUME ~reader.misled,
                        NEW f \in reader.repaired \cap steady \cap DOMAIN shown
                 PROVE  Sighted(f)' /\ (shown[f] = disk'[f] \/ Unreadable(f)')
      BY <1>1, <1>6 DEF Answering
    <2>1. Good(f, reader.ids)
      BY <1>1 DEF AnswersInv, Waits, Repairing
    <2>2. Sighted(f) /\ Current(f)
      BY <1>1, <2>1 DEF Good, Awaited, WaitOver
    <2>3. QED
      BY <1>1, <1>2, <2>2, FilesUnchanged DEF Current
  <1>11. QED
    BY <1>6, <1>7, <1>8, <1>9, <1>10
       DEF AnswersInv, Waits, Scanning, Settling, Repairing

LEMMA RepairLateKept ==
    ASSUME AnswersInv, RepairLate
    PROVE  AnswersInv'
  <1> DEFINE r == [reader EXCEPT !.repaired = {}]
  <1>1. /\ UNCHANGED <<disk, mounted, index, known, queue, up, steady>>
        /\ reader \in Readers /\ reader' = Answered(r)
        /\ reader.looked => reader.op = "search"
        /\ World /\ Looked
    BY DEF AnswersInv, World, Reader, Waits, RepairLate
  <1>2. /\ r \in Readers /\ r.op = reader.op /\ r.looked = reader.looked
        /\ r.repaired = {} /\ r.entries = reader.entries
    BY <1>1 DEF Readers
  <1> HIDE DEF r
  <1>3. /\ reader' \in Readers /\ reader'.pc = "answered" /\ reader'.ids = {}
        /\ reader'.op = reader.op /\ reader'.looked = reader.looked
        /\ reader'.repaired = {} /\ reader'.entries = reader.entries
    BY <1>1, <1>2, AnsweredTyped
  <1>4. World'
    BY <1>1, QueueItself, WorldStays DEF World
  <1>5. Reader'
    BY <1>1, <1>3 DEF Reader, Waiting
  <1>6. Looked'
    BY <1>1, <1>3, QueueItself, StaysLooked
  <1>7. QED
    BY <1>3, <1>4, <1>5, <1>6
       DEF AnswersInv, Waits, Scanning, Settling, Repairing, Answering
-----------------------------------------------------------------------------
(* Every step keeps the invariant. *)

LEMMA InitHolds ==
    ASSUME AnswersAssumption, Init
    PROVE  AnswersInv
  <1>1. disk \in Trees
    BY DEF Init, Trees
  <1>2. queue \in Seq(Rows) /\ DOMAIN queue = {}
    BY EmptySeq, LenProperties DEF Init
  <1>3. QueueTyped /\ ScanAlone
    BY <1>2 DEF QueueTyped, ScanAlone, Running
  <1>4. World
    BY <1>1, <1>3 DEF World, Init
  <1>5. reader \in Readers /\ reader.pc = "idle" /\ reader.ids = {}
        /\ ~reader.looked /\ reader.repaired = {}
    <2>1. <<>> \in [{} -> Contents \cup {Absent}]
      OBVIOUS
    <2>2. <<>> \in Shown
      BY <2>1 DEF Shown
    <2>3. QED
      BY <2>2 DEF Init, NoAnswer, Readers
  <1>6. QED
    BY <1>4, <1>5 DEF AnswersInv, Reader, Waiting, Waits, Scanning, Settling, Looked, Repairing,
       Answering

\* A step of the world leaves the reader as it is, but for a restart.
LEMMA ReaderStays ==
    ASSUME AnswersAssumption, AnswersInv, WorldKept,
           \/ reader' = reader /\ \A ids : ~Lost(ids)
           \/ Start
    PROVE  AnswersInv'
  <1>1. World /\ Reader /\ Waits /\ reader \in Readers
    BY DEF AnswersInv, Reader
  <1>2. CASE reader' = reader /\ \A ids : ~Lost(ids)
    BY <1>1, <1>2, WaitsKept DEF AnswersInv, WorldKept
  <1>3. CASE Start
    <2> DEFINE lost == reader.misled \/ \E i \in reader.ids \cap Running(queue) :
                                            queue'[i].status = "done"
    <2>1. lost \in BOOLEAN
      BY <1>1 DEF Readers
    <2>2. reader' = [reader EXCEPT !.misled = lost]
      BY <1>3 DEF Start
    <2>3. reader.misled \/ Lost(reader.ids) => lost
      BY DEF Lost
    <2> HIDE DEF lost
    <2>4. /\ reader' \in Readers /\ reader'.pc = reader.pc /\ reader'.op = reader.op
          /\ reader'.ids = reader.ids /\ reader'.looked = reader.looked
          /\ reader'.repaired = reader.repaired /\ reader'.entries = reader.entries
          /\ reader'.misled = lost
      BY <1>1, <2>1, <2>2 DEF Readers
    <2>5. QED
      BY <1>1, <2>3, <2>4, WaitsKept DEF AnswersInv, WorldKept
  <1>4. QED
    BY <1>2, <1>3

LEMMA NextKeeps ==
    ASSUME AnswersAssumption, AnswersInv, [Next]_vars
    PROVE  AnswersInv'
  <1>1. World
    BY DEF AnswersInv
  <1>2. ASSUME NEW op \in {"search", "expand"}, NEW visiting \in BOOLEAN, Ask(op, visiting)
        PROVE  AnswersInv'
    BY <1>2, AskKept
  <1>3. CASE CatchUp
    BY <1>3, CatchUpKept
  <1>4. CASE Drained
    BY <1>4, DrainedKept
  <1>5. CASE GiveUp
    BY <1>5, GiveUpKept
  <1>6. CASE Scanned
    BY <1>6, ScannedKept
  <1>7. CASE Settled
    BY <1>7, SettledKept
  <1>8. CASE Verify
    BY <1>8, VerifyKept
  <1>9. CASE Repaired
    BY <1>9, RepairedKept
  <1>10. CASE RepairLate
    BY <1>10, RepairLateKept
  <1>11. ASSUME NEW i \in DOMAIN queue, Claim(i)
         PROVE  AnswersInv'
    <2>1. WorldKept
      BY <1>1, <1>11, ClaimKept
    <2>2. reader' = reader /\ up' = up
      BY <1>11 DEF Claim
    <2>3. QED
      BY <2>1, <2>2, ReaderStays DEF Lost
  <1>12. ASSUME NEW i \in DOMAIN queue, handle_scan(i)
         PROVE  AnswersInv'
    <2>1. WorldKept
      BY <1>1, <1>12, ScanKept
    <2>2. reader' = reader /\ up' = up
      BY <1>12 DEF handle_scan
    <2>3. QED
      BY <2>1, <2>2, ReaderStays DEF Lost
  <1>13. ASSUME NEW i \in DOMAIN queue, handle_ingest(i)
         PROVE  AnswersInv'
    <2>1. WorldKept
      BY <1>1, <1>13, IngestKept
    <2>2. reader' = reader /\ up' = up
      BY <1>13 DEF handle_ingest
    <2>3. QED
      BY <2>1, <2>2, ReaderStays DEF Lost
  <1>14. ASSUME NEW i \in DOMAIN queue, handle_remove(i)
         PROVE  AnswersInv'
    <2>1. WorldKept
      BY <1>1, <1>14, RemoveKept
    <2>2. reader' = reader /\ up' = up
      BY <1>14 DEF handle_remove
    <2>3. QED
      BY <2>1, <2>2, ReaderStays DEF Lost
  <1>15. ASSUME NEW f \in Files, NEW c \in Contents \cup {Absent}, Edit(f, c)
         PROVE  AnswersInv'
    <2>1. WorldKept
      BY <1>1, <1>15, EditKept
    <2>2. reader' = reader /\ up' = up
      BY <1>15 DEF Edit
    <2>3. QED
      BY <2>1, <2>2, ReaderStays DEF Lost
  <1>16. ASSUME NEW f \in Files, Hook(f)
         PROVE  AnswersInv'
    <2>1. WorldKept
      BY <1>1, <1>16, HookKept
    <2>2. reader' = reader /\ up' = up
      BY <1>16 DEF Hook
    <2>3. QED
      BY <2>1, <2>2, ReaderStays DEF Lost
  <1>17. CASE Clock
    <2>1. WorldKept
      BY <1>1, <1>17, ClockKept
    <2>2. reader' = reader /\ up' = up
      BY <1>17 DEF Clock
    <2>3. QED
      BY <2>1, <2>2, ReaderStays DEF Lost
  <1>18. CASE Mount
    <2>1. WorldKept
      BY <1>1, <1>18, MountKept
    <2>2. reader' = reader /\ up' = up
      BY <1>18 DEF Mount
    <2>3. QED
      BY <2>1, <2>2, ReaderStays DEF Lost
  <1>19. CASE Crash
    <2>1. WorldKept
      BY <1>1, <1>19, CrashKept
    <2>2. reader' = reader /\ queue' = queue
      BY <1>19 DEF Crash
    <2>3. QED
      BY <2>1, <2>2, ReaderStays DEF Lost, Running
  <1>20. CASE Start
    BY <1>1, <1>20, StartKept, ReaderStays
  <1>21. CASE UNCHANGED vars
    <2>1. /\ Grown(queue, queue') /\ reader' = reader
          /\ UNCHANGED <<disk, mounted, index, known, up, steady>>
      BY <1>1, <1>21, QueueItself DEF vars
    <2>2. World'
      BY <1>1, <2>1, WorldStays DEF World
    <2>3. WorldKept
      BY <1>1, <2>1, <2>2, QuietStep
    <2>4. QED
      BY <2>1, <2>3, ReaderStays DEF Lost
  <1>22. QED
    BY <1>2, <1>3, <1>4, <1>5, <1>6, <1>7, <1>8, <1>9, <1>10, <1>11, <1>12, <1>13, <1>14,
       <1>15, <1>16, <1>17, <1>18, <1>19, <1>20, <1>21 DEF Next

LEMMA InvEarns ==
    ASSUME AnswersAssumption, AnswersInv
    PROVE  AnswersEarned
  <1>1. DOMAIN <<>> = {}
    OBVIOUS
  <1>2. EmptyAnswerEarned
    BY <1>1 DEF EmptyAnswerEarned, AnswersInv, Waits, Looked
  <1>3. reader.pc = "answered" /\ ~reader.misled => RepairedIsCurrent
    BY DEF RepairedIsCurrent, AnswersInv, Waits, Answering
  <1>4. QED
    BY <1>2, <1>3 DEF AnswersEarned

\* The answers of rtfm_search and rtfm_expand are earned: one that waited for a
\* scan misses no file that matches, one that waited for repairs serves what it
\* repaired as it is on disk (_catch_up_before_empty_answer,
\* _repair_stale_sources), whatever jobs, hooks, clock, edits, volume and crash
\* do between the question and the answer.
THEOREM Earned == AnswersAssumption => (Spec => []AnswersEarned)
  <1> SUFFICES ASSUME AnswersAssumption
               PROVE  Spec => []AnswersEarned
    OBVIOUS
  <1>1. Init => AnswersInv
    BY InitHolds
  <1>2. AnswersInv /\ [Next]_vars => AnswersInv'
    BY NextKeeps
  <1>3. AnswersInv => AnswersEarned
    BY InvEarns
  <1>4. QED
    BY <1>1, <1>2, <1>3, PTL DEF Spec

\* The same of the composition that is model-checked: where the part that moves
\* is another, the question is never asked.
THEOREM EarnedTogether == AnswersAssumption => (ReadingSpec => []AnswersEarned)
  <1> SUFFICES ASSUME AnswersAssumption
               PROVE  ReadingSpec => []AnswersEarned
    OBVIOUS
  <1> DEFINE Inv == IF part = "answers" THEN AnswersInv ELSE reader.pc = "idle"
  <1>1. ReadingInit => Inv
    <2>1. ReadingInit /\ part = "answers" => AnswersInv
      BY InitHolds DEF ReadingInit
    <2>2. ReadingInit /\ part # "answers" => reader.pc = "idle"
      BY DEF ReadingInit, NoQuestion, NoAnswer
    <2>3. QED
      BY <2>1, <2>2
  <1>2. Inv /\ [ReadingNext]_<<part, reading, vars, ofSelection>> => Inv'
    <2> SUFFICES ASSUME Inv, [ReadingNext]_<<part, reading, vars, ofSelection>>
                 PROVE  Inv'
      OBVIOUS
    <2>1. part' = part
      BY DEF ReadingNext
    <2>2. CASE part = "answers"
      <3>1. [Next]_vars
        BY <2>2 DEF ReadingNext
      <3>2. AnswersInv
        BY <2>2
      <3>3. QED
        BY <2>1, <2>2, <3>1, <3>2, NextKeeps
    <2>3. CASE part # "answers"
      <3>1. reader' = reader
        BY <2>3 DEF ReadingNext, vars
      <3>2. QED
        BY <2>1, <2>3, <3>1
    <2>4. QED
      BY <2>2, <2>3
  <1>3. Inv => AnswersEarned
    <2>1. reader.pc = "idle" => AnswersEarned
      BY DEF AnswersEarned
    <2>2. QED
      BY <2>1, InvEarns
  <1>4. QED
    BY <1>1, <1>2, <1>3, PTL DEF ReadingSpec
-----------------------------------------------------------------------------
(* Selection: paths and the directories they lie in. *)

\* A directory of f is the first n of its names, n short of all.
LEMMA DirParts ==
    ASSUME Chosen!SelectionAssumption, NEW f \in Paths, NEW n \in 1 .. Len(f)
    PROVE  /\ SubSeq(f, 1, n) \in Seq(Chosen!Names) /\ Len(SubSeq(f, 1, n)) = n
           /\ \A i \in 1 .. n : SubSeq(f, 1, n)[i] = f[i]
           /\ Chosen!Last(SubSeq(f, 1, n)) = f[n]
  <1>1. f \in Seq(Chosen!Names)
    BY DEF Chosen!SelectionAssumption
  <1>2. \A i \in 1 .. n : f[i] \in Chosen!Names
    BY <1>1
  <1>3. /\ SubSeq(f, 1, n) \in Seq(Chosen!Names) /\ Len(SubSeq(f, 1, n)) = n
        /\ \A i \in 1 .. n : SubSeq(f, 1, n)[i] = f[i]
    BY <1>1, <1>2, SubSeqProperties
  <1>4. QED
    BY <1>3 DEF Chosen!Last

LEMMA PathParts ==
    ASSUME Chosen!SelectionAssumption, NEW f \in Paths
    PROVE  /\ f \in Seq(Chosen!Names) /\ Len(f) \in Nat \ {0} /\ DOMAIN f = 1 .. Len(f)
           /\ Chosen!Last(f) = f[Len(f)] /\ SubSeq(f, 1, Len(f)) = f
  <1>1. f \in Seq(Chosen!Names) /\ f # <<>>
    BY DEF Chosen!SelectionAssumption
  <1>2. Len(f) \in Nat \ {0} /\ DOMAIN f = 1 .. Len(f)
    BY <1>1, EmptySeq
  <1>3. QED
    BY <1>1, <1>2, SubSeqFull DEF Chosen!Last

\* What lies in a directory lies at the same place in the path.
LEMMA Nested ==
    ASSUME Chosen!SelectionAssumption, NEW f \in Paths,
           NEW n \in 1 .. Len(f), NEW b \in 1 .. n, NEW a \in 1 .. b
    PROVE  SubSeq(SubSeq(f, 1, n), a, b) = SubSeq(f, a, b)
  <1> DEFINE dir == SubSeq(f, 1, n)
             k == b - a + 1
  <1>1. n \in Nat /\ a \in Nat /\ b \in Nat /\ Len(f) \in Nat /\ a <= b /\ b <= Len(f) /\ 1 <= a
    BY PathParts
  <1>2. dir \in Seq(Chosen!Names) /\ Len(dir) = n /\ \A i \in 1 .. n : dir[i] = f[i]
    BY DirParts
  <1>3. \A i \in a .. b : dir[i] \in Chosen!Names /\ f[i] \in Chosen!Names /\ dir[i] = f[i]
    <2>1. \A i \in a .. b : i \in 1 .. n /\ i \in 1 .. Len(f)
      BY <1>1
    <2> QED BY <2>1, <1>2, PathParts, ElementOfSeq
  <1> HIDE DEF dir
  <1>4. /\ SubSeq(dir, a, b) \in Seq(Chosen!Names) /\ Len(SubSeq(dir, a, b)) = k
        /\ \A i \in 1 .. k : SubSeq(dir, a, b)[i] = dir[a + i - 1]
    BY <1>1, <1>3, SubSeqProperties
  <1>5. /\ SubSeq(f, a, b) \in Seq(Chosen!Names) /\ Len(SubSeq(f, a, b)) = k
        /\ \A i \in 1 .. k : SubSeq(f, a, b)[i] = f[a + i - 1]
    BY <1>1, <1>3, SubSeqProperties
  <1>6. \A i \in 1 .. k : a + i - 1 \in a .. b
    BY <1>1
  <1>7. SubSeq(dir, a, b) = SubSeq(f, a, b)
    BY <1>3, <1>4, <1>5, <1>6, SeqEqual
  <1>8. QED
    BY <1>7 DEF dir

\* The rules that leave a directory out leave out what is in it, but for a
\* line of .rtfmignore that takes it back.
LEMMA UnderBelow ==
    ASSUME Chosen!SelectionAssumption, NEW f \in Paths, NEW n \in 1 .. Len(f),
           Chosen!under_excluded_subpath(SubSeq(f, 1, n))
    PROVE  Chosen!under_excluded_subpath(f)
  <1> DEFINE dir == SubSeq(f, 1, n)
  <1>1. Len(dir) = n /\ n \in Nat /\ Len(f) \in Nat /\ n <= Len(f)
    BY DirParts, PathParts
  <1> HIDE DEF dir
  <1>2. PICK sub \in EXCLUDE_SUBPATHS, i \in 0 .. n :
            i + Len(sub) <= n /\ SubSeq(dir, i + 1, i + Len(sub)) = sub
    BY <1>1 DEF Chosen!under_excluded_subpath, dir
  <1>3. Len(sub) \in Nat \ {0}
    BY DEF Chosen!SelectionAssumption
  <1>4. i + Len(sub) \in 1 .. n /\ i + 1 \in 1 .. (i + Len(sub)) /\ i \in 0 .. Len(f)
        /\ i + Len(sub) <= Len(f)
    BY <1>1, <1>2, <1>3
  <1>5. SubSeq(f, i + 1, i + Len(sub)) = sub
    BY <1>2, <1>4, Nested DEF dir
  <1>6. QED
    BY <1>4, <1>5 DEF Chosen!under_excluded_subpath

LEMMA IgnoredBelow ==
    ASSUME Chosen!SelectionAssumption, NEW f \in Paths, NEW n \in 1 .. Len(f),
           Chosen!ignored(SubSeq(f, 1, n)), ~Chosen!LeftByRtfm(SubSeq(f, 1, n))
    PROVE  Chosen!ignored(f)
  <1> DEFINE dir == SubSeq(f, 1, n)
  <1>1. Len(dir) = n /\ n \in Nat /\ Len(f) \in Nat /\ n <= Len(f)
    BY DirParts, PathParts
  <1>2. rules.honor_gitignore
    BY DEF Chosen!ignored
  <1>3. PICK m \in 1 .. n : Chosen!decide(SubSeq(dir, 1, m))
    BY <1>1 DEF Chosen!ignored
  <1>4. SubSeq(dir, 1, m) = SubSeq(f, 1, m) /\ m \in 1 .. Len(f)
    BY <1>1, Nested
  <1>5. Chosen!decide(SubSeq(f, 1, m))
    BY <1>3, <1>4
  <1>6. QED
    BY <1>2, <1>4, <1>5 DEF Chosen!ignored

\* Each name of a path is the last of one of its directories, or its own.
LEMMA ComponentsOf ==
    ASSUME Chosen!SelectionAssumption, NEW f \in Paths, NEW n \in 1 .. Len(f)
    PROVE  Chosen!Components(SubSeq(f, 1, n)) \subseteq
               {Chosen!Last(dir) : dir \in Chosen!Dirs(f)} \cup {Chosen!Last(SubSeq(f, 1, n))}
  <1>1. n \in Nat /\ Len(f) \in Nat /\ n <= Len(f)
    BY PathParts
  <1>2. SubSeq(f, 1, n) \in Seq(Chosen!Names) /\ Len(SubSeq(f, 1, n)) = n
    BY DirParts
  <1>3. DOMAIN SubSeq(f, 1, n) = 1 .. n
    BY <1>2, LenProperties
  <1> SUFFICES ASSUME NEW i \in 1 .. n
               PROVE  SubSeq(f, 1, n)[i] \in
                          {Chosen!Last(dir) : dir \in Chosen!Dirs(f)} \cup {Chosen!Last(SubSeq(f, 1, n))}
    BY <1>3 DEF Chosen!Components
  <1>4. SubSeq(f, 1, n)[i] = f[i]
    BY DirParts
  <1>5. CASE i = n
    BY <1>4, <1>5, DirParts
  <1>6. CASE i # n
    <2>1. i \in 1 .. Len(f) - 1 /\ i \in 1 .. Len(f)
      BY <1>1, <1>6
    <2>2. SubSeq(f, 1, i) \in Chosen!Dirs(f)
      BY <2>1 DEF Chosen!Dirs
    <2>3. Chosen!Last(SubSeq(f, 1, i)) = f[i]
      BY <2>1, DirParts
    <2> QED BY <1>4, <2>2, <2>3
  <1>7. QED
    BY <1>5, <1>6

\* A directory of a path is a proper beginning of it.
LEMMA DirsAre ==
    ASSUME Chosen!SelectionAssumption, NEW f \in Paths, NEW dir \in Chosen!Dirs(f)
    PROVE  \E n \in 1 .. Len(f) : dir = SubSeq(f, 1, n) /\ n < Len(f)
  <1>1. PICK n \in 1 .. Len(f) - 1 : dir = SubSeq(f, 1, n)
    BY DEF Chosen!Dirs
  <1>2. n \in 1 .. Len(f) /\ n < Len(f)
    BY PathParts
  <1>3. QED
    BY <1>1, <1>2

-----------------------------------------------------------------------------
(* The scan, the removal and the watcher on one state. *)

\* The watcher hears of every file the scan lists.
LEMMA ListedHeard ==
    ASSUME Chosen!SelectionAssumption, tree \subseteq Paths,
           NEW f \in Chosen!scan_directory, ~Chosen!under_excluded_subpath(f)
    PROVE  Chosen!Heard(f)
  <1>1. f \in Paths
    BY DEF Chosen!scan_directory
  <1>2. /\ \A dir \in Chosen!Dirs(f) : Chosen!Entered(dir)
        /\ Chosen!Last(f) \notin DEFAULT_EXCLUDE_DIRS \cup TRANSIENT /\ ~Chosen!ignored(f)
    BY DEF Chosen!scan_directory
  <1>3. \A dir \in Chosen!Dirs(f) : Chosen!Last(dir) \notin DEFAULT_EXCLUDE_DIRS
    BY <1>2 DEF Chosen!Entered
  <1>4. ~Chosen!ignores(f, FALSE)
    <2>1. Chosen!Components(f) \cap DEFAULT_EXCLUDE_DIRS = {}
      <3>1. Len(f) \in 1 .. Len(f) /\ SubSeq(f, 1, Len(f)) = f
        BY <1>1, PathParts
      <3>2. Chosen!Components(f) \subseteq {Chosen!Last(dir) : dir \in Chosen!Dirs(f)} \cup {Chosen!Last(f)}
        BY <1>1, <3>1, ComponentsOf
      <3> QED BY <1>2, <1>3, <3>2
    <2> QED BY <1>2, <2>1 DEF Chosen!ignores
  <1>5. ASSUME NEW dir \in Chosen!Dirs(f)
        PROVE  ~Chosen!ignores(dir, TRUE)
    <2>1. PICK n \in 1 .. Len(f) : dir = SubSeq(f, 1, n)
      BY <1>1, DirsAre
    <2>2. Chosen!Components(dir) \subseteq {Chosen!Last(d) : d \in Chosen!Dirs(f)} \cup {Chosen!Last(dir)}
      BY <1>1, <2>1, ComponentsOf
    <2>3. Chosen!Components(dir) \cap DEFAULT_EXCLUDE_DIRS = {}
      BY <1>3, <2>2
    <2> QED BY <1>2, <2>3 DEF Chosen!ignores, Chosen!Entered
  <1>6. QED
    BY <1>4, <1>5 DEF Chosen!Heard

\* What the removal will not take away.
CanGo(f) == Chosen!is_excluded_by_rule(f) \/ Chosen!ignored(f) \/ f \notin tree

\* What the scan does not list and the removal does not take is stuck, as said.
LEMMA LeftStuck ==
    ASSUME Chosen!SelectionAssumption, NEW f \in Paths, f \notin Chosen!scan_directory,
           ~CanGo(f)
    PROVE  Chosen!Stuck(f)
  <1>1. f \in tree /\ ~Chosen!is_excluded_by_rule(f) /\ ~Chosen!ignored(f)
    BY DEF CanGo
  <1>2. /\ Chosen!Components(f) \cap DEFAULT_EXCLUDE_DIRS = {} /\ ~Chosen!under_excluded_subpath(f)
        /\ Chosen!Last(f) \notin TRANSIENT
    BY <1>1 DEF Chosen!is_excluded_by_rule
  <1>3. \A i \in 1 .. Len(f) : f[i] \notin DEFAULT_EXCLUDE_DIRS
    BY <1>2, PathParts DEF Chosen!Components
  <1>4. Chosen!Last(f) \notin DEFAULT_EXCLUDE_DIRS
    BY <1>3, PathParts
  <1>5. ASSUME NEW dir \in Chosen!Dirs(f), ~Chosen!Entered(dir)
        PROVE  Chosen!LeftByRtfm(dir)
    <2>1. PICK n \in 1 .. Len(f) : dir = SubSeq(f, 1, n)
      BY DirsAre
    <2>2. Chosen!Last(dir) \notin DEFAULT_EXCLUDE_DIRS
      BY <1>3, <2>1, DirParts
    <2>3. ~Chosen!under_excluded_subpath(dir)
      BY <1>2, <2>1, UnderBelow
    <2>4. Chosen!ignored(dir)
      BY <1>5, <2>2, <2>3 DEF Chosen!Entered
    <2> QED BY <1>1, <2>1, <2>4, IgnoredBelow
  <1>6. QED
    BY <1>1, <1>2, <1>4, <1>5 DEF Chosen!Stuck, Chosen!scan_directory

-----------------------------------------------------------------------------
(* From one scan to the next. *)

Removal == [type : {"remove"}, file : Paths, ignored_under : BOOLEAN]
FilesOK ==
    /\ tree \subseteq Paths /\ tracked \subseteq Paths
    /\ jobs \subseteq {Chosen!Ingest(f) : f \in Paths} \cup Removal

\* While nothing else happens, what is not yet as the rules say has its job,
\* and no job undoes what is.
JobsDo ==
    /\ \A f \in Chosen!scan_directory \ tracked : Chosen!Ingest(f) \in jobs
    /\ \A f \in tracked \ Chosen!scan_directory : CanGo(f) => Chosen!Drop(f) \in jobs
    /\ \A f \in Paths : Chosen!Ingest(f) \in jobs => f \in Chosen!scan_directory
    /\ \A row \in jobs : row.type = "remove" =>
          row = Chosen!Drop(row.file) /\ row.file \notin Chosen!scan_directory

SelectionInv == FilesOK /\ (scanned => JobsDo)

LEMMA InitInv ==
    ASSUME Chosen!Init PROVE SelectionInv
  BY DEF Chosen!Init, SelectionInv, FilesOK

\* What is on disk and what the rules are is all the verdicts depend on.
LEMMA SameVerdicts ==
    ASSUME UNCHANGED <<rules, tree>>
    PROVE  /\ Chosen!scan_directory' = Chosen!scan_directory
           /\ \A f : /\ Chosen!ignored(f)' = Chosen!ignored(f) /\ CanGo(f)' = CanGo(f)
                     /\ Chosen!Drop(f)' = Chosen!Drop(f)
  <1>1. \A f : Chosen!ignored(f)' = Chosen!ignored(f)
    BY DEF Chosen!ignored, Chosen!LeftByRtfm, Chosen!decide, Chosen!Gitignore
  <1>2. Chosen!scan_directory' = Chosen!scan_directory
    BY <1>1 DEF Chosen!scan_directory, Chosen!Entered, Chosen!Admits
  <1>3. \A f : CanGo(f)' = CanGo(f)
    BY <1>1 DEF CanGo
  <1>4. \A f : Chosen!Drop(f)' = Chosen!Drop(f)
    BY <1>1 DEF Chosen!Drop
  <1>5. QED
    BY <1>1, <1>2, <1>3, <1>4

LEMMA RowKinds ==
    /\ \A f, g : Chosen!Ingest(f) # Chosen!Drop(g) /\ (Chosen!Ingest(f) = Chosen!Ingest(g) => f = g)
    /\ \A f, g : Chosen!Drop(f) = Chosen!Drop(g) => f = g
    /\ \A f : Chosen!Ingest(f).type = "ingest" /\ Chosen!Drop(f).type = "remove" /\ Chosen!Drop(f).file = f
    /\ \A f \in Paths : Chosen!Drop(f) \in Removal
  BY DEF Chosen!Ingest, Chosen!Drop, Removal, Chosen!ignored, Chosen!decide, Chosen!LeftByRtfm

LEMMA ScanInv ==
    ASSUME SelectionInv, Chosen!handle_scan
    PROVE  SelectionInv'
  <1>1. FilesOK /\ UNCHANGED <<rules, tree, tracked>> /\ (scanned' => jobs = {})
        /\ jobs' = jobs \cup {Chosen!Drop(f) : f \in Chosen!Confirmed}
                        \cup {Chosen!Ingest(f) : f \in Chosen!Added}
    BY DEF SelectionInv, Chosen!handle_scan
  <1>2. Chosen!scan_directory \subseteq tree /\ Chosen!Confirmed \subseteq tracked
    BY DEF Chosen!scan_directory, Chosen!Confirmed, Chosen!Removed
  <1>3. FilesOK'
    BY <1>1, <1>2, RowKinds DEF FilesOK, Chosen!Added
  <1>4. ASSUME scanned' PROVE JobsDo'
    <2>1. jobs' = {Chosen!Drop(f) : f \in Chosen!Confirmed} \cup {Chosen!Ingest(f) : f \in Chosen!Added}
      BY <1>1, <1>4
    <2>2. \A f : f \in Chosen!Confirmed <=> f \in tracked \ Chosen!scan_directory /\ CanGo(f)
      BY DEF Chosen!Confirmed, Chosen!Removed, CanGo
    <2>3. /\ \A f \in Chosen!scan_directory \ tracked : Chosen!Ingest(f) \in jobs'
          /\ \A f \in tracked \ Chosen!scan_directory : CanGo(f) => Chosen!Drop(f) \in jobs'
      BY <2>1, <2>2 DEF Chosen!Added
    <2>4. \A f \in Paths : Chosen!Ingest(f) \in jobs' => f \in Chosen!scan_directory
      BY <2>1, RowKinds DEF Chosen!Added
    <2>5. \A row \in jobs' : row.type = "remove" =>
             row = Chosen!Drop(row.file) /\ row.file \notin Chosen!scan_directory
      BY <2>1, <2>2, RowKinds
    <2>6. QED
      BY <1>1, <2>3, <2>4, <2>5, SameVerdicts DEF JobsDo
  <1>5. QED
    BY <1>3, <1>4 DEF SelectionInv

LEMMA IngestInv ==
    ASSUME SelectionInv, NEW f \in Paths, Chosen!handle_ingest(f)
    PROVE  SelectionInv'
  <1>1. /\ FilesOK /\ UNCHANGED <<rules, tree, scanned>> /\ Chosen!Ingest(f) \in jobs
        /\ jobs' = jobs \ {Chosen!Ingest(f)}
        /\ tracked' = IF f \in tree THEN tracked \cup {f} ELSE tracked \ {f}
    BY DEF SelectionInv, Chosen!handle_ingest
  <1>2. FilesOK'
    BY <1>1 DEF FilesOK
  <1>3. ASSUME scanned' PROVE JobsDo'
    <2>1. JobsDo
      BY <1>1, <1>3 DEF SelectionInv
    <2>2. f \in Chosen!scan_directory /\ f \in tree
      BY <1>1, <2>1 DEF JobsDo, Chosen!scan_directory
    <2>3. tracked' = tracked \cup {f}
      BY <1>1, <2>2
    <2>4. /\ \A g \in Chosen!scan_directory \ tracked' : Chosen!Ingest(g) \in jobs'
          /\ \A g \in tracked' \ Chosen!scan_directory : CanGo(g) => Chosen!Drop(g) \in jobs'
      BY <1>1, <2>1, <2>2, <2>3, RowKinds DEF JobsDo
    <2>5. /\ \A g \in Paths : Chosen!Ingest(g) \in jobs' => g \in Chosen!scan_directory
          /\ \A row \in jobs' : row.type = "remove" =>
                row = Chosen!Drop(row.file) /\ row.file \notin Chosen!scan_directory
      BY <1>1, <2>1 DEF JobsDo
    <2>6. QED
      BY <1>1, <2>4, <2>5, SameVerdicts DEF JobsDo
  <1>4. QED
    BY <1>2, <1>3 DEF SelectionInv

LEMMA RemoveInv ==
    ASSUME SelectionInv, NEW row \in jobs, Chosen!handle_remove(row)
    PROVE  SelectionInv'
  <1> DEFINE f == row.file
             goes == \/ Chosen!is_excluded_by_rule(f)
                     \/ row.ignored_under /\ Chosen!ignored(f)
                     \/ f \notin tree
  <1>1. /\ FilesOK /\ UNCHANGED <<rules, tree, scanned>> /\ row.type = "remove"
        /\ jobs' = jobs \ {row}
        /\ tracked' = IF goes THEN tracked \ {f} ELSE tracked
    BY DEF SelectionInv, Chosen!handle_remove
  <1>2. FilesOK'
    BY <1>1 DEF FilesOK
  <1>3. ASSUME scanned' PROVE JobsDo'
    <2>1. JobsDo
      BY <1>1, <1>3 DEF SelectionInv
    <2>2. row = Chosen!Drop(f) /\ f \notin Chosen!scan_directory
      BY <1>1, <2>1 DEF JobsDo
    <2>3. row.ignored_under = Chosen!ignored(f)
      BY <2>2 DEF Chosen!Drop
    <2>4. goes <=> CanGo(f)
      BY <2>3 DEF CanGo
    <2> HIDE DEF goes, f
    <2>5. \A g \in Chosen!scan_directory \ tracked' : Chosen!Ingest(g) \in jobs'
      BY <1>1, <2>1, <2>2, RowKinds DEF JobsDo
    <2>6. \A g \in tracked' \ Chosen!scan_directory : CanGo(g) => Chosen!Drop(g) \in jobs'
      BY <1>1, <2>1, <2>2, <2>4, RowKinds DEF JobsDo
    <2>7. /\ \A g \in Paths : Chosen!Ingest(g) \in jobs' => g \in Chosen!scan_directory
          /\ \A r \in jobs' : r.type = "remove" =>
                r = Chosen!Drop(r.file) /\ r.file \notin Chosen!scan_directory
      BY <1>1, <2>1 DEF JobsDo
    <2>8. QED
      BY <1>1, <2>5, <2>6, <2>7, SameVerdicts DEF JobsDo
  <1>4. QED
    BY <1>2, <1>3 DEF SelectionInv

LEMMA NextInv ==
    ASSUME SelectionInv, [Chosen!Next]_(Chosen!vars)
    PROVE  SelectionInv'
  <1>1. ASSUME NEW f \in Paths, Chosen!on_file_edited(f) \/ Chosen!ChangeDisk(f)
        PROVE  SelectionInv'
    BY <1>1 DEF SelectionInv, FilesOK, Chosen!on_file_edited, Chosen!ChangeDisk, Chosen!Happens
  <1>2. ASSUME NEW r \in RuleSets, Chosen!ChangeRules(r)
        PROVE  SelectionInv'
    BY <1>2 DEF SelectionInv, FilesOK, Chosen!ChangeRules, Chosen!Happens
  <1>3. ASSUME UNCHANGED Chosen!vars
        PROVE  SelectionInv'
    <2>1. UNCHANGED <<rules, tree, tracked, jobs, scanned>>
      BY <1>3 DEF Chosen!vars
    <2>2. QED
      BY <2>1, SameVerdicts DEF SelectionInv, FilesOK, JobsDo
  <1>4. QED
    BY <1>1, <1>2, <1>3, ScanInv, IngestInv, RemoveInv DEF Chosen!Next

LEMMA InvFollows ==
    ASSUME Chosen!SelectionAssumption, SelectionInv
    PROVE  Chosen!IndexFollowsTheRules
  <1>1. tree \subseteq Paths /\ tracked \subseteq Paths
    BY DEF SelectionInv, FilesOK
  <1>2. \A f \in Chosen!scan_directory : Chosen!under_excluded_subpath(f) \/ Chosen!Heard(f)
    BY <1>1, ListedHeard
  <1>3. ASSUME scanned, jobs = {}
        PROVE  /\ Chosen!scan_directory \subseteq tracked
               /\ \A f \in Chosen!Removed : Chosen!Stuck(f)
    <2>1. JobsDo
      BY <1>3 DEF SelectionInv
    <2>2. Chosen!scan_directory \subseteq tracked
      BY <1>3, <2>1 DEF JobsDo
    <2>3. \A f \in Chosen!Removed : f \in Paths /\ f \notin Chosen!scan_directory /\ ~CanGo(f)
      BY <1>1, <1>3, <2>1 DEF JobsDo, Chosen!Removed
    <2>4. QED
      BY <2>2, <2>3, LeftStuck
  <1>4. QED
    BY <1>2, <1>3 DEF Chosen!IndexFollowsTheRules

\* Whatever the hook queued and however the rules and the files changed, once
\* a scan's jobs have run the index holds what the rules say, but for what is
\* known to be stuck; and the watcher hears of what the scan lists
\* (scan_directory, handle_remove's last look, _Source.ignores).
THEOREM Followed ==
    Chosen!SelectionAssumption => (Chosen!Spec => []Chosen!IndexFollowsTheRules)
  <1> SUFFICES ASSUME Chosen!SelectionAssumption
               PROVE  Chosen!Spec => []Chosen!IndexFollowsTheRules
    OBVIOUS
  <1>1. SelectionInv => Chosen!IndexFollowsTheRules
    BY InvFollows
  <1>2. QED
    BY <1>1, InitInv, NextInv, PTL DEF Chosen!Spec

\* The same of the composition that is model-checked: no step of the other two
\* modules touches the files, the rules or the jobs of Selection.
THEOREM RulesFollowed ==
    Chosen!SelectionAssumption => (ReadingSpec => []IndexFollowsTheRules)
  <1> SUFFICES ASSUME Chosen!SelectionAssumption PROVE ReadingSpec => []IndexFollowsTheRules
    OBVIOUS
  <1> DEFINE Inv == part = "selection" => SelectionInv
  <1>1. ReadingInit => Inv
    BY InitInv DEF ReadingInit
  <1>2. Inv /\ [ReadingNext]_<<part, reading, vars, ofSelection>> => Inv'
    <2> SUFFICES ASSUME Inv, [ReadingNext]_<<part, reading, vars, ofSelection>>,
                        part' = "selection"
                 PROVE  SelectionInv'
      OBVIOUS
    <2>1. part = "selection" /\ SelectionInv
      BY DEF ReadingNext
    <2>2. [Chosen!Next]_(Chosen!vars)
      BY <2>1 DEF ReadingNext, ofSelection, Chosen!vars
    <2>3. QED
      BY <2>1, <2>2, NextInv
  <1>3. Inv => IndexFollowsTheRules
    BY InvFollows DEF IndexFollowsTheRules
  <1>4. QED
    BY <1>1, <1>2, <1>3, PTL DEF ReadingSpec

-----------------------------------------------------------------------------
(* The parsers that cite sections and pages. *)

\* A block for each section, which holds what there is under its heading.
LEMMA EachBlock ==
    ASSUME Measures, NEW f, NEW doc \in Docs, NEW bs, NEW blocks,
           blocks = Cut!FlattenSeq([i \in DOMAIN Cut!Sections(doc) |-> <<bs[i]>>]),
           \A i \in 1 .. Len(Cut!Sections(doc)) :
              /\ bs[i] \in FineBlocks(f, doc)
              /\ \A n \in 1 .. Len(doc) : Cut!Sections(doc)[i].title <= n /\ n <= Cut!Sections(doc)[i].last =>
                    Cut!LeftOut(f, doc, n) \/ doc[n].len = 0 \/ InBlock(doc, bs[i], n)
    PROVE  Whole(f, doc, Cut!Cut(doc, blocks))
  <1> DEFINE S == Cut!Sections(doc)
  <1>1. \A n \in 1 .. Len(doc) : \E i \in 1 .. Len(S) : S[i].title <= n /\ n <= S[i].last
    BY SectionsAre
  <1>2. \A n \in 1 .. Len(doc) : \/ Cut!LeftOut(f, doc, n) \/ doc[n].len = 0
                                 \/ \E i \in 1 .. Len(S) : InBlock(doc, bs[i], n)
    BY <1>1
  <1>3. QED
    BY <1>2, OneEach

\* The block of a section, in Markdown.
LEMMA MarkdownBlock ==
    ASSUME Measures, NEW doc, FileDoc(doc), NEW s, Under(doc, s), NEW f, f = "markdown", NEW b,
           NEW bare,
           bare <=> Cut!Bare(doc, s) /\ s.title # 0,
           bare => b = Cut!Block(Cut!RunTexts(doc, <<s.title>>), s.title, s.first, s.last),
           ~bare => b = Cut!Block(Cut!RunTexts(doc, s.lines), s.title, s.first, s.last)
    PROVE  /\ b \in FineBlocks(f, doc)
           /\ \A n \in 1 .. Len(doc) : s.title <= n /\ n <= s.last =>
                 Cut!LeftOut(f, doc, n) \/ doc[n].len = 0 \/ InBlock(doc, b, n)
  <1> DEFINE h == s.title
             z == s.last
  <1>1. h \in Nat /\ z \in Nat /\ h <= z /\ s.first = h + 1 /\ s.first \in Int /\ z \in Int /\ (h # 0 => h \in Heads(doc))
        /\ z <= Len(doc)
    BY DEF Under
  <1>2. /\ Cut!Bare(doc, s) <=> \A n \in h + 1 .. z : doc[n].kind = "blank"
        /\ Cut!Bare(doc, s) /\ h # 0 => Cut!BareHeading(doc, h)
    BY BareIs
  <1>3. CASE Cut!Bare(doc, s) /\ h # 0
    <2>1. <<h>> = Cut!From(h, h) /\ h \in Nat \ {0} /\ h <= Len(doc) /\ h <= h + 1 /\ h \in Heads(doc)
      BY <1>1, <1>3 DEF Cut!From
    <2>2. b = Cut!Block(Cut!RunTexts(doc, Cut!From(h, h)), h, s.first, z)
      BY <1>3, <2>1
    <2> HIDE DEF h, z
    <2>3. b \in BlockSet /\ b.title = h /\ RunsHold(doc, h, h, b.texts)
      BY <1>1, <2>1, <2>2, RunLines
    <2>4. ASSUME NEW p \in PieceSet, OfBlock(p, b) PROVE p \in Fine(f, doc)
      <3>1. h \in s.title .. s.last + 1 /\ h \in s.title .. s.last
        BY <1>1 DEF h, z
      <3>2. b.title = 0 \/ b.title = s.title
        BY <2>3 DEF h
      <3>3. Cut!RightlyTitled(f, doc, p) /\ Cut!LinesOf(p) \subseteq h .. h /\ Cut!LinesOf(p) # {}
        BY <2>3, <2>4, <3>1, <3>2, RunsRight
      <3>4. h \in Cut!LinesOf(p)
        BY <1>1, <3>3
      <3>5. QED
        BY <1>2, <1>3, <3>3, <3>4 DEF Fine, Cut!RightlyCited
    <2>5. ASSUME NEW n \in 1 .. Len(doc), h <= n, n <= z
                 PROVE doc[n].len = 0 \/ InBlock(doc, b, n)
      <3>1. CASE n = h
        <4>1. doc[h].kind # "blank" /\ h \in h .. h
          BY <1>1, <2>1 DEF Heads, Cut!Opening
        <4>2. b.texts # <<>>
          BY <2>3, <4>1 DEF RunsHold
        <4>3. QED
          BY <1>3, <2>3, <3>1, <4>2 DEF InBlock
      <3>2. CASE n # h
        <4>1. n \in h + 1 .. z
          BY <1>1, <2>5, <3>2
        <4>2. QED
          BY <1>2, <1>3, <4>1 DEF FileDoc
      <3>3. QED
        BY <3>1, <3>2
    <2>6. QED
      BY <2>3, <2>4, <2>5 DEF FineBlocks, h, z
  <1>4. CASE ~(Cut!Bare(doc, s) /\ h # 0)
    <2> DEFINE g == s.first
               a == h + 1
    <2>1. /\ s.lines = Cut!From(a, z) /\ a \in Nat \ {0} /\ z \in Nat /\ a <= z + 1 /\ z <= Len(doc)
          /\ h \in Nat /\ g \in Int /\ z \in Int
      BY <1>1 DEF Under
    <2>6. b = Cut!Block(Cut!RunTexts(doc, Cut!From(a, z)), h, g, z)
      BY <1>4, <2>1
    <2> HIDE DEF h, z, g, a
    <2>7. /\ b \in BlockSet /\ b.title = h /\ b.first = g /\ b.last = z
          /\ b.texts = Cut!RunTexts(doc, Cut!From(a, z)) /\ RunsHold(doc, a, z, b.texts)
      BY <2>1, <2>6, RunLines
    <2>2. /\ b \in BlockSet /\ b.title = h /\ b.first = g /\ b.last = z
          /\ b.texts = Cut!RunTexts(doc, s.lines) /\ RunsHold(doc, s.title + 1, s.last, b.texts)
      BY <2>1, <2>7 DEF a, h, z
    <2>3. ASSUME NEW p \in PieceSet, OfBlock(p, b) PROVE p \in Fine(f, doc)
      <3>1. s.title + 1 \in s.title .. s.last + 1 /\ s.last \in s.title .. s.last
        BY <1>1 DEF h, z
      <3>2. b.title = 0 \/ b.title = s.title
        BY <2>2 DEF h
      <3>3. /\ Cut!RightlyTitled(f, doc, p) /\ Cut!LinesOf(p) \subseteq s.title + 1 .. s.last
            /\ p.first = b.first /\ p.last = b.last
        BY <2>2, <2>3, <3>1, <3>2, RunsRight
      <3>4. Cut!LinesOf(p) \subseteq p.first .. p.last
        BY <1>1, <2>2, <3>3 DEF h, z, g
      <3>5. f \notin {"pdf", "djvu", "csv", "xlsx"}
        OBVIOUS
      <3>6. Cut!LinesOf(p) \subseteq Cut!Cited(f, doc, p)
        BY <3>4, <3>5 DEF Cut!Cited
      <3>7. QED
        BY <3>3, <3>6 DEF Fine, Cut!RightlyCited
    <2>4. ASSUME NEW n \in 1 .. Len(doc), h <= n, n <= z
          PROVE  Cut!LeftOut(f, doc, n) \/ doc[n].len = 0 \/ InBlock(doc, b, n)
      <3>1. CASE n = h
        <4>1. PICK m \in h + 1 .. z : doc[m].kind # "blank"
          BY <1>1, <1>2, <1>4, <3>1
        <4>2. b.texts # <<>>
          BY <2>2, <4>1 DEF RunsHold, h, z
        <4>3. QED
          BY <2>2, <3>1, <4>2 DEF InBlock
      <3>2. CASE n # h
        <4>1. n \in s.title + 1 .. s.last
          BY <1>1, <2>4, <3>2 DEF h, z
        <4>2. f \in {"markdown", "pdf", "djvu"} /\ b.texts = Cut!RunTexts(doc, s.lines)
          BY <2>2
        <4>3. QED
          BY <4>1, <4>2, SectionKept
      <3>3. QED
        BY <3>1, <3>2
    <2>5. QED
      BY <2>2, <2>3, <2>4 DEF FineBlocks, h, z
  <1>5. QED
    BY <1>3, <1>4

\* Markdown: a block for each section, cited by its lines.
LEMMA MarkdownWhole ==
    ASSUME Measures, NEW doc, FileDoc(doc)
    PROVE  Whole("markdown", doc, Cut!Cut(doc, Cut!Markdown(doc)))
  <1> DEFINE S == Cut!Sections(doc)
             B(s) == Cut!Block(Cut!RunTexts(doc, IF Cut!Bare(doc, s) /\ s.title # 0 THEN <<s.title>> ELSE s.lines),
                               s.title, s.first, s.last)
             bs == [i \in DOMAIN S |-> B(S[i])]
             f == "markdown"
  <1>1. Cut!Markdown(doc) = Cut!FlattenSeq([i \in DOMAIN S |-> <<B(S[i])>>])
    BY Zenon DEF Cut!Markdown, Cut!EachSection
  <1>2. Cut!Markdown(doc) = Cut!FlattenSeq([i \in DOMAIN S |-> <<bs[i]>>])
    BY <1>1
  <1>3. doc \in Docs /\ f = "markdown"
    BY DEF FileDoc
  <1>4. DOMAIN S = 1 .. Len(S) /\ \A i \in 1 .. Len(S) : Under(doc, S[i])
    BY <1>3, SectionsAre
  <1>5. \A i \in 1 .. Len(S) : bs[i] = B(S[i])
    BY <1>4
  <1> HIDE DEF bs, f
  <1>6. ASSUME NEW i \in 1 .. Len(S)
        PROVE  /\ bs[i] \in FineBlocks(f, doc)
               /\ \A n \in 1 .. Len(doc) : S[i].title <= n /\ n <= S[i].last =>
                     Cut!LeftOut(f, doc, n) \/ doc[n].len = 0 \/ InBlock(doc, bs[i], n)
    <2>1. Under(doc, S[i]) /\ bs[i] = B(S[i])
      BY <1>4, <1>5
    <2> DEFINE bare == Cut!Bare(doc, S[i]) /\ S[i].title # 0
    <2>2. /\ bare => bs[i] = Cut!Block(Cut!RunTexts(doc, <<S[i].title>>), S[i].title, S[i].first, S[i].last)
          /\ ~bare => bs[i] = Cut!Block(Cut!RunTexts(doc, S[i].lines), S[i].title, S[i].first, S[i].last)
          /\ bare <=> Cut!Bare(doc, S[i]) /\ S[i].title # 0
      BY <2>1
    <2> HIDE DEF S, bare
    <2>3. QED
      BY <1>3, <2>1, <2>2, MarkdownBlock
  <1>7. QED
    BY <1>2, <1>3, <1>6, EachBlock

\* The paragraphs of a section.
LEMMA SectionTexts ==
    ASSUME NEW doc, FileDoc(doc), NEW s, Under(doc, s), NEW ts, ts = Cut!RunTexts(doc, s.lines)
    PROVE  RunsHold(doc, s.title + 1, s.last, ts)
  <1> DEFINE a == s.title + 1
             z == s.last
  <1>1. a \in Nat \ {0} /\ z \in Nat /\ a <= z + 1 /\ z <= Len(doc) /\ s.lines = Cut!From(a, z)
    BY DEF Under, FileDoc
  <1>2. ts = Cut!RunTexts(doc, Cut!From(a, z))
    BY <1>1
  <1> HIDE DEF a, z
  <1>3. RunsHold(doc, a, z, ts)
    BY <1>1, <1>2, RunTextsAre
  <1>4. QED
    BY <1>3 DEF a, z

\* A block of the paragraphs of a section, and a passage of it.
LEMMA SectionPage ==
    ASSUME NEW doc, FileDoc(doc), NEW s, Under(doc, s), NEW page \in Nat,
           NEW b, b = Cut!Block(Cut!RunTexts(doc, s.lines), 0, page, page)
    PROVE  /\ b \in BlockSet /\ b.texts = Cut!RunTexts(doc, s.lines)
           /\ \A p \in PieceSet : OfBlock(p, b) =>
                 /\ \A f : Cut!RightlyTitled(f, doc, p)
                 /\ Cut!LinesOf(p) \subseteq s.title + 1 .. s.last /\ Cut!LinesOf(p) # {}
                 /\ p.first = page /\ p.last = page
  <1> DEFINE ts == Cut!RunTexts(doc, s.lines)
             a == s.title + 1
             z == s.last
  <1>1. b.texts = ts /\ b.title = 0 /\ b.first = page /\ b.last = page /\ b = [texts |-> ts, title |-> 0, first |-> page, last |-> page]
    BY DEF Cut!Block
  <1>2. RunsHold(doc, a, z, ts)
    BY SectionTexts
  <1> HIDE DEF ts
  <1>3. b \in BlockSet
    BY <1>1, <1>2 DEF BlockSet, RunsHold
  <1>4. a \in s.title .. s.last + 1 /\ z \in s.title .. s.last
    BY DEF Under
  <1>5. RunsHold(doc, a, z, b.texts)
    BY <1>1, <1>2
  <1> HIDE DEF a, z
  <1>6. ASSUME NEW p \in PieceSet, OfBlock(p, b), NEW f
        PROVE  /\ Cut!RightlyTitled(f, doc, p) /\ Cut!LinesOf(p) \subseteq a .. z /\ Cut!LinesOf(p) # {}
               /\ p.first = b.first /\ p.last = b.last
    BY <1>1, <1>3, <1>4, <1>5, <1>6, RunsRight
  <1>7. QED
    BY <1>1, <1>3, <1>6 DEF a, z, ts

\* The lines of a section are on one page.
LEMMA OnePage ==
    ASSUME NEW doc \in Docs, NEW s, Under(doc, s), NEW n \in s.title .. s.last
    PROVE  Cut!PageOf(doc, n) = Cut!PageOf(doc, s.title) /\ Cut!PageOf(doc, s.title) \in Nat
  <1> DEFINE H == {h \in 1 .. s.title : doc[h].kind = Cut!Opening}
  <1>1. s.title \in Nat /\ s.last \in Nat /\ s.last <= Len(doc) /\ Len(doc) \in Nat
    BY DEF Under, Docs
  <1>2. \A h \in 1 .. n : doc[h].kind = Cut!Opening => h <= s.title
    BY <1>1 DEF Under, Heads
  <1>3. {h \in 1 .. n : doc[h].kind = Cut!Opening} = H
    BY <1>1, <1>2
  <1>4. H \in SUBSET (1 .. s.title)
    OBVIOUS
  <1>5. Cut!PageOf(doc, n) = Cardinality(H) /\ Cut!PageOf(doc, s.title) = Cardinality(H)
    BY <1>3, SameCardinality, Zenon DEF Cut!PageOf
  <1> HIDE DEF H
  <1>6. Cardinality(H) \in Nat
    BY <1>1, <1>4, FinitePart
  <1>7. QED
    BY <1>5, <1>6

\* The block of a page.
LEMMA PdfBlock ==
    ASSUME Measures, NEW doc, FileDoc(doc), NEW s, Under(doc, s), NEW f, f = "pdf", NEW b,
           b = Cut!Block(Cut!RunTexts(doc, s.lines), 0, Cut!PageOf(doc, s.title), Cut!PageOf(doc, s.title))
    PROVE  /\ b \in FineBlocks(f, doc)
           /\ \A n \in 1 .. Len(doc) : s.title <= n /\ n <= s.last =>
                 Cut!LeftOut(f, doc, n) \/ doc[n].len = 0 \/ InBlock(doc, b, n)
  <1> DEFINE page == Cut!PageOf(doc, s.title)
  <1>1. doc \in Docs /\ s.title \in Nat /\ s.last \in Nat /\ s.title <= s.last /\ s.last <= Len(doc)
    BY DEF Under, FileDoc
  <1>2. page \in Nat /\ \A n \in s.title .. s.last : Cut!PageOf(doc, n) = page
    BY <1>1, OnePage
  <1> HIDE DEF page
  <1>3. b = Cut!Block(Cut!RunTexts(doc, s.lines), 0, page, page)
    BY DEF page
  <1>4. /\ b \in BlockSet /\ b.texts = Cut!RunTexts(doc, s.lines)
        /\ \A p \in PieceSet : OfBlock(p, b) =>
              /\ Cut!RightlyTitled(f, doc, p) /\ Cut!LinesOf(p) \subseteq s.title + 1 .. s.last
              /\ p.first = page /\ p.last = page
    BY <1>2, <1>3, SectionPage
  <1>5. ASSUME NEW p \in PieceSet, OfBlock(p, b) PROVE p \in Fine(f, doc)
    <2>1. \A n \in Cut!LinesOf(p) : n \in DOMAIN doc /\ Cut!PageOf(doc, n) = page
      BY <1>1, <1>2, <1>4, <1>5 DEF Docs
    <2>2. page \in p.first .. p.last /\ Cut!RightlyTitled(f, doc, p)
      BY <1>2, <1>4, <1>5
    <2>3. Cut!LinesOf(p) \subseteq Cut!Cited(f, doc, p)
      BY <2>1, <2>2 DEF Cut!Cited
    <2>4. QED
      BY <2>2, <2>3 DEF Fine, Cut!RightlyCited
  <1>6. ASSUME NEW n \in 1 .. Len(doc), s.title <= n, n <= s.last
        PROVE  Cut!LeftOut(f, doc, n) \/ doc[n].len = 0 \/ InBlock(doc, b, n)
    <2>1. CASE n = s.title
      <3>1. doc[n].kind = Cut!Opening
        BY <2>1 DEF Under, Heads
      <3>2. QED
        BY <3>1 DEF Cut!LeftOut
    <2>2. CASE n # s.title
      <3>1. n \in s.title + 1 .. s.last /\ f \in {"markdown", "pdf", "djvu"}
        BY <1>1, <1>6, <2>2
      <3>2. QED
        BY <1>4, <3>1, SectionKept
    <2>3. QED
      BY <2>1, <2>2
  <1>7. QED
    BY <1>4, <1>5, <1>6 DEF FineBlocks

\* Pdf: a block for each section, cited by its page.
LEMMA PdfWhole ==
    ASSUME Measures, NEW doc, FileDoc(doc)
    PROVE  Whole("pdf", doc, Cut!Cut(doc, Cut!Pdf(doc)))
  <1> DEFINE S == Cut!Sections(doc)
             B(s) == Cut!Block(Cut!RunTexts(doc, s.lines), 0, Cut!PageOf(doc, s.title), Cut!PageOf(doc, s.title))
             bs == [i \in DOMAIN S |-> B(S[i])]
             f == "pdf"
  <1>1. Cut!Pdf(doc) = Cut!FlattenSeq([i \in DOMAIN S |-> <<B(S[i])>>])
    BY Zenon DEF Cut!Pdf, Cut!EachSection
  <1>2. Cut!Pdf(doc) = Cut!FlattenSeq([i \in DOMAIN S |-> <<bs[i]>>])
    BY <1>1
  <1>3. doc \in Docs /\ f = "pdf"
    BY DEF FileDoc
  <1>4. DOMAIN S = 1 .. Len(S) /\ \A i \in 1 .. Len(S) : Under(doc, S[i])
    BY <1>3, SectionsAre
  <1>5. \A i \in 1 .. Len(S) : bs[i] = B(S[i])
    BY <1>4
  <1> HIDE DEF bs, f
  <1>6. ASSUME NEW i \in 1 .. Len(S)
        PROVE  /\ bs[i] \in FineBlocks(f, doc)
               /\ \A n \in 1 .. Len(doc) : S[i].title <= n /\ n <= S[i].last =>
                     Cut!LeftOut(f, doc, n) \/ doc[n].len = 0 \/ InBlock(doc, bs[i], n)
    <2>1. Under(doc, S[i]) /\ bs[i] = B(S[i])
      BY <1>4, <1>5
    <2> HIDE DEF S
    <2>2. QED
      BY <1>3, <2>1, PdfBlock
  <1>7. QED
    BY <1>2, <1>3, <1>6, EachBlock

\* Where every page has its heading, the first section has no line, and the
\* others are numbered as the pages are.
LEMMA PagesAre ==
    ASSUME NEW doc, FileDoc(doc), doc[1].kind = Cut!Opening, NEW S, S = Cut!Sections(doc)
    PROVE  /\ Cut!Bare(doc, S[1]) /\ S[1].title = 0
           /\ \A j \in 1 .. Len(S) : j # 1 =>
                 S[j].title \in Heads(doc) /\ Cut!PageOf(doc, S[j].title) = j - 1
           /\ \A i, j \in 1 .. Len(S) : i # 1 /\ i < j => S[i].title < S[j].title
  <1> DEFINE H == Heads(doc)
             A == Cut!Ascending(H)
  <1>1. doc \in Docs /\ Len(doc) \in Nat /\ 1 \in H
    BY DEF FileDoc, Heads
  <1>2. /\ H \subseteq 1 .. Len(doc) /\ Len(S) = Cardinality(H) + 1 /\ Cardinality(H) \in Nat
        /\ \A i \in 1 .. Len(S) : Under(doc, S[i]) /\ S[i].title = IF i = 1 THEN 0 ELSE A[i - 1]
    BY <1>1, SectionsAre
  <1>3. Cut!Bare(doc, S[1]) /\ S[1].title = 0
    <2>1. 1 \in 1 .. Len(S)
      BY <1>2
    <2>2. Under(doc, S[1]) /\ S[1].title = 0
      BY <1>2, <2>1
    <2>3. \A n \in S[1].title + 1 .. S[1].last : doc[n].kind = "blank"
      BY <1>1, <2>2 DEF Under
    <2>4. QED
      BY <2>2, <2>3, BareIs
  <1> HIDE DEF H, A
  <1>4. /\ Len(A) = Cardinality(H)
        /\ \A i \in 1 .. Len(A) : A[i] \in H /\ Below(H, A[i]) = i - 1
        /\ \A i, j \in 1 .. Len(A) : i < j => A[i] < A[j]
    BY <1>1, <1>2, InOrder DEF A
  <1>5. ASSUME NEW j \in 1 .. Len(S), j # 1
        PROVE  S[j].title \in H /\ Cut!PageOf(doc, S[j].title) = j - 1
    <2> DEFINE t == S[j].title
               L == {y \in H : y < t}
    <2>1. j - 1 \in 1 .. Len(A) /\ t = A[j - 1]
      BY <1>2, <1>4, <1>5
    <2> HIDE DEF t
    <2>2. t \in H /\ Below(H, t) = j - 2 /\ t \in 1 .. Len(doc) /\ t \in Nat
      <3>1. PICK k \in 1 .. Len(A) : k = j - 1 /\ t = A[k]
        BY <2>1
      <3>2. t \in H /\ Below(H, t) = k - 1
        BY <1>4, <3>1
      <3>3. QED
        BY <1>2, <3>1, <3>2
    <2>3. {h \in 1 .. t : doc[h].kind = Cut!Opening} = L \cup {t}
      BY <1>1, <2>2 DEF H, Heads
    <2>4. L \in SUBSET (1 .. Len(doc)) /\ t \notin L
      <3>1. \A y \in L : y \in 1 .. Len(doc) /\ y # t
        BY <1>2, <2>2
      <3>2. QED
        BY <3>1
    <2>9. Cardinality(L) = j - 2
      BY <2>2 DEF Below
    <2>5. Cut!PageOf(doc, t) = Cardinality(L \cup {t})
      BY <2>3, SameCardinality, Zenon DEF Cut!PageOf
    <2> HIDE DEF L
    <2>6. IsFiniteSet(L)
      BY <1>1, <2>4, FinitePart
    <2>7. Cardinality(L \cup {t}) = Cardinality(L) + 1
      BY <2>4, <2>6, FS_AddElement
    <2>8. QED
      BY <2>2, <2>4, <2>5, <2>7, <2>9 DEF t
  <1>6. \A i, j \in 1 .. Len(S) : i # 1 /\ i < j => S[i].title < S[j].title
    <2>1. ASSUME NEW i \in 1 .. Len(S), NEW j \in 1 .. Len(S), i # 1, i < j
                 PROVE S[i].title < S[j].title
      <3>1. i - 1 \in 1 .. Len(A) /\ j - 1 \in 1 .. Len(A) /\ i - 1 < j - 1
        BY <1>2, <1>4, <2>1
      <3>2. S[i].title = A[i - 1] /\ S[j].title = A[j - 1]
        <4>1. i # 1 /\ j # 1
          BY <2>1
        <4>2. S[i].title = A[i - 1]
          BY <1>2, <2>1, <4>1
        <4>3. S[j].title = A[j - 1]
          BY <1>2, <2>1, <4>1
        <4>4. QED
          BY <4>2, <4>3
      <3>3. QED
        BY <1>4, <3>1, <3>2
    <2>2. QED
      BY <2>1
  <1>7. QED
    BY <1>3, <1>5, <1>6 DEF H

\* Of the pages that are not empty, one has the number it stands at, or an
\* empty one stands before it.
LEMMA PageAt ==
    ASSUME NEW m \in Nat, NEW K \in SUBSET (1 .. m), 1 \notin K, NEW j \in K,
           \A i \in 2 .. j - 1 : i \in K
    PROVE  Below(K, j) = j - 2
  <1>1. j \in 2 .. m
    OBVIOUS
  <1>5. K \subseteq 1 .. m /\ \A y \in K : y \in Nat /\ 1 <= y /\ y # 1
    OBVIOUS
  <1>6. ASSUME NEW y \in K, y < j PROVE y \in 2 .. j - 1
    <2>1. y \in Nat /\ 1 <= y /\ y # 1
      BY <1>5
    <2>2. QED
      BY <1>1, <1>6, <2>1
  <1>7. \A y \in 2 .. j - 1 : y \in K /\ y < j
    BY <1>1
  <1>2. {y \in K : y < j} = 2 .. j - 1
    BY <1>6, <1>7
  <1>3. Cardinality(2 .. j - 1) = j - 2
    BY <1>1, FS_Interval
  <1>4. QED
    BY <1>2, <1>3 DEF Below

\* A page numbered r is the r-th, or stands after an empty one.
PageOr(doc, s, r) ==
    \/ Cut!PageOf(doc, s.title) = r
    \/ \E h \in 1 .. Len(doc) : Cut!BareHeading(doc, h) /\ h < s.title

\* The page of a passage is the rank of its section, of those not bare.
LEMMA PageRank ==
    ASSUME NEW doc, FileDoc(doc), doc[1].kind = Cut!Opening, NEW S, S = Cut!Sections(doc),
           NEW K, K = {i \in 1 .. Len(S) : ~Cut!Bare(doc, S[i])}, NEW j \in K
    PROVE  Below(K, j) \in Nat /\ PageOr(doc, S[j], Below(K, j) + 1)
  <1>0. doc \in Docs
    BY DEF FileDoc
  <1>1. doc \in Docs /\ Len(S) \in Nat /\ j \in 1 .. Len(S) /\ \A i \in 1 .. Len(S) : Under(doc, S[i])
    BY <1>0, SectionsAre
  <1>2. K \in SUBSET (1 .. Len(S)) /\ \A i \in 1 .. Len(S) : i \in K <=> ~Cut!Bare(doc, S[i])
    OBVIOUS
  <1>3. Below(K, j) \in Nat
    <2>1. j \in Nat
      BY <1>1
    <2>2. QED
      BY <1>1, <1>2, <2>1, BelowIs
  <1>4. /\ Cut!Bare(doc, S[1]) /\ S[1].title = 0
        /\ \A i \in 1 .. Len(S) : i # 1 => S[i].title \in Heads(doc) /\ Cut!PageOf(doc, S[i].title) = i - 1
        /\ \A i \in 1 .. Len(S) : i # 1 /\ i < j => S[i].title < S[j].title
    BY <1>1, PagesAre
  <1>5. 1 \notin K
    BY <1>1, <1>2, <1>4
  <1>6. CASE \A i \in 2 .. j - 1 : i \in K
    <2>1. Below(K, j) = j - 2
      BY <1>1, <1>2, <1>5, <1>6, PageAt
    <2>2. Cut!PageOf(doc, S[j].title) = j - 1
      BY <1>1, <1>4, <1>5
    <2>3. QED
      BY <1>1, <1>3, <2>1, <2>2 DEF PageOr
  <1>7. CASE \E i \in 2 .. j - 1 : i \notin K
    <2>1. PICK i \in 2 .. j - 1 : i \notin K
      BY <1>7
    <2>2. i \in 1 .. Len(S) /\ i # 1 /\ i < j /\ Cut!Bare(doc, S[i])
      BY <1>1, <1>2, <2>1
    <2>3. Under(doc, S[i]) /\ S[i].title \in Heads(doc) /\ S[i].title < S[j].title
      BY <1>1, <1>4, <2>2
    <2>4. S[i].title # 0 /\ S[i].title \in 1 .. Len(doc)
      BY <2>3 DEF Heads
    <2>5. Cut!BareHeading(doc, S[i].title)
      BY <2>2, <2>3, <2>4, BareIs
    <2>6. QED
      BY <1>3, <2>3, <2>4, <2>5 DEF PageOr
  <1>8. QED
    BY <1>6, <1>7

\* The block of a page, numbered r.
LEMMA DjvuBlock ==
    ASSUME Measures, NEW doc, FileDoc(doc), NEW s, Under(doc, s), NEW r \in Nat,
           PageOr(doc, s, r),
           NEW b, b = Cut!Block(Cut!RunTexts(doc, s.lines), 0, r, r), NEW f, f = "djvu"
    PROVE  /\ b \in FineBlocks(f, doc)
           /\ \A n \in s.title + 1 .. s.last : Cut!LeftOut(f, doc, n) \/ doc[n].len = 0 \/ InBlock(doc, b, n)
  <1>1. doc \in Docs /\ s.title \in Nat /\ s.last \in Nat /\ s.title <= s.last /\ s.last <= Len(doc)
    BY DEF Under, FileDoc
  <1>2. DOMAIN doc = 1 .. Len(doc) /\ Len(doc) \in Nat
    BY <1>1 DEF Docs
  <1>3. /\ b \in BlockSet /\ b.texts = Cut!RunTexts(doc, s.lines)
        /\ \A p \in PieceSet : OfBlock(p, b) =>
              /\ Cut!RightlyTitled(f, doc, p)
              /\ Cut!LinesOf(p) \subseteq s.title + 1 .. s.last /\ Cut!LinesOf(p) # {}
              /\ p.first = r /\ p.last = r
    BY SectionPage
  <1>4. ASSUME NEW p \in PieceSet, OfBlock(p, b) PROVE Cut!RightlyCited(f, doc, p)
    <2>0. Cut!LinesOf(p) \subseteq s.title + 1 .. s.last /\ Cut!LinesOf(p) # {} /\ p.first = r /\ p.last = r
      BY <1>3, <1>4
    <2>1. \A n \in Cut!LinesOf(p) : n \in s.title .. s.last /\ n \in DOMAIN doc /\ s.title < n
      BY <1>1, <1>2, <2>0
    <2>2. CASE Cut!PageOf(doc, s.title) = r
      <3>1. \A n \in Cut!LinesOf(p) : Cut!PageOf(doc, n) = r
        BY <1>1, <2>1, <2>2, OnePage
      <3>2. r \in p.first .. p.last
        BY <2>0
      <3>3. Cut!LinesOf(p) \subseteq Cut!Cited(f, doc, p)
        BY <2>1, <3>1, <3>2 DEF Cut!Cited
      <3>4. QED
        BY <3>3 DEF Cut!RightlyCited
    <2>3. CASE \E h \in 1 .. Len(doc) : Cut!BareHeading(doc, h) /\ h < s.title
      <3>1. PICK h \in 1 .. Len(doc) : Cut!BareHeading(doc, h) /\ h < s.title
        BY <2>3
      <3>2. Cut!LinesOf(p) \subseteq 1 .. Len(doc) /\ Cut!LinesOf(p) # {}
        BY <1>2, <2>0, <2>1
      <3>3. Cut!Max(Cut!LinesOf(p)) \in Cut!LinesOf(p)
        BY <1>2, <3>2, TopOf
      <3>4. s.title < Cut!Max(Cut!LinesOf(p)) /\ Cut!Max(Cut!LinesOf(p)) \in 1 .. Len(doc) /\ h \in DOMAIN doc
        BY <1>2, <2>1, <3>2, <3>3
      <3>5. h < Cut!Max(Cut!LinesOf(p))
        BY <1>1, <3>1, <3>4
      <3>6. QED
        BY <3>1, <3>4, <3>5 DEF Cut!RightlyCited
    <2>4. QED
      BY <2>2, <2>3 DEF PageOr
  <1>5. b \in FineBlocks(f, doc)
    BY <1>3, <1>4 DEF FineBlocks, Fine
  <1>6. f \in {"markdown", "pdf", "djvu"}
    OBVIOUS
  <1>7. QED
    BY <1>3, <1>5, <1>6, SectionKept

\* Djvu: the pages that are not empty, numbered.
LEMMA DjvuWhole ==
    ASSUME Measures, NEW doc, FileDoc(doc), doc[1].kind = Cut!Opening
    PROVE  Whole("djvu", doc, Cut!Cut(doc, Cut!Djvu(doc)))
  <1> DEFINE S == Cut!Sections(doc)
             K == {i \in 1 .. Len(S) : ~Cut!Bare(doc, S[i])}
             A == Cut!Ascending(K)
             pages == Picked(S, K)
             blocks == Cut!Djvu(doc)
             f == "djvu"
  <1>1. /\ doc \in Docs /\ DOMAIN S = 1 .. Len(S) /\ Len(S) \in Nat /\ \A i \in 1 .. Len(S) : Under(doc, S[i])
        /\ \A n \in 1 .. Len(doc) : \E i \in 1 .. Len(S) : S[i].title <= n /\ n <= S[i].last
    <2>1. doc \in Docs
      BY DEF FileDoc
    <2>2. /\ S \in Seq(Parts0) /\ \A i \in 1 .. Len(S) : Under(doc, S[i])
          /\ \A n \in 1 .. Len(doc) : \E i \in 1 .. Len(S) : S[i].title <= n /\ n <= S[i].last
      BY <2>1, SectionsAre
    <2>3. QED
      BY <2>1, <2>2
  <1>2. K = {i \in DOMAIN S : ~Cut!Bare(doc, S[i])} /\ f = "djvu"
    BY <1>1
  <1>3. pages = Cut!Keep(S, LAMBDA s : ~Cut!Bare(doc, s))
    BY <1>2, Zenon DEF Picked, Cut!Keep
  <1>4. blocks = [i \in DOMAIN pages |-> Cut!Block(Cut!RunTexts(doc, pages[i].lines), 0, i, i)]
    BY <1>3, Zenon DEF Cut!Djvu
  <1>5. K \subseteq 1 .. Len(S) /\ \A i \in 1 .. Len(S) : i \in K <=> ~Cut!Bare(doc, S[i])
    OBVIOUS
  <1> HIDE DEF blocks, f
  <1>6. /\ DOMAIN A = 1 .. Len(A) /\ Len(A) \in Nat /\ \A r \in 1 .. Len(A) : A[r] \in K /\ Below(K, A[r]) = r - 1
        /\ \A i \in K : \E r \in 1 .. Len(A) : A[r] = i
    <2> DEFINE m == Len(S)
    <2>1. m \in Nat /\ K \subseteq 1 .. m
      BY <1>1, <1>5
    <2> HIDE DEF K, m
    <2>2. /\ Len(A) = Cardinality(K) /\ Cardinality(K) \in Nat /\ DOMAIN A = 1 .. Len(A)
          /\ \A r \in 1 .. Len(A) : A[r] \in K /\ Below(K, A[r]) = r - 1
      BY <2>1, InOrder
    <2>3. \A i \in K : \E r \in 1 .. Len(A) : A[r] = i
      BY <2>1, InOrder
    <2>4. QED
      BY <2>2, <2>3
  <1>7. DOMAIN pages = 1 .. Len(A) /\ \A r \in 1 .. Len(A) : pages[r] = S[A[r]]
    BY <1>6 DEF Picked
  <1>8. ASSUME NEW r \in 1 .. Len(A)
        PROVE  /\ blocks[r] \in FineBlocks(f, doc)
               /\ \A n \in S[A[r]].title + 1 .. S[A[r]].last :
                     Cut!LeftOut(f, doc, n) \/ doc[n].len = 0 \/ InBlock(doc, blocks[r], n)
    <2> DEFINE j == A[r]
               s == S[j]
               b == blocks[r]
    <2>1. j \in K /\ Below(K, j) = r - 1 /\ r \in Nat /\ Below(K, j) + 1 = r
      BY <1>6
    <2>2. Under(doc, s) /\ b = Cut!Block(Cut!RunTexts(doc, s.lines), 0, r, r)
      BY <1>1, <1>4, <1>5, <1>7, <2>1
    <2> HIDE DEF j, K, S, A
    <2>3. PageOr(doc, s, Below(K, j) + 1)
      BY <2>1, PageRank DEF S, K
    <2>4. PageOr(doc, s, r)
      BY <2>1, <2>3
    <2> HIDE DEF s, b
    <2>5. /\ b \in FineBlocks(f, doc)
          /\ \A n \in s.title + 1 .. s.last : Cut!LeftOut(f, doc, n) \/ doc[n].len = 0 \/ InBlock(doc, b, n)
      BY <1>2, <2>1, <2>2, <2>4, DjvuBlock
    <2>6. QED
      BY <2>5 DEF s, b, j
  <1> HIDE DEF pages, A, K
  <1>9. blocks \in Seq(FineBlocks(f, doc)) /\ Len(blocks) = Len(A)
    <2>1. blocks \in [1 .. Len(A) -> FineBlocks(f, doc)]
      BY <1>4, <1>7, <1>8
    <2>2. QED
      BY <1>6, <2>1
  <1>10. ASSUME NEW n \in 1 .. Len(doc)
         PROVE  \/ Cut!LeftOut(f, doc, n) \/ doc[n].len = 0
                \/ \E b : Among(b, blocks) /\ InBlock(doc, b, n)
    <2>1. PICK i \in 1 .. Len(S) : S[i].title <= n /\ n <= S[i].last
      BY <1>1
    <2>2. S[i].title \in Nat /\ S[i].last \in Nat /\ Under(doc, S[i])
      BY <1>1 DEF Under
    <2>3. CASE n = S[i].title
      <3>1. doc[n].kind = Cut!Opening
        BY <2>2, <2>3 DEF Under, Heads
      <3>2. QED
        BY <1>2, <3>1 DEF Cut!LeftOut
    <2>4. CASE n # S[i].title /\ Cut!Bare(doc, S[i])
      <3>1. n \in S[i].title + 1 .. S[i].last
        BY <2>1, <2>2, <2>4
      <3>2. doc[n].kind = "blank"
        BY <2>2, <2>4, <3>1, BareIs
      <3>3. QED
        BY <3>2 DEF FileDoc
    <2>5. CASE n # S[i].title /\ ~Cut!Bare(doc, S[i])
      <3>1. n \in S[i].title + 1 .. S[i].last
        BY <2>1, <2>2, <2>5
      <3>2. PICK r \in 1 .. Len(A) : A[r] = i
        BY <1>5, <1>6, <2>5
      <3>3. Among(blocks[r], blocks)
        BY <1>9, <3>2 DEF Among
      <3>4. QED
        BY <1>8, <3>1, <3>2, <3>3
    <2>6. QED
      BY <2>3, <2>4, <2>5
  <1>11. QED
    BY <1>1, <1>2, <1>9, <1>10, BlocksWhole DEF blocks

-----------------------------------------------------------------------------
(* LaTeX: what is left of a section, and the passages it is cut into. *)
LatexBody(doc, s) ==
    LET t == Cut!Strip(Cut!TextOf(Cut!Uncommented(doc), s.lines))
    IN  IF t = <<>> /\ s.title # 0 THEN Cut!LineText(doc, s.title) ELSE t
LatexFirst(s) == IF s.title = 0 THEN 1 ELSE s.title
LatexLast(doc, s) == IF s.last = Len(doc) THEN s.last ELSE s.last + 1
LatexGone(doc, s) ==
    \/ LatexBody(doc, s) = <<>>
    \/ s.title = 0 /\ Cut!Defs(doc) # {} /\ Len(LatexBody(doc, s)) < MIN_CHUNK_CHARS
LatexMade(doc, s) ==
    IF LatexGone(doc, s) THEN <<>>
    ELSE <<Cut!Passage(LatexBody(doc, s), Cut!Title(s.title), LatexFirst(s), LatexLast(doc, s))>>
LatexCut(doc, p) ==
    LET texts == IF Len(p.text) > MAX_CHUNK_CHARS THEN Cut!SentencePieces(doc, p.text, MAX_CHUNK_CHARS) ELSE <<p.text>>
    IN  [i \in DOMAIN texts |-> [p EXCEPT !.text = texts[i]]]

\* A section of LaTeX too long for a passage is cut in pieces of it.
LEMMA LatexCutIs ==
    ASSUME NEW doc, NEW p, NEW qs, qs = LatexCut(doc, p), p \in PieceSet, Firm(p.text)
    PROVE  /\ qs \in Seq(PieceSet) /\ \A k \in 1 .. Len(qs) : PieceOf(qs[k], p)
           /\ \A u \in UnitsOf(p.text) : \E k \in 1 .. Len(qs) : u \in UnitsOf(qs[k].text)
           /\ \E k \in 1 .. Len(qs) : qs[k].titles = p.titles
  <1> DEFINE t == p.text
             texts == IF Len(t) > MAX_CHUNK_CHARS THEN Cut!SentencePieces(doc, t, MAX_CHUNK_CHARS) ELSE <<t>>
  <1>1. t \in Text /\ t \in FirmText /\ UnitsOf(t) # {}
    BY FirmUnits DEF FirmText
  <1>2. qs = [i \in DOMAIN texts |-> [p EXCEPT !.text = texts[i]]]
    BY DEF LatexCut
  <1> HIDE DEF t
  <1>3. texts \in Seq(FirmText) /\ UnitsIn(texts) = UnitsOf(t)
    <2>1. CASE Len(t) > MAX_CHUNK_CHARS
      BY <1>1, <2>1, SentencePiecesIs
    <2>2. CASE ~(Len(t) > MAX_CHUNK_CHARS)
      BY <1>1, <2>2, UnitsOne
    <2>3. QED
      BY <2>1, <2>2
  <1> HIDE DEF texts
  <1>4. /\ Len(qs) = Len(texts) /\ Len(texts) \in Nat /\ DOMAIN texts = 1 .. Len(texts)
        /\ \A k \in 1 .. Len(texts) : texts[k] \in Text /\ Firm(texts[k]) /\ qs[k] = [p EXCEPT !.text = texts[k]]
    <2>1. DOMAIN texts = 1 .. Len(texts) /\ Len(texts) \in Nat /\ \A k \in 1 .. Len(texts) : texts[k] \in FirmText
      BY <1>3
    <2>2. \A k \in 1 .. Len(texts) : texts[k] \in Text /\ Firm(texts[k])
      BY <2>1 DEF FirmText
    <2>3. qs = [i \in 1 .. Len(texts) |-> [p EXCEPT !.text = texts[i]]]
      BY <1>2, <2>1
    <2>4. Len(qs) = Len(texts) /\ \A k \in 1 .. Len(texts) : qs[k] = [p EXCEPT !.text = texts[k]]
      BY <2>1, <2>3
    <2>5. QED
      BY <2>1, <2>2, <2>4
  <1>5. ASSUME NEW k \in 1 .. Len(qs)
        PROVE  PieceOf(qs[k], p) /\ qs[k].text = texts[k] /\ qs[k] \in PieceSet
    <2>1. /\ qs[k].text = texts[k] /\ qs[k].titles = p.titles /\ qs[k].first = p.first /\ qs[k].last = p.last
          /\ qs[k] \in PieceSet
      <3>1. texts[k] \in Text /\ qs[k] = [p EXCEPT !.text = texts[k]]
        BY <1>4
      <3>2. p = [text |-> p.text, titles |-> p.titles, first |-> p.first, last |-> p.last] /\ p.titles \in SUBSET Nat /\ p.first \in Int /\ p.last \in Int
        BY DEF PieceSet
      <3>3. QED
        BY <3>1, <3>2 DEF PieceSet
    <2>2. UnitsOf(texts[k]) # {}
      BY <1>4, FirmUnits
    <2>3. UnitsOf(texts[k]) \subseteq UnitsOf(t)
      BY <1>3, <1>4 DEF UnitsIn
    <2>4. QED
      BY <2>1, <2>2, <2>3 DEF PieceOf, t
  <1>6. qs \in Seq(PieceSet)
    <2>1. qs \in [1 .. Len(texts) -> PieceSet]
      BY <1>2, <1>4, <1>5
    <2>2. QED
      BY <1>4, <2>1
  <1>7. ASSUME NEW u \in UnitsOf(t)
               PROVE \E k \in 1 .. Len(qs) : u \in UnitsOf(qs[k].text) /\ qs[k].titles = p.titles
    <2>1. PICK k \in 1 .. Len(texts) : u \in UnitsOf(texts[k])
      BY <1>3 DEF UnitsIn
    <2>2. QED
      BY <1>4, <1>5, <2>1 DEF PieceOf
  <1>8. QED
    BY <1>1, <1>5, <1>6, <1>7 DEF t

\* What is left of a section is of its lines, and holds all but the comments.
LEMMA LatexBodyIs ==
    ASSUME NEW doc, FileDoc(doc), NEW s, Under(doc, s), NEW t, t = LatexBody(doc, s)
    PROVE  /\ OfLines(doc, t, LatexFirst(s) .. s.last) /\ (t # <<>> => Firm(t)) /\ (s.title # 0 => t # <<>>)
           /\ \A n \in s.title + 1 .. s.last : doc[n].kind # "note" => LineUnits(doc, n) \subseteq UnitsOf(t)
  <1> DEFINE d == Cut!Uncommented(doc)
             ns == s.lines
             a == Cut!TextOf(d, ns)
             b == Cut!Strip(a)
             h == s.title
  <1>1. /\ doc \in Docs /\ d \in Docs /\ Len(d) = Len(doc) /\ Len(doc) \in Nat
        /\ \A n \in 1 .. Len(doc) : /\ doc[n].kind # "note" => LineUnits(d, n) = LineUnits(doc, n)
                                    /\ LineUnits(d, n) \subseteq LineUnits(doc, n)
    BY UncommentedIs DEF FileDoc
  <1>2. /\ ns \in Seq(1 .. Len(doc)) /\ h \in Nat /\ s.last \in Nat /\ h <= s.last /\ s.last <= Len(doc)
        /\ \A i \in 1 .. Len(ns) : ns[i] \in h + 1 .. s.last
        /\ \A n \in h + 1 .. s.last : Among(n, ns)
    BY <1>1, SectionLines
  <1>3. t = IF b = <<>> /\ h # 0 THEN Cut!LineText(doc, h) ELSE b
    BY DEF LatexBody
  <1>4. ns \in Seq(1 .. Len(d))
    BY <1>1, <1>2
  <1>5. h # 0 => h \in Heads(doc)
    BY DEF Under
  <1>9. \A n \in h + 1 .. s.last : n \in 1 .. Len(doc) /\ n \in LatexFirst(s) .. s.last
    BY <1>2 DEF LatexFirst
  <1> HIDE DEF d, ns, h
  <1>6. a \in Text /\ \A u : u \in UnitsOf(a) <=> \E i \in 1 .. Len(ns) : u \in LineUnits(d, ns[i])
    BY <1>1, <1>4, TextIs
  <1> HIDE DEF a
  <1>7. b \in Text /\ UnitsOf(b) = UnitsOf(a) /\ (b = <<>> <=> UnitsOf(a) = {}) /\ (UnitsOf(a) # {} => Firm(b))
    BY <1>6, UnitsStrip, FirmStrip
  <1> HIDE DEF b
  <1>8. ASSUME NEW u \in UnitsOf(b)
               PROVE \E n \in LatexFirst(s) .. s.last : u \in LineUnits(doc, n)
    <2>1. PICK i \in 1 .. Len(ns) : u \in LineUnits(d, ns[i])
      BY <1>6, <1>7
    <2>2. QED
      BY <1>1, <1>2, <1>9, <2>1
  <1>10. ASSUME NEW n \in h + 1 .. s.last, doc[n].kind # "note"
                PROVE LineUnits(doc, n) \subseteq UnitsOf(b)
    <2>1. PICK i \in 1 .. Len(ns) : ns[i] = n
      BY <1>2 DEF Among
    <2>2. QED
      BY <1>1, <1>6, <1>7, <1>9, <1>10, <2>1
  <1>11. CASE b = <<>> /\ h # 0
    <2>1. /\ t = Cut!LineText(doc, h) /\ t \in Text /\ Firm(t) /\ UnitsOf(t) = LineUnits(doc, h)
      BY <1>3, <1>5, <1>11, HeadLine
    <2>2. h \in LatexFirst(s) .. s.last
      BY <1>2, <1>11 DEF LatexFirst, h
    <2>3. t # <<>>
      BY <2>1, FirmUnits
    <2>4. UnitsOf(b) = {}
      BY <1>7, <1>11
    <2>5. QED
      BY <1>10, <2>1, <2>2, <2>3, <2>4 DEF OfLines, h
  <1>12. CASE ~(b = <<>> /\ h # 0)
    <2>1. t = b
      BY <1>3, <1>12
    <2>2. QED
      BY <1>7, <1>8, <1>10, <1>12, <2>1 DEF OfLines, h
  <1>13. QED
    BY <1>11, <1>12

OfLatex(doc, s, p) ==
    /\ p \in PieceSet /\ Firm(p.text) /\ p.titles = Cut!Title(s.title) /\ OfLines(doc, p.text, LatexFirst(s) .. s.last)
    /\ p.first = LatexFirst(s) /\ p.last = LatexLast(doc, s)

\* The passage of a section, if there is one, holds what is not known to be left out.
LEMMA LatexMadeIs ==
    ASSUME NEW doc, FileDoc(doc), NEW s, Under(doc, s), NEW made, made = LatexMade(doc, s)
    PROVE  /\ made \in Seq(PieceSet) /\ \A j \in 1 .. Len(made) : OfLatex(doc, s, made[j])
           /\ \A n \in 1 .. Len(doc) : s.title <= n /\ n <= s.last =>
                 \/ Cut!LeftOut("latex", doc, n) \/ doc[n].len = 0
                 \/ \E j \in 1 .. Len(made) : LineUnits(doc, n) \subseteq UnitsOf(made[j].text) \/ n \in made[j].titles
  <1> DEFINE t == LatexBody(doc, s)
             h == s.title
  <1>1. /\ h \in Nat /\ s.last \in Nat /\ h <= s.last /\ s.last <= Len(doc) /\ doc \in Docs /\ Len(doc) \in Nat
        /\ (h # 0 => h \in Heads(doc)) /\ \A k \in Heads(doc) : k <= h \/ s.last < k
    BY DEF Under, FileDoc
  <1>2. /\ OfLines(doc, t, LatexFirst(s) .. s.last) /\ (t # <<>> => Firm(t)) /\ (h # 0 => t # <<>>)
        /\ \A n \in h + 1 .. s.last : doc[n].kind # "note" => LineUnits(doc, n) \subseteq UnitsOf(t)
    BY LatexBodyIs
  <1>3. \A n : doc[n].kind = "note" => Cut!LeftOut("latex", doc, n)
    BY DEF Cut!LeftOut
  <1>4. CASE LatexGone(doc, s)
    <2>1. made = <<>>
      BY <1>4 DEF LatexMade
    <2>2. h = 0
      BY <1>2, <1>4 DEF LatexGone
    <2>3. ASSUME NEW n \in 1 .. Len(doc), h <= n, n <= s.last
          PROVE  Cut!LeftOut("latex", doc, n) \/ doc[n].len = 0
      <3>1. n \in h + 1 .. s.last
        BY <1>1, <2>2, <2>3
      <3>2. CASE t = <<>>
        <4>1. UnitsOf(t) = {}
          BY <3>2, UnitsWhite
        <4>2. doc[n].kind # "note" => LineUnits(doc, n) = {}
          BY <1>2, <3>1, <4>1
        <4>3. LineUnits(doc, n) = {} => doc[n].len = 0
          <5>1. doc[n].len \in Nat
            BY <1>1, LineIs
          <5>2. doc[n].len # 0 => <<n, 1>> \in LineUnits(doc, n)
            BY <5>1 DEF LineUnits
          <5>3. QED
            BY <5>2
        <4>4. QED
          BY <1>3, <4>2, <4>3
      <3>3. CASE t # <<>>
        <4>1. Cut!Defs(doc) # {} /\ Cut!Defs(doc) = Heads(doc) /\ Heads(doc) \subseteq Nat
          <5>1. Cut!Defs(doc) # {}
            BY <1>4, <3>3 DEF LatexGone
          <5>2. Cut!Defs(doc) = Heads(doc) /\ Heads(doc) \subseteq 1 .. Len(doc)
            BY <1>1, SectionsAre
          <5>3. QED
            BY <5>1, <5>2
        <4>2. Cut!Min(Heads(doc)) \in Heads(doc)
          BY <4>1, BottomOf
        <4>3. n < Cut!Min(Heads(doc))
          BY <1>1, <2>2, <2>3, <4>1, <4>2 DEF Heads
        <4>4. Cut!Min(Heads(doc)) - 1 = s.last
          <5>1. s.last + 1 \in Heads(doc)
            BY <1>1, <2>2, <4>2 DEF Under, Heads
          <5>2. \A k \in Heads(doc) : s.last + 1 <= k
            BY <1>1, <2>2, <4>1, <4>2 DEF Heads
          <5>3. Cut!Min(Heads(doc)) = s.last + 1
            BY <4>1, <5>1, <5>2, BottomOf
          <5>4. QED
            BY <1>1, <5>3
        <4>5. t = Cut!Strip(Cut!TextOf(Cut!Uncommented(doc), Cut!From(1, Cut!Min(Cut!Defs(doc)) - 1)))
          <5>1. s.lines = Cut!From(1, s.last)
            BY <2>2 DEF Under
          <5>2. QED
            BY <2>2, <4>1, <4>4, <5>1 DEF LatexBody
        <4>6. Len(t) < MIN_CHUNK_CHARS
          BY <1>4, <3>3 DEF LatexGone
        <4>7. Cut!ShortPreamble(doc, n)
          <5> HIDE DEF t
          <5>1. QED
            BY <4>1, <4>3, <4>5, <4>6 DEF Cut!ShortPreamble
        <4>8. QED
          BY <4>7 DEF Cut!LeftOut
      <3>4. QED
        BY <3>2, <3>3
    <2>4. Len(made) = 0 /\ made \in Seq(PieceSet)
      BY <2>1
    <2>5. QED
      BY <2>3, <2>4
  <1>5. CASE ~LatexGone(doc, s)
    <2> DEFINE p == Cut!Passage(t, Cut!Title(h), LatexFirst(s), LatexLast(doc, s))
    <2>1. made = <<p>> /\ t # <<>>
      BY <1>5 DEF LatexMade, LatexGone
    <2>2. Cut!Title(h) \in SUBSET Nat /\ (h # 0 => h \in Cut!Title(h))
      BY <1>1, TitleIs
    <2>3. p.text = t /\ p.titles = Cut!Title(h) /\ p.first = LatexFirst(s) /\ p.last = LatexLast(doc, s)
      BY DEF Cut!Passage
    <2>4. LatexFirst(s) \in Int /\ LatexLast(doc, s) \in Int /\ t \in Text /\ Firm(t)
      BY <1>1, <1>2, <2>1 DEF LatexFirst, LatexLast, OfLines
    <2>5. p \in PieceSet
      BY <2>2, <2>4 DEF PieceSet, Cut!Passage
    <2>6. OfLatex(doc, s, p)
      BY <1>2, <2>3, <2>4, <2>5 DEF OfLatex
    <2>7. ASSUME NEW n \in 1 .. Len(doc), h <= n, n <= s.last
          PROVE  Cut!LeftOut("latex", doc, n) \/ LineUnits(doc, n) \subseteq UnitsOf(p.text) \/ n \in p.titles
      <3>1. CASE n = h
        BY <1>1, <2>2, <2>3, <2>7, <3>1
      <3>2. CASE n # h
        <4>1. n \in h + 1 .. s.last
          BY <1>1, <2>7, <3>2
        <4>2. QED
          BY <1>2, <1>3, <2>3, <4>1
      <3>3. QED
        BY <3>1, <3>2
    <2> HIDE DEF p
    <2>8. made \in Seq(PieceSet) /\ Len(made) = 1 /\ made[1] = p
      BY <2>1, <2>5
    <2>9. \A j \in 1 .. Len(made) : OfLatex(doc, s, made[j])
      BY <2>6, <2>8
    <2>10. 1 \in 1 .. Len(made)
      BY <2>8
    <2>11. QED
      BY <2>7, <2>8, <2>9, <2>10
  <1>6. QED
    BY <1>4, <1>5

\* A piece of the passage of a section stands where it is said to.
LEMMA LatexFine ==
    ASSUME NEW doc, FileDoc(doc), NEW s, Under(doc, s), NEW p, OfLatex(doc, s, p), NEW q,
           PieceOf(q, p), NEW f, f = "latex"
    PROVE  q \in Fine(f, doc)
  <1>1. /\ q \in PieceSet /\ q.titles = Cut!Title(s.title) /\ q.first = LatexFirst(s) /\ q.last = LatexLast(doc, s)
        /\ UnitsOf(q.text) \subseteq UnitsOf(p.text) /\ UnitsOf(q.text) # {}
    BY DEF OfLatex, PieceOf
  <1>2. q.text \in Text /\ OfLines(doc, q.text, LatexFirst(s) .. s.last)
    BY <1>1 DEF OfLatex, OfLines, PieceSet
  <1>3. s.title \in Nat /\ s.last \in Nat /\ s.title <= s.last /\ s.last <= Len(doc) /\ Len(doc) \in Nat
    BY DEF Under, FileDoc
  <1>4. \A n \in LatexFirst(s) .. s.last : n \in s.title .. s.last /\ n \in q.first .. q.last
    BY <1>1, <1>3 DEF LatexFirst, LatexLast
  <1>5. OfLines(doc, q.text, s.title .. s.last)
    BY <1>2, <1>4 DEF OfLines
  <1>6. Cut!RightlyTitled(f, doc, q)
    BY <1>1, <1>5, UnderRight
  <1>7. Cut!LinesOf(q) \subseteq LatexFirst(s) .. s.last
    BY <1>2, LinesAre
  <1>8. Cut!LinesOf(q) \subseteq q.first .. q.last
    BY <1>4, <1>7
  <1>9. Cut!LinesOf(q) \subseteq Cut!Cited(f, doc, q)
    BY <1>8 DEF Cut!Cited
  <1>10. QED
    BY <1>1, <1>6, <1>9 DEF Fine, Cut!RightlyCited

\* LaTeX: a passage for each section, without its comments, or its pieces.
LEMMA LatexWhole ==
    ASSUME NEW doc, FileDoc(doc)
    PROVE  Whole("latex", doc, Cut!LaTeX(doc))
  <1> DEFINE S == Cut!Sections(doc)
             X == {p \in PieceSet : \E i \in 1 .. Len(S) : OfLatex(doc, S[i], p)}
             made == [i \in DOMAIN S |-> LatexMade(doc, S[i])]
             kept == Cut!FlattenSeq(made)
             ss == [i \in DOMAIN kept |-> LatexCut(doc, kept[i])]
             ps == Cut!FlattenSeq(ss)
             f == "latex"
  <1>1. ps = Cut!LaTeX(doc)
    BY Zenon DEF Cut!LaTeX, Cut!EachSection, LatexCut, LatexMade, LatexGone, LatexBody,
       LatexFirst, LatexLast,
                 Cut!Uncommented
  <1>2. doc \in Docs /\ f = "latex"
    BY DEF FileDoc
  <1>3. /\ DOMAIN S = 1 .. Len(S) /\ \A i \in 1 .. Len(S) : Under(doc, S[i])
        /\ \A n \in 1 .. Len(doc) : \E i \in 1 .. Len(S) : S[i].title <= n /\ n <= S[i].last
    BY <1>2, SectionsAre
  <1>4. \A i \in 1 .. Len(S) : made[i] = LatexMade(doc, S[i])
    BY <1>3
  <1>5. made = [i \in DOMAIN S |-> made[i]]
    OBVIOUS
  <1> HIDE DEF made, f
  <1>6. ASSUME NEW i \in 1 .. Len(S)
        PROVE  /\ made[i] \in Seq(PieceSet) /\ \A j \in 1 .. Len(made[i]) : OfLatex(doc, S[i], made[i][j])
               /\ \A n \in 1 .. Len(doc) : S[i].title <= n /\ n <= S[i].last =>
                     \/ Cut!LeftOut("latex", doc, n) \/ doc[n].len = 0
                     \/ \E j \in 1 .. Len(made[i]) : LineUnits(doc, n) \subseteq UnitsOf(made[i][j].text) \/ n \in made[i][j].titles
    BY <1>3, <1>4, LatexMadeIs
  <1>7. ASSUME NEW i \in 1 .. Len(S) PROVE made[i] \in Seq(X)
    <2>1. made[i] \in Seq(PieceSet) /\ \A j \in 1 .. Len(made[i]) : made[i][j] \in PieceSet /\ OfLatex(doc, S[i], made[i][j])
      BY <1>6
    <2>2. \A j \in 1 .. Len(made[i]) : made[i][j] \in X
      BY <2>1
    <2> HIDE DEF X
    <2>3. QED
      BY <2>1, <2>2, SeqOfPart
  <1>8. \A p \in X : p \in PieceSet /\ Firm(p.text) /\ \E i \in 1 .. Len(S) : OfLatex(doc, S[i], p)
    BY DEF OfLatex
  <1> HIDE DEF X
  <1>9. made \in Seq(Seq(X)) /\ Len(made) = Len(S)
    BY <1>2, <1>5, <1>7, OfSections
  <1> HIDE DEF kept
  <1>10. kept \in Seq(X) /\ \A i \in 1 .. Len(made) : \A j \in 1 .. Len(made[i]) : Among(made[i][j], kept)
    BY <1>9, AmongFlat DEF kept
  <1>11. Len(kept) \in Nat /\ DOMAIN kept = 1 .. Len(kept) /\ \A k \in 1 .. Len(kept) : kept[k] \in X
    BY <1>10
  <1>12. Len(ss) = Len(kept) /\ ss = [k \in 1 .. Len(kept) |-> ss[k]] /\ \A k \in 1 .. Len(kept) : ss[k] = LatexCut(doc, kept[k])
    BY <1>11
  <1> HIDE DEF ss
  <1>13. ASSUME NEW k \in 1 .. Len(kept)
         PROVE  /\ ss[k] \in Seq(Fine(f, doc))
                /\ \A n : LineUnits(doc, n) \subseteq UnitsOf(kept[k].text) \/ n \in kept[k].titles => Present(doc, ss[k], n)
    <2>1. kept[k] \in PieceSet /\ Firm(kept[k].text) /\ ss[k] = LatexCut(doc, kept[k])
      BY <1>8, <1>11, <1>12
    <2>2. PICK i \in 1 .. Len(S) : OfLatex(doc, S[i], kept[k])
      BY <1>8, <1>11
    <2>3. /\ ss[k] \in Seq(PieceSet) /\ \A j \in 1 .. Len(ss[k]) : PieceOf(ss[k][j], kept[k])
          /\ \A u \in UnitsOf(kept[k].text) : \E j \in 1 .. Len(ss[k]) : u \in UnitsOf(ss[k][j].text)
          /\ \E j \in 1 .. Len(ss[k]) : ss[k][j].titles = kept[k].titles
      <3> DEFINE p == kept[k]
                 q == ss[k]
      <3>1. p \in PieceSet /\ Firm(p.text) /\ q = LatexCut(doc, p)
        BY <2>1
      <3> HIDE DEF p, q
      <3>2. /\ q \in Seq(PieceSet) /\ \A j \in 1 .. Len(q) : PieceOf(q[j], p)
            /\ \A u \in UnitsOf(p.text) : \E j \in 1 .. Len(q) : u \in UnitsOf(q[j].text)
            /\ \E j \in 1 .. Len(q) : q[j].titles = p.titles
        BY <3>1, LatexCutIs
      <3>3. QED
        BY <3>2 DEF p, q
    <2>4. \A j \in 1 .. Len(ss[k]) : ss[k][j] \in Fine(f, doc)
      BY <1>2, <1>3, <2>2, <2>3, LatexFine
    <2>5. ss[k] \in Seq(Fine(f, doc))
      BY <2>3, <2>4, SeqOfPart
    <2>6. QED
      BY <2>3, <2>5 DEF Present, Covered
  <1>14. ss \in Seq(Seq(Fine(f, doc)))
    <2>1. ss \in [1 .. Len(kept) -> Seq(Fine(f, doc))]
      BY <1>12, <1>13
    <2>2. QED
      BY <1>11, <2>1
  <1>15. ASSUME NEW n \in 1 .. Len(doc)
         PROVE  Cut!LeftOut(f, doc, n) \/ doc[n].len = 0 \/ \E k \in 1 .. Len(ss) : Present(doc, ss[k], n)
    <2>1. PICK i \in 1 .. Len(S) : S[i].title <= n /\ n <= S[i].last
      BY <1>3
    <2>2. CASE \E j \in 1 .. Len(made[i]) : LineUnits(doc, n) \subseteq UnitsOf(made[i][j].text) \/ n \in made[i][j].titles
      <3>1. PICK j \in 1 .. Len(made[i]) : LineUnits(doc, n) \subseteq UnitsOf(made[i][j].text) \/ n \in made[i][j].titles
        BY <2>2
      <3>2. PICK k \in 1 .. Len(kept) : kept[k] = made[i][j]
        BY <1>9, <1>10 DEF Among
      <3>3. QED
        BY <1>12, <1>13, <3>1, <3>2
    <2>3. QED
      BY <1>2, <1>6, <2>1, <2>2
  <1> HIDE DEF ps
  <1>16. ps \in Seq(Fine(f, doc)) /\ \A k \in 1 .. Len(ss) : \A j \in 1 .. Len(ss[k]) : Among(ss[k][j], ps)
    BY <1>14, AmongFlat DEF ps
  <1>17. ASSUME NEW n \in 1 .. Len(doc) PROVE Present(doc, ps, n) \/ Cut!LeftOut(f, doc, n)
    <2>1. CASE doc[n].len = 0
      BY <1>2, <2>1, BlankHeld DEF Present
    <2>2. CASE \E k \in 1 .. Len(ss) : Present(doc, ss[k], n)
      BY <1>16, <2>2, KeptMore
    <2>3. QED
      BY <1>15, <2>1, <2>2
  <1>18. Whole(f, doc, ps)
    BY <1>2, <1>16, <1>17, FineWhole
  <1>19. QED
    BY <1>1, <1>18 DEF f

-----------------------------------------------------------------------------
(* Source code: blocks merged. *)
ShellStep(global, acc, p) ==
    IF /\ acc # <<>> /\ Len(p.text) < MIN_CHUNK_CHARS
       /\ p.titles = {} /\ Cut!Last(acc).titles = {}
       /\ Cut!Last(p.text) # Cut!Last(global)
    THEN [acc EXCEPT ![Len(acc)].text = Cut!Glue(<<@, p.text>>)]
    ELSE Append(acc, p)
ShellFolded(global, ps) == Cut!FoldLeft(LAMBDA a, b : ShellStep(global, a, b), <<>>, ps)
ModuleStep(acc, p) ==
    IF acc # <<>> /\ Cut!Last(acc).titles = {} /\ p.titles = {}
    THEN [acc EXCEPT ![Len(acc)].text = Cut!Glue(<<@, p.text>>), ![Len(acc)].last = p.last]
    ELSE Append(acc, p)

\* What the fold over the blocks of a script goes through.
LEMMA ShellFold ==
    ASSUME NEW global, NEW ps, NEW X, NEW Acc, ps \in Seq(X), <<>> \in Acc,
           \A a \in Acc, b \in X : ShellStep(global, a, b) \in Acc
    PROVE  \E h : /\ h[0] = <<>> /\ ShellFolded(global, ps) = h[Len(ps)]
                  /\ \A i \in 0 .. Len(ps) : h[i] \in Acc
                  /\ \A i \in 1 .. Len(ps) : h[i] = ShellStep(global, h[i - 1], ps[i])
  <1> DEFINE s == ps
             n == Len(s)
             f == [a \in Acc |-> [i \in 1 .. n |-> ShellStep(global, a, s[i])]]
             Run(it) == it = [x \in SUBSET (1 .. n) |->
                                IF x = {} THEN <<>>
                                ELSE ShellStep(global, it[x \ {Cut!Max(x)}], s[Cut!Max(x)])]
             run == CHOOSE it : Run(it)
  <1>1. n \in Nat /\ DOMAIN s = 1 .. n /\ \A i \in 1 .. n : s[i] \in X
    OBVIOUS
  <1> HIDE DEF n, s
  <1>2. \A a \in Acc : \A i \in 1 .. n : ShellStep(global, a, s[i]) \in Acc
    BY <1>1
  <1>3. f \in [Acc -> [1 .. n -> Acc]]
    BY <1>2
  <1>4. PICK it : Folds(it, n, Acc, <<>>, f)
    <2> HIDE DEF f
    <2>1. QED
      BY <1>1, <1>3, FoldExists
  <1>5. Run(it)
    <2>1. ASSUME NEW x \in SUBSET (1 .. n), x # {}
          PROVE  f[it[x \ {Cut!Max(x)}]][Cut!Max(x)] = ShellStep(global, it[x \ {Cut!Max(x)}], s[Cut!Max(x)])
      <3>1. Cut!Max(x) \in 1 .. n /\ it[x \ {Cut!Max(x)}] \in Acc
        BY <1>1, <1>4, <2>1, TopOf DEF Folds
      <3>2. QED
        BY <3>1
    <2>2. QED
      BY <1>4, <2>1 DEF Folds
  <1>6. ShellFolded(global, ps) = run[1 .. n]
    <2> DEFINE fold == Cut!FoldLeft(LAMBDA a, b : ShellStep(global, a, b), <<>>, s)
    <2>1. fold = run[1 .. n]
      BY <1>1, Zenon DEF Cut!FoldLeft, Cut!MapThenFoldSet
    <2>2. ShellFolded(global, ps) = fold
      BY Zenon DEF ShellFolded, s
    <2> HIDE DEF fold, run
    <2>3. QED
      BY <2>1, <2>2
  <1>7. Run(run)
    BY <1>5
  <1>8. \A x \in SUBSET (1 .. n) :
            run[x] = IF x = {} THEN <<>> ELSE ShellStep(global, run[x \ {Cut!Max(x)}], s[Cut!Max(x)])
    <2> HIDE DEF run
    <2>1. QED
      BY <1>7
  <1> HIDE DEF run, f, Run
  <1>9. ASSUME NEW i \in 1 .. n PROVE run[1 .. i] = ShellStep(global, run[1 .. i - 1], s[i])
    <2>1. /\ 1 .. i \in SUBSET (1 .. n) /\ 1 .. i # {}
          /\ Cut!Max(1 .. i) = i /\ (1 .. i) \ {i} = 1 .. i - 1
      BY <1>1, Initials
    <2>2. run[1 .. i] = ShellStep(global, run[(1 .. i) \ {Cut!Max(1 .. i)}], s[Cut!Max(1 .. i)])
      BY <1>8, <2>1
    <2>3. QED
      BY <2>1, <2>2
  <1>10. run[{}] = <<>>
    BY <1>8
  <1> DEFINE h == [i \in 0 .. n |-> run[1 .. i]]
  <1>11. /\ h[0] = <<>> /\ h[n] = run[1 .. n]
        /\ \A i \in 1 .. n : h[i] = run[1 .. i] /\ h[i - 1] = run[1 .. i - 1]
    BY <1>1, <1>10, Initials
  <1> HIDE DEF h
  <1>12. \A i \in 1 .. n : h[i] = ShellStep(global, h[i - 1], s[i])
    BY <1>9, <1>11
  <1>13. \A i \in 0 .. n : h[i] \in Acc
    <2> DEFINE G == {i \in 0 .. n : h[i] \in Acc}
    <2>1. 0 \in G /\ \A i \in 1 .. n : i - 1 \in G => i \in G
      BY <1>2, <1>1, <1>11, <1>12
    <2> HIDE DEF G
    <2>2. \A i \in 0 .. n : i \in G
      BY <1>1, <2>1, Steps
    <2>3. QED
      BY <2>2 DEF G
  <1>14. QED
    BY <1>6, <1>11, <1>12, <1>13 DEF n, s

\* What the fold over the blocks of a module goes through.
LEMMA ModulesFold ==
    ASSUME NEW ps, NEW X, NEW Acc, ps \in Seq(X), <<>> \in Acc,
           \A a \in Acc, b \in X : ModuleStep(a, b) \in Acc
    PROVE  \E h : /\ h[0] = <<>> /\ Cut!MergeModules(ps) = h[Len(ps)]
                  /\ \A i \in 0 .. Len(ps) : h[i] \in Acc
                  /\ \A i \in 1 .. Len(ps) : h[i] = ModuleStep(h[i - 1], ps[i])
  <1> DEFINE s == ps
             n == Len(s)
             f == [a \in Acc |-> [i \in 1 .. n |-> ModuleStep(a, s[i])]]
             Run(it) == it = [x \in SUBSET (1 .. n) |->
                                IF x = {} THEN <<>>
                                ELSE ModuleStep(it[x \ {Cut!Max(x)}], s[Cut!Max(x)])]
             run == CHOOSE it : Run(it)
  <1>1. n \in Nat /\ DOMAIN s = 1 .. n /\ \A i \in 1 .. n : s[i] \in X
    OBVIOUS
  <1> HIDE DEF n, s
  <1>2. \A a \in Acc : \A i \in 1 .. n : ModuleStep(a, s[i]) \in Acc
    BY <1>1
  <1>3. f \in [Acc -> [1 .. n -> Acc]]
    BY <1>2
  <1>4. PICK it : Folds(it, n, Acc, <<>>, f)
    <2> HIDE DEF f
    <2>1. QED
      BY <1>1, <1>3, FoldExists
  <1>5. Run(it)
    <2>1. ASSUME NEW x \in SUBSET (1 .. n), x # {}
          PROVE  f[it[x \ {Cut!Max(x)}]][Cut!Max(x)] = ModuleStep(it[x \ {Cut!Max(x)}], s[Cut!Max(x)])
      <3>1. Cut!Max(x) \in 1 .. n /\ it[x \ {Cut!Max(x)}] \in Acc
        BY <1>1, <1>4, <2>1, TopOf DEF Folds
      <3>2. QED
        BY <3>1
    <2>2. QED
      BY <1>4, <2>1 DEF Folds
  <1>6. Cut!MergeModules(ps) = run[1 .. n]
    <2>1. Cut!FoldLeft(LAMBDA a, b : ModuleStep(a, b), <<>>, s) = run[1 .. n]
      BY <1>1, Zenon DEF Cut!FoldLeft, Cut!MapThenFoldSet
    <2>2. Cut!MergeModules(ps) = Cut!FoldLeft(LAMBDA a, b : ModuleStep(a, b), <<>>, s)
      BY Zenon DEF Cut!MergeModules, ModuleStep, s
    <2>3. QED
      BY <2>1, <2>2
  <1>7. Run(run)
    BY <1>5
  <1>8. \A x \in SUBSET (1 .. n) :
            run[x] = IF x = {} THEN <<>> ELSE ModuleStep(run[x \ {Cut!Max(x)}], s[Cut!Max(x)])
    <2> HIDE DEF run
    <2>1. QED
      BY <1>7
  <1> HIDE DEF run, f, Run
  <1>9. ASSUME NEW i \in 1 .. n PROVE run[1 .. i] = ModuleStep(run[1 .. i - 1], s[i])
    <2>1. /\ 1 .. i \in SUBSET (1 .. n) /\ 1 .. i # {}
          /\ Cut!Max(1 .. i) = i /\ (1 .. i) \ {i} = 1 .. i - 1
      BY <1>1, Initials
    <2>2. run[1 .. i] = ModuleStep(run[(1 .. i) \ {Cut!Max(1 .. i)}], s[Cut!Max(1 .. i)])
      BY <1>8, <2>1
    <2>3. QED
      BY <2>1, <2>2
  <1>10. run[{}] = <<>>
    BY <1>8
  <1> DEFINE h == [i \in 0 .. n |-> run[1 .. i]]
  <1>11. /\ h[0] = <<>> /\ h[n] = run[1 .. n]
        /\ \A i \in 1 .. n : h[i] = run[1 .. i] /\ h[i - 1] = run[1 .. i - 1]
    BY <1>1, <1>10, Initials
  <1> HIDE DEF h
  <1>12. \A i \in 1 .. n : h[i] = ModuleStep(h[i - 1], s[i])
    BY <1>9, <1>11
  <1>13. \A i \in 0 .. n : h[i] \in Acc
    <2> DEFINE G == {i \in 0 .. n : h[i] \in Acc}
    <2>1. 0 \in G /\ \A i \in 1 .. n : i - 1 \in G => i \in G
      BY <1>2, <1>1, <1>11, <1>12
    <2> HIDE DEF G
    <2>2. \A i \in 0 .. n : i \in G
      BY <1>1, <2>1, Steps
    <2>3. QED
      BY <2>2 DEF G
  <1>14. QED
    BY <1>6, <1>11, <1>12, <1>13 DEF n, s

\* What the passages hold.
TextUnits(ps) == UNION {UnitsOf(ps[i].text) : i \in 1 .. Len(ps)}

\* A line is covered if passages together have all of it.
LEMMA CoveredBy ==
    ASSUME NEW doc, NEW ps, NEW n
    PROVE  Covered(doc, ps, n) <=> LineUnits(doc, n) \subseteq TextUnits(ps)
  BY DEF Covered, TextUnits

\* Passages put one by one at the end or in the last, are all held.
LEMMA FoldCovers ==
    ASSUME NEW ps, NEW h, Len(ps) \in Nat,
           \A i \in 1 .. Len(ps) : TextUnits(h[i - 1]) \subseteq TextUnits(h[i]) /\ UnitsOf(ps[i].text) \subseteq TextUnits(h[i])
    PROVE  /\ TextUnits(ps) \subseteq TextUnits(h[Len(ps)])
           /\ \A doc, n : Covered(doc, ps, n) => Covered(doc, h[Len(ps)], n)
  <1> DEFINE m == Len(ps)
             G == {i \in 0 .. m : \A j \in 1 .. i : UnitsOf(ps[j].text) \subseteq TextUnits(h[i])}
  <1>1. m \in Nat
    OBVIOUS
  <1>2. ASSUME NEW i \in 1 .. m, i - 1 \in G PROVE i \in G
    <2>1. ASSUME NEW j \in 1 .. i PROVE UnitsOf(ps[j].text) \subseteq TextUnits(h[i])
      <3>1. CASE j = i
        BY <3>1
      <3>2. CASE j # i
        <4>1. j \in 1 .. i - 1
          BY <3>2
        <4>2. UnitsOf(ps[j].text) \subseteq TextUnits(h[i - 1])
          BY <1>2, <4>1
        <4>3. QED
          BY <4>2
      <3>3. QED
        BY <3>1, <3>2
    <2>2. QED
      BY <1>1, <2>1
  <1>3. 0 \in G
    BY <1>1
  <1> HIDE DEF m, G
  <1>4. \A i \in 0 .. m : i \in G
    BY <1>1, <1>2, <1>3, Steps
  <1>5. \A j \in 1 .. m : UnitsOf(ps[j].text) \subseteq TextUnits(h[m])
    <2>1. m \in G
      BY <1>1, <1>4
    <2>2. QED
      BY <2>1 DEF G
  <1>6. TextUnits(ps) \subseteq TextUnits(h[m])
    BY <1>5 DEF TextUnits, m
  <1>7. QED
    BY <1>6, CoveredBy DEF m

\* The last of the passages replaced by one that holds it.
LEMMA LastReplaced ==
    ASSUME NEW X, NEW acc, NEW q, NEW new, new = [acc EXCEPT ![Len(acc)] = q], acc \in Seq(X),
           acc # <<>>, q \in X,
           UnitsOf(acc[Len(acc)].text) \subseteq UnitsOf(q.text)
    PROVE  /\ new \in Seq(X) /\ Len(new) = Len(acc) /\ new[Len(acc)] = q /\ Len(acc) \in Nat \ {0}
           /\ \A i \in 1 .. Len(acc) : i # Len(acc) => new[i] = acc[i]
           /\ TextUnits(acc) \subseteq TextUnits(new) /\ UnitsOf(q.text) \subseteq TextUnits(new)
  <1> DEFINE m == Len(acc)
  <1>1. m \in Nat \ {0} /\ \A i \in 1 .. m : acc[i] \in X
    OBVIOUS
  <1>2. /\ new \in Seq(X) /\ Len(new) = m /\ new[m] = q /\ \A i \in 1 .. m : i # m => new[i] = acc[i]
    BY <1>1
  <1>3. \A i \in 1 .. m : UnitsOf(acc[i].text) \subseteq UnitsOf(new[i].text)
    BY <1>2
  <1>4. TextUnits(acc) \subseteq TextUnits(new)
    BY <1>2, <1>3 DEF TextUnits
  <1>5. \E i \in 1 .. Len(new) : new[i] = q
    <2> HIDE DEF m
    <2>1. QED
      BY <1>1, <1>2
  <1>6. UnitsOf(q.text) \subseteq TextUnits(new)
    BY <1>5 DEF TextUnits
  <1>7. QED
    BY <1>1, <1>2, <1>4, <1>6

\* Passages with one put after them.
LEMMA LastAdded ==
    ASSUME NEW X, NEW acc \in Seq(X), NEW q \in X, NEW new, new = Append(acc, q)
    PROVE  /\ new \in Seq(X) /\ Len(new) = Len(acc) + 1 /\ new[Len(new)] = q /\ Len(acc) \in Nat
           /\ \A i \in 1 .. Len(acc) : new[i] = acc[i]
           /\ TextUnits(acc) \subseteq TextUnits(new) /\ UnitsOf(q.text) \subseteq TextUnits(new)
  <1>1. /\ new \in Seq(X) /\ Len(new) = Len(acc) + 1 /\ new[Len(new)] = q /\ Len(acc) \in Nat
        /\ \A i \in 1 .. Len(acc) : new[i] = acc[i]
    OBVIOUS
  <1>2. Len(new) \in 1 .. Len(new) /\ \A i \in 1 .. Len(acc) : i \in 1 .. Len(new)
    BY <1>1
  <1>3. TextUnits(acc) \subseteq TextUnits(new) /\ UnitsOf(q.text) \subseteq TextUnits(new)
    BY <1>1, <1>2 DEF TextUnits
  <1>4. QED
    BY <1>1, <1>3

\* A passage of a script: outside every function it stands for the whole file.
Script(doc) ==
    {p \in PieceSet : /\ OfLines(doc, p.text, p.first .. p.last)
                      /\ p.titles = {} => p.first = 1 /\ p.last = Len(doc)}

\* A block of a script joins the last, or follows it.
LEMMA ShellStepIs ==
    ASSUME NEW global, NEW doc, NEW acc \in Seq(Script(doc)), NEW p \in Script(doc), NEW new,
           new = ShellStep(global, acc, p)
    PROVE  /\ new \in Seq(Script(doc))
           /\ TextUnits(acc) \subseteq TextUnits(new) /\ UnitsOf(p.text) \subseteq TextUnits(new)
  <1>1. CASE new = Append(acc, p)
    <2> DEFINE X == Script(doc)
    <2>1. acc \in Seq(X) /\ p \in X
      OBVIOUS
    <2> HIDE DEF X
    <2>2. new \in Seq(X) /\ TextUnits(acc) \subseteq TextUnits(new) /\ UnitsOf(p.text) \subseteq TextUnits(new)
      BY <1>1, <2>1, LastAdded
    <2>3. QED
      BY <2>2 DEF X
  <1>2. CASE new # Append(acc, p)
    <2> DEFINE l == acc[Len(acc)]
               g == Cut!Glue(<<l.text, p.text>>)
               q == [l EXCEPT !.text = g]
    <2>1. acc # <<>> /\ p.titles = {} /\ Cut!Last(acc).titles = {} /\ new = [acc EXCEPT ![Len(acc)].text = g]
      BY <1>2 DEF ShellStep
    <2>2. l \in Script(doc) /\ Cut!Last(acc) = l
      BY <2>1 DEF Cut!Last
    <2>3. new = [acc EXCEPT ![Len(acc)] = q]
      BY <2>1
    <2> HIDE DEF l
    <2>4. l.titles = {} /\ l.text \in Text /\ p.text \in Text /\ l \in PieceSet
      BY <2>1, <2>2 DEF Script, PieceSet
    <2>5. g \in Text /\ UnitsOf(g) = UnitsOf(l.text) \cup UnitsOf(p.text)
      BY <2>4, GlueTwo
    <2> HIDE DEF g
    <2>6. q.text = g /\ q.titles = {} /\ q.first = l.first /\ q.last = l.last /\ q \in PieceSet
      BY <2>4, <2>5 DEF PieceSet
    <2>7. l.first = 1 /\ l.last = Len(doc) /\ p.first = 1 /\ p.last = Len(doc)
      BY <2>1, <2>2, <2>4 DEF Script
    <2>8. OfLines(doc, l.text, 1 .. Len(doc)) /\ OfLines(doc, p.text, 1 .. Len(doc))
      BY <2>2, <2>7 DEF Script
    <2>9. OfLines(doc, g, 1 .. Len(doc))
      BY <2>5, <2>8 DEF OfLines
    <2>10. q \in Script(doc)
      BY <2>6, <2>7, <2>9 DEF Script
    <2> HIDE DEF q
    <2>11. UnitsOf(acc[Len(acc)].text) \subseteq UnitsOf(q.text) /\ UnitsOf(p.text) \subseteq UnitsOf(q.text)
      BY <2>5, <2>6 DEF l
    <2>12. new \in Seq(Script(doc)) /\ TextUnits(acc) \subseteq TextUnits(new) /\ UnitsOf(q.text) \subseteq TextUnits(new)
      BY <2>1, <2>3, <2>10, <2>11, LastReplaced
    <2>13. QED
      BY <2>11, <2>12
  <1>3. QED
    BY <1>1, <1>2

\* Blocks of a script merged hold what they held.
LEMMA ShellFoldedIs ==
    ASSUME NEW global, NEW doc, NEW ps \in Seq(Script(doc)), NEW qs, qs = ShellFolded(global, ps)
    PROVE  qs \in Seq(Script(doc)) /\ \A n : Covered(doc, ps, n) => Covered(doc, qs, n)
  <1> DEFINE Acc == Seq(Script(doc))
             X == Script(doc)
             m == Len(ps)
  <1>1. <<>> \in Acc /\ m \in Nat /\ \A i \in 1 .. m : ps[i] \in X /\ i - 1 \in 0 .. m
    OBVIOUS
  <1>2. \A a \in Acc, b \in X : ShellStep(global, a, b) \in Acc
    BY ShellStepIs
  <1>3. ps \in Seq(X)
    OBVIOUS
  <1> HIDE DEF Acc, X
  <1>4. PICK h : /\ qs = h[Len(ps)] /\ \A i \in 0 .. Len(ps) : h[i] \in Acc
                 /\ \A i \in 1 .. Len(ps) : h[i] = ShellStep(global, h[i - 1], ps[i])
    BY <1>1, <1>2, <1>3, ShellFold
  <1>5. \A i \in 1 .. Len(ps) : TextUnits(h[i - 1]) \subseteq TextUnits(h[i]) /\ UnitsOf(ps[i].text) \subseteq TextUnits(h[i])
    <2>1. ASSUME NEW i \in 1 .. Len(ps)
          PROVE  TextUnits(h[i - 1]) \subseteq TextUnits(h[i]) /\ UnitsOf(ps[i].text) \subseteq TextUnits(h[i])
      <3> DEFINE a == h[i - 1]
                 b == ps[i]
                 c == h[i]
      <3>1. a \in Seq(Script(doc)) /\ b \in Script(doc) /\ c = ShellStep(global, a, b)
        BY <1>1, <1>4 DEF Acc, X
      <3> HIDE DEF a, b, c
      <3>2. TextUnits(a) \subseteq TextUnits(c) /\ UnitsOf(b.text) \subseteq TextUnits(c)
        BY <3>1, ShellStepIs
      <3>3. QED
        BY <3>2 DEF a, b, c
    <2>2. QED
      BY <2>1
  <1>6. Len(ps) \in 0 .. Len(ps)
    BY <1>1
  <1>7. QED
    BY <1>1, <1>4, <1>5, <1>6, FoldCovers DEF Acc

\* The text of some lines, stripped.
LEMMA StrippedIs ==
    ASSUME NEW doc \in Docs, NEW ns \in Seq(1 .. Len(doc)), NEW t,
           t = Cut!Strip(Cut!TextOf(doc, ns))
    PROVE  /\ t \in Text /\ Flush(t) /\ (t = <<>> <=> UnitsOf(t) = {}) /\ (t # <<>> => Firm(t))
           /\ \A u : u \in UnitsOf(t) <=> \E i \in 1 .. Len(ns) : u \in LineUnits(doc, ns[i])
  <1> DEFINE a == Cut!TextOf(doc, ns)
  <1>1. a \in Text /\ \A u : u \in UnitsOf(a) <=> \E i \in 1 .. Len(ns) : u \in LineUnits(doc, ns[i])
    BY TextIs
  <1> HIDE DEF a
  <1>2. t \in Text /\ UnitsOf(t) = UnitsOf(a) /\ (t = <<>> <=> UnitsOf(a) = {}) /\ (UnitsOf(a) # {} => Firm(t))
    BY <1>1, UnitsStrip, FirmStrip DEF a
  <1>3. Flush(t)
    BY <1>2 DEF Flush, Firm
  <1>4. QED
    BY <1>1, <1>2, <1>3

\* Lines from a to b, stripped.
LEMMA StrippedFrom ==
    ASSUME NEW doc \in Docs, NEW a \in Nat \ {0}, NEW b \in Nat, a <= b + 1, b <= Len(doc),
           NEW t, t = Cut!Strip(Cut!TextOf(doc, Cut!From(a, b)))
    PROVE  /\ t \in Text /\ Flush(t) /\ (t = <<>> <=> UnitsOf(t) = {}) /\ (t # <<>> => Firm(t))
           /\ OfLines(doc, t, a .. b) /\ \A n \in a .. b : LineUnits(doc, n) \subseteq UnitsOf(t)
  <1> DEFINE ns == Cut!From(a, b)
             N == Len(doc)
  <1>1. N \in Nat
    BY DEF Docs
  <1> HIDE DEF N
  <1>2. /\ ns \in Seq(1 .. N) /\ \A i \in 1 .. Len(ns) : ns[i] \in a .. b
        /\ \A k \in a .. b : \E i \in 1 .. Len(ns) : ns[i] = k
    BY <1>1, FromIs DEF N
  <1>3. ns \in Seq(1 .. Len(doc)) /\ t = Cut!Strip(Cut!TextOf(doc, ns))
    BY <1>2 DEF N
  <1> HIDE DEF ns
  <1>4. /\ t \in Text /\ Flush(t) /\ (t = <<>> <=> UnitsOf(t) = {}) /\ (t # <<>> => Firm(t))
        /\ \A u : u \in UnitsOf(t) <=> \E i \in 1 .. Len(ns) : u \in LineUnits(doc, ns[i])
    BY <1>3, StrippedIs
  <1>5. OfLines(doc, t, a .. b)
    BY <1>2, <1>4 DEF OfLines
  <1>6. ASSUME NEW n \in a .. b PROVE LineUnits(doc, n) \subseteq UnitsOf(t)
    <2>1. PICK i \in 1 .. Len(ns) : ns[i] = n
      BY <1>2
    <2>2. QED
      BY <1>4, <2>1
  <1>7. QED
    BY <1>4, <1>5, <1>6

\* Where a function of a script ends.
LEMMA FunctionEndIs ==
    ASSUME NEW doc \in Docs, NEW h \in Heads(doc)
    PROVE  /\ Cut!FunctionEnd(doc, h) \in Nat /\ h <= Cut!FunctionEnd(doc, h) /\ Cut!FunctionEnd(doc, h) <= Len(doc)
           /\ h \in Nat \ {0} /\ Len(doc) \in Nat
  <1> DEFINE closed == {k \in h + 1 .. Len(doc) : Cut!Depth(doc, h, k) <= 0}
  <1>1. h \in 1 .. Len(doc) /\ Len(doc) \in Nat
    BY DEF Heads, Docs
  <1>2. Cut!FunctionEnd(doc, h) = IF closed = {} THEN Len(doc) ELSE Cut!Min(closed)
    BY DEF Cut!FunctionEnd
  <1>3. closed \subseteq Nat /\ \A k \in closed : k \in h + 1 .. Len(doc)
    BY <1>1
  <1> HIDE DEF closed
  <1>4. closed # {} => Cut!Min(closed) \in closed
    BY <1>3, BottomOf
  <1>5. CASE closed = {}
    BY <1>1, <1>2, <1>5
  <1>6. CASE closed # {}
    <2>1. Cut!FunctionEnd(doc, h) = Cut!Min(closed)
      BY <1>2, <1>6
    <2>2. Cut!FunctionEnd(doc, h) \in h + 1 .. Len(doc)
      BY <1>3, <1>4, <1>6, <2>1
    <2>3. QED
      BY <1>1, <2>2
  <1>7. QED
    BY <1>5, <1>6

\* The block of a function, and the one of what is outside of them.
ShellFunction(doc, h) ==
    Cut!Passage(Cut!Strip(Cut!TextOf(doc, Cut!From(h, Cut!FunctionEnd(doc, h)))), {h}, h, Cut!FunctionEnd(doc, h))
ShellUsed(doc) == UNION {n .. Cut!FunctionEnd(doc, n) : n \in Cut!Defs(doc)}
ShellGlobal(doc) == Cut!Strip(Cut!TextOf(doc, Cut!Ascending(DOMAIN doc \ ShellUsed(doc))))
ShellOutside(doc) ==
    IF ShellGlobal(doc) = <<>> THEN <<>> ELSE <<Cut!Passage(ShellGlobal(doc), {}, 1, Len(doc))>>
ShellFunctions(doc) ==
    [i \in DOMAIN Cut!Ascending(Cut!Defs(doc)) |-> ShellFunction(doc, Cut!Ascending(Cut!Defs(doc))[i])]
ScriptFlush(doc) == {p \in Script(doc) : Flush(p.text)}

\* A function of a script holds its lines.
LEMMA ShellFunctionIs ==
    ASSUME NEW doc \in Docs, NEW h \in Heads(doc), NEW p, p = ShellFunction(doc, h)
    PROVE  p \in ScriptFlush(doc) /\ \A n \in h .. Cut!FunctionEnd(doc, h) : LineUnits(doc, n) \subseteq UnitsOf(p.text)
  <1> DEFINE e == Cut!FunctionEnd(doc, h)
             t == Cut!Strip(Cut!TextOf(doc, Cut!From(h, e)))
  <1>1. e \in Nat /\ h <= e /\ e <= Len(doc) /\ h \in Nat \ {0} /\ h <= e + 1
    BY FunctionEndIs
  <1>2. p = Cut!Passage(t, {h}, h, e)
    BY DEF ShellFunction
  <1> HIDE DEF e
  <1>3. /\ t \in Text /\ Flush(t) /\ OfLines(doc, t, h .. e) /\ \A n \in h .. e : LineUnits(doc, n) \subseteq UnitsOf(t)
    BY <1>1, StrippedFrom
  <1> HIDE DEF t
  <1>4. p.text = t /\ p.titles = {h} /\ p.first = h /\ p.last = e /\ p \in PieceSet
    BY <1>1, <1>2, <1>3 DEF Cut!Passage, PieceSet
  <1>5. QED
    BY <1>3, <1>4 DEF ScriptFlush, Script, e

\* What is outside functions holds the other lines.
LEMMA ShellOutsideIs ==
    ASSUME NEW doc \in Docs, NEW ps, ps = ShellOutside(doc)
    PROVE  /\ ps \in Seq(ScriptFlush(doc))
           /\ \A n \in 1 .. Len(doc) : n \notin ShellUsed(doc) => Covered(doc, ps, n)
  <1> DEFINE N == Len(doc)
             K == DOMAIN doc \ ShellUsed(doc)
             ns == Cut!Ascending(K)
             t == ShellGlobal(doc)
             p == Cut!Passage(t, {}, 1, N)
  <1>1. N \in Nat /\ K \subseteq 1 .. N /\ (\A n \in 1 .. N : n \notin ShellUsed(doc) => n \in K)
    BY DEF Docs
  <1>2. t = Cut!Strip(Cut!TextOf(doc, ns))
    BY Zenon DEF ShellGlobal
  <1> HIDE DEF N, K, t
  <1>3. ns \in Seq(K) /\ \A n \in K : \E i \in 1 .. Len(ns) : ns[i] = n
    BY <1>1, InOrder
  <1> HIDE DEF ns
  <1>4. \A i \in 1 .. Len(ns) : ns[i] \in 1 .. N
    <2>1. \A i \in 1 .. Len(ns) : ns[i] \in K
      BY <1>3
    <2>2. QED
      BY <1>1, <2>1
  <1>5. ns \in Seq(1 .. N)
    BY <1>3, <1>4, SeqOfPart
  <1>6. /\ t \in Text /\ Flush(t) /\ (t = <<>> <=> UnitsOf(t) = {})
        /\ \A u : u \in UnitsOf(t) <=> \E i \in 1 .. Len(ns) : u \in LineUnits(doc, ns[i])
    BY <1>2, <1>5, StrippedIs DEF N
  <1>7. \A n \in 1 .. N : n \notin ShellUsed(doc) => LineUnits(doc, n) \subseteq UnitsOf(t)
    BY <1>1, <1>3, <1>6
  <1>8. p.text = t /\ p.titles = {} /\ p.first = 1 /\ p.last = N /\ p \in PieceSet
    BY <1>1, <1>6 DEF Cut!Passage, PieceSet
  <1>9. OfLines(doc, t, 1 .. N)
    BY <1>4, <1>6 DEF OfLines
  <1>10. ps = IF t = <<>> THEN <<>> ELSE <<p>>
    BY DEF ShellOutside, t, N
  <1> HIDE DEF p
  <1>11. p \in ScriptFlush(doc)
    BY <1>6, <1>8, <1>9 DEF ScriptFlush, Script, N
  <1>12. CASE t = <<>>
    <2>1. ps = <<>>
      BY <1>10, <1>12
    <2>2. QED
      BY <1>6, <1>7, <1>12, <2>1 DEF Covered, N
  <1>13. CASE t # <<>>
    <2>1. ps = <<p>>
      BY <1>10, <1>13
    <2>2. Among(p, ps) /\ ps \in Seq(ScriptFlush(doc))
      BY <1>11, <2>1, AmongOne
    <2>3. QED
      BY <1>7, <1>8, <2>2, CoveredByOne DEF N
  <1>14. QED
    BY <1>12, <1>13

\* The blocks of a script hold all of its lines.
LEMMA ShellBlocksAre ==
    ASSUME NEW doc \in Docs, NEW a, NEW b, a = ShellOutside(doc), b = ShellFunctions(doc),
           NEW bs, bs = a \o b
    PROVE  bs \in Seq(ScriptFlush(doc)) /\ \A n \in 1 .. Len(doc) : Covered(doc, bs, n)
  <1> DEFINE N == Len(doc)
             H == Heads(doc)
             heads == Cut!Ascending(H)
             F == ScriptFlush(doc)
  <1>1. N \in Nat /\ Cut!Defs(doc) = H /\ H \subseteq 1 .. N
    <2>1. N \in Nat
      BY DEF Docs
    <2>2. QED
      BY <2>1, SectionsAre
  <1> HIDE DEF N, H
  <1>2. /\ heads \in Seq(H) /\ DOMAIN heads = 1 .. Len(heads) /\ Len(heads) \in Nat
        /\ \A h \in H : \E i \in 1 .. Len(heads) : heads[i] = h
    <2>1. N \in Nat /\ H \subseteq 1 .. N
      BY <1>1
    <2>2. /\ heads \in Seq(H) /\ DOMAIN heads = 1 .. Len(heads)
          /\ \A h \in H : \E i \in 1 .. Len(heads) : heads[i] = h
      BY <2>1, InOrder
    <2>3. QED
      BY <2>2
  <1>3. b = [i \in 1 .. Len(heads) |-> ShellFunction(doc, heads[i])]
    BY <1>1, <1>2 DEF ShellFunctions
  <1>4. \A i \in 1 .. Len(heads) : heads[i] \in H
    BY <1>2
  <1> HIDE DEF heads, F
  <1>5. \A h \in H : /\ ShellFunction(doc, h) \in F
                     /\ \A n \in h .. Cut!FunctionEnd(doc, h) : LineUnits(doc, n) \subseteq UnitsOf(ShellFunction(doc, h).text)
    BY ShellFunctionIs DEF H, F
  <1>6. b \in Seq(F) /\ Len(b) = Len(heads) /\ \A i \in 1 .. Len(b) : b[i] = ShellFunction(doc, heads[i])
    BY <1>2, <1>3, <1>4, <1>5
  <1>7. a \in Seq(F) /\ \A n \in 1 .. N : n \notin ShellUsed(doc) => Covered(doc, a, n)
    BY ShellOutsideIs DEF F, N
  <1>8. bs \in Seq(F) /\ (\A k \in 1 .. Len(a) : Among(a[k], bs)) /\ \A k \in 1 .. Len(b) : Among(b[k], bs)
    BY <1>6, <1>7, AmongBoth
  <1>9. ASSUME NEW n \in 1 .. N PROVE Covered(doc, bs, n)
    <2>1. CASE n \notin ShellUsed(doc)
      <3>1. Covered(doc, a, n)
        BY <1>7, <2>1
      <3>2. QED
        BY <1>8, <3>1, CoveredMore
    <2>2. CASE n \in ShellUsed(doc)
      <3>1. PICK h \in H : n \in h .. Cut!FunctionEnd(doc, h)
        BY <1>1, <2>2 DEF ShellUsed
      <3>2. PICK i \in 1 .. Len(b) : b[i] = ShellFunction(doc, h)
        BY <1>2, <1>6
      <3>3. Among(ShellFunction(doc, h), bs) /\ LineUnits(doc, n) \subseteq UnitsOf(ShellFunction(doc, h).text)
        BY <1>5, <1>8, <3>1, <3>2
      <3>4. QED
        BY <3>3, CoveredByOne
    <2>3. QED
      BY <2>1, <2>2
  <1>10. QED
    BY <1>8, <1>9 DEF F, N

\* A passage of a script is cited and filed as it should be.
LEMMA ScriptFine ==
    ASSUME NEW doc \in Docs, NEW p \in Script(doc)
    PROVE  p \in Fine("shell", doc)
  <1>1. p \in PieceSet /\ OfLines(doc, p.text, p.first .. p.last)
    BY DEF Script
  <1>2. Cut!LinesOf(p) \subseteq p.first .. p.last
    BY <1>1, LinesAre DEF PieceSet
  <1>3. Cut!RightlyTitled("shell", doc, p)
    BY DEF Cut!RightlyTitled, Cut!OneHeading
  <1>4. Cut!RightlyCited("shell", doc, p)
    BY <1>2 DEF Cut!RightlyCited, Cut!Cited
  <1>5. QED
    BY <1>1, <1>3, <1>4 DEF Fine

\* Shell: functions, and what is outside them, merged and split.
LEMMA ShellWhole ==
    ASSUME Measures, NEW doc, FileDoc(doc)
    PROVE  Whole("shell", doc, Cut!Shell(doc))
  <1> DEFINE bs == ShellOutside(doc) \o ShellFunctions(doc)
             qs == Cut!SplitLong(bs, {"line"})
             ps == ShellFolded(ShellGlobal(doc), qs)
  <1>1. Cut!Shell(doc) = ps
    BY Zenon DEF Cut!Shell, ShellFolded, ShellStep, ShellOutside, ShellGlobal, ShellUsed,
       ShellFunctions, ShellFunction
  <1>2. doc \in Docs
    BY DEF FileDoc
  <1>3. bs \in Seq(ScriptFlush(doc)) /\ \A n \in 1 .. Len(doc) : Covered(doc, bs, n)
    BY <1>2, ShellBlocksAre
  <1> HIDE DEF bs
  <1>4. \A i \in 1 .. Len(bs) : bs[i] \in ScriptFlush(doc)
    BY <1>3
  <1>5. bs \in Seq(PieceSet) /\ \A i \in 1 .. Len(bs) : Flush(bs[i].text) /\ bs[i] \in Script(doc)
    <2>1. \A i \in 1 .. Len(bs) : bs[i] \in PieceSet
      BY <1>4 DEF ScriptFlush, Script
    <2>2. bs \in Seq(PieceSet)
      BY <1>3, <2>1, SeqOfPart
    <2>3. QED
      BY <1>4, <2>2 DEF ScriptFlush
  <1>6. /\ qs \in Seq(PieceSet)
        /\ \A k \in 1 .. Len(qs) : \E i \in 1 .. Len(bs) : PieceOf(qs[k], bs[i])
    BY <1>5, SplitIs
  <1>7. \A n \in 1 .. Len(doc) : Covered(doc, qs, n)
    BY <1>3, <1>5, SplitCovers
  <1> HIDE DEF qs
  <1>8. qs \in Seq(Script(doc))
    <2>1. ASSUME NEW k \in 1 .. Len(qs) PROVE qs[k] \in Script(doc)
      <3>1. PICK i \in 1 .. Len(bs) : PieceOf(qs[k], bs[i])
        BY <1>6
      <3>2. bs[i] \in Script(doc)
        BY <1>5
      <3>3. QED
        BY <3>1, <3>2 DEF Script, PieceOf, OfLines, PieceSet
    <2>2. QED
      BY <1>6, <2>1, SeqOfPart
  <1>9. ps \in Seq(Script(doc)) /\ \A n \in 1 .. Len(doc) : Covered(doc, ps, n)
    BY <1>7, <1>8, ShellFoldedIs
  <1> HIDE DEF ps
  <1>10. \A k \in 1 .. Len(ps) : ps[k] \in Fine("shell", doc)
    BY <1>2, <1>9, ScriptFine
  <1>11. ps \in Seq(Fine("shell", doc))
    BY <1>9, <1>10, SeqOfPart
  <1>12. QED
    BY <1>1, <1>2, <1>9, <1>11, FineWhole DEF Present

-----------------------------------------------------------------------------
(* Python. *)

\* Texts glued start as the first of them.
LEMMA GlueFirst ==
    ASSUME NEW ts \in Seq(Text), ts # <<>>, Firm(ts[1])
    PROVE  Flush(Cut!Glue(ts)) /\ Cut!Glue(ts) # <<>> /\ Cut!Glue(ts) \in Text
  <1>1. PICK h : /\ h[0] = ts[1] /\ h[Len(ts) - 1] = Cut!Glue(ts)
                 /\ \A i \in 1 .. Len(ts) - 1 : h[i] = h[i - 1] \o <<Cut!White>> \o ts[i + 1]
    BY GlueFold
  <1>2. Len(ts) \in Nat \ {0} /\ \A i \in 1 .. Len(ts) : ts[i] \in Text
    OBVIOUS
  <1> DEFINE Starts(t) == t \in Text /\ Len(t) # 0 /\ t[1] # Cut!White
             G == {i \in 0 .. Len(ts) - 1 : Starts(h[i])}
  <1>3. \A a \in Text, b \in Text : Starts(a) => Starts(a \o b)
    <2>1. ASSUME NEW a \in Text, NEW b \in Text, Starts(a) PROVE Starts(a \o b)
      <3>1. a \o b \in Text /\ Len(a \o b) = Len(a) + Len(b) /\ Len(a) \in Nat \ {0} /\ Len(b) \in Nat
        BY <2>1, UnitsConcat, UnitsAre
      <3>2. (a \o b)[1] = a[1]
        <4>1. a \in Seq(Unit) /\ b \in Seq(Unit) /\ 1 \in 1 .. Len(a)
          BY <3>1 DEF Text
        <4>2. QED
          BY <4>1, Joins
      <3>3. QED
        BY <2>1, <3>1, <3>2
    <2>2. QED
      BY <2>1
  <1>4. Starts(ts[1])
    BY DEF Firm
  <1> HIDE DEF Starts
  <1>5. 0 \in G
    BY <1>1, <1>2, <1>4
  <1>6. ASSUME NEW i \in 1 .. Len(ts) - 1, i - 1 \in G PROVE i \in G
    <2>1. i \in 0 .. Len(ts) - 1 /\ i + 1 \in 1 .. Len(ts) /\ Starts(h[i - 1]) /\ h[i - 1] \in Text
      BY <1>2, <1>6 DEF Starts
    <2> DEFINE x == h[i - 1] \o <<Cut!White>>
               y == ts[i + 1]
    <2>2. <<Cut!White>> \in Text /\ y \in Text
      BY <1>2, <2>1, UnitsWhite
    <2>3. h[i] = x \o y
      BY <1>1
    <2>4. Starts(x)
      BY <1>3, <2>1, <2>2
    <2> HIDE DEF x, y
    <2>5. Starts(x \o y)
      BY <1>3, <2>2, <2>4 DEF Starts
    <2>6. QED
      BY <2>1, <2>3, <2>5
  <1>7. Len(ts) - 1 \in G
    <2>1. Len(ts) - 1 \in Nat /\ Len(ts) - 1 \in 0 .. Len(ts) - 1
      BY <1>2
    <2> HIDE DEF G
    <2>2. QED
      BY <1>5, <1>6, <2>1, Steps
  <1>8. Starts(Cut!Glue(ts))
    BY <1>1, <1>7
  <1>9. QED
    BY <1>8 DEF Starts, Flush

\* The text of a run of lines starts as the first of them.
LEMMA RunFlush ==
    ASSUME NEW doc \in Docs, NEW a \in 1 .. Len(doc), doc[a].len # 0, NEW b \in a .. Len(doc),
           NEW t, t = Cut!TextOf(doc, Cut!From(a, b))
    PROVE  Flush(t) /\ OfLines(doc, t, a .. b) /\ \A n \in a .. b : LineUnits(doc, n) \subseteq UnitsOf(t)
  <1> DEFINE N == Len(doc)
             ns == Cut!From(a, b)
             ts == [i \in DOMAIN ns |-> Cut!LineText(doc, ns[i])]
  <1>1. N \in Nat /\ a \in Nat \ {0} /\ b \in Nat /\ a <= b + 1 /\ b <= N /\ ~(b < a) /\ a \in 1 .. N
    BY DEF Docs
  <1>2. /\ ns \in Seq(1 .. N) /\ Len(ns) = b - a + 1
        /\ \A i \in 1 .. Len(ns) : ns[i] = a + i - 1 /\ ns[i] \in a .. b
        /\ \A k \in a .. b : \E i \in 1 .. Len(ns) : ns[i] = k
    BY <1>1, FromIs
  <1> HIDE DEF ns
  <1>3. Len(ns) \in Nat \ {0} /\ DOMAIN ns = 1 .. Len(ns) /\ ns[1] = a /\ \A i \in 1 .. Len(ns) : ns[i] \in 1 .. N
    <2>1. Len(ns) \in Nat \ {0} /\ 1 \in 1 .. Len(ns) /\ DOMAIN ns = 1 .. Len(ns)
      BY <1>1, <1>2
    <2>2. \A i \in 1 .. Len(ns) : ns[i] \in 1 .. N
      <3>1. \A k \in a .. b : k \in 1 .. N
        BY <1>1
      <3>2. QED
        BY <1>2, <3>1
    <2>3. ns[1] = a + 1 - 1
      BY <1>2, <2>1
    <2>4. QED
      BY <1>1, <2>1, <2>2, <2>3
  <1> HIDE DEF N
  <1>4. \A i \in 1 .. Len(ns) : Cut!LineText(doc, ns[i]) \in Text
    BY <1>3, LineIs DEF N
  <1>5. ts \in Seq(Text) /\ Len(ts) = Len(ns) /\ ts[1] = Cut!LineText(doc, a)
    BY <1>3, <1>4
  <1>6. Firm(Cut!LineText(doc, a))
    BY LineIs
  <1>7. t = Cut!Glue(ts)
    BY DEF Cut!TextOf, ns
  <1> HIDE DEF ts
  <1>8. ts # <<>>
    BY <1>3, <1>5
  <1>9. Flush(t)
    BY <1>5, <1>6, <1>7, <1>8, GlueFirst
  <1>10. t = Cut!TextOf(doc, ns) /\ ns \in Seq(1 .. Len(doc))
    BY <1>2 DEF ns, N
  <1>11. /\ OfLines(doc, t, a .. b)
         /\ \A i \in 1 .. Len(ns) : LineUnits(doc, ns[i]) \subseteq UnitsOf(t)
    BY <1>2, <1>10, TextOfLines
  <1>12. ASSUME NEW n \in a .. b PROVE LineUnits(doc, n) \subseteq UnitsOf(t)
    BY <1>2, <1>11
  <1>13. QED
    BY <1>9, <1>11, <1>12

\* The lines that are not statements.
Other(doc) == {n \in 1 .. Len(doc) : n \notin Cut!Statements(doc)}
\* A passage of a module: nothing of it is a statement, and under a function it is all of it.
PyPiece(doc) ==
    {p \in PieceSet :
        /\ OfLines(doc, p.text, {n \in p.first .. p.last : n \in Other(doc)})
        /\ \A h \in p.titles : p.first = h /\ \A k \in h + 1 .. p.last : doc[k].kind # Cut!Opening}
PyFlush(doc) == {p \in PyPiece(doc) : Flush(p.text) /\ (p.titles = {} => Firm(p.text))}
PyEnd(doc, n) == IF n \in Cut!Defs(doc) THEN Cut!BodyEnd(doc, n) ELSE n
PyFunction(doc, n) ==
    Cut!Passage(Cut!TextOf(doc, Cut!From(n, Cut!BodyEnd(doc, n))), {n}, n, Cut!BodyEnd(doc, n))

\* Where a function of a module ends.
LEMMA BodyEndIs ==
    ASSUME NEW doc \in Docs, NEW h \in Heads(doc)
    PROVE  /\ Cut!BodyEnd(doc, h) \in h .. Len(doc) /\ h \in 1 .. Len(doc) /\ Len(doc) \in Nat
           /\ \A k \in h + 1 .. Cut!BodyEnd(doc, h) : doc[k].kind # Cut!Opening
  <1> DEFINE K == {k \in h .. Len(doc) :
                      /\ k = h \/ doc[k].kind \in {"text", Cut!Closing}
                      /\ \A j \in h + 1 .. k : /\ doc[j].kind # Cut!Opening
                                               /\ j < k => doc[j].kind # Cut!Closing}
  <1>1. Len(doc) \in Nat
    BY DEF Docs
  <1>2. h \in 1 .. Len(doc)
    BY DEF Heads
  <1>3. h \in K
    BY <1>1, <1>2
  <1>4. K \subseteq 1 .. Len(doc) /\ K \subseteq h .. Len(doc)
    BY <1>1, <1>2
  <1>5. \A k \in K : \A j \in h + 1 .. k : doc[j].kind # Cut!Opening
    OBVIOUS
  <1>6. Cut!BodyEnd(doc, h) = Cut!Max(K)
    BY DEF Cut!BodyEnd
  <1> HIDE DEF K
  <1>7. Cut!Max(K) \in K
    BY <1>1, <1>3, <1>4, TopOf
  <1>8. QED
    BY <1>1, <1>2, <1>4, <1>5, <1>6, <1>7

\* A function of a module holds its lines.
LEMMA PyFunctionIs ==
    ASSUME NEW doc, FileDoc(doc), NEW h \in Heads(doc), NEW p, p = PyFunction(doc, h)
    PROVE  /\ p \in PyFlush(doc) /\ p.first = h /\ p.last = Cut!BodyEnd(doc, h)
           /\ \A n \in h .. Cut!BodyEnd(doc, h) : LineUnits(doc, n) \subseteq UnitsOf(p.text)
  <1> DEFINE e == Cut!BodyEnd(doc, h)
             t == Cut!TextOf(doc, Cut!From(h, e))
  <1>1. doc \in Docs /\ h \in 1 .. Len(doc) /\ doc[h].len # 0
    BY HeadLine DEF FileDoc
  <1>2. e \in h .. Len(doc) /\ Len(doc) \in Nat /\ \A k \in h + 1 .. e : doc[k].kind # Cut!Opening
    BY <1>1, BodyEndIs
  <1>3. \A n \in h .. e : n \in Other(doc)
    <2>1. h \in Cut!Defs(doc)
      BY <1>1, SectionsAre
    <2>2. \A n \in h .. e : n \notin Cut!Statements(doc)
      BY <2>1 DEF Cut!Statements, Cut!InBody
    <2>3. \A n \in h .. e : n \in 1 .. Len(doc)
      BY <1>1, <1>2
    <2>4. QED
      BY <2>2, <2>3 DEF Other
  <1>4. p = Cut!Passage(t, {h}, h, e)
    BY DEF PyFunction
  <1> HIDE DEF e
  <1>5. Flush(t) /\ OfLines(doc, t, h .. e) /\ \A n \in h .. e : LineUnits(doc, n) \subseteq UnitsOf(t)
    BY <1>1, <1>2, RunFlush
  <1>6. t \in Text
    BY <1>5 DEF Flush
  <1> HIDE DEF t
  <1>7. p.text = t /\ p.titles = {h} /\ p.first = h /\ p.last = e /\ p \in PieceSet
    BY <1>1, <1>2, <1>4, <1>6 DEF Cut!Passage, PieceSet
  <1>8. OfLines(doc, t, {n \in h .. e : n \in Other(doc)})
    BY <1>3, <1>5 DEF OfLines
  <1>9. p \in PyPiece(doc)
    BY <1>2, <1>7, <1>8 DEF PyPiece
  <1>10. QED
    BY <1>5, <1>7, <1>9 DEF PyFlush, e

\* Passages of lines from a to b, one after the other.
Rising(ps, a, b) ==
    /\ \A k \in 1 .. Len(ps) : a <= ps[k].first /\ ps[k].first <= ps[k].last /\ ps[k].last <= b
    /\ \A j, k \in 1 .. Len(ps) : j < k => ps[j].last < ps[k].first

\* Passages in order, put after passages in order.
LEMMA RowJoin ==
    ASSUME NEW X, X \subseteq PieceSet, NEW p \in Seq(X), NEW q \in Seq(X), NEW a \in Int,
           NEW b \in Int, NEW c \in Int, NEW d \in Int,
           a <= c, b < c, b <= d, Rising(p, a, b), Rising(q, c, d)
    PROVE  p \o q \in Seq(X) /\ Rising(p \o q, a, d)
  <1> DEFINE r == p \o q
             P(k) == r[k].first \in Int /\ r[k].last \in Int /\ a <= r[k].first /\ r[k].first <= r[k].last /\ r[k].last <= d
  <1>1. /\ r \in Seq(X) /\ Len(p) \in Nat /\ Len(q) \in Nat /\ Len(r) = Len(p) + Len(q)
        /\ \A k \in 1 .. Len(r) : \/ k \in 1 .. Len(p) /\ r[k] = p[k]
                                  \/ k - Len(p) \in 1 .. Len(q) /\ r[k] = q[k - Len(p)]
    BY Joins
  <1>2. /\ \A k \in 1 .. Len(p) : p[k].first \in Int /\ p[k].last \in Int
        /\ \A k \in 1 .. Len(q) : q[k].first \in Int /\ q[k].last \in Int
    <2>1. \A x \in X : x.first \in Int /\ x.last \in Int
      BY DEF PieceSet
    <2>2. (\A k \in 1 .. Len(p) : p[k] \in X) /\ \A k \in 1 .. Len(q) : q[k] \in X
      OBVIOUS
    <2>3. QED
      BY <2>1, <2>2
  <1> HIDE DEF r
  <1>3. \A k \in 1 .. Len(r) : P(k)
    <2>1. ASSUME NEW k \in 1 .. Len(r) PROVE P(k)
      <3>1. CASE k \in 1 .. Len(p) /\ r[k] = p[k]
        <4>1. p[k].first \in Int /\ p[k].last \in Int /\ a <= p[k].first /\ p[k].first <= p[k].last /\ p[k].last <= b
          BY <1>2, <3>1 DEF Rising
        <4>2. QED
          BY <3>1, <4>1
      <3>2. CASE k - Len(p) \in 1 .. Len(q) /\ r[k] = q[k - Len(p)]
        BY <1>2, <3>2 DEF Rising
      <3>3. QED
        BY <1>1, <3>1, <3>2
    <2>2. QED
      BY <2>1
  <1>4. ASSUME NEW j \in 1 .. Len(r), NEW k \in 1 .. Len(r), j < k PROVE r[j].last < r[k].first
    <2>1. CASE k \in 1 .. Len(p) /\ r[k] = p[k]
      <3>1. j \in 1 .. Len(p) /\ r[j] = p[j]
        BY <1>1, <1>4, <2>1
      <3>2. QED
        BY <1>4, <2>1, <3>1 DEF Rising
    <2>2. CASE k - Len(p) \in 1 .. Len(q) /\ r[k] = q[k - Len(p)]
      <3>1. CASE j \in 1 .. Len(p) /\ r[j] = p[j]
        BY <1>2, <2>2, <3>1 DEF Rising
      <3>2. CASE j - Len(p) \in 1 .. Len(q) /\ r[j] = q[j - Len(p)]
        <4>1. j - Len(p) < k - Len(p)
          BY <1>1, <1>4
        <4>2. QED
          BY <2>2, <3>2, <4>1 DEF Rising
      <3>3. QED
        BY <1>1, <3>1, <3>2
    <2>3. QED
      BY <1>1, <2>1, <2>2
  <1>5. QED
    BY <1>1, <1>3, <1>4 DEF Rising, r

\* The nodes of a module, in order, apart from each other.
LEMMA NodesAre ==
    ASSUME NEW doc \in Docs, NEW ns, ns = Cut!Nodes(doc)
    PROVE  /\ Len(ns) \in Nat /\ DOMAIN ns = 1 .. Len(ns) /\ Len(doc) \in Nat
           /\ \A i \in 1 .. Len(ns) : /\ ns[i] \in 1 .. Len(doc) /\ PyEnd(doc, ns[i]) \in ns[i] .. Len(doc)
                                      /\ ns[i] \in Heads(doc) \/ ns[i] \in Cut!Statements(doc)
           /\ \A i, j \in 1 .. Len(ns) : i < j => PyEnd(doc, ns[i]) < ns[j] /\ ns[i] < ns[j]
           /\ \A n : n \in Heads(doc) \/ n \in Cut!Statements(doc) => \E i \in 1 .. Len(ns) : ns[i] = n
  <1> DEFINE N == Len(doc)
             H == Heads(doc)
             T == Cut!Statements(doc)
             S == H \cup T
  <1>1. N \in Nat
    BY DEF Docs
  <1>2. Cut!Defs(doc) = H /\ H \subseteq 1 .. N
    BY SectionsAre
  <1>3. T \subseteq 1 .. N
    BY DEF Cut!Statements, Docs
  <1>4. ns = Cut!Ascending(S)
    BY <1>2 DEF Cut!Nodes
  <1>5. \A h \in H : /\ Cut!BodyEnd(doc, h) \in h .. N
                     /\ \A k \in h + 1 .. Cut!BodyEnd(doc, h) : k \notin H
                     /\ \A k \in h .. Cut!BodyEnd(doc, h) : k \notin T
    <2>1. ASSUME NEW h \in H
          PROVE  /\ Cut!BodyEnd(doc, h) \in h .. N
                 /\ \A k \in h + 1 .. Cut!BodyEnd(doc, h) : k \notin H
                 /\ \A k \in h .. Cut!BodyEnd(doc, h) : k \notin T
      <3>1. Cut!BodyEnd(doc, h) \in h .. N /\ \A k \in h + 1 .. Cut!BodyEnd(doc, h) : doc[k].kind # Cut!Opening
        BY BodyEndIs
      <3>2. \A k \in h .. Cut!BodyEnd(doc, h) : k \notin T
        BY <1>2 DEF Cut!Statements, Cut!InBody
      <3>3. QED
        BY <3>1, <3>2 DEF Heads
    <2>2. QED
      BY <2>1
  <1>6. \A n \in S : PyEnd(doc, n) = IF n \in H THEN Cut!BodyEnd(doc, n) ELSE n
    BY <1>2 DEF PyEnd
  <1>7. S \subseteq 1 .. N
    BY <1>2, <1>3
  <1> HIDE DEF N, H, T
  <1>8. ASSUME NEW a \in S, NEW b \in S, a < b PROVE PyEnd(doc, a) < b
    <2>1. a \in Nat /\ b \in Nat /\ a + 1 <= b
      BY <1>1, <1>7, <1>8
    <2>2. CASE a \in H
      <3>1. PyEnd(doc, a) = Cut!BodyEnd(doc, a) /\ PyEnd(doc, a) \in Nat
        BY <1>1, <1>5, <1>6, <2>1, <2>2
      <3>2. b \notin a + 1 .. Cut!BodyEnd(doc, a)
        <4>1. CASE b \in H
          BY <1>5, <2>2, <4>1
        <4>2. CASE b \in T
          <5>1. b \notin a .. Cut!BodyEnd(doc, a)
            BY <1>5, <2>2, <4>2
          <5>2. QED
            BY <2>1, <5>1
        <4>3. QED
          BY <4>1, <4>2
      <3>3. QED
        BY <2>1, <3>1, <3>2
    <2>3. CASE a \notin H
      BY <1>6, <1>8, <2>3
    <2>4. QED
      BY <2>2, <2>3
  <1>9. ASSUME NEW n \in S PROVE n \in 1 .. N /\ PyEnd(doc, n) \in n .. N
    <2>1. n \in 1 .. N
      BY <1>7
    <2>2. CASE n \in H
      BY <1>5, <1>6, <2>1, <2>2
    <2>3. CASE n \notin H
      BY <1>1, <1>6, <2>1, <2>3
    <2>4. QED
      BY <2>1, <2>2, <2>3
  <1>10. \A n : n \in S <=> n \in H \/ n \in T
    OBVIOUS
  <1> HIDE DEF S
  <1>11. /\ ns \in Seq(S) /\ Len(ns) \in Nat /\ DOMAIN ns = 1 .. Len(ns)
         /\ \A i \in 1 .. Len(ns) : ns[i] \in S
         /\ \A x \in S : \E i \in 1 .. Len(ns) : ns[i] = x
         /\ \A i, j \in 1 .. Len(ns) : i < j => ns[i] < ns[j]
    <2> DEFINE a == Cut!Ascending(S)
    <2>1. N \in Nat /\ S \subseteq 1 .. N
      BY <1>1, <1>7
    <2>3. a \in Seq(S) /\ DOMAIN a = 1 .. Len(a) /\ \A x \in S : \E i \in 1 .. Len(a) : a[i] = x
      BY <2>1, InOrder
    <2>4. \A i, j \in 1 .. Len(a) : i < j => a[i] < a[j]
      BY <2>1, InOrder
    <2>5. Len(a) \in Nat /\ \A i \in 1 .. Len(a) : a[i] \in S
      BY <2>3
    <2>2. ns = a
      BY <1>4
    <2> HIDE DEF a
    <2>6. QED
      BY <2>2, <2>3, <2>4, <2>5
  <1>12. QED
    BY <1>1, <1>8, <1>9, <1>10, <1>11 DEF N, H, T

\* Where the lines after a node start.
PyPast(doc, ns, i) == IF i = 0 THEN 1 ELSE PyEnd(doc, ns[i]) + 1
PyGap(doc, ns, i, n) ==
    \/ i \in 1 .. Len(ns) /\ n \in PyPast(doc, ns, i - 1) .. ns[i] - 1
    \/ i = Len(ns) + 1 /\ n \in PyPast(doc, ns, Len(ns)) .. Len(doc)

\* A line is a statement, or of a function, or between nodes.
LEMMA GapsAre ==
    ASSUME NEW doc \in Docs, NEW ns, ns = Cut!Nodes(doc)
    PROVE  /\ \A i \in 0 .. Len(ns) : PyPast(doc, ns, i) \in 1 .. Len(doc) + 1
           /\ \A i \in 1 .. Len(ns) : PyPast(doc, ns, i - 1) <= ns[i]
           /\ \A i, n : PyGap(doc, ns, i, n) => n \notin Cut!Statements(doc)
           /\ \A n \in 1 .. Len(doc) : \/ n \in Cut!Statements(doc)
                                       \/ \E h \in Heads(doc) : n \in h .. Cut!BodyEnd(doc, h)
                                       \/ \E i \in 1 .. Len(ns) + 1 : PyGap(doc, ns, i, n)
  <1> DEFINE N == Len(doc)
             m == Len(ns)
             E(i) == PyEnd(doc, ns[i])
             past(i) == PyPast(doc, ns, i)
             T == Cut!Statements(doc)
  <1>1. /\ m \in Nat /\ N \in Nat
        /\ \A i \in 1 .. m : ns[i] \in 1 .. N /\ E(i) \in ns[i] .. N /\ (ns[i] \in Heads(doc) \/ ns[i] \in T)
        /\ \A i, j \in 1 .. m : i < j => E(i) < ns[j] /\ ns[i] < ns[j]
        /\ \A n : n \in Heads(doc) \/ n \in T => \E i \in 1 .. m : ns[i] = n
    BY NodesAre
  <1>2. past(0) = 1 /\ \A i \in 1 .. m : past(i) = E(i) + 1
    BY DEF PyPast
  <1>3. \A i \in 1 .. m : E(i) = IF ns[i] \in Heads(doc) THEN Cut!BodyEnd(doc, ns[i]) ELSE ns[i]
    BY SectionsAre DEF PyEnd
  <1> HIDE DEF N, m, E, past, T
  <1>4. ASSUME NEW i \in 0 .. m PROVE past(i) \in 1 .. N + 1
    <2>1. CASE i = 0
      BY <1>1, <1>2, <2>1
    <2>2. CASE i # 0
      <3>1. i \in 1 .. m
        BY <1>1, <2>2
      <3>2. E(i) \in ns[i] .. N /\ ns[i] \in 1 .. N /\ past(i) = E(i) + 1
        BY <1>1, <1>2, <3>1
      <3>3. QED
        BY <1>1, <3>2
    <2>3. QED
      BY <2>1, <2>2
  <1>5. ASSUME NEW i \in 1 .. m PROVE past(i - 1) <= ns[i]
    <2>1. CASE i = 1
      <3>1. past(i - 1) = 1
        BY <1>2, <2>1
      <3>2. QED
        BY <1>1, <3>1
    <2>2. CASE i # 1
      <3>1. i - 1 \in 1 .. m /\ i - 1 < i
        BY <1>1, <2>2
      <3>2. E(i - 1) < ns[i] /\ E(i - 1) \in Nat /\ ns[i] \in Nat /\ past(i - 1) = E(i - 1) + 1
        BY <1>1, <1>2, <3>1
      <3>3. QED
        BY <3>2
    <2>3. QED
      BY <2>1, <2>2
  <1>6. ASSUME NEW i \in 0 .. m, NEW j \in 1 .. m, NEW n \in Nat, past(i) <= n,
               i < m => n < ns[i + 1]
        PROVE  ns[j] # n
    <2>1. CASE j <= i
      <3>1. i \in 1 .. m /\ ns[j] \in Nat /\ ns[i] \in Nat /\ E(i) \in Nat /\ ns[i] <= E(i) /\ past(i) = E(i) + 1
        BY <1>1, <1>2, <2>1
      <3>2. ns[j] <= ns[i]
        BY <1>1, <2>1, <3>1
      <3>3. QED
        BY <1>6, <3>1, <3>2
    <2>2. CASE ~(j <= i)
      <3>1. i < m /\ i + 1 \in 1 .. m /\ i + 1 <= j
        BY <1>1, <2>2
      <3>2. ns[j] \in Nat /\ ns[i + 1] \in Nat /\ ns[i + 1] <= ns[j] /\ n < ns[i + 1]
        BY <1>1, <1>6, <3>1
      <3>3. QED
        BY <3>2
    <2>3. QED
      BY <2>1, <2>2
  <1>7. ASSUME NEW i, NEW n, PyGap(doc, ns, i, n) PROVE n \notin T
    <2>1. CASE i \in 1 .. m /\ n \in past(i - 1) .. ns[i] - 1
      <3>1. i - 1 \in 0 .. m /\ i - 1 + 1 = i /\ past(i - 1) \in Nat /\ ns[i] \in Nat
        BY <1>1, <1>4, <2>1
      <3>2. n \in Nat /\ past(i - 1) <= n /\ n < ns[i]
        BY <2>1, <3>1
      <3>3. \A j \in 1 .. m : ns[j] # n
        BY <1>6, <3>1, <3>2
      <3>4. QED
        BY <1>1, <3>3
    <2>2. CASE n \in past(m) .. N
      <3>1. m \in 0 .. m /\ past(m) \in Nat /\ ~(m < m)
        BY <1>1, <1>4
      <3>2. n \in Nat /\ past(m) <= n
        BY <1>1, <2>2, <3>1
      <3>3. \A j \in 1 .. m : ns[j] # n
        BY <1>6, <3>1, <3>2
      <3>4. QED
        BY <1>1, <3>3
    <2>3. QED
      BY <1>7, <2>1, <2>2 DEF PyGap, m, past, N
  <1>8. ASSUME NEW n \in 1 .. N, n \notin T,
               \A h \in Heads(doc) : n \notin h .. Cut!BodyEnd(doc, h)
        PROVE  \E i \in 1 .. m + 1 : PyGap(doc, ns, i, n)
    <2> DEFINE K == {i \in 1 .. m : ns[i] < n}
               g == IF K = {} THEN 0 ELSE Cut!Max(K)
    <2>1. \A i \in 1 .. m : ns[i] # n
      <3>1. ASSUME NEW i \in 1 .. m, ns[i] = n PROVE FALSE
        <4>1. n \in Heads(doc)
          BY <1>1, <1>8, <3>1
        <4>2. Cut!BodyEnd(doc, n) \in n .. N
          BY <1>1, <1>3, <3>1, <4>1
        <4>3. n \in n .. Cut!BodyEnd(doc, n)
          BY <1>1, <4>2
        <4>4. QED
          BY <1>8, <4>1, <4>3
      <3>2. QED
        BY <3>1
    <2>2. g \in 0 .. m /\ (g # 0 => g \in 1 .. m /\ ns[g] < n) /\ \A i \in 1 .. m : g < i => ~(ns[i] < n)
      <3>1. CASE K = {}
        BY <1>1, <3>1
      <3>2. CASE K # {}
        <4>1. K \subseteq 1 .. m
          OBVIOUS
        <4> HIDE DEF K
        <4>2. Cut!Max(K) \in K /\ \A i \in K : i <= Cut!Max(K)
          BY <1>1, <3>2, <4>1, TopOf
        <4>3. g = Cut!Max(K)
          BY <3>2
        <4> HIDE DEF g
        <4>4. g \in K /\ \A i \in K : i <= g
          BY <4>2, <4>3
        <4>5. QED
          BY <1>1, <4>4 DEF K
      <3>3. QED
        BY <3>1, <3>2
    <2> HIDE DEF g, K
    <2>3. past(g) <= n
      <3>1. CASE g = 0
        BY <1>2, <3>1
      <3>2. CASE g # 0
        <4>1. g \in 1 .. m /\ ns[g] < n /\ past(g) = E(g) + 1 /\ E(g) \in Nat /\ ns[g] \in Nat /\ n \in Nat
          BY <1>1, <1>2, <2>2, <3>2
        <4>2. E(g) < n
          <5>1. CASE ns[g] \in Heads(doc)
            <6>1. E(g) = Cut!BodyEnd(doc, ns[g]) /\ n \notin ns[g] .. Cut!BodyEnd(doc, ns[g])
              BY <1>3, <1>8, <4>1, <5>1
            <6>2. QED
              BY <4>1, <6>1
          <5>2. CASE ns[g] \notin Heads(doc)
            BY <1>3, <4>1, <5>2
          <5>3. QED
            BY <5>1, <5>2
        <4>3. QED
          BY <4>1, <4>2
      <3>3. QED
        BY <3>1, <3>2
    <2>4. past(g) \in Nat
      BY <1>1, <1>4, <2>2
    <2>5. CASE g = m
      <3>1. n \in past(m) .. N /\ m + 1 \in 1 .. m + 1
        BY <1>1, <2>3, <2>4, <2>5
      <3>2. PyGap(doc, ns, m + 1, n)
        BY <3>1 DEF PyGap, m, past, N
      <3>3. QED
        BY <3>1, <3>2
    <2>6. CASE g # m
      <3>1. g + 1 \in 1 .. m /\ g + 1 - 1 = g /\ g < g + 1 /\ g + 1 \in 1 .. m + 1
        BY <1>1, <2>2, <2>6
      <3>2. ~(ns[g + 1] < n) /\ ns[g + 1] # n /\ ns[g + 1] \in Nat
        BY <1>1, <2>1, <2>2, <3>1
      <3>3. n \in past(g) .. ns[g + 1] - 1
        BY <1>1, <2>3, <2>4, <3>1, <3>2
      <3>4. PICK j \in 1 .. m : j = g + 1 /\ g = j - 1
        BY <1>1, <2>2, <3>1
      <3>5. j \in 1 .. m + 1 /\ n \in past(j - 1) .. ns[j] - 1
        BY <3>1, <3>3, <3>4
      <3>6. PyGap(doc, ns, j, n)
        BY <3>5 DEF PyGap, m, past
      <3>7. QED
        BY <3>5, <3>6
    <2>7. QED
      BY <2>5, <2>6
  <1>9. QED
    BY <1>4, <1>5, <1>7, <1>8 DEF N, m, past, T

\* The lines between two nodes, if they are not blank.
LEMMA ModuleBlockIs ==
    ASSUME NEW doc \in Docs, NEW a \in Nat \ {0}, NEW b \in Nat, b <= Len(doc),
           \A n \in a .. b : n \notin Cut!Statements(doc), NEW ps, ps = Cut!ModuleBlock(doc, a, b)
    PROVE  /\ ps \in Seq(PyFlush(doc)) /\ Rising(ps, a, b)
           /\ \A n \in a .. b : Covered(doc, ps, n)
  <1> DEFINE t == Cut!Strip(Cut!TextOf(doc, Cut!From(a, b)))
             p == Cut!Passage(t, {}, a, b)
  <1>1. ps = IF a > b \/ t = <<>> THEN <<>> ELSE <<p>>
    BY DEF Cut!ModuleBlock
  <1>2. CASE a > b
    <2>1. ps = <<>> /\ Len(ps) = 0 /\ \A n : n \notin a .. b
      BY <1>1, <1>2
    <2>2. QED
      BY <2>1 DEF Rising
  <1>3. CASE ~(a > b)
    <2>1. a <= b /\ a <= b + 1 /\ a \in Int /\ b \in Int
      BY <1>3
    <2>2. /\ t \in Text /\ (t = <<>> <=> UnitsOf(t) = {}) /\ (t # <<>> => Firm(t)) /\ Flush(t)
          /\ OfLines(doc, t, a .. b) /\ \A n \in a .. b : LineUnits(doc, n) \subseteq UnitsOf(t)
      BY <2>1, StrippedFrom
    <2> HIDE DEF t
    <2>3. p.text = t /\ p.titles = {} /\ p.first = a /\ p.last = b /\ p \in PieceSet
      BY <2>1, <2>2 DEF Cut!Passage, PieceSet
    <2>4. OfLines(doc, t, {n \in a .. b : n \in Other(doc)})
      <3>1. \A n \in a .. b : n \in Other(doc)
        BY <2>1 DEF Other, Docs
      <3>2. QED
        BY <2>2, <3>1 DEF OfLines
    <2>5. p \in PyPiece(doc)
      BY <2>3, <2>4 DEF PyPiece
    <2> HIDE DEF p
    <2>6. CASE t = <<>>
      <3>1. ps = <<>> /\ Len(ps) = 0 /\ \A n \in a .. b : LineUnits(doc, n) = {}
        BY <1>1, <2>2, <2>6
      <3>2. QED
        BY <3>1 DEF Rising, Covered
    <2>7. CASE t # <<>>
      <3>1. p \in PyFlush(doc)
        BY <2>2, <2>3, <2>5, <2>7 DEF PyFlush
      <3>2. ps = <<p>>
        BY <1>1, <1>3, <2>7
      <3>3. ps \in Seq(PyFlush(doc)) /\ Among(p, ps)
        BY <3>1, <3>2, AmongOne
      <3>4. Len(ps) = 1 /\ ps[1] = p
        BY <3>2
      <3>5. Rising(ps, a, b)
        BY <2>1, <2>3, <3>4 DEF Rising
      <3>6. \A n \in a .. b : Covered(doc, ps, n)
        BY <2>2, <2>3, <3>3, CoveredByOne
      <3>7. QED
        BY <3>3, <3>5, <3>6
    <2>8. QED
      BY <2>6, <2>7
  <1>4. QED
    BY <1>2, <1>3

\* The blocks up to the end of a node.
PyPart(doc, ns, i) ==
    Cut!ModuleBlock(doc, PyPast(doc, ns, i - 1), ns[i] - 1)
    \o (IF ns[i] \in Cut!Defs(doc) THEN <<PyFunction(doc, ns[i])>> ELSE <<>>)
PyParts(doc) == [i \in DOMAIN Cut!Nodes(doc) |-> PyPart(doc, Cut!Nodes(doc), i)]
PyEndBlock(doc) == Cut!ModuleBlock(doc, PyPast(doc, Cut!Nodes(doc), Len(Cut!Nodes(doc))), Len(doc))

\* A function, and what comes before it in the module.
LEMMA PyPartIs ==
    ASSUME NEW doc, FileDoc(doc), NEW ns, ns = Cut!Nodes(doc), NEW i \in 1 .. Len(ns), NEW bits,
           bits = PyPart(doc, ns, i)
    PROVE  /\ bits \in Seq(PyFlush(doc)) /\ Rising(bits, PyPast(doc, ns, i - 1), PyEnd(doc, ns[i]))
           /\ \A n : PyGap(doc, ns, i, n) => Covered(doc, bits, n)
           /\ ns[i] \in Heads(doc) => \A n \in ns[i] .. Cut!BodyEnd(doc, ns[i]) : Covered(doc, bits, n)
  <1> DEFINE N == Len(doc)
             h == ns[i]
             a == PyPast(doc, ns, i - 1)
             e == PyEnd(doc, h)
             X == PyFlush(doc)
             p == Cut!ModuleBlock(doc, a, h - 1)
             f == PyFunction(doc, h)
             q == IF h \in Cut!Defs(doc) THEN <<f>> ELSE <<>>
  <1>1. doc \in Docs /\ N \in Nat /\ Cut!Defs(doc) = Heads(doc)
    BY SectionsAre DEF FileDoc
  <1>2. Len(ns) \in Nat /\ h \in 1 .. N /\ e \in h .. N
    BY <1>1, NodesAre
  <1>3. i - 1 \in 0 .. Len(ns) /\ i \in 1 .. Len(ns)
    BY <1>2
  <1>4. /\ a \in 1 .. N + 1 /\ a <= h /\ \A n \in a .. h - 1 : n \notin Cut!Statements(doc)
        /\ \A n : PyGap(doc, ns, i, n) => n \in a .. h - 1
    <2>1. a \in 1 .. N + 1 /\ a <= h
      BY <1>1, <1>3, GapsAre
    <2>2. \A n \in a .. h - 1 : PyGap(doc, ns, i, n)
      BY DEF PyGap
    <2>3. \A n : PyGap(doc, ns, i, n) => n \notin Cut!Statements(doc)
      BY <1>1, GapsAre
    <2>4. i # Len(ns) + 1
      BY <1>2
    <2>5. \A n : PyGap(doc, ns, i, n) => n \in a .. h - 1
      BY <2>4 DEF PyGap
    <2>6. QED
      BY <2>1, <2>2, <2>3, <2>5
  <1>5. bits = p \o q
    BY DEF PyPart
  <1>6. h \in Heads(doc) => e = Cut!BodyEnd(doc, h)
    BY <1>1 DEF PyEnd
  <1> HIDE DEF N, h, a, e
  <1>7. h - 1 \in Nat /\ h - 1 <= N /\ a \in Nat \ {0} /\ a \in Int /\ h \in Int /\ h - 1 \in Int /\ e \in Int /\ h <= e /\ h - 1 <= e /\ h - 1 < h
    BY <1>1, <1>2, <1>4
  <1>8. p \in Seq(X) /\ Rising(p, a, h - 1) /\ \A n \in a .. h - 1 : Covered(doc, p, n)
    BY <1>1, <1>4, <1>7, ModuleBlockIs DEF N
  <1>9. /\ q \in Seq(X) /\ Rising(q, h, e)
        /\ h \in Heads(doc) => \A n \in h .. Cut!BodyEnd(doc, h) : Covered(doc, q, n)
    <2>1. CASE h \in Heads(doc)
      <3>1. /\ f \in PyFlush(doc) /\ f.first = h /\ f.last = Cut!BodyEnd(doc, h)
            /\ \A n \in h .. Cut!BodyEnd(doc, h) : LineUnits(doc, n) \subseteq UnitsOf(f.text)
        BY <2>1, PyFunctionIs
      <3>2. q = <<f>>
        BY <1>1, <2>1
      <3> HIDE DEF f, q
      <3>3. q \in Seq(X) /\ Among(f, q)
        BY <3>1, <3>2, AmongOne
      <3>4. Len(q) = 1 /\ q[1] = f
        BY <3>2
      <3>5. Rising(q, h, e)
        BY <1>6, <1>7, <2>1, <3>1, <3>4 DEF Rising
      <3>6. \A n \in h .. Cut!BodyEnd(doc, h) : Covered(doc, q, n)
        BY <3>1, <3>3, CoveredByOne
      <3>7. QED
        BY <3>3, <3>5, <3>6
    <2>2. CASE h \notin Heads(doc)
      <3>1. q = <<>> /\ Len(q) = 0 /\ q \in Seq(X)
        BY <1>1, <2>2
      <3>2. Rising(q, h, e)
        BY <3>1 DEF Rising
      <3>3. QED
        BY <2>2, <3>1, <3>2
    <2>3. QED
      BY <2>1, <2>2
  <1>10. X \subseteq PieceSet
    BY DEF PyFlush, PyPiece
  <1> HIDE DEF p, q, X
  <1>11. bits \in Seq(X) /\ Rising(bits, a, e)
    <2>1. p \o q \in Seq(X) /\ Rising(p \o q, a, e)
      BY <1>4, <1>7, <1>8, <1>9, <1>10, RowJoin
    <2>2. QED
      BY <1>5, <2>1
  <1>12. (\A k \in 1 .. Len(p) : Among(p[k], bits)) /\ \A k \in 1 .. Len(q) : Among(q[k], bits)
    BY <1>5, <1>8, <1>9, AmongBoth
  <1>13. \A n : Covered(doc, p, n) \/ Covered(doc, q, n) => Covered(doc, bits, n)
    BY <1>12, CoveredMore
  <1>14. QED
    BY <1>4, <1>8, <1>9, <1>11, <1>13 DEF X, a, e, h

\* The blocks of a module, in order.
LEMMA PythonBlocksAre ==
    ASSUME NEW doc, FileDoc(doc), NEW bs, bs = Cut!PythonBlocks(doc)
    PROVE  /\ bs \in Seq(PyFlush(doc)) /\ Rising(bs, 1, Len(doc))
           /\ \A n \in 1 .. Len(doc) : n \in Cut!Statements(doc) \/ Covered(doc, bs, n)
  <1> DEFINE N == Len(doc)
             ns == Cut!Nodes(doc)
             m == Len(ns)
             X == PyFlush(doc)
             ss == PyParts(doc)
             past(i) == PyPast(doc, ns, i)
             flat == Cut!FlattenSeq(ss)
             end == PyEndBlock(doc)
  <1>1. doc \in Docs /\ N \in Nat
    BY DEF FileDoc
  <1>2. bs = flat \o end
    BY Zenon DEF Cut!PythonBlocks, PyParts, PyPart, PyEndBlock, PyPast, PyEnd, PyFunction
  <1>3. m \in Nat /\ DOMAIN ns = 1 .. m
    BY <1>1, NodesAre
  <1>4. \A i \in 1 .. m : /\ ns[i] \in 1 .. N /\ PyEnd(doc, ns[i]) \in ns[i] .. N /\ past(i) = PyEnd(doc, ns[i]) + 1
    BY <1>1, NodesAre DEF PyPast
  <1>5. \A i \in 0 .. m : past(i) \in 1 .. N + 1
    BY <1>1, GapsAre
  <1>6. \A i \in 1 .. m : PyPart(doc, ns, i) \in Seq(X) /\ Rising(PyPart(doc, ns, i), past(i - 1), PyEnd(doc, ns[i]))
    BY PyPartIs
  <1>7. ss = [i \in 1 .. m |-> PyPart(doc, ns, i)]
    BY <1>3 DEF PyParts
  <1>8. past(0) = 1
    BY DEF PyPast
  <1>9. X \subseteq PieceSet
    BY DEF PyFlush, PyPiece
  <1> HIDE DEF X, N, m, past, ss
  <1>10. ss \in Seq(Seq(X)) /\ Len(ss) = m /\ \A i \in 1 .. m : ss[i] = PyPart(doc, ns, i)
    BY <1>3, <1>6, <1>7
  <1>11. PICK g : /\ g[0] = <<>> /\ g[Len(ss)] = flat
                  /\ \A i \in 1 .. Len(ss) : g[i] = g[i - 1] \o ss[i]
                  /\ \A i \in 0 .. Len(ss) : g[i] \in Seq(X)
    BY <1>10, Flattened
  <1> DEFINE G == {i \in 0 .. m : g[i] \in Seq(X) /\ Rising(g[i], 1, past(i) - 1)}
  <1>12. 0 \in G
    <2>1. Len(<<>>) = 0 /\ 0 \in 0 .. m /\ g[0] \in Seq(X)
      BY <1>3, <1>10, <1>11
    <2>2. QED
      BY <1>11, <2>1 DEF Rising
  <1>13. ASSUME NEW i \in 1 .. m, i - 1 \in G PROVE i \in G
    <2> DEFINE a == g[i - 1]
               b == PyPart(doc, ns, i)
               c == past(i - 1)
               e == PyEnd(doc, ns[i])
    <2>1. i - 1 \in 0 .. m /\ i \in 0 .. m
      BY <1>3
    <2>2. a \in Seq(X) /\ Rising(a, 1, c - 1) /\ b \in Seq(X) /\ Rising(b, c, e) /\ g[i] = a \o b
      BY <1>6, <1>10, <1>11, <1>13
    <2>3. c \in 1 .. N + 1 /\ e \in Nat /\ past(i) - 1 = e /\ c - 1 <= e
      <3>1. c \in 1 .. N + 1 /\ e \in ns[i] .. N /\ ns[i] \in 1 .. N /\ past(i) = e + 1
        BY <1>4, <1>5, <2>1
      <3>2. c <= ns[i]
        BY <1>1, GapsAre DEF past, m
      <3>3. QED
        BY <1>1, <3>1, <3>2 DEF N
    <2> HIDE DEF a, b, c, e
    <2>4. c \in Int /\ c - 1 \in Int /\ e \in Int /\ 1 \in Int /\ 1 <= c /\ c - 1 < c
      BY <1>1, <2>3
    <2>5. a \o b \in Seq(X) /\ Rising(a \o b, 1, e)
      BY <1>9, <2>2, <2>3, <2>4, RowJoin
    <2>6. g[i] \in Seq(X) /\ Rising(g[i], 1, past(i) - 1)
      BY <2>2, <2>3, <2>5
    <2>7. QED
      BY <2>1, <2>6
  <1>14. m \in G
    <2> HIDE DEF G
    <2>1. m \in 0 .. m
      BY <1>3
    <2>2. QED
      BY <1>3, <1>12, <1>13, <2>1, Steps
  <1>15. flat \in Seq(X) /\ Rising(flat, 1, past(m) - 1)
    BY <1>10, <1>11, <1>14
  <1>16. /\ end \in Seq(X) /\ Rising(end, past(m), N)
         /\ \A n \in past(m) .. N : Covered(doc, end, n)
    <2> DEFINE c == past(m)
    <2>1. c \in 1 .. N + 1
      BY <1>3, <1>5
    <2>2. \A n \in c .. N : n \notin Cut!Statements(doc)
      <3>1. \A n \in c .. N : PyGap(doc, ns, m + 1, n)
        BY DEF PyGap, m, N, past
      <3>2. QED
        BY <1>1, <3>1, GapsAre
    <2>3. end = Cut!ModuleBlock(doc, c, N)
      BY DEF PyEndBlock, m, past, N
    <2> HIDE DEF c, end
    <2>4. c \in Nat \ {0} /\ N <= N
      BY <1>1, <2>1
    <2>5. /\ end \in Seq(PyFlush(doc)) /\ Rising(end, c, N)
          /\ \A n \in c .. N : Covered(doc, end, n)
      BY <1>1, <2>2, <2>3, <2>4, ModuleBlockIs DEF N
    <2>6. QED
      BY <2>5 DEF X, c
  <1> HIDE DEF flat, end
  <1>17. bs \in Seq(X) /\ Rising(bs, 1, N)
    <2>1. /\ past(m) \in Int /\ past(m) - 1 \in Int /\ N \in Int /\ 1 \in Int /\ 1 <= past(m) /\ past(m) - 1 < past(m)
          /\ past(m) - 1 <= N
      <3>1. past(m) \in 1 .. N + 1
        BY <1>3, <1>5
      <3>2. QED
        BY <1>1, <3>1
    <2> DEFINE c == past(m)
               d == past(m) - 1
    <2>2. c \in Int /\ d \in Int /\ 1 <= c /\ d < c /\ d <= N /\ Rising(flat, 1, d) /\ Rising(end, c, N)
      BY <1>15, <1>16, <2>1
    <2> HIDE DEF c, d
    <2>3. flat \o end \in Seq(X) /\ Rising(flat \o end, 1, N)
      BY <1>9, <1>15, <1>16, <2>1, <2>2, RowJoin
    <2>4. QED
      BY <1>2, <2>3
  <1>18. /\ \A i \in 1 .. m : \A k \in 1 .. Len(PyPart(doc, ns, i)) : Among(PyPart(doc, ns, i)[k], flat)
         /\ (\A k \in 1 .. Len(flat) : Among(flat[k], bs)) /\ \A k \in 1 .. Len(end) : Among(end[k], bs)
    <2>1. \A i \in 1 .. Len(ss) : \A j \in 1 .. Len(ss[i]) : Among(ss[i][j], flat)
      BY <1>10, AmongFlat DEF flat
    <2>2. (\A k \in 1 .. Len(flat) : Among(flat[k], bs)) /\ \A k \in 1 .. Len(end) : Among(end[k], bs)
      BY <1>2, <1>15, <1>16, AmongBoth
    <2>3. QED
      BY <1>10, <2>1, <2>2
  <1>19. \A n : Covered(doc, flat, n) \/ Covered(doc, end, n) => Covered(doc, bs, n)
    BY <1>18, CoveredMore
  <1>20. ASSUME NEW i \in 1 .. m, NEW n, Covered(doc, PyPart(doc, ns, i), n)
                PROVE Covered(doc, bs, n)
    <2>1. Covered(doc, flat, n)
      BY <1>18, <1>20, CoveredMore
    <2>2. QED
      BY <1>19, <2>1
  <1>21. ASSUME NEW n \in 1 .. N, n \notin Cut!Statements(doc) PROVE Covered(doc, bs, n)
    <2>1. CASE \E h \in Heads(doc) : n \in h .. Cut!BodyEnd(doc, h)
      <3>1. PICK h \in Heads(doc) : n \in h .. Cut!BodyEnd(doc, h)
        BY <2>1
      <3>2. PICK i \in 1 .. m : ns[i] = h
        BY <1>1, NodesAre DEF m
      <3>3. Covered(doc, PyPart(doc, ns, i), n)
        BY <3>1, <3>2, PyPartIs DEF m
      <3>4. QED
        BY <1>20, <3>3
    <2>2. CASE \E i \in 1 .. m + 1 : PyGap(doc, ns, i, n)
      <3>1. PICK i \in 1 .. m + 1 : PyGap(doc, ns, i, n)
        BY <2>2
      <3>2. CASE i \in 1 .. m
        <4>1. Covered(doc, PyPart(doc, ns, i), n)
          BY <3>1, <3>2, PyPartIs DEF m
        <4>2. QED
          BY <1>20, <3>2, <4>1
      <3>3. CASE i \notin 1 .. m
        <4>1. n \in past(m) .. N
          BY <3>1, <3>3 DEF PyGap, m, past, N
        <4>2. QED
          BY <1>16, <1>19, <4>1
      <3>4. QED
        BY <3>2, <3>3
    <2>3. QED
      BY <1>1, <1>21, <2>1, <2>2, GapsAre DEF m, N
  <1>22. QED
    BY <1>17, <1>21 DEF X, N

\* What is put after the passages so far stays after them.
Follows(acc, p) == acc # <<>> => acc[Len(acc)].last < p.first /\ acc[Len(acc)].first <= acc[Len(acc)].last
LastIs(acc, p) == acc # <<>> /\ acc[Len(acc)].last = p.last /\ acc[Len(acc)].first <= p.first

\* The piece p after l, of the same module.
ModuleJoined(l, p) == [[l EXCEPT !.text = Cut!Glue(<<@, p.text>>)] EXCEPT !.last = p.last]

\* A piece of a module is put after the others, or joins the last.
LEMMA ModuleCases ==
    ASSUME NEW X, X \subseteq PieceSet, NEW acc \in Seq(X), NEW p \in X, NEW new,
           new = ModuleStep(acc, p)
    PROVE  \/ new = Append(acc, p)
           \/ /\ acc # <<>> /\ acc[Len(acc)] \in X /\ acc[Len(acc)].titles = {} /\ p.titles = {}
              /\ new = [acc EXCEPT ![Len(acc)] = ModuleJoined(acc[Len(acc)], p)]
  <1>1. CASE new = Append(acc, p)
    BY <1>1
  <1>2. CASE new # Append(acc, p)
    <2> DEFINE l == acc[Len(acc)]
    <2>1. /\ acc # <<>> /\ Cut!Last(acc).titles = {} /\ p.titles = {}
          /\ new = [acc EXCEPT ![Len(acc)].text = Cut!Glue(<<@, p.text>>), ![Len(acc)].last = p.last]
      BY <1>2 DEF ModuleStep
    <2>2. l \in X /\ Cut!Last(acc) = l /\ Len(acc) \in DOMAIN acc /\ Len(acc) \in Nat
      BY <2>1 DEF Cut!Last
    <2>3. new = [acc EXCEPT ![Len(acc)] = ModuleJoined(l, p)]
      BY <2>1, <2>2 DEF ModuleJoined
    <2>4. QED
      BY <2>1, <2>2, <2>3
  <1>3. QED
    BY <1>1, <1>2

\* Two pieces of a module joined.
LEMMA JoinedTexts ==
    ASSUME NEW l \in PieceSet, NEW p \in PieceSet, NEW q, q = ModuleJoined(l, p)
    PROVE  /\ q \in PieceSet /\ q.titles = l.titles /\ q.first = l.first /\ q.last = p.last
           /\ UnitsOf(q.text) = UnitsOf(l.text) \cup UnitsOf(p.text)
           /\ Firm(l.text) /\ Firm(p.text) => Firm(q.text)
  <1> DEFINE g == Cut!Glue(<<l.text, p.text>>)
  <1>1. l.text \in Text /\ p.text \in Text
    BY DEF PieceSet
  <1>2. g \in Text /\ UnitsOf(g) = UnitsOf(l.text) \cup UnitsOf(p.text) /\ (Firm(l.text) /\ Firm(p.text) => Firm(g))
    BY <1>1, GlueTwo
  <1>3. q = [[l EXCEPT !.text = g] EXCEPT !.last = p.last]
    BY DEF ModuleJoined
  <1> HIDE DEF g
  <1>4. q.text = g /\ q.titles = l.titles /\ q.first = l.first /\ q.last = p.last /\ q \in PieceSet
    BY <1>2, <1>3 DEF PieceSet
  <1>5. QED
    BY <1>2, <1>4

\* The pieces stay passages.
LEMMA ModuleStepType ==
    ASSUME NEW acc \in Seq(PieceSet), NEW p \in PieceSet, NEW new, new = ModuleStep(acc, p)
    PROVE  new \in Seq(PieceSet)
  <1>1. CASE new = Append(acc, p)
    BY <1>1
  <1>2. CASE new # Append(acc, p)
    <2> DEFINE q == ModuleJoined(acc[Len(acc)], p)
    <2>1. acc # <<>> /\ acc[Len(acc)] \in PieceSet /\ new = [acc EXCEPT ![Len(acc)] = q]
      BY <1>2, ModuleCases
    <2>2. q \in PieceSet
      BY <2>1, JoinedTexts
    <2> HIDE DEF q
    <2>3. QED
      BY <2>1, <2>2
  <1>3. QED
    BY <1>1, <1>2

\* The pieces stay in order, and hold what they held and the next one.
LEMMA ModuleStepIs ==
    ASSUME NEW doc, NEW acc \in Seq(PyFlush(doc)), NEW p \in PyFlush(doc), Follows(acc, p),
           NEW new,
           \/ new = Append(acc, p)
           \/ /\ acc # <<>> /\ acc[Len(acc)].titles = {} /\ p.titles = {}
              /\ new = [acc EXCEPT ![Len(acc)] = ModuleJoined(acc[Len(acc)], p)]
    PROVE  /\ new \in Seq(PyFlush(doc)) /\ LastIs(new, p)
           /\ TextUnits(acc) \subseteq TextUnits(new) /\ UnitsOf(p.text) \subseteq TextUnits(new)
  <1>1. PyFlush(doc) \subseteq PieceSet
    BY DEF PyFlush, PyPiece
  <1>2. p.first \in Int /\ p.last \in Int /\ p \in PieceSet
    BY <1>1 DEF PieceSet
  <1>3. CASE new = Append(acc, p)
    <2>1. /\ new \in Seq(PyFlush(doc)) /\ Len(new) = Len(acc) + 1 /\ new[Len(new)] = p /\ Len(acc) \in Nat
          /\ TextUnits(acc) \subseteq TextUnits(new) /\ UnitsOf(p.text) \subseteq TextUnits(new)
      <3> DEFINE X == PyFlush(doc)
      <3>1. acc \in Seq(X) /\ p \in X
        OBVIOUS
      <3> HIDE DEF X
      <3>2. new \in Seq(X) /\ TextUnits(acc) \subseteq TextUnits(new) /\ UnitsOf(p.text) \subseteq TextUnits(new)
        BY <1>3, <3>1, LastAdded
      <3>3. Len(acc) \in Nat /\ Len(new) = Len(acc) + 1 /\ new[Len(acc) + 1] = p
        BY <1>3, <3>1
      <3>4. QED
        BY <3>2, <3>3 DEF X
    <2>2. new # <<>>
      BY <1>3
    <2>3. QED
      BY <1>2, <2>1, <2>2 DEF LastIs
  <1>4. CASE new # Append(acc, p)
    <2> DEFINE l == acc[Len(acc)]
               q == ModuleJoined(l, p)
               T == Other(doc)
    <2>1. acc # <<>> /\ l \in PyFlush(doc) /\ l.titles = {} /\ p.titles = {} /\ new = [acc EXCEPT ![Len(acc)] = q]
      BY <1>4
    <2>2. l.last < p.first /\ l.first <= l.last
      BY <2>1 DEF Follows
    <2>3. UnitsOf(l.text) = UnitsOf(acc[Len(acc)].text)
      OBVIOUS
    <2> HIDE DEF l
    <2>4. /\ l \in PieceSet /\ Firm(l.text) /\ Firm(p.text) /\ l.first \in Int /\ l.last \in Int
      BY <1>1, <2>1 DEF PyFlush, PieceSet
    <2>5. /\ q \in PieceSet /\ q.titles = {} /\ q.first = l.first /\ q.last = p.last
          /\ UnitsOf(q.text) = UnitsOf(l.text) \cup UnitsOf(p.text) /\ Firm(q.text)
      BY <1>2, <2>1, <2>4, JoinedTexts
    <2> HIDE DEF q, T
    <2>6. OfLines(doc, q.text, {n \in q.first .. q.last : n \in T})
      <3>1. OfLines(doc, l.text, {n \in l.first .. l.last : n \in T}) /\ OfLines(doc, p.text, {n \in p.first .. p.last : n \in T})
        BY <2>1 DEF PyFlush, PyPiece, T
      <3>2. CASE p.first <= p.last
        <4>1. \A n \in l.first .. l.last : n \in q.first .. q.last
          BY <1>2, <2>2, <2>4, <2>5, <3>2
        <4>2. \A n \in p.first .. p.last : n \in q.first .. q.last
          BY <1>2, <2>2, <2>4, <2>5
        <4>3. q.text \in Text
          BY <2>5 DEF PieceSet
        <4>4. QED
          BY <2>5, <3>1, <4>1, <4>2, <4>3 DEF OfLines
      <3>3. CASE ~(p.first <= p.last)
        <4>1. UnitsOf(p.text) # {}
          BY <2>4, FirmUnits
        <4>2. \A n : n \notin p.first .. p.last
          BY <1>2, <3>3
        <4>3. QED
          BY <3>1, <4>1, <4>2 DEF OfLines
      <3>4. QED
        BY <3>2, <3>3
    <2>7. q \in PyFlush(doc)
      <3>1. Flush(q.text)
        BY <2>5 DEF Firm, Flush
      <3>2. q \in PyPiece(doc)
        BY <2>5, <2>6 DEF PyPiece, T
      <3>3. QED
        BY <2>5, <3>1, <3>2 DEF PyFlush
    <2>8. UnitsOf(acc[Len(acc)].text) \subseteq UnitsOf(q.text) /\ UnitsOf(p.text) \subseteq UnitsOf(q.text)
      BY <2>3, <2>5
    <2>9. /\ new \in Seq(PyFlush(doc)) /\ Len(new) = Len(acc) /\ new[Len(acc)] = q /\ Len(acc) \in Nat \ {0}
          /\ TextUnits(acc) \subseteq TextUnits(new) /\ UnitsOf(q.text) \subseteq TextUnits(new)
      <3> DEFINE X == PyFlush(doc)
      <3>1. acc \in Seq(X) /\ q \in X
        BY <2>7
      <3> HIDE DEF X
      <3>2. new \in Seq(X) /\ TextUnits(acc) \subseteq TextUnits(new) /\ UnitsOf(q.text) \subseteq TextUnits(new)
        BY <2>1, <2>8, <3>1, LastReplaced
      <3>3. Len(acc) \in Nat \ {0} /\ Len(new) = Len(acc) /\ new[Len(acc)] = q
        BY <2>1, <3>1
      <3>4. QED
        BY <3>2, <3>3 DEF X
    <2>10. new # <<>> /\ new[Len(new)] = q
      BY <2>9
    <2>11. LastIs(new, p)
      BY <1>2, <2>2, <2>4, <2>5, <2>10 DEF LastIs
    <2>12. QED
      BY <2>8, <2>9, <2>11
  <1>5. QED
    BY <1>3, <1>4

\* The pieces of a module merged, in order.
LEMMA ModulesMerged ==
    ASSUME NEW doc, NEW bs \in Seq(PyFlush(doc)), NEW a, NEW b, Rising(bs, a, b), NEW ms,
           ms = Cut!MergeModules(bs)
    PROVE  ms \in Seq(PyFlush(doc)) /\ \A n : Covered(doc, bs, n) => Covered(doc, ms, n)
  <1> DEFINE X == PyFlush(doc)
             m == Len(bs)
  <1>1. X \subseteq PieceSet
    BY DEF PyFlush, PyPiece
  <1>2. m \in Nat /\ (\A i \in 1 .. m : bs[i] \in X) /\ bs \in Seq(X)
    OBVIOUS
  <1> HIDE DEF X
  <1>3. \A i \in 1 .. m : bs[i] \in PieceSet
    BY <1>1, <1>2
  <1>4. bs \in Seq(PieceSet)
    BY <1>2, <1>3, SeqOfPart
  <1>5. <<>> \in Seq(PieceSet) /\ \A x \in Seq(PieceSet), y \in PieceSet : ModuleStep(x, y) \in Seq(PieceSet)
    BY ModuleStepType
  <1>6. PICK h : /\ h[0] = <<>> /\ ms = h[m] /\ \A i \in 1 .. m : h[i] = ModuleStep(h[i - 1], bs[i])
    <2> DEFINE Acc == Seq(PieceSet)
    <2>1. <<>> \in Acc /\ \A x \in Acc, y \in PieceSet : ModuleStep(x, y) \in Acc
      BY <1>5
    <2> HIDE DEF Acc
    <2>2. QED
      BY <1>4, <2>1, ModulesFold
  <1> HIDE DEF m
  <1> DEFINE G == {i \in 0 .. m : h[i] \in Seq(X) /\ (i # 0 => LastIs(h[i], bs[i]))}
  <1>7. 0 \in G
    <2>1. 0 \in 0 .. m /\ h[0] \in Seq(X)
      BY <1>2, <1>6
    <2>2. QED
      BY <2>1
  <1>8. ASSUME NEW i \in 1 .. m, h[i - 1] \in Seq(X), i - 1 # 0 => LastIs(h[i - 1], bs[i - 1])
        PROVE  /\ h[i] \in Seq(X) /\ LastIs(h[i], bs[i])
               /\ TextUnits(h[i - 1]) \subseteq TextUnits(h[i]) /\ UnitsOf(bs[i].text) \subseteq TextUnits(h[i])
    <2> DEFINE acc == h[i - 1]
               p == bs[i]
               new == h[i]
    <2>1. acc \in Seq(X) /\ p \in X /\ new = ModuleStep(acc, p)
      BY <1>2, <1>6, <1>8
    <2>2. Follows(acc, p)
      <3>1. CASE i = 1
        <4>1. i - 1 = 0
          BY <3>1
        <4>2. QED
          BY <1>6, <4>1 DEF Follows
      <3>2. CASE i # 1
        <4>1. i - 1 \in 1 .. m /\ i - 1 < i /\ i - 1 # 0
          BY <1>2, <3>2
        <4>2. bs[i - 1].last < p.first /\ bs[i - 1].first <= bs[i - 1].last
          BY <4>1 DEF Rising, m
        <4>3. acc[Len(acc)].last = bs[i - 1].last /\ acc[Len(acc)].first <= bs[i - 1].first /\ acc # <<>>
          BY <1>8, <4>1 DEF LastIs
        <4>4. bs[i - 1].first \in Int /\ bs[i - 1].last \in Int /\ acc[Len(acc)] \in PieceSet
          <5>1. bs[i - 1] \in PieceSet
            BY <1>3, <4>1
          <5>2. acc[Len(acc)] \in X
            BY <2>1, <4>3
          <5>3. QED
            BY <1>1, <5>1, <5>2 DEF PieceSet
        <4>5. acc[Len(acc)].first \in Int
          BY <4>4 DEF PieceSet
        <4>6. QED
          BY <4>2, <4>3, <4>4, <4>5 DEF Follows
      <3>3. QED
        BY <3>1, <3>2
    <2> HIDE DEF acc, p, new
    <2>3. \/ new = Append(acc, p)
          \/ /\ acc # <<>> /\ acc[Len(acc)].titles = {} /\ p.titles = {}
             /\ new = [acc EXCEPT ![Len(acc)] = ModuleJoined(acc[Len(acc)], p)]
      BY <1>1, <2>1, ModuleCases
    <2>4. acc \in Seq(PyFlush(doc)) /\ p \in PyFlush(doc)
      BY <2>1 DEF X
    <2>5. /\ new \in Seq(PyFlush(doc)) /\ LastIs(new, p)
          /\ TextUnits(acc) \subseteq TextUnits(new) /\ UnitsOf(p.text) \subseteq TextUnits(new)
      BY <2>2, <2>3, <2>4, ModuleStepIs
    <2>6. QED
      BY <2>5 DEF X, acc, p, new
  <1>9. \A i \in 0 .. m : i \in G
    <2>1. ASSUME NEW i \in 1 .. m, i - 1 \in G PROVE i \in G
      BY <1>2, <1>8, <2>1
    <2> HIDE DEF G
    <2>2. QED
      BY <1>2, <1>7, <2>1, Steps
  <1>10. \A i \in 1 .. m : TextUnits(h[i - 1]) \subseteq TextUnits(h[i]) /\ UnitsOf(bs[i].text) \subseteq TextUnits(h[i])
    <2>1. \A i \in 1 .. m : i - 1 \in G
      BY <1>2, <1>9
    <2>2. QED
      BY <1>8, <2>1
  <1>11. m \in 0 .. m
    BY <1>2
  <1>12. \A n : Covered(doc, bs, n) => Covered(doc, h[m], n)
    BY <1>2, <1>10, FoldCovers DEF m
  <1>13. QED
    BY <1>6, <1>9, <1>11, <1>12 DEF X

\* A passage of a module is cited and filed as it should be.
LEMMA PyFine ==
    ASSUME NEW doc \in Docs, NEW p \in PyPiece(doc), UnitsOf(p.text) # {}
    PROVE  p \in Fine("python", doc)
  <1> DEFINE T == {n \in p.first .. p.last : n \in Other(doc)}
  <1>1. /\ p \in PieceSet /\ p.text \in Text /\ OfLines(doc, p.text, T)
        /\ \A h \in p.titles : p.first = h /\ \A k \in h + 1 .. p.last : doc[k].kind # Cut!Opening
    BY DEF PyPiece, PieceSet
  <1>2. Cut!LinesOf(p) \subseteq T
    BY <1>1, LinesAre
  <1>3. PICK u : u \in UnitsOf(p.text)
    OBVIOUS
  <1>4. PICK n \in T : u \in LineUnits(doc, n)
    BY <1>1, <1>3 DEF OfLines
  <1>5. n \in Cut!LinesOf(p) /\ n \in p.first .. p.last
    BY <1>1, <1>3, <1>4, LinesAre
  <1>6. Cut!RightlyTitled("python", doc, p)
    <2>1. ASSUME NEW h \in p.titles
          PROVE  \E k \in Cut!LinesOf(p) : k >= h /\ \A j \in h + 1 .. k : doc[j].kind # Cut!Opening
      <3>1. p.first = h /\ \A k \in h + 1 .. p.last : doc[k].kind # Cut!Opening
        BY <1>1
      <3>2. h \in Int /\ p.last \in Int
        BY <1>1, <3>1 DEF PieceSet
      <3>3. n \in Int /\ n >= h /\ n <= p.last
        BY <1>5, <3>1, <3>2
      <3>4. \A j \in h + 1 .. n : j \in h + 1 .. p.last
        BY <3>2, <3>3
      <3>5. QED
        BY <1>5, <3>1, <3>3, <3>4
    <2>2. QED
      BY <1>1, <2>1, Titled
  <1>7. Cut!LinesOf(p) \subseteq p.first .. p.last
    BY <1>2
  <1>8. Cut!RightlyCited("python", doc, p)
    BY <1>7 DEF Cut!RightlyCited, Cut!Cited
  <1>9. QED
    BY <1>1, <1>6, <1>8 DEF Fine

\* What is left of a module once its pieces are cut.
PythonCut(doc) == Cut!NonBlank(Cut!SplitLong(Cut!MergeModules(Cut!PythonBlocks(doc)), {"blank", "line"}))
PythonAll(doc) == Cut!Strip(Cut!TextOf(doc, Cut!From(1, Len(doc))))

\* The passages of a module hold every line but its imports and the like.
LEMMA PythonCutIs ==
    ASSUME Measures, NEW doc, FileDoc(doc), NEW ps, ps = PythonCut(doc)
    PROVE  /\ ps \in Seq(PyPiece(doc)) /\ \A k \in 1 .. Len(ps) : UnitsOf(ps[k].text) # {}
           /\ \A n \in 1 .. Len(doc) : n \in Cut!Statements(doc) \/ Covered(doc, ps, n)
  <1> DEFINE bs == Cut!PythonBlocks(doc)
             ms == Cut!MergeModules(bs)
             qs == Cut!SplitLong(ms, {"blank", "line"})
             F == PyFlush(doc)
             X == PyPiece(doc)
  <1>1. bs \in Seq(F) /\ Rising(bs, 1, Len(doc)) /\ \A n \in 1 .. Len(doc) : n \in Cut!Statements(doc) \/ Covered(doc, bs, n)
    BY PythonBlocksAre
  <1> HIDE DEF bs
  <1>2. ms \in Seq(F) /\ \A n : Covered(doc, bs, n) => Covered(doc, ms, n)
    BY <1>1, ModulesMerged
  <1>3. ps = Cut!NonBlank(qs)
    BY DEF PythonCut, bs
  <1> HIDE DEF ms
  <1>4. X \subseteq PieceSet
    BY DEF PyPiece
  <1>5. \A i \in 1 .. Len(ms) : ms[i] \in X /\ Flush(ms[i].text) /\ ms[i] \in PieceSet
    <2>1. \A i \in 1 .. Len(ms) : ms[i] \in F
      BY <1>2
    <2>2. QED
      BY <1>4, <2>1 DEF PyFlush
  <1> HIDE DEF F, X
  <1>6. ms \in Seq(PieceSet)
    BY <1>2, <1>5, SeqOfPart
  <1>7. qs \in Seq(PieceSet) /\ \A k \in 1 .. Len(qs) : \E i \in 1 .. Len(ms) : PieceOf(qs[k], ms[i])
    BY <1>5, <1>6, SplitIs
  <1>8. \A n : Covered(doc, ms, n) => Covered(doc, qs, n)
    BY <1>5, <1>6, SplitCovers
  <1> HIDE DEF qs
  <1>9. \A k \in 1 .. Len(qs) : qs[k] \in X
    <2>1. ASSUME NEW k \in 1 .. Len(qs) PROVE qs[k] \in X
      <3>1. PICK i \in 1 .. Len(ms) : PieceOf(qs[k], ms[i])
        BY <1>7
      <3>2. ms[i] \in PyPiece(doc)
        BY <1>5 DEF X
      <3>3. QED
        BY <3>1, <3>2 DEF PyPiece, PieceOf, OfLines, PieceSet, X
    <2>2. QED
      BY <2>1
  <1>10. qs \in Seq(X)
    BY <1>7, <1>9, SeqOfPart
  <1>11. /\ ps \in Seq(X) /\ \A k \in 1 .. Len(ps) : UnitsOf(ps[k].text) # {}
         /\ \A n : Covered(doc, qs, n) => Covered(doc, ps, n)
    BY <1>3, <1>4, <1>10, NonBlankIs
  <1>12. QED
    BY <1>1, <1>2, <1>8, <1>11 DEF X

\* Where there is nothing but statements, nothing is left.
LEMMA OnlyStatements ==
    ASSUME NEW doc, FileDoc(doc), NEW p \in PyPiece(doc), UnitsOf(p.text) # {}
    PROVE  \E m \in 1 .. Len(doc) : doc[m].kind \in {Cut!Opening, "note"}
  <1>1. PICK u : u \in UnitsOf(p.text)
    OBVIOUS
  <1>2. doc \in Docs /\ Len(doc) \in Nat /\ Cut!Defs(doc) = Heads(doc)
    BY SectionsAre DEF FileDoc
  <1>3. PICK n : n \in 1 .. Len(doc) /\ n \notin Cut!Statements(doc) /\ u \in LineUnits(doc, n)
    BY <1>1 DEF PyPiece, OfLines, Other
  <1>4. CASE Heads(doc) # {}
    BY <1>4 DEF Heads
  <1>5. CASE Heads(doc) = {}
    <2>1. doc[n].len # 0
      BY <1>2, <1>3 DEF LineUnits
    <2>2. n \notin Cut!InBody(doc) /\ n \in DOMAIN doc
      BY <1>2, <1>3, <1>5 DEF Cut!InBody, Docs
    <2>3. doc[n].kind \notin {"text", Cut!Closing}
      BY <1>3, <2>2 DEF Cut!Statements
    <2>4. QED
      BY <1>3, <2>1, <2>3, LineKind
  <1>6. QED
    BY <1>4, <1>5

\* Python: functions and what is between them.
LEMMA PythonWhole ==
    ASSUME Measures, NEW doc, FileDoc(doc)
    PROVE  Whole("python", doc, Cut!Python(doc))
  <1> DEFINE N == Len(doc)
             ps == PythonCut(doc)
             t == PythonAll(doc)
             p == Cut!Passage(t, {}, 1, N)
             F == Fine("python", doc)
             T == Cut!Statements(doc)
  <1>1. doc \in Docs /\ N \in Nat \ {0}
    BY DEF FileDoc
  <1>2. Cut!Python(doc) = IF ps = <<>> /\ t # <<>> THEN <<p>> ELSE ps
    BY Zenon DEF Cut!Python, PythonCut, PythonAll
  <1>3. /\ ps \in Seq(PyPiece(doc)) /\ (\A k \in 1 .. Len(ps) : UnitsOf(ps[k].text) # {})
        /\ \A n \in 1 .. N : n \in T \/ Covered(doc, ps, n)
    BY PythonCutIs
  <1> HIDE DEF ps, T
  <1>4. 1 <= N + 1 /\ 1 \in Nat \ {0} /\ N <= N /\ N \in Nat
    BY <1>1
  <1>5. /\ t \in Text /\ (t = <<>> <=> UnitsOf(t) = {})
        /\ OfLines(doc, t, 1 .. N) /\ \A n \in 1 .. N : LineUnits(doc, n) \subseteq UnitsOf(t)
    BY <1>1, <1>4, StrippedFrom DEF PythonAll
  <1> HIDE DEF t, F
  <1>6. \A k \in 1 .. Len(ps) : ps[k] \in F
    <2>1. \A k \in 1 .. Len(ps) : ps[k] \in PyPiece(doc)
      BY <1>3
    <2>2. QED
      BY <1>1, <1>3, <2>1, PyFine DEF F
  <1>7. ps \in Seq(F)
    BY <1>3, <1>6, SeqOfPart
  <1>8. CASE ps # <<>>
    <2>1. Cut!Python(doc) = ps
      BY <1>2, <1>8
    <2>2. PICK m \in 1 .. N : doc[m].kind \in {Cut!Opening, "note"}
      <3>1. 1 \in 1 .. Len(ps)
        BY <1>3, <1>8
      <3>2. ps[1] \in PyPiece(doc) /\ UnitsOf(ps[1].text) # {}
        BY <1>3, <3>1
      <3>3. QED
        BY <3>2, OnlyStatements
    <2>3. \A n \in 1 .. N : n \in T => Cut!LeftOut("python", doc, n)
      <3>1. m \in DOMAIN doc
        BY <1>1, <2>2 DEF Docs
      <3>2. QED
        BY <2>2, <3>1 DEF Cut!LeftOut, T
    <2>4. \A n \in 1 .. N : Present(doc, ps, n) \/ Cut!LeftOut("python", doc, n)
      BY <1>3, <2>3 DEF Present
    <2>5. QED
      BY <1>1, <1>7, <2>1, <2>4, FineWhole DEF F, N
  <1>9. CASE ps = <<>> /\ t # <<>>
    <2>1. Cut!Python(doc) = <<p>>
      BY <1>2, <1>9
    <2>2. p.text = t /\ p.titles = {} /\ p.first = 1 /\ p.last = N /\ p \in PieceSet
      BY <1>4, <1>5 DEF Cut!Passage, PieceSet
    <2> HIDE DEF p
    <2>3. Cut!LinesOf(p) \subseteq p.first .. p.last
      BY <1>5, <2>2, LinesAre
    <2>4. p \in F
      <3>1. Cut!RightlyCited("python", doc, p)
        BY <2>3 DEF Cut!RightlyCited, Cut!Cited
      <3>2. Cut!RightlyTitled("python", doc, p)
        BY <2>2 DEF Cut!RightlyTitled
      <3>3. QED
        BY <2>2, <3>1, <3>2 DEF Fine, F
    <2> DEFINE qs == <<p>>
    <2>5. qs \in Seq(F) /\ Among(p, qs)
      BY <2>4, AmongOne
    <2> HIDE DEF qs
    <2>6. \A n \in 1 .. N : Present(doc, qs, n)
      BY <1>5, <2>2, <2>5, CoveredByOne DEF Present
    <2>7. Whole("python", doc, qs)
      BY <1>1, <2>5, <2>6, FineWhole DEF F, N
    <2>8. QED
      BY <2>1, <2>7 DEF qs
  <1>10. CASE ps = <<>> /\ t = <<>>
    <2>1. Cut!Python(doc) = ps
      BY <1>2, <1>10
    <2>2. \A n \in 1 .. N : LineUnits(doc, n) = {}
      BY <1>5, <1>10
    <2>3. \A n \in 1 .. N : Present(doc, ps, n)
      BY <2>2 DEF Present, Covered
    <2>4. QED
      BY <1>1, <1>7, <2>1, <2>3, FineWhole DEF F, N
  <1>11. QED
    BY <1>8, <1>9, <1>10

-----------------------------------------------------------------------------
(* Lines of text. *)

\* A text glued to others.
LEMMA GlueAppend ==
    ASSUME NEW ts \in Seq(Text), NEW x \in Text
    PROVE  /\ Append(ts, x) \in Seq(Text) /\ Cut!Glue(Append(ts, x)) \in Text
           /\ UnitsIn(Append(ts, x)) = UnitsIn(ts) \cup UnitsOf(x)
           /\ ts = <<>> => Len(Cut!Glue(Append(ts, x))) = Len(x)
           /\ ts # <<>> => Len(Cut!Glue(Append(ts, x))) = Len(Cut!Glue(ts)) + 1 + Len(x)
  <1> DEFINE us == Append(ts, x)
             m == Len(ts)
  <1>1. /\ m \in Nat /\ us \in Seq(Text) /\ us # <<>> /\ Len(us) = m + 1 /\ us[m + 1] = x
        /\ \A i \in 1 .. m : us[i] = ts[i]
    OBVIOUS
  <1>2. Cut!Glue(us) \in Text /\ Cut!Glue(ts) \in Text
    BY <1>1, GlueUnits
  <1>3. UnitsIn(us) = UnitsIn(ts) \cup UnitsOf(x)
    BY UnitsInIs
  <1> HIDE DEF us, m
  <1>4. PICK g : /\ g[0] = us[1] /\ g[Len(us) - 1] = Cut!Glue(us)
                 /\ \A i \in 1 .. Len(us) - 1 : g[i] = g[i - 1] \o <<Cut!White>> \o us[i + 1]
    BY <1>1, GlueFold
  <1>5. ASSUME m = 0 PROVE Len(Cut!Glue(us)) = Len(x)
    <2>1. Len(us) - 1 = 0 /\ us[1] = x
      BY <1>1, <1>5
    <2>2. QED
      BY <1>4, <2>1
  <1>6. ASSUME m # 0 PROVE Len(Cut!Glue(us)) = Len(Cut!Glue(ts)) + 1 + Len(x)
    <2>1. ts # <<>>
      BY <1>6 DEF m
    <2>2. PICK h : /\ h[0] = ts[1] /\ h[m - 1] = Cut!Glue(ts)
                   /\ \A i \in 1 .. m - 1 : h[i] = h[i - 1] \o <<Cut!White>> \o ts[i + 1]
      BY <2>1, GlueFold DEF m
    <2> DEFINE G == {i \in 0 .. m - 1 : g[i] = h[i]}
    <2>3. m - 1 \in Nat /\ 0 \in 0 .. m - 1 /\ m - 1 \in 0 .. m - 1 /\ 1 \in 1 .. m /\ Len(us) - 1 = m /\ m \in 1 .. m
      BY <1>1, <1>6
    <2>4. 0 \in G
      <3>1. us[1] = ts[1]
        BY <1>1, <2>3
      <3>2. QED
        BY <1>4, <2>2, <2>3, <3>1
    <2>5. ASSUME NEW i \in 1 .. m - 1, i - 1 \in G PROVE i \in G
      <3>1. i \in 1 .. Len(us) - 1 /\ i + 1 \in 1 .. m /\ i \in 0 .. m - 1
        BY <1>1, <2>3
      <3>2. us[i + 1] = ts[i + 1] /\ g[i - 1] = h[i - 1]
        BY <1>1, <2>5, <3>1
      <3>3. g[i] = h[i]
        BY <1>4, <2>2, <3>1, <3>2
      <3>4. QED
        BY <3>1, <3>3
    <2>6. g[m - 1] = h[m - 1]
      <3> HIDE DEF G
      <3>1. m - 1 \in G
        BY <2>3, <2>4, <2>5, Steps
      <3>2. QED
        BY <3>1 DEF G
    <2> DEFINE a == Cut!Glue(ts)
               b == a \o <<Cut!White>>
    <2>7. Cut!Glue(us) = b \o x
      <3>1. g[m] = g[m - 1] \o <<Cut!White>> \o us[m + 1]
        BY <1>4, <2>3
      <3>2. QED
        BY <1>1, <1>4, <2>2, <2>3, <2>6, <3>1
    <2>8. a \in Text /\ <<Cut!White>> \in Text /\ Len(<<Cut!White>>) = 1
      BY <1>2, UnitsWhite
    <2> HIDE DEF a
    <2>9. b \in Text /\ Len(b) = Len(a) + 1
      BY <2>8, UnitsConcat
    <2> HIDE DEF b
    <2>10. Len(b \o x) = Len(b) + Len(x)
      BY <2>9, UnitsConcat
    <2>11. QED
      BY <2>7, <2>9, <2>10 DEF a
  <1>7. ts = <<>> <=> m = 0
    BY DEF m
  <1>8. QED
    BY <1>1, <1>2, <1>3, <1>5, <1>6, <1>7 DEF us

\* Whole pieces of a text, of the same length.
EvenPiece(t, max, k) == SubSeq(t, (k - 1) * max + 1, k * max)

\* Cut into pieces of the same length, a text is held by them and the rest.
LEMMA EvenPieces ==
    ASSUME NEW t \in Text, NEW max \in Nat \ {0}, NEW c \in Nat, c * max <= Len(t)
    PROVE  /\ SubSeq(t, c * max + 1, Len(t)) \in Text /\ UnitsOf(SubSeq(t, c * max + 1, Len(t))) \subseteq UnitsOf(t)
           /\ \A k \in 1 .. c : EvenPiece(t, max, k) \in Text /\ UnitsOf(EvenPiece(t, max, k)) \subseteq UnitsOf(t)
           /\ \A u \in UnitsOf(t) : \/ u \in UnitsOf(SubSeq(t, c * max + 1, Len(t)))
                                    \/ \E k \in 1 .. c : u \in UnitsOf(EvenPiece(t, max, k))
  <1> DEFINE N == Len(t)
             at(k) == k * max
             rise(k) == UnitsOf(SubSeq(t, 1, at(k)))
             piece(k) == EvenPiece(t, max, k)
             rest == SubSeq(t, at(c) + 1, N)
  <1>1. N \in Nat
    BY UnitsAre
  <1> HIDE DEF N
  <1>2. at(0) = 0 /\ (\A k \in 0 .. c : at(k) \in 0 .. N) /\ \A k \in 1 .. c : at(k - 1) <= at(k) /\ k - 1 \in 0 .. c
    <2>1. \A k \in 0 .. c : k * max \in Nat /\ k * max <= c * max
      <3>1. ASSUME NEW k \in 0 .. c PROVE k * max \in Nat /\ k * max <= c * max
        <4>1. k \in Nat /\ max \in Nat /\ c - k \in Nat
          OBVIOUS
        <4>2. (c - k) * max \in Nat /\ k * max \in Nat /\ c * max \in Nat
          BY <4>1
        <4>3. c * max = (c - k) * max + k * max
          BY <4>1
        <4>4. QED
          BY <4>2, <4>3
      <3>2. QED
        BY <3>1
    <2>2. \A k \in 0 .. c : at(k) \in 0 .. N
      BY <1>1, <2>1 DEF N
    <2>3. \A k \in 1 .. c : at(k - 1) <= at(k) /\ k - 1 \in 0 .. c
      OBVIOUS
    <2>4. QED
      BY <2>2, <2>3
  <1>3. \A k \in 1 .. c : piece(k) = SubSeq(t, at(k - 1) + 1, at(k))
    BY DEF EvenPiece
  <1> HIDE DEF at, piece
  <1>4. ASSUME NEW k \in 1 .. c
        PROVE  piece(k) \in Text /\ rise(k) = rise(k - 1) \cup UnitsOf(piece(k))
    <2> DEFINE a == at(k - 1)
               b == at(k)
    <2>1. a \in 0 .. N /\ b \in 0 .. N /\ a <= b /\ piece(k) = SubSeq(t, a + 1, b)
      BY <1>2, <1>3
    <2> HIDE DEF a, b
    <2>2. /\ SubSeq(t, a + 1, b) \in Text
          /\ UnitsOf(SubSeq(t, 1, b)) = UnitsOf(SubSeq(t, 1, a)) \cup UnitsOf(SubSeq(t, a + 1, b))
      BY <2>1, UnitsMiddle DEF N
    <2>3. QED
      BY <2>1, <2>2 DEF a, b
  <1>5. rise(0) = {}
    <2>1. rise(0) = UnitsOf(SubSeq(t, 1, 0))
      BY <1>2
    <2>2. 0 \in 0 .. Len(t)
      BY <1>1 DEF N
    <2>3. QED
      BY <2>1, <2>2, UnitsMiddle
  <1>6. rest \in Text /\ rise(c) \cup UnitsOf(rest) = UnitsOf(t)
    <2>1. at(c) \in 0 .. Len(t)
      BY <1>2 DEF N
    <2>2. QED
      BY <2>1, UnitsSplit DEF N
  <1> HIDE DEF rise, rest
  <1> DEFINE G == {k \in 0 .. c : \A u \in rise(k) : \E j \in 1 .. c : j <= k /\ u \in UnitsOf(piece(j))}
  <1>7. 0 \in G
    BY <1>5
  <1>8. ASSUME NEW k \in 1 .. c, k - 1 \in G PROVE k \in G
    BY <1>4, <1>8
  <1>9. \A k \in 0 .. c : k \in G
    <2> HIDE DEF G
    <2>1. QED
      BY <1>7, <1>8, Steps
  <1>10. \A u \in rise(c) : \E j \in 1 .. c : u \in UnitsOf(piece(j))
    BY <1>9
  <1>11. ASSUME NEW k \in 1 .. c PROVE UnitsOf(piece(k)) \subseteq UnitsOf(t)
    <2> DEFINE a == at(k - 1) + 1
               b == at(k)
    <2>1. a \in Nat \ {0} /\ b \in Nat /\ b <= Len(t) /\ piece(k) = SubSeq(t, a, b) /\ \A i \in a .. b : i \in 1 .. Len(t)
      BY <1>1, <1>2, <1>3 DEF N
    <2> HIDE DEF a, b
    <2>2. \A u : u \in UnitsOf(SubSeq(t, a, b)) <=> u # Cut!White /\ \E i \in a .. b : t[i] = u
      BY <2>1, UnitsSub
    <2>3. \A u : u # Cut!White /\ (\E i \in 1 .. Len(t) : t[i] = u) => u \in UnitsOf(t)
      BY UnitsAre
    <2>4. QED
      BY <2>1, <2>2, <2>3
  <1>12. QED
    BY <1>4, <1>6, <1>10, <1>11 DEF piece, rest, at, N

-----------------------------------------------------------------------------
ChunkAcc == [out : Seq(PieceSet), buffer : Seq(Text), len : Nat, start : Nat]
ChunkStart == [out |-> <<>>, buffer |-> <<>>, len |-> 0, start |-> 1]
ChunkFull(doc, acc, n) == acc.buffer # <<>> /\ acc.len + doc[n].len + 1 > TARGET_CHUNK_CHARS
ChunkStep(doc, acc, n) ==
    LET a == IF ChunkFull(doc, acc, n) THEN Cut!Flushed(acc, n) ELSE acc
    IN  [a EXCEPT !.buffer = Append(@, Cut!LineText(doc, n)), !.len = @ + doc[n].len + 1]
ChunkEnd(doc, acc) ==
    LET rest == Cut!Glue(acc.buffer)
    IN  IF acc.out # <<>> /\ Len(rest) < MIN_CHUNK_CHARS
        THEN [acc.out EXCEPT ![Len(acc.out)].text = Cut!Glue(<<@, rest>>), ![Len(acc.out)].last = Len(doc)]
        ELSE Append(acc.out, Cut!Passage(rest, {}, acc.start, Len(doc)))

\* What the fold over the lines of a text goes through.
LEMMA ChunkFold ==
    ASSUME NEW doc, NEW X, NEW Acc, Cut!From(1, Len(doc)) \in Seq(X), ChunkStart \in Acc,
           \A a \in Acc, b \in X : ChunkStep(doc, a, b) \in Acc
    PROVE  \E h : /\ h[0] = ChunkStart /\ Cut!ChunkLines(doc) = Cut!NonBlank(ChunkEnd(doc, h[Len(Cut!From(1, Len(doc)))]))
                  /\ \A i \in 0 .. Len(Cut!From(1, Len(doc))) : h[i] \in Acc
                  /\ \A i \in 1 .. Len(Cut!From(1, Len(doc))) : h[i] = ChunkStep(doc, h[i - 1], Cut!From(1, Len(doc))[i])
  <1> DEFINE s == Cut!From(1, Len(doc))
             n == Len(s)
             f == [a \in Acc |-> [i \in 1 .. n |-> ChunkStep(doc, a, s[i])]]
             Run(it) == it = [x \in SUBSET (1 .. n) |->
                                IF x = {} THEN ChunkStart
                                ELSE ChunkStep(doc, it[x \ {Cut!Max(x)}], s[Cut!Max(x)])]
             run == CHOOSE it : Run(it)
  <1>1. n \in Nat /\ DOMAIN s = 1 .. n /\ \A i \in 1 .. n : s[i] \in X
    OBVIOUS
  <1> HIDE DEF n, s
  <1>2. \A a \in Acc : \A i \in 1 .. n : ChunkStep(doc, a, s[i]) \in Acc
    BY <1>1
  <1>3. f \in [Acc -> [1 .. n -> Acc]]
    BY <1>2
  <1>4. PICK it : Folds(it, n, Acc, ChunkStart, f)
    <2> HIDE DEF f
    <2>1. QED
      BY <1>1, <1>3, FoldExists
  <1>5. Run(it)
    <2>1. ASSUME NEW x \in SUBSET (1 .. n), x # {}
          PROVE  f[it[x \ {Cut!Max(x)}]][Cut!Max(x)] = ChunkStep(doc, it[x \ {Cut!Max(x)}], s[Cut!Max(x)])
      <3>1. Cut!Max(x) \in 1 .. n /\ it[x \ {Cut!Max(x)}] \in Acc
        BY <1>1, <1>4, <2>1, TopOf DEF Folds
      <3>2. QED
        BY <3>1
    <2>2. QED
      BY <1>4, <2>1 DEF Folds
  <1>6. Cut!ChunkLines(doc) = Cut!NonBlank(ChunkEnd(doc, run[1 .. n]))
    <2>1. Cut!FoldLeft(LAMBDA a, b : ChunkStep(doc, a, b), ChunkStart, s) = run[1 .. n]
      BY <1>1, Zenon DEF Cut!FoldLeft, Cut!MapThenFoldSet
    <2>2. Cut!ChunkLines(doc) = Cut!NonBlank(ChunkEnd(doc, Cut!FoldLeft(LAMBDA a, b : ChunkStep(doc, a, b), ChunkStart, s)))
      BY Zenon DEF Cut!ChunkLines, ChunkStep, ChunkEnd, ChunkStart, ChunkFull, s
    <2>3. QED
      BY <2>1, <2>2
  <1>7. Run(run)
    BY <1>5
  <1>8. \A x \in SUBSET (1 .. n) :
            run[x] = IF x = {} THEN ChunkStart ELSE ChunkStep(doc, run[x \ {Cut!Max(x)}], s[Cut!Max(x)])
    <2> HIDE DEF run
    <2>1. QED
      BY <1>7
  <1> HIDE DEF run, f, Run
  <1>9. ASSUME NEW i \in 1 .. n PROVE run[1 .. i] = ChunkStep(doc, run[1 .. i - 1], s[i])
    <2>1. /\ 1 .. i \in SUBSET (1 .. n) /\ 1 .. i # {}
          /\ Cut!Max(1 .. i) = i /\ (1 .. i) \ {i} = 1 .. i - 1
      BY <1>1, Initials
    <2>2. run[1 .. i] = ChunkStep(doc, run[(1 .. i) \ {Cut!Max(1 .. i)}], s[Cut!Max(1 .. i)])
      BY <1>8, <2>1
    <2>3. QED
      BY <2>1, <2>2
  <1>10. run[{}] = ChunkStart
    BY <1>8
  <1> DEFINE h == [i \in 0 .. n |-> run[1 .. i]]
  <1>11. /\ h[0] = ChunkStart /\ h[n] = run[1 .. n]
        /\ \A i \in 1 .. n : h[i] = run[1 .. i] /\ h[i - 1] = run[1 .. i - 1]
    BY <1>1, <1>10, Initials
  <1> HIDE DEF h
  <1>12. \A i \in 1 .. n : h[i] = ChunkStep(doc, h[i - 1], s[i])
    BY <1>9, <1>11
  <1>13. \A i \in 0 .. n : h[i] \in Acc
    <2> DEFINE G == {i \in 0 .. n : h[i] \in Acc}
    <2>1. 0 \in G /\ \A i \in 1 .. n : i - 1 \in G => i \in G
      BY <1>2, <1>1, <1>11, <1>12
    <2> HIDE DEF G
    <2>2. \A i \in 0 .. n : i \in G
      BY <1>1, <2>1, Steps
    <2>3. QED
      BY <2>2 DEF G
  <1>14. QED
    BY <1>6, <1>11, <1>12, <1>13 DEF n, s

\* As many passages as fit whole in n.
LEMMA WholeParts ==
    ASSUME NEW n \in Nat, NEW d \in Nat \ {0}, NEW c, c = IF n > d THEN (n - 1) \div d ELSE 0
    PROVE  c \in Nat /\ c * d <= n /\ (n <= d => c = 0)
  <1>1. CASE n > d
    <2>1. n - 1 \in Nat /\ c = (n - 1) \div d
      BY <1>1
    <2>2. c \in Nat /\ c * d <= n - 1
      BY <2>1
    <2>3. QED
      BY <1>1, <2>1, <2>2
  <1>2. CASE ~(n > d)
    <2>1. c = 0
      BY <1>2
    <2>2. QED
      BY <2>1
  <1>3. QED
    BY <1>1, <1>2

\* What was waiting is put out, or waits still.
Emptied(acc, n, r, t) ==
    /\ r \in ChunkAcc /\ r.start = n /\ (r.buffer = <<>> => r.len = 0)
    /\ Len(t) <= MAX_CHUNK_CHARS => r.buffer = <<>>
    /\ UnitsIn(r.buffer) \subseteq UnitsOf(t)
    /\ TextUnits(acc.out) \subseteq TextUnits(r.out)
    /\ \A u \in UnitsOf(t) : u \in TextUnits(r.out) \/ u \in UnitsIn(r.buffer)
    /\ \A p : Among(p, r.out) =>
          \/ Among(p, acc.out)
          \/ p \in PieceSet /\ p.first = acc.start /\ p.last = n - 1 /\ UnitsOf(p.text) \subseteq UnitsOf(t)
\* The lines put off become passages, the last of which may be short.
LEMMA FlushedIs ==
    ASSUME Measures, NEW acc \in ChunkAcc, NEW n \in Nat \ {0}, NEW r, r = Cut!Flushed(acc, n),
           NEW t, t = Cut!Glue(acc.buffer)
    PROVE  Emptied(acc, n, r, t)
  <1> DEFINE max == MAX_CHUNK_CHARS
             c == IF Len(t) > max THEN (Len(t) - 1) \div max ELSE 0
             rest == SubSeq(t, c * max + 1, Len(t))
             P(x) == Cut!Passage(x, {}, acc.start, n - 1)
             more == IF c = 0 THEN <<P(t)>> ELSE [k \in 1 .. c |-> P(EvenPiece(t, max, k))]
             buffer == IF c = 0 \/ Cut!Blank(rest) THEN <<>> ELSE <<rest>>
             len == IF c = 0 \/ Cut!Blank(rest) THEN 0 ELSE Len(rest)
  <1>1. /\ acc.out \in Seq(PieceSet) /\ acc.buffer \in Seq(Text) /\ acc.start \in Nat /\ acc.start \in Int /\ n - 1 \in Int
        /\ max \in Nat \ {0}
    BY DEF ChunkAcc, Measures
  <1>2. t \in Text /\ Len(t) \in Nat
    <2>1. t \in Text
      BY <1>1, GlueUnits
    <2>2. QED
      BY <2>1, UnitsAre
  <1>3. r = [out |-> acc.out \o more, buffer |-> buffer, len |-> len, start |-> n]
    <2>1. CASE c = 0
      <3>1. r = [out |-> Append(acc.out, P(t)), buffer |-> <<>>, len |-> 0, start |-> n]
        BY <2>1 DEF Cut!Flushed
      <3>2. P(t) \in PieceSet
        BY <1>1, <1>2 DEF Cut!Passage, PieceSet
      <3> HIDE DEF P
      <3>3. Append(acc.out, P(t)) = acc.out \o <<P(t)>>
        BY <1>1, <3>2, SMTT(20)
      <3>4. QED
        BY <2>1, <3>1, <3>3
    <2>2. CASE c # 0
      BY <2>2, Zenon DEF Cut!Flushed, EvenPiece
    <2>3. QED
      BY <2>1, <2>2
  <1>4. c \in Nat /\ c * max <= Len(t) /\ (Len(t) <= max => c = 0)
    <2> DEFINE N == Len(t)
    <2>1. N \in Nat
      BY <1>2
    <2> HIDE DEF N
    <2>2. QED
      BY <1>1, <2>1, WholeParts DEF N
  <1> HIDE DEF max, c
  <1>5. /\ rest \in Text /\ UnitsOf(rest) \subseteq UnitsOf(t)
        /\ \A k \in 1 .. c : EvenPiece(t, max, k) \in Text /\ UnitsOf(EvenPiece(t, max, k)) \subseteq UnitsOf(t)
        /\ \A u \in UnitsOf(t) : u \in UnitsOf(rest) \/ \E k \in 1 .. c : u \in UnitsOf(EvenPiece(t, max, k))
    BY <1>1, <1>2, <1>4, EvenPieces
  <1>6. Cut!Blank(rest) <=> UnitsOf(rest) = {}
    BY <1>5, UnitsStrip
  <1>7. Len(rest) \in Nat
    BY <1>5, UnitsAre
  <1> HIDE DEF rest
  <1>8. \A x \in Text : P(x) \in PieceSet /\ P(x).text = x /\ P(x).first = acc.start /\ P(x).last = n - 1
    BY <1>1 DEF Cut!Passage, PieceSet
  <1> HIDE DEF P
  <1>9. /\ buffer \in Seq(Text) /\ len \in Nat /\ (buffer = <<>> => len = 0) /\ (c = 0 => buffer = <<>>)
        /\ UnitsIn(buffer) \subseteq UnitsOf(t) /\ (c # 0 => UnitsIn(buffer) = UnitsOf(rest))
    <2>1. CASE c = 0 \/ Cut!Blank(rest)
      <3>1. buffer = <<>> /\ len = 0
        BY <2>1
      <3> HIDE DEF buffer, len
      <3>2. UnitsIn(buffer) = {} /\ buffer \in Seq(Text) /\ len \in Nat
        BY <3>1, UnitsOne
      <3>3. c # 0 => UnitsOf(rest) = {}
        BY <1>6, <2>1
      <3>4. QED
        BY <3>1, <3>2, <3>3
    <2>2. CASE ~(c = 0 \/ Cut!Blank(rest))
      <3>1. buffer = <<rest>> /\ len = Len(rest) /\ buffer # <<>>
        BY <2>2
      <3>2. buffer \in Seq(Text) /\ UnitsIn(buffer) = UnitsOf(rest)
        BY <1>5, <3>1, UnitsOne
      <3>3. QED
        BY <1>5, <1>7, <2>2, <3>1, <3>2
    <2>3. QED
      BY <2>1, <2>2
  <1>10. /\ more \in Seq(PieceSet)
         /\ \A k \in 1 .. Len(more) : /\ more[k] \in PieceSet /\ more[k].first = acc.start /\ more[k].last = n - 1
                                      /\ UnitsOf(more[k].text) \subseteq UnitsOf(t)
         /\ \A u \in UnitsOf(t) : (\E k \in 1 .. Len(more) : u \in UnitsOf(more[k].text)) \/ (c # 0 /\ u \in UnitsOf(rest))
    <2>1. CASE c = 0
      <3>1. more = <<P(t)>> /\ P(t) \in PieceSet
        BY <1>2, <1>8, <2>1
      <3> HIDE DEF more
      <3>2. Len(more) = 1 /\ more[1] = P(t) /\ more \in Seq(PieceSet) /\ 1 \in 1 .. Len(more)
        BY <3>1
      <3>3. QED
        BY <1>2, <1>8, <3>2
    <2>2. CASE c # 0
      <3>1. more = [k \in 1 .. c |-> P(EvenPiece(t, max, k))]
        BY <2>2
      <3>2. \A k \in 1 .. c : P(EvenPiece(t, max, k)) \in PieceSet
        BY <1>5, <1>8
      <3> HIDE DEF more
      <3>3. more \in Seq(PieceSet) /\ Len(more) = c /\ \A k \in 1 .. c : more[k] = P(EvenPiece(t, max, k))
        BY <1>4, <3>1, <3>2
      <3>4. QED
        BY <1>5, <1>8, <2>2, <3>3
    <2>3. QED
      BY <2>1, <2>2
  <1> HIDE DEF more, buffer, len
  <1> DEFINE out == acc.out \o more
  <1>11. /\ out \in Seq(PieceSet)
         /\ \A k \in 1 .. Len(acc.out) : Among(acc.out[k], out)
         /\ \A k \in 1 .. Len(more) : Among(more[k], out)
         /\ \A k \in 1 .. Len(out) : Among(out[k], acc.out) \/ Among(out[k], more)
    BY <1>1, <1>10, AmongBoth
  <1> HIDE DEF out
  <1>12. r.out = out /\ r.buffer = buffer /\ r.len = len /\ r.start = n /\ r \in ChunkAcc
    <2>1. r = [out |-> out, buffer |-> buffer, len |-> len, start |-> n]
      BY <1>3 DEF out
    <2>2. QED
      BY <1>9, <1>11, <2>1 DEF ChunkAcc
  <1>13. TextUnits(acc.out) \subseteq TextUnits(out)
    BY <1>11 DEF TextUnits, Among
  <1>14. \A u \in UnitsOf(t) : u \in TextUnits(out) \/ u \in UnitsIn(buffer)
    <2>1. ASSUME NEW k \in 1 .. Len(more), NEW u \in UnitsOf(more[k].text)
                 PROVE u \in TextUnits(out)
      BY <1>11 DEF TextUnits, Among
    <2>2. QED
      BY <1>9, <1>10, <2>1
  <1>15. \A p : Among(p, out) =>
            \/ Among(p, acc.out)
            \/ p \in PieceSet /\ p.first = acc.start /\ p.last = n - 1 /\ UnitsOf(p.text) \subseteq UnitsOf(t)
    <2>1. ASSUME NEW p, Among(p, out), ~Among(p, acc.out)
          PROVE  p \in PieceSet /\ p.first = acc.start /\ p.last = n - 1 /\ UnitsOf(p.text) \subseteq UnitsOf(t)
      <3>1. PICK k \in 1 .. Len(out) : out[k] = p
        BY <2>1 DEF Among
      <3>2. Among(p, more)
        BY <1>11, <2>1, <3>1
      <3>3. PICK j \in 1 .. Len(more) : more[j] = p
        BY <3>2 DEF Among
      <3>4. QED
        BY <1>10, <3>3
    <2>2. QED
      BY <2>1
  <1>16. QED
    BY <1>4, <1>9, <1>12, <1>13, <1>14, <1>15 DEF max, Emptied

\* What lines of a document, in a row, hold.
SpanUnits(doc, a, b) == UNION {LineUnits(doc, n) : n \in a .. b}
\* Something of a line that is, or comes after, one longer than a passage.
Stray(doc, U) ==
    \E m, n \in 1 .. Len(doc) : m <= n /\ doc[m].len > MAX_CHUNK_CHARS /\ U \cap LineUnits(doc, n) # {}
\* Nothing but lines from such a one on.
Late(doc, U, k) == \E m \in 1 .. k : doc[m].len > MAX_CHUNK_CHARS /\ U \subseteq SpanUnits(doc, m, k)
\* A passage of the lines it points at, but after a line longer than a passage.
Chunk(doc, s, k) ==
    {p \in PieceSet : /\ p.first \in 1 .. s /\ p.last \in 0 .. k /\ UnitsOf(p.text) \subseteq SpanUnits(doc, 1, Len(doc))
                      /\ UnitsOf(p.text) \subseteq SpanUnits(doc, p.first, p.last) \/ Stray(doc, UnitsOf(p.text))}
Fitting(doc, acc, k) ==
    /\ UnitsIn(acc.buffer) \subseteq SpanUnits(doc, acc.start, k)
    /\ Len(Cut!Glue(acc.buffer)) <= MAX_CHUNK_CHARS
    /\ acc.buffer # <<>> => Len(Cut!Glue(acc.buffer)) + 1 <= acc.len
\* The first k lines are put out, or wait.
Chunked(doc, acc, k) ==
    /\ acc \in ChunkAcc /\ acc.start \in 1 .. k + 1
    /\ \A p : Among(p, acc.out) => p \in Chunk(doc, acc.start, k)
    /\ \A n \in 1 .. k : LineUnits(doc, n) \subseteq TextUnits(acc.out) \cup UnitsIn(acc.buffer)
    /\ Fitting(doc, acc, k) \/ Late(doc, UnitsIn(acc.buffer), k)

\* What lines in a row hold.
LEMMA SpanIs ==
    ASSUME NEW doc, NEW a \in Nat, NEW b \in Nat
    PROVE  /\ \A n \in a .. b : LineUnits(doc, n) \subseteq SpanUnits(doc, a, b)
           /\ \A c, d \in Nat : c <= a /\ b <= d => SpanUnits(doc, a, b) \subseteq SpanUnits(doc, c, d)
           /\ \A u \in SpanUnits(doc, a, b) : \E n \in a .. b : u \in LineUnits(doc, n)
  BY DEF SpanUnits

\* More lines hold no less.
LEMMA SpanMore ==
    ASSUME NEW doc, NEW a \in Nat, NEW b \in Nat, NEW c \in Nat, NEW d \in Nat, c <= a, b <= d
    PROVE  SpanUnits(doc, a, b) \subseteq SpanUnits(doc, c, d)
  BY SpanIs

\* Less of what comes late comes late.
LEMMA LateIs ==
    ASSUME NEW doc, NEW k \in 0 .. Len(doc), Len(doc) \in Nat, NEW U, Late(doc, U, k), NEW V,
           V \subseteq U
    PROVE  Late(doc, V, k) /\ (V = {} \/ Stray(doc, V)) /\ V \subseteq SpanUnits(doc, 1, Len(doc))
  <1>1. PICK m \in 1 .. k : doc[m].len > MAX_CHUNK_CHARS /\ U \subseteq SpanUnits(doc, m, k)
    BY DEF Late
  <1>2. m \in Nat /\ k \in Nat /\ 1 <= m /\ k <= Len(doc) /\ 1 \in Nat
    OBVIOUS
  <1>3. Late(doc, V, k)
    BY <1>1 DEF Late
  <1>4. ASSUME NEW u \in V PROVE Stray(doc, V)
    <2>1. PICK n \in m .. k : u \in LineUnits(doc, n)
      BY <1>1, <1>2, <1>4, SpanIs
    <2>2. m \in 1 .. Len(doc) /\ n \in 1 .. Len(doc) /\ m <= n
      BY <1>2, <2>1
    <2>3. QED
      BY <1>1, <1>4, <2>1, <2>2 DEF Stray
  <1>5. SpanUnits(doc, m, k) \subseteq SpanUnits(doc, 1, Len(doc))
    BY <1>2, SpanIs
  <1>6. QED
    BY <1>1, <1>3, <1>4, <1>5

\* A line joins what waits.
LEMMA LineWaits ==
    ASSUME Measures, NEW doc \in Docs, NEW k \in Nat, k + 1 <= Len(doc), NEW acc,
           Chunked(doc, acc, k),
           acc.buffer = <<>> \/ acc.len + doc[k + 1].len + 1 <= TARGET_CHUNK_CHARS \/ Late(doc, UnitsIn(acc.buffer), k)
    PROVE  Chunked(doc, [acc EXCEPT !.buffer = Append(@, Cut!LineText(doc, k + 1)), !.len = @ + doc[k + 1].len + 1], k + 1)
  <1> DEFINE t == Cut!LineText(doc, k + 1)
             buffer == Append(acc.buffer, t)
             j == k + 1
             l == doc[j].len
             g == Len(Cut!Glue(acc.buffer))
             U == UnitsIn(acc.buffer)
             new == [acc EXCEPT !.buffer = Append(@, Cut!LineText(doc, j)), !.len = @ + doc[j].len + 1]
  <1>1. Len(doc) \in Nat /\ j \in 1 .. Len(doc) /\ j \in Nat
    BY DEF Docs
  <1>2. /\ acc \in ChunkAcc /\ acc.out \in Seq(PieceSet) /\ acc.buffer \in Seq(Text) /\ acc.len \in Nat
        /\ acc.start \in Nat /\ acc.start \in 1 .. k + 1
    BY DEF Chunked, ChunkAcc
  <1>3. t \in Text /\ Len(t) = l /\ l \in Nat /\ UnitsOf(t) = LineUnits(doc, j)
    BY <1>1, LineIs
  <1> HIDE DEF t, l, j, g, U, new
  <1>4. /\ buffer \in Seq(Text) /\ UnitsIn(buffer) = U \cup LineUnits(doc, j) /\ buffer # <<>>
        /\ acc.buffer = <<>> => Len(Cut!Glue(buffer)) = l
        /\ acc.buffer # <<>> => Len(Cut!Glue(buffer)) = g + 1 + l
    <2> DEFINE b == acc.buffer
    <2>1. b \in Seq(Text)
      BY <1>2
    <2> HIDE DEF b
    <2>2. /\ Append(b, t) \in Seq(Text) /\ UnitsIn(Append(b, t)) = UnitsIn(b) \cup UnitsOf(t)
          /\ b = <<>> => Len(Cut!Glue(Append(b, t))) = Len(t)
          /\ b # <<>> => Len(Cut!Glue(Append(b, t))) = Len(Cut!Glue(b)) + 1 + Len(t)
      BY <1>3, <2>1, GlueAppend
    <2>3. Append(b, t) # <<>>
      BY <1>3, <2>1
    <2>4. QED
      BY <1>3, <2>2, <2>3 DEF b, g, U
  <1>5. g \in Nat
    BY <1>2, GlueUnits, UnitsAre DEF g
  <1>6. new = [out |-> acc.out, buffer |-> buffer, len |-> acc.len + l + 1, start |-> acc.start]
    <2>1. new = [acc EXCEPT !.buffer = Append(@, t), !.len = @ + l + 1]
      BY DEF t, l, j, new
    <2> DEFINE o == acc.out
               b == acc.buffer
               e == acc.len
               s == acc.start
    <2>2. acc = [out |-> o, buffer |-> b, len |-> e, start |-> s]
      BY <1>2 DEF ChunkAcc
    <2> HIDE DEF o, b, e, s
    <2>3. new = [out |-> o, buffer |-> Append(b, t), len |-> e + l + 1, start |-> s]
      BY <2>1, <2>2
    <2>4. QED
      BY <2>3 DEF o, b, e, s
  <1> HIDE DEF buffer
  <1>7. new \in ChunkAcc /\ new.out = acc.out /\ new.buffer = buffer /\ new.len = acc.len + l + 1 /\ new.start = acc.start
    <2>1. acc.len + l + 1 \in Nat
      BY <1>2, <1>3
    <2>2. new.out = acc.out /\ new.buffer = buffer /\ new.len = acc.len + l + 1 /\ new.start = acc.start
      BY <1>6
    <2> DEFINE o == acc.out
               e == acc.len + l + 1
               st == acc.start
    <2>3. o \in Seq(PieceSet) /\ e \in Nat /\ st \in Nat /\ new = [out |-> o, buffer |-> buffer, len |-> e, start |-> st]
      BY <1>2, <1>6, <2>1
    <2> HIDE DEF o, e, st
    <2>4. new \in ChunkAcc
      BY <1>4, <2>3 DEF ChunkAcc
    <2>5. QED
      BY <2>2, <2>4
  <1> USE DEF j
  <1>8. ASSUME NEW p, Among(p, acc.out) PROVE p \in Chunk(doc, acc.start, j)
    BY <1>1, <1>8 DEF Chunked, Chunk
  <1>9. \A n \in 1 .. j : LineUnits(doc, n) \subseteq TextUnits(acc.out) \cup UnitsIn(buffer)
    <2>1. ASSUME NEW n \in 1 .. j, n # j PROVE n \in 1 .. k
      BY <2>1
    <2> HIDE DEF j
    <2>2. \A n \in 1 .. k : LineUnits(doc, n) \subseteq TextUnits(acc.out) \cup U
      BY DEF Chunked, U
    <2>3. QED
      BY <1>4, <2>1, <2>2
  <1>10. Fitting(doc, new, j) \/ Late(doc, UnitsIn(buffer), j)
    <2>1. LineUnits(doc, j) \subseteq SpanUnits(doc, acc.start, j) /\ LineUnits(doc, j) \subseteq SpanUnits(doc, j, j)
      BY <1>1, <1>2, SpanIs
    <2>2. CASE Late(doc, U, k)
      <3>1. PICK m \in 1 .. k : doc[m].len > MAX_CHUNK_CHARS /\ U \subseteq SpanUnits(doc, m, k)
        BY <2>2 DEF Late
      <3>2. m \in 1 .. j /\ m \in Nat /\ m <= m /\ k <= j /\ j \in m .. j
        BY <1>1, <3>1
      <3>3. SpanUnits(doc, m, k) \subseteq SpanUnits(doc, m, j) /\ LineUnits(doc, j) \subseteq SpanUnits(doc, m, j)
        BY <1>1, <3>2, SpanIs
      <3>4. QED
        BY <1>4, <3>1, <3>2, <3>3 DEF Late
    <2>3. CASE acc.buffer = <<>> /\ l > MAX_CHUNK_CHARS
      <3>1. U = {}
        BY <2>3, UnitsOne DEF U
      <3>2. UnitsIn(buffer) \subseteq SpanUnits(doc, j, j)
        BY <1>4, <2>1, <3>1
      <3>3. j \in 1 .. j
        BY <1>1
      <3>4. QED
        BY <2>3, <3>2, <3>3 DEF Late, l
    <2>4. CASE acc.buffer = <<>> /\ ~(l > MAX_CHUNK_CHARS)
      <3>1. U = {}
        BY <2>4, UnitsOne DEF U
      <3>2. Len(Cut!Glue(buffer)) = l /\ l <= MAX_CHUNK_CHARS /\ l + 1 <= acc.len + l + 1
        BY <1>2, <1>3, <1>4, <2>4 DEF Measures
      <3>3. QED
        BY <1>4, <1>7, <2>1, <3>1, <3>2 DEF Fitting
    <2>5. CASE acc.buffer # <<>> /\ acc.len + l + 1 <= TARGET_CHUNK_CHARS /\ ~Late(doc, U, k)
      <3>1. Fitting(doc, acc, k)
        BY <2>5 DEF Chunked, U
      <3>2. SpanUnits(doc, acc.start, k) \subseteq SpanUnits(doc, acc.start, j)
        <4>1. k <= j /\ acc.start <= acc.start
          BY <1>1, <1>2
        <4> HIDE DEF j
        <4>2. QED
          BY <1>1, <1>2, <4>1, SpanMore
      <3>3. U \subseteq SpanUnits(doc, acc.start, j) /\ g + 1 <= acc.len
        BY <2>5, <3>1, <3>2 DEF Fitting, g, U
      <3>4. Len(Cut!Glue(buffer)) <= MAX_CHUNK_CHARS /\ Len(Cut!Glue(buffer)) + 1 <= acc.len + l + 1
        BY <1>2, <1>3, <1>4, <1>5, <2>5, <3>3 DEF Measures
      <3>5. QED
        BY <1>4, <1>7, <2>1, <3>3, <3>4 DEF Fitting
    <2>6. QED
      BY <2>2, <2>3, <2>4, <2>5 DEF l, U
  <1>11. new.start \in 1 .. j + 1
    BY <1>1, <1>2, <1>7
  <1> HIDE DEF j
  <1>12. Chunked(doc, new, j)
    BY <1>7, <1>8, <1>9, <1>10, <1>11 DEF Chunked
  <1>13. QED
    BY <1>12 DEF j, new

\* What waited is put out before line k + 1.
LEMMA FlushWaits ==
    ASSUME Measures, NEW doc \in Docs, NEW k \in Nat, k + 1 <= Len(doc), NEW acc,
           Chunked(doc, acc, k)
    PROVE  LET new == Cut!Flushed(acc, k + 1)
           IN  Chunked(doc, new, k) /\ (new.buffer = <<>> \/ Late(doc, UnitsIn(new.buffer), k))
  <1> DEFINE n == k + 1
             new == Cut!Flushed(acc, n)
             t == Cut!Glue(acc.buffer)
  <1>1. Len(doc) \in Nat /\ n \in Nat \ {0} /\ n - 1 = k /\ k \in 0 .. Len(doc) /\ n \in 1 .. k + 1
    BY DEF Docs
  <1>2. acc \in ChunkAcc /\ acc.buffer \in Seq(Text) /\ acc.start \in Nat /\ acc.start \in 1 .. n
    BY DEF Chunked, ChunkAcc
  <1> HIDE DEF n
  <1>3. n - 1 \in Int
    BY <1>1
  <1>4. /\ new \in ChunkAcc /\ new.start = n
        /\ Len(t) <= MAX_CHUNK_CHARS => new.buffer = <<>>
        /\ UnitsIn(new.buffer) \subseteq UnitsOf(t)
        /\ TextUnits(acc.out) \subseteq TextUnits(new.out)
        /\ \A u \in UnitsOf(t) : u \in TextUnits(new.out) \/ u \in UnitsIn(new.buffer)
        /\ \A p : Among(p, new.out) =>
              \/ Among(p, acc.out)
              \/ p \in PieceSet /\ p.first = acc.start /\ p.last = n - 1 /\ UnitsOf(p.text) \subseteq UnitsOf(t)
    <2>1. acc \in ChunkAcc /\ n \in Nat \ {0}
      BY <1>1, <1>2
    <2>2. Emptied(acc, n, new, t)
      BY <2>1, FlushedIs
    <2> HIDE DEF t, new
    <2>3. QED
      BY <2>2 DEF Emptied
  <1> HIDE DEF t, new
  <1>5. UnitsOf(t) = UnitsIn(acc.buffer)
    <2>1. \A u : u \in UnitsOf(t) <=> \E i \in 1 .. Len(acc.buffer) : u \in UnitsOf(acc.buffer[i])
      BY <1>2, GlueUnits DEF t
    <2>2. QED
      BY <2>1 DEF UnitsIn
  <1>6. new.buffer = <<>> \/ Late(doc, UnitsIn(new.buffer), k)
    <2>1. CASE Fitting(doc, acc, k)
      BY <1>4, <2>1 DEF Fitting, t
    <2>2. CASE Late(doc, UnitsIn(acc.buffer), k)
      BY <1>1, <1>4, <1>5, <2>2, LateIs
    <2>3. QED
      BY <2>1, <2>2 DEF Chunked
  <1>7. ASSUME NEW p, Among(p, new.out) PROVE p \in Chunk(doc, n, k)
    <2>1. CASE Among(p, acc.out)
      <3>1. p \in Chunk(doc, acc.start, k)
        BY <2>1 DEF Chunked
      <3>2. QED
        BY <1>1, <1>2, <3>1 DEF Chunk
    <2>2. CASE ~Among(p, acc.out)
      <3>1. p \in PieceSet /\ p.first = acc.start /\ p.last = k /\ UnitsOf(p.text) \subseteq UnitsIn(acc.buffer)
        BY <1>1, <1>4, <1>5, <1>7, <2>2
      <3>2. p.first \in 1 .. n /\ p.last \in 0 .. k
        BY <1>1, <1>2, <3>1
      <3> DEFINE U == UnitsOf(p.text)
      <3>3. U \subseteq SpanUnits(doc, 1, Len(doc)) /\ (U \subseteq SpanUnits(doc, p.first, p.last) \/ Stray(doc, U))
        <4>1. CASE Fitting(doc, acc, k)
          <5>1. U \subseteq SpanUnits(doc, acc.start, k)
            BY <3>1, <4>1 DEF Fitting
          <5>2. 1 \in Nat /\ 1 <= acc.start /\ k <= Len(doc)
            BY <1>1, <1>2
          <5>3. SpanUnits(doc, acc.start, k) \subseteq SpanUnits(doc, 1, Len(doc))
            BY <1>1, <1>2, <5>2, SpanMore
          <5>4. QED
            BY <3>1, <5>1, <5>3
        <4>2. CASE Late(doc, UnitsIn(acc.buffer), k)
          BY <1>1, <3>1, <4>2, LateIs
        <4>3. QED
          BY <4>1, <4>2 DEF Chunked
      <3>4. QED
        BY <3>1, <3>2, <3>3 DEF Chunk
    <2>3. QED
      BY <2>1, <2>2
  <1>8. ASSUME NEW m \in 1 .. k
               PROVE LineUnits(doc, m) \subseteq TextUnits(new.out) \cup UnitsIn(new.buffer)
    <2>1. LineUnits(doc, m) \subseteq TextUnits(acc.out) \cup UnitsIn(acc.buffer)
      BY DEF Chunked
    <2>2. QED
      BY <1>4, <1>5, <2>1
  <1>9. Fitting(doc, new, k) \/ Late(doc, UnitsIn(new.buffer), k)
    <2>1. CASE new.buffer = <<>>
      <3>1. Cut!Glue(<<>>) = <<>> /\ UnitsIn(<<>>) = {}
        BY UnitsOne DEF Cut!Glue
      <3>2. Len(Cut!Glue(new.buffer)) <= MAX_CHUNK_CHARS
        BY <2>1, <3>1 DEF Measures
      <3>3. QED
        BY <2>1, <3>1, <3>2 DEF Fitting
    <2>2. QED
      BY <1>6, <2>1
  <1>10. Chunked(doc, new, k)
    BY <1>1, <1>4, <1>6, <1>7, <1>8, <1>9 DEF Chunked
  <1>11. QED
    BY <1>6, <1>10 DEF new, n

\* A line is put off with those before it, or they make a passage first.
LEMMA ChunkStepIs ==
    ASSUME Measures, NEW doc \in Docs, NEW k \in Nat, k + 1 <= Len(doc), NEW acc,
           Chunked(doc, acc, k)
    PROVE  Chunked(doc, ChunkStep(doc, acc, k + 1), k + 1)
  <1> DEFINE n == k + 1
             a == Cut!Flushed(acc, n)
  <1>1. acc \in ChunkAcc /\ acc.len \in Nat /\ doc[n].len \in Nat /\ TARGET_CHUNK_CHARS \in Nat
    <2>1. n \in 1 .. Len(doc)
      BY DEF Docs
    <2>2. QED
      BY <2>1, LineIs DEF Chunked, ChunkAcc, Measures
  <1>2. CASE ChunkFull(doc, acc, n)
    <2>1. ChunkStep(doc, acc, n) = [a EXCEPT !.buffer = Append(@, Cut!LineText(doc, n)), !.len = @ + doc[n].len + 1]
      BY <1>2, Zenon DEF ChunkStep
    <2>2. Chunked(doc, a, k) /\ (a.buffer = <<>> \/ Late(doc, UnitsIn(a.buffer), k))
      BY FlushWaits
    <2> HIDE DEF a
    <2>3. QED
      BY <2>1, <2>2, LineWaits, ZenonT(20)
  <1>3. CASE ~ChunkFull(doc, acc, n)
    <2>1. ChunkStep(doc, acc, n) = [acc EXCEPT !.buffer = Append(@, Cut!LineText(doc, n)), !.len = @ + doc[n].len + 1]
      BY <1>3, Zenon DEF ChunkStep
    <2>2. acc.buffer = <<>> \/ acc.len + doc[n].len + 1 <= TARGET_CHUNK_CHARS
      BY <1>1, <1>3 DEF ChunkFull
    <2>3. QED
      BY <2>1, <2>2, LineWaits, ZenonT(20)
  <1>4. QED
    BY <1>2, <1>3

\* No line takes a step out of the type.
LEMMA ChunkStepType ==
    ASSUME Measures, NEW doc \in Docs, NEW acc \in ChunkAcc, NEW n \in 1 .. Len(doc)
    PROVE  ChunkStep(doc, acc, n) \in ChunkAcc
  <1> DEFINE a == IF ChunkFull(doc, acc, n) THEN Cut!Flushed(acc, n) ELSE acc
  <1>1. n \in Nat \ {0}
    BY DEF Docs
  <1>2. a \in ChunkAcc
    BY <1>1, FlushedIs DEF Emptied
  <1>3. ChunkStep(doc, acc, n) = [a EXCEPT !.buffer = Append(@, Cut!LineText(doc, n)), !.len = @ + doc[n].len + 1]
    BY Zenon DEF ChunkStep
  <1> HIDE DEF a
  <1>4. Cut!LineText(doc, n) \in Text /\ doc[n].len \in Nat
    BY LineIs
  <1>5. Append(a.buffer, Cut!LineText(doc, n)) \in Seq(Text) /\ a.len + doc[n].len + 1 \in Nat
    BY <1>2, <1>4 DEF ChunkAcc
  <1>6. QED
    BY <1>2, <1>3, <1>5 DEF ChunkAcc

\* A passage of the lines it points at, or with what comes after a line longer than a passage.
Located(doc) ==
    {p \in PieceSet : /\ UnitsOf(p.text) \subseteq SpanUnits(doc, 1, Len(doc)) /\ p.first \in Nat /\ p.last \in Nat
                      /\ UnitsOf(p.text) \subseteq SpanUnits(doc, p.first, p.last) \/ Stray(doc, UnitsOf(p.text))}

\* A passage so placed is cited as it should be.
LEMMA LocatedFine ==
    ASSUME NEW doc, FileDoc(doc), NEW p \in Located(doc), UnitsOf(p.text) # {}
    PROVE  p \in Fine("plaintext", doc)
  <1> DEFINE U == UnitsOf(p.text)
             N == Len(doc)
  <1>1. p \in PieceSet /\ p.text \in Text /\ p.first \in Nat /\ p.last \in Nat /\ U \subseteq SpanUnits(doc, 1, N)
    BY DEF Located, PieceSet
  <1>2. N \in Nat /\ DOMAIN doc = 1 .. N
    BY DEF FileDoc, Docs
  <1>3. Cut!RightlyTitled("plaintext", doc, p)
    BY DEF Cut!RightlyTitled, Cut!OneHeading
  <1>4. CASE U \subseteq SpanUnits(doc, p.first, p.last)
    <2>1. OfLines(doc, p.text, p.first .. p.last)
      BY <1>1, <1>4 DEF OfLines, SpanUnits
    <2>2. Cut!LinesOf(p) \subseteq p.first .. p.last
      BY <1>1, <2>1, LinesAre
    <2>3. Cut!RightlyCited("plaintext", doc, p)
      BY <2>2 DEF Cut!RightlyCited, Cut!Cited
    <2>4. QED
      BY <1>1, <1>3, <2>3 DEF Fine
  <1>5. CASE Stray(doc, U)
    <2>1. PICK m, n \in 1 .. N : m <= n /\ doc[m].len > MAX_CHUNK_CHARS /\ U \cap LineUnits(doc, n) # {}
      BY <1>5 DEF Stray
    <2>2. OfLines(doc, p.text, 1 .. N)
      BY <1>1 DEF OfLines, SpanUnits
    <2> DEFINE L == Cut!LinesOf(p)
    <2>3. L \subseteq 1 .. N /\ n \in L
      BY <1>1, <2>1, <2>2, LinesAre
    <2> HIDE DEF L
    <2>4. Cut!Max(L) \in L /\ n <= Cut!Max(L)
      BY <1>2, <2>3, TopOf
    <2>5. m <= Cut!Max(L)
      <3> DEFINE top == Cut!Max(L)
      <3>1. m \in Nat /\ n \in Nat /\ m <= n /\ n <= top
        BY <1>2, <2>1, <2>4
      <3>2. top \in 1 .. N
        BY <2>3, <2>4
      <3> HIDE DEF top
      <3>3. m <= top
        BY <1>2, <3>1, <3>2
      <3>4. QED
        BY <3>3 DEF top
    <2>6. Cut!RightlyCited("plaintext", doc, p)
      BY <1>2, <2>1, <2>5 DEF Cut!RightlyCited, L
    <2>7. QED
      BY <1>1, <1>3, <2>6 DEF Fine
  <1>6. QED
    BY <1>4, <1>5 DEF Located

\* What is put out at the end: what waited is added to the last passage, or is one.
LEMMA ChunkEndIs ==
    ASSUME Measures, NEW doc, FileDoc(doc), NEW acc, Chunked(doc, acc, Len(doc)), NEW ps,
           ps = ChunkEnd(doc, acc)
    PROVE  /\ ps \in Seq(Located(doc))
           /\ \A n \in 1 .. Len(doc) : Covered(doc, ps, n)
  <1> DEFINE N == Len(doc)
             rest == Cut!Glue(acc.buffer)
             R == UnitsIn(acc.buffer)
             out == acc.out
             start == acc.start
  <1>1. N \in Nat \ {0} /\ N \in 0 .. N /\ N \in Nat /\ 1 \in Nat
    BY DEF FileDoc
  <1>2. acc \in ChunkAcc /\ out \in Seq(PieceSet) /\ acc.buffer \in Seq(Text) /\ start \in Nat /\ start \in 1 .. N + 1
    BY DEF Chunked, ChunkAcc
  <1>3. rest \in Text /\ UnitsOf(rest) = R
    <2>1. rest \in Text /\ \A u : u \in UnitsOf(rest) <=> \E i \in 1 .. Len(acc.buffer) : u \in UnitsOf(acc.buffer[i])
      BY <1>2, GlueUnits
    <2>2. QED
      BY <2>1 DEF UnitsIn
  <1>4. \A k \in 1 .. Len(out) : out[k] \in Chunk(doc, start, N)
    BY DEF Chunked, Among
  <1>5. \A n \in 1 .. N : LineUnits(doc, n) \subseteq TextUnits(out) \cup R
    BY DEF Chunked
  <1>6. /\ R \subseteq SpanUnits(doc, start, N) \/ R = {} \/ Stray(doc, R)
        /\ R \subseteq SpanUnits(doc, 1, N)
    <2>1. CASE Fitting(doc, acc, N)
      <3>1. R \subseteq SpanUnits(doc, start, N)
        BY <2>1 DEF Fitting
      <3>2. 1 <= start /\ N <= N
        BY <1>1, <1>2
      <3> HIDE DEF start, N
      <3>3. SpanUnits(doc, start, N) \subseteq SpanUnits(doc, 1, N)
        BY <1>1, <1>2, <3>2, SpanMore
      <3>4. QED
        BY <3>1, <3>3
    <2>2. CASE Late(doc, R, N)
      BY <1>1, <2>2, LateIs
    <2>3. QED
      BY <2>1, <2>2 DEF Chunked
  <1>7. \A k \in 1 .. Len(out) : out[k] \in Located(doc)
    <2>1. ASSUME NEW x \in Chunk(doc, start, N) PROVE x.first \in Nat /\ x.last \in Nat
      BY <1>1, <1>2 DEF Chunk
    <2>2. Chunk(doc, start, N) \subseteq Located(doc)
      BY <2>1 DEF Chunk, Located
    <2>3. QED
      BY <1>4, <2>2
  <1>8. out \in Seq(Located(doc))
    BY <1>2, <1>7, SeqOfPart
  <1> DEFINE m == Len(out)
             p == out[m]
             t == Cut!Glue(<<p.text, rest>>)
             q == [p EXCEPT !.text = t, !.last = N]
             s == Cut!Passage(rest, {}, start, N)
             last == [out EXCEPT ![m].text = Cut!Glue(<<@, rest>>), ![m].last = N]
  <1>9. ps = IF out # <<>> /\ Len(rest) < MIN_CHUNK_CHARS THEN last ELSE Append(out, s)
    BY Zenon DEF ChunkEnd
  <1> HIDE DEF rest, R, start
  <1>10. CASE out # <<>> /\ Len(rest) < MIN_CHUNK_CHARS
    <2>1. m \in 1 .. Len(out) /\ p \in Chunk(doc, start, N) /\ DOMAIN out = 1 .. Len(out)
      BY <1>2, <1>4, <1>10
    <2>2. ps = [out EXCEPT ![m] = q]
      <3>1. ps = last
        BY <1>9, <1>10
      <3>2. last = [out EXCEPT ![m] = q]
        BY <1>2, <2>1
      <3>3. QED
        BY <3>1, <3>2
    <2> HIDE DEF last, m, p
    <2> DEFINE P == UnitsOf(p.text)
    <2>3. /\ p \in PieceSet /\ p.text \in Text /\ p.titles \in SUBSET Nat /\ p.first \in 1 .. start /\ p.last \in 0 .. N
          /\ P \subseteq SpanUnits(doc, 1, N) /\ (P \subseteq SpanUnits(doc, p.first, p.last) \/ Stray(doc, P))
      BY <2>1 DEF Chunk, PieceSet
    <2>4. t \in Text /\ UnitsOf(t) = P \cup R
      BY <1>3, <2>3, GlueTwo
    <2> HIDE DEF t
    <2>5. q \in PieceSet /\ q.text = t /\ q.first = p.first /\ q.last = N
      <3> DEFINE a == p.titles
                 b == p.first
                 c == p.text
                 d == p.last
      <3>1. a \in SUBSET Nat /\ b \in Int /\ N \in Int
        BY <1>1, <2>3 DEF PieceSet
      <3>2. p = [text |-> c, titles |-> a, first |-> b, last |-> d]
        BY <2>3 DEF PieceSet
      <3>3. q = [p EXCEPT !.text = t, !.last = N]
        OBVIOUS
      <3> HIDE DEF a, b, c, d, N, P, q
      <3>4. q = [text |-> t, titles |-> a, first |-> b, last |-> N]
        BY <3>2, <3>3
      <3>5. q \in PieceSet /\ q.text = t /\ q.first = b /\ q.last = N
        BY <2>4, <3>1, <3>4 DEF PieceSet
      <3>6. QED
        BY <3>5 DEF b
    <2> HIDE DEF q
    <2>6. P \cup R \subseteq SpanUnits(doc, p.first, N) \/ Stray(doc, P \cup R)
      <3>1. ASSUME NEW V \in SUBSET (P \cup R), Stray(doc, V) PROVE Stray(doc, P \cup R)
        BY <3>1 DEF Stray
      <3>2. p.first \in Nat /\ p.last \in Nat /\ p.first <= start /\ p.last <= N /\ p.first <= p.first /\ N <= N
        BY <1>1, <1>2, <2>3
      <3> DEFINE a == p.first
                 z == p.last
      <3>3. a \in Nat /\ z \in Nat /\ a <= start /\ z <= N /\ a <= a
        BY <3>2
      <3> HIDE DEF a, z, N, P
      <3>4. SpanUnits(doc, a, z) \subseteq SpanUnits(doc, a, N) /\ SpanUnits(doc, start, N) \subseteq SpanUnits(doc, a, N)
        BY <1>1, <1>2, <3>2, <3>3, SpanMore
      <3>5. P \subseteq SpanUnits(doc, a, z) \/ Stray(doc, P)
        BY <2>3 DEF a, z
      <3>6. P \cup R \subseteq SpanUnits(doc, a, N) \/ Stray(doc, P \cup R)
        BY <1>6, <3>1, <3>4, <3>5
      <3>7. QED
        BY <3>6 DEF a
    <2>7. q \in Located(doc)
      <3>1. q.first \in Nat /\ q.last \in Nat
        BY <1>1, <2>3, <2>5
      <3>2. UnitsOf(q.text) = P \cup R
        BY <2>4, <2>5
      <3> HIDE DEF P, N
      <3>3. UnitsOf(q.text) \subseteq SpanUnits(doc, 1, N)
        BY <1>6, <2>3, <3>2
      <3>4. UnitsOf(q.text) \subseteq SpanUnits(doc, q.first, q.last) \/ Stray(doc, UnitsOf(q.text))
        BY <2>5, <2>6, <3>2
      <3>5. QED
        BY <2>5, <3>1, <3>3, <3>4 DEF Located, N
    <2>8. UnitsOf(out[Len(out)].text) \subseteq UnitsOf(q.text) /\ R \subseteq UnitsOf(q.text)
      BY <2>4, <2>5 DEF p, m
    <2>9. ps = [out EXCEPT ![Len(out)] = q]
      BY <2>2 DEF m
    <2> HIDE DEF out, N
    <2>10. ps \in Seq(Located(doc)) /\ TextUnits(out) \subseteq TextUnits(ps) /\ UnitsOf(q.text) \subseteq TextUnits(ps)
      BY <1>8, <1>10, <2>7, <2>8, <2>9, LastReplaced
    <2>11. \A n \in 1 .. N : Covered(doc, ps, n)
      BY <1>5, <2>8, <2>10, CoveredBy
    <2>12. QED
      BY <2>10, <2>11 DEF N
  <1>11. CASE ~(out # <<>> /\ Len(rest) < MIN_CHUNK_CHARS)
    <2>1. ps = Append(out, s)
      BY <1>9, <1>11
    <2>2. s \in PieceSet /\ s.text = rest /\ s.first = start /\ s.last = N
      BY <1>1, <1>2, <1>3 DEF Cut!Passage, PieceSet
    <2> HIDE DEF s
    <2>3. s \in Located(doc)
      <3>1. SpanUnits(doc, start, N) = SpanUnits(doc, s.first, s.last) /\ UnitsOf(s.text) = R
        BY <1>3, <2>2
      <3>2. s.first \in Nat /\ s.last \in Nat
        BY <1>1, <1>2, <2>2
      <3> HIDE DEF N
      <3>3. QED
        BY <1>6, <2>2, <3>1, <3>2 DEF Located, N
    <2> DEFINE one == <<s>>
    <2>4. one \in Seq(Located(doc)) /\ Among(s, one)
      BY <2>3, AmongOne
    <2>5. ps = out \o one
      BY <1>8, <2>1, <2>3
    <2> HIDE DEF one, out, N
    <2>6. /\ ps \in Seq(Located(doc))
          /\ \A k \in 1 .. Len(out) : Among(out[k], ps)
          /\ \A k \in 1 .. Len(one) : Among(one[k], ps)
      BY <1>8, <2>4, <2>5, AmongBoth
    <2>7. Among(s, ps)
      BY <2>4, <2>6 DEF Among
    <2>8. TextUnits(out) \subseteq TextUnits(ps) /\ UnitsOf(s.text) \subseteq TextUnits(ps)
      BY <2>6, <2>7 DEF TextUnits, Among
    <2>9. R \subseteq TextUnits(ps)
      BY <1>3, <2>2, <2>8
    <2>10. \A n \in 1 .. N : Covered(doc, ps, n)
      BY <1>5, <2>8, <2>9, CoveredBy
    <2>11. QED
      BY <2>6, <2>10 DEF N
  <1>12. QED
    BY <1>10, <1>11

\* Plain text: lines put together up to the length of a passage.
LEMMA PlainWhole ==
    ASSUME Measures, NEW doc, FileDoc(doc)
    PROVE  Whole("plaintext", doc, Cut!ChunkLines(doc))
  <1> DEFINE N == Len(doc)
             ns == Cut!From(1, Len(doc))
  <1>1. doc \in Docs /\ N \in Nat \ {0} /\ N \in Nat /\ 1 \in Nat \ {0} /\ 1 <= N + 1 /\ N <= N
    BY DEF FileDoc
  <1>2. ns \in Seq(1 .. N) /\ Len(ns) = N - 1 + 1 /\ \A i \in 1 .. Len(ns) : ns[i] = 1 + i - 1
    BY <1>1, FromIs
  <1>3. Len(ns) = N /\ \A i \in 1 .. N : ns[i] = i
    BY <1>1, <1>2
  <1> HIDE DEF ns
  <1>4. ChunkStart \in ChunkAcc /\ ChunkStart.out = <<>> /\ ChunkStart.buffer = <<>> /\ ChunkStart.start = 1
    BY DEF ChunkStart, ChunkAcc
  <1>5. \A a \in ChunkAcc, b \in 1 .. N : ChunkStep(doc, a, b) \in ChunkAcc
    BY <1>1, ChunkStepType
  <1>6. PICK h : /\ h[0] = ChunkStart /\ Cut!ChunkLines(doc) = Cut!NonBlank(ChunkEnd(doc, h[Len(ns)]))
                 /\ \A i \in 1 .. Len(ns) : h[i] = ChunkStep(doc, h[i - 1], ns[i])
    BY <1>2, <1>4, <1>5, ChunkFold DEF ns
  <1>7. Chunked(doc, h[0], 0)
    <2>1. UnitsIn(ChunkStart.buffer) = {} /\ Cut!Glue(ChunkStart.buffer) = <<>> /\ \A p : ~Among(p, ChunkStart.out)
      BY <1>4, UnitsOne, AmongOne DEF Cut!Glue
    <2>2. Fitting(doc, ChunkStart, 0)
      BY <1>4, <2>1 DEF Fitting, Measures
    <2>3. QED
      BY <1>4, <1>6, <2>1, <2>2 DEF Chunked
  <1>8. \A i \in 0 .. N : i \in {k \in 0 .. N : Chunked(doc, h[k], k)}
    <2> DEFINE G == {k \in 0 .. N : Chunked(doc, h[k], k)}
    <2>1. 0 \in G
      BY <1>1, <1>7
    <2>2. ASSUME NEW i \in 1 .. N, i - 1 \in G PROVE i \in G
      <3>1. PICK k \in Nat : i = k + 1 /\ i - 1 = k
        BY <1>1
      <3>2. Chunked(doc, h[k], k) /\ k + 1 <= N
        BY <1>1, <2>2, <3>1
      <3>3. Chunked(doc, ChunkStep(doc, h[k], k + 1), k + 1)
        BY <1>1, <3>2, ChunkStepIs
      <3>4. h[i] = ChunkStep(doc, h[k], k + 1)
        BY <1>3, <1>6, <3>1
      <3>5. QED
        BY <1>1, <3>1, <3>3, <3>4
    <2> HIDE DEF G
    <2>3. \A i \in 0 .. N : i \in G
      BY <1>1, <2>1, <2>2, Steps
    <2>4. QED
      BY <2>3 DEF G
  <1> DEFINE acc == h[N]
             ps == ChunkEnd(doc, acc)
             qs == Cut!NonBlank(ps)
  <1>9. Chunked(doc, acc, N)
    BY <1>1, <1>8
  <1>10. Cut!ChunkLines(doc) = qs
    BY <1>3, <1>6
  <1> HIDE DEF acc
  <1>11. ps \in Seq(Located(doc)) /\ \A n \in 1 .. N : Covered(doc, ps, n)
    BY <1>9, ChunkEndIs
  <1> HIDE DEF ps
  <1>12. Located(doc) \subseteq PieceSet
    BY DEF Located
  <1>13. /\ qs \in Seq(Located(doc)) /\ \A k \in 1 .. Len(qs) : UnitsOf(qs[k].text) # {}
         /\ \A n \in 1 .. N : Covered(doc, qs, n)
    BY <1>11, <1>12, NonBlankIs
  <1> HIDE DEF qs
  <1>14. \A k \in 1 .. Len(qs) : qs[k] \in Fine("plaintext", doc)
    <2>1. \A k \in 1 .. Len(qs) : qs[k] \in Located(doc)
      BY <1>13
    <2>2. QED
      BY <1>13, <2>1, LocatedFine
  <1>15. qs \in Seq(Fine("plaintext", doc))
    BY <1>13, <1>14, SeqOfPart
  <1>16. Whole("plaintext", doc, qs)
    BY <1>1, <1>13, <1>15, FineWhole DEF Present, N
  <1>17. QED
    BY <1>10, <1>16

-----------------------------------------------------------------------------
(* Every parser. *)

\* The parsers of texts.
LEMMA TextParsed ==
    ASSUME Measures, NEW doc, FileDoc(doc), NEW f \in Cut!TextFormats, Cut!Fits(f, doc)
    PROVE  Whole(f, doc, Cut!Parse(f, doc))
  <1>1. Cut!Parse(f, doc) = Cut!Cut(doc, Cut!TextBlocks(f, doc))
    BY DEF Cut!Parse, Cut!TextFormats
  <1>2. CASE f = "markdown"
    <2>1. Cut!TextBlocks(f, doc) = Cut!Markdown(doc)
      BY <1>2 DEF Cut!TextBlocks
    <2>2. QED
      BY <1>1, <1>2, <2>1, MarkdownWhole
  <1>3. CASE f \in {"docx", "odt"}
    <2>1. Cut!TextBlocks(f, doc) = Cut!Odt(doc)
      BY <1>3 DEF Cut!TextBlocks
    <2>2. QED
      BY <1>1, <1>3, <2>1, DocxWhole
  <1>4. CASE f = "fb2"
    <2>1. Cut!TextBlocks(f, doc) = Cut!Fb2(doc)
      BY <1>4 DEF Cut!TextBlocks
    <2>2. QED
      BY <1>1, <1>4, <2>1, Fb2Whole
  <1>5. CASE f \in {"epub", "mobi"}
    <2> DEFINE blocks == IF f = "epub" THEN Cut!Epub(doc) ELSE Cut!Mobi(doc)
    <2>1. Cut!TextBlocks(f, doc) = blocks
      BY <1>5 DEF Cut!TextBlocks
    <2>2. Whole(f, doc, Cut!Cut(doc, blocks))
      BY <1>5, EpubWhole
    <2>3. QED
      BY <1>1, <2>1, <2>2
  <1>6. CASE f = "pdf"
    <2>1. Cut!TextBlocks(f, doc) = Cut!Pdf(doc)
      BY <1>6 DEF Cut!TextBlocks
    <2>2. QED
      BY <1>1, <1>6, <2>1, PdfWhole
  <1>7. CASE f = "djvu"
    <2>1. Cut!TextBlocks(f, doc) = Cut!Djvu(doc) /\ doc[1].kind = Cut!Opening
      BY <1>7 DEF Cut!TextBlocks, Cut!Fits
    <2>2. QED
      BY <1>1, <1>7, <2>1, DjvuWhole
  <1>8. CASE f = "rtf"
    <2>1. Cut!TextBlocks(f, doc) = Cut!Rtf(doc)
      BY <1>8 DEF Cut!TextBlocks
    <2>2. QED
      BY <1>1, <1>8, <2>1, RtfWhole
  <1>9. QED
    BY <1>2, <1>3, <1>4, <1>5, <1>6, <1>7, <1>8 DEF Cut!TextFormats

\* A Python file that does not compile: one block, with all of it.
LEMMA PythonErrorWhole ==
    ASSUME NEW doc, FileDoc(doc)
    PROVE  Whole("python_error", doc, Cut!PythonError(doc))
  <1> DEFINE N == Len(doc)
             t == Cut!TextOf(doc, Cut!From(1, N))
             p == Cut!Passage(t, {}, 1, N)
             f == "python_error"
  <1>1. doc \in Docs /\ N \in Nat \ {0}
    BY DEF FileDoc
  <1>2. Cut!PythonError(doc) = IF Cut!Blank(t) THEN <<>> ELSE <<p>>
    BY DEF Cut!PythonError
  <1>3. /\ OfLines(doc, t, 1 .. N) /\ t \in Text
        /\ \A n \in 1 .. N : LineUnits(doc, n) \subseteq UnitsOf(t)
    <2> DEFINE ns == Cut!From(1, N)
    <2>1. /\ ns \in Seq(1 .. N) /\ \A i \in 1 .. Len(ns) : ns[i] \in 1 .. N
          /\ \A k \in 1 .. N : \E i \in 1 .. Len(ns) : ns[i] = k
      <3>1. 1 \in Nat \ {0} /\ N \in Nat /\ 1 <= N + 1 /\ N <= N
        BY <1>1
      <3> HIDE DEF N
      <3>2. QED
        BY <3>1, FromIs
    <2> HIDE DEF ns
    <2>2. /\ OfLines(doc, Cut!TextOf(doc, ns), 1 .. N) /\ Cut!TextOf(doc, ns) \in Text
          /\ \A i \in 1 .. Len(ns) : LineUnits(doc, ns[i]) \subseteq UnitsOf(Cut!TextOf(doc, ns))
      BY <1>1, <2>1, TextOfLines
    <2>3. QED
      BY <2>1, <2>2 DEF ns
  <1> HIDE DEF t
  <1>4. p.text = t /\ p.titles = {} /\ p.first = 1 /\ p.last = N /\ p \in PieceSet
    BY <1>1, <1>3 DEF Cut!Passage, PieceSet
  <1> HIDE DEF p
  <1>5. p \in Fine(f, doc)
    <2>1. Cut!LinesOf(p) \subseteq 1 .. N
      BY <1>3, <1>4, LinesAre
    <2>2. Cut!LinesOf(p) \subseteq Cut!Cited(f, doc, p)
      BY <1>4, <2>1 DEF Cut!Cited
    <2>3. f \notin Cut!OneHeading
      BY DEF Cut!OneHeading
    <2>4. QED
      BY <1>4, <2>2, <2>3 DEF Fine, Cut!RightlyCited, Cut!RightlyTitled
  <1> HIDE DEF f
  <1>6. CASE Cut!Blank(t)
    <2>1. UnitsOf(t) = {}
      BY <1>6 DEF Cut!Blank, UnitsOf
    <2>2. Cut!PythonError(doc) = <<>> /\ <<>> \in Seq(Fine(f, doc))
      BY <1>2, <1>6
    <2>3. \A n \in 1 .. Len(doc) : Covered(doc, <<>>, n)
      BY <1>3, <2>1 DEF Covered
    <2>4. QED
      BY <1>1, <2>2, <2>3, FineWhole DEF Present, f
  <1>7. CASE ~Cut!Blank(t)
    <2>1. Cut!PythonError(doc) = <<p>>
      BY <1>2, <1>7
    <2>2. Among(p, <<p>>) /\ <<p>> \in Seq(Fine(f, doc))
      BY <1>5, AmongOne
    <2>3. \A n \in 1 .. Len(doc) : Covered(doc, <<p>>, n)
      BY <1>3, <1>4, <2>2, CoveredByOne
    <2>4. QED
      BY <1>1, <2>1, <2>2, <2>3, FineWhole DEF Present, f
  <1>8. QED
    BY <1>6, <1>7

\* The others.
LEMMA OtherParsed ==
    ASSUME Measures, NEW doc, FileDoc(doc), NEW f \in Cut!OtherFormats, Cut!Fits(f, doc)
    PROVE  Whole(f, doc, Cut!Parse(f, doc))
  <1>1. f \notin Cut!TextFormats
    BY DEF Cut!TextFormats, Cut!OtherFormats
  <1> USE DEF Cut!Parse
  <1>2. CASE f \in {"plaintext", "python", "shell", "latex"}
    BY <1>1, <1>2, PlainWhole, PythonWhole, ShellWhole, LatexWhole
  <1>3. CASE f \in {"yaml", "json"}
    <2>1. Cut!Parse(f, doc) = Cut!Yaml(doc)
      BY <1>1, <1>3 DEF Cut!Json
    <2> HIDE DEF Cut!Parse
    <2>2. QED
      BY <1>3, <2>1, YamlWhole
  <1>4. CASE f \in {"toml", "array", "jupyter"}
    BY <1>1, <1>4, TomlWhole, ArrayWhole, JupyterWhole
  <1>5. CASE f \in {"csv", "xlsx", "sqlite"}
    <2>1. MAX_CHUNK_CHARS \in Nat
      BY DEF Measures
    <2>2. QED
      BY <1>1, <1>5, <2>1, CsvWhole, XlsxWhole, SqliteWhole
  <1>6. CASE f \in {"html", "legifrance"}
    BY <1>1, <1>6, HtmlWhole, LegifranceWhole
  <1>7. CASE f \in {"python_error", "mapped"}
    BY <1>1, <1>7, PythonErrorWhole, MappedWhole
  <1>8. QED
    BY <1>2, <1>3, <1>4, <1>5, <1>6, <1>7 DEF Cut!OtherFormats

\* What a file being read is.
FileRead ==
    /\ reading = [format |-> reading.format, document |-> reading.document, read |-> reading.read,
                  passages |-> reading.passages]
    /\ reading.format \in Formats /\ FileDoc(reading.document) /\ Cut!Fits(reading.format, reading.document)
    /\ reading.read \in BOOLEAN
    /\ reading.read => Whole(reading.format, reading.document, reading.passages)

\* The documents of the model are documents.
LEMMA DocumentIs ==
    ASSUME Cut!PassagesAssumption, NEW doc \in Cut!Documents
    PROVE  FileDoc(doc)
  <1>1. PICK n \in 1 .. MaxLines : doc \in [1 .. n -> Lines]
    BY DEF Cut!Documents
  <1>2. n \in Nat \ {0} /\ \A i \in 1 .. n : doc[i] \in Lines
    BY <1>1 DEF Cut!PassagesAssumption
  <1>3. \A i \in 1 .. n : doc[i] \in [kind : Cut!Kinds, len : Nat] /\ (doc[i].kind = "blank" <=> doc[i].len = 0)
    BY <1>2 DEF Cut!PassagesAssumption
  <1>4. DOMAIN doc = 1 .. n /\ doc = [i \in 1 .. n |-> doc[i]]
    BY <1>1
  <1>5. doc \in Docs /\ Len(doc) = n
    <2> DEFINE X == [kind : Cut!Kinds, len : Nat]
    <2>1. \A i \in 1 .. n : doc[i] \in X
      BY <1>3
    <2> HIDE DEF X
    <2>2. doc \in [1 .. n -> X]
      BY <1>4, <2>1
    <2>3. doc \in Seq(X) /\ Len(doc) = n
      BY <1>2, <1>4, <2>2
    <2>4. QED
      BY <2>3 DEF Docs, X
  <1>6. QED
    BY <1>2, <1>3, <1>5 DEF FileDoc

\* A file not read yet ...
LEMMA InitRead ==
    ASSUME Cut!PassagesAssumption, Cut!Init
    PROVE  FileRead
  <1>1. PICK f \in Formats, doc \in Cut!Documents :
            Cut!Fits(f, doc) /\ reading = [format |-> f, document |-> doc, read |-> FALSE, passages |-> <<>>]
    BY DEF Cut!Init
  <1>2. FileDoc(doc)
    BY DocumentIs
  <1>3. QED
    BY <1>1, <1>2 DEF FileRead

\* ... and once it is.
LEMMA NextRead ==
    ASSUME Cut!PassagesAssumption, FileRead, Cut!Next
    PROVE  FileRead'
  <1> DEFINE f == reading.format
             doc == reading.document
             ps == Cut!Parse(f, doc)
  <1>1. reading' = [format |-> f, document |-> doc, read |-> TRUE, passages |-> ps]
    BY DEF FileRead, Cut!Next
  <1>2. f \in Formats /\ FileDoc(doc) /\ Cut!Fits(f, doc)
    BY DEF FileRead
  <1>3. Measures /\ (f \in Cut!TextFormats \/ f \in Cut!OtherFormats)
    BY <1>2 DEF Cut!PassagesAssumption, Measures
  <1> HIDE DEF f, doc
  <1>4. Whole(f, doc, ps)
    BY <1>2, <1>3, TextParsed, OtherParsed
  <1> HIDE DEF ps
  <1>5. QED
    BY <1>1, <1>2, <1>4 DEF FileRead

\* Of any file, of any of the formats, every line can be found but those known
\* to be left out (LeftOut; two of them are what ModuleCodeKept and EveryRow ask
\* for), every passage points at the lines its text comes from and, where a
\* passage has one heading, is filed under it, but for the first section of
\* legifrance: no cut, merge or remainder of a parser loses a unit of a text or
\* gives it another place (rtfm/parsers, _chunking.py).
THEOREM PassagesHold ==
    Cut!PassagesAssumption => (ReadingSpec => []PassagesHoldTheFile)
  <1> SUFFICES ASSUME Cut!PassagesAssumption PROVE ReadingSpec => []PassagesHoldTheFile
    OBVIOUS
  <1> DEFINE Inv == part = "passages" => FileRead
  <1>1. ReadingInit => Inv
    BY InitRead DEF ReadingInit
  <1>2. Inv /\ [ReadingNext]_<<part, reading, vars, ofSelection>> => Inv'
    <2> SUFFICES ASSUME Inv, [ReadingNext]_<<part, reading, vars, ofSelection>>,
                        part' = "passages"
                 PROVE  FileRead'
      OBVIOUS
    <2>1. part = "passages" /\ FileRead /\ (Cut!Next \/ UNCHANGED reading)
      BY DEF ReadingNext
    <2>2. CASE Cut!Next
      BY <2>1, <2>2, NextRead
    <2>3. CASE UNCHANGED reading
      BY <2>1, <2>3 DEF FileRead
    <2>4. QED
      BY <2>1, <2>2, <2>3
  <1>3. Inv => PassagesHoldTheFile
    BY DEF PassagesHoldTheFile, Cut!PassagesHoldTheFile, FileRead, Whole
  <1>4. QED
    BY <1>1, <1>2, <1>3, PTL DEF ReadingSpec
=============================================================================
