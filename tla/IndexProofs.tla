----------------------------- MODULE IndexProofs ----------------------------
(***************************************************************************)
(* What holds of Index for any files, contents, naming rule, lanes and     *)
(* faults: the types of its state, that a path told to be up to date is    *)
(* found by what its file says, and that no two rows share a book.         *)
(***************************************************************************)
EXTENDS Index, FiniteSetTheorems, WellFoundedInduction, TLAPS

DiskOK == DOMAIN disk \subseteq Paths /\ \A p \in DOMAIN disk : disk[p] \in File
BooksOK ==
    /\ DOMAIN books \subseteq Slugs
    /\ \A s \in DOMAIN books : books[s] \in Book
TrackedOK ==
    /\ DOMAIN tracked \subseteq Paths
    /\ \A p \in DOMAIN tracked : tracked[p] \in Tracking
FailuresOK ==
    /\ DOMAIN failures \subseteq Paths
    /\ \A p \in DOMAIN failures : failures[p] \in Failure

-----------------------------------------------------------------------------
(* The types. *)

LEMMA Types ==
    TypeOK <=>
        /\ DiskOK /\ now \in Nat /\ BooksOK /\ TrackedOK /\ FailuresOK
        /\ pending \in SUBSET Request
        /\ lane \in [Lanes -> {Idle} \cup FileJob] /\ sole \in {Idle} \cup Scan \cup Repair
        /\ edits \in Nat /\ faults \in Nat /\ excused \in SUBSET Paths
  BY Zenon DEF TypeOK, DiskOK, BooksOK, TrackedOK, FailuresOK

LEMMA TypesNext ==
    TypeOK' <=>
        /\ DiskOK' /\ now' \in Nat /\ BooksOK' /\ TrackedOK' /\ FailuresOK'
        /\ pending' \in SUBSET Request
        /\ lane' \in [Lanes -> {Idle} \cup FileJob] /\ sole' \in {Idle} \cup Scan \cup Repair
        /\ edits' \in Nat /\ faults' \in Nat /\ excused' \in SUBSET Paths
  BY Zenon DEF TypeOK, DiskOK, BooksOK, TrackedOK, FailuresOK

LEMMA Unwritten ==
    /\ UNCHANGED disk /\ DiskOK => DiskOK'
    /\ UNCHANGED books /\ BooksOK => BooksOK'
    /\ UNCHANGED tracked /\ TrackedOK => TrackedOK'
    /\ UNCHANGED failures /\ FailuresOK => FailuresOK'
  BY DEF DiskOK, BooksOK, TrackedOK, FailuresOK

LEMMA InitTypes == Init => TypeOK /\ IsFiniteSet(DOMAIN books)
  <1> SUFFICES ASSUME Init PROVE TypeOK /\ IsFiniteSet(DOMAIN books)
    OBVIOUS
  <1>1. DOMAIN disk = {} /\ DOMAIN books = {} /\ DOMAIN tracked = {} /\ DOMAIN failures = {}
    BY DEF Init, Empty
  <1>2. DiskOK /\ BooksOK /\ TrackedOK /\ FailuresOK
    BY <1>1 DEF DiskOK, BooksOK, TrackedOK, FailuresOK
  <1>3. lane \in [Lanes -> {Idle} \cup FileJob]
    BY DEF Init
  <1>4. QED
    BY <1>1, <1>2, <1>3, Types, FS_EmptySet DEF Init

LEMMA NotIdle ==
    ASSUME TypeOK
    PROVE  /\ \A l \in Lanes : lane[l] # Idle => lane[l] \in FileJob
           /\ sole # Idle =>
                 /\ sole \in Scan \cup Repair
                 /\ sole.step \in {"diff", "move"} => sole \in Scan
                 /\ sole.step = "mend" => sole \in Repair
  BY Types DEF Scan, Repair

\* The three things a project may be doing by itself.
LEMMA Apart ==
    /\ Idle \notin Scan /\ Idle \notin Repair
    /\ sole \in Scan =>
          sole # Idle /\ sole.type = "scan" /\ sole.step \in {"diff", "move", "offer"}
    /\ sole \in Repair =>
          sole # Idle /\ sole.type = "reconcile" /\ sole.step = "mend" /\ sole \notin Scan
    /\ sole = Idle \/ sole \in Scan => Mending = {}
    /\ sole \in Repair => Mending = sole.again
  BY DEF Idle, Scan, Repair, Mending

\* A job that a lane turns to.
LEMMA Turned ==
    ASSUME TypeOK, NEW l, NEW job \in {Idle} \cup FileJob, lane' = [lane EXCEPT ![l] = job]
    PROVE  lane' \in [Lanes -> {Idle} \cup FileJob]
  BY Types

LEMMA EndType ==
    ASSUME TypeOK, NEW l \in Lanes, End(l)
    PROVE  lane' \in [Lanes -> {Idle} \cup FileJob]
  BY Turned DEF End

LEMMA GotoType ==
    ASSUME TypeOK, NEW l \in Lanes, lane[l] # Idle,
           NEW step \in {"parse", "write", "track", "book", "row"}, Goto(l, step)
    PROVE  lane' \in [Lanes -> {Idle} \cup FileJob]
  <1>1. lane[l] \in FileJob
    BY NotIdle
  <1>2. [lane[l] EXCEPT !.step = step] \in FileJob
    BY <1>1 DEF FileJob
  <1>3. lane' = [lane EXCEPT ![l] = [lane[l] EXCEPT !.step = step]]
    BY DEF Goto
  <1>4. QED
    BY <1>2, <1>3, Turned

LEMMA Least ==
    ASSUME NEW S, S \subseteq Nat, S # {}
    PROVE  \E m \in S : \A n \in S : m <= n
  <1>1. PICK R : IsWellFoundedOn(R, Nat) /\ \A i, j \in Nat : i < j => <<i, j>> \in R
    <2>1. \A i, j \in Nat : i < j => <<i, j>> \in OpToRel(<, Nat)
      BY DEF OpToRel
    <2>2. QED
      BY <2>1, NatLessThanWellFounded
  <1>2. IsWellFoundedOn(R, Nat)
    BY <1>1
  <1>3. PICK m \in S : \A n \in S : ~(<<n, m>> \in R)
    BY <1>2, WFMin, ZenonT(40)
  <1>4. \A n \in S : ~(n < m)
    BY <1>1, <1>3
  <1>5. QED
    BY <1>4

\* A number under which a path may have its book, and the least such.
LEMMA Allocated ==
    ASSUME TypeOK, IsFiniteSet(DOMAIN books), NEW p \in Paths
    PROVE  Allocate(p) \in Slugs /\ Owned(Allocate(p), p)
  <1> DEFINE c == Cardinality(DOMAIN books)
             base == SlugOf[p]
             T == {n \in 1 .. c + 1 : Owned(<<base, n>>, p)}
             n0 == CHOOSE n \in 1 .. c + 1 :
                      /\ Owned(<<base, n>>, p)
                      /\ \A m \in 1 .. n - 1 : ~Owned(<<base, m>>, p)
  <1>1. base \in Bases /\ c \in Nat
    BY FS_CardinalityType, IndexAssumption
  <1>2. T # {}
    <2> SUFFICES ASSUME \A n \in 1 .. c + 1 : <<base, n>> \in DOMAIN books PROVE FALSE
      BY DEF Owned
    <2> DEFINE f == [n \in 1 .. c + 1 |-> <<base, n>>]
    <2>1. f \in Injection(1 .. c + 1, DOMAIN books)
      BY DEF Injection, IsInjective
    <2>2. IsFiniteSet(1 .. c + 1) /\ Cardinality(1 .. c + 1) = c + 1
      BY <1>1, FS_Interval
    <2> HIDE DEF f
    <2>3. Cardinality(1 .. c + 1) <= Cardinality(DOMAIN books)
      BY <2>1, FS_Injection
    <2>4. QED
      BY <1>1, <2>2, <2>3
  <1>3. T \subseteq Nat
    OBVIOUS
  <1>4. PICK n \in T : \A m \in T : n <= m
    <2> HIDE DEF T
    <2>1. QED
      BY <1>2, <1>3, Least
  <1>5. /\ n \in 1 .. c + 1 /\ Owned(<<base, n>>, p)
        /\ \A m \in 1 .. n - 1 : ~Owned(<<base, m>>, p)
    <2>1. n \in Nat /\ n <= c + 1
      BY <1>1
    <2>2. ASSUME NEW m \in 1 .. n - 1, Owned(<<base, m>>, p) PROVE FALSE
      <3>1. m \in T /\ m \in Nat /\ m < n
        BY <1>1, <2>1, <2>2
      <3>2. QED
        BY <1>4, <2>1, <3>1
    <2>3. QED
      BY <2>2
  <1>6. n0 \in 1 .. c + 1 /\ Owned(<<base, n0>>, p)
    BY <1>5
  <1>7. Allocate(p) = <<base, n0>>
    BY DEF Allocate
  <1> HIDE DEF n0
  <1>8. n0 \in Nat \ {0}
    BY <1>1, <1>6
  <1>9. QED
    BY <1>1, <1>6, <1>7, <1>8 DEF Slugs
-----------------------------------------------------------------------------
(* What the types rest on. *)

SoleAlone ==
    /\ sole # Idle => LanesIdle
    /\ sole \in Scan =>
          /\ Matching(sole.moves)
          /\ \A m \in sole.moves :
                /\ m[1] \in DOMAIN tracked /\ tracked[m[1]].hash # NoHash
                /\ m[2] \notin DOMAIN tracked
LaneSteps ==
    \A l \in Lanes : lane[l] # Idle =>
        /\ Ingesting(l) <=> lane[l].step \in {"parse", "write", "track"}
        /\ Ingesting(l) => lane[l].type = "ingest"
        /\ lane[l].step = "write" => lane[l].text \notin Blank \cup {NoHash}
Base == TypeOK /\ IsFiniteSet(DOMAIN books) /\ SoleAlone /\ LaneSteps

LEMMA FileJobParts ==
    ASSUME NEW job \in FileJob
    PROVE  /\ job.type \in {"ingest", "remove"} /\ job.path \in Paths
           /\ job.slug \in Slugs /\ job.hash \in Hashes /\ job.text \in Hashes
           /\ job.step \in {"parse", "write", "track", "book", "row"}
           /\ job.retried \in BOOLEAN
           /\ <<job.type, job.path>> \in Request
  <1>1. /\ job.type \in {"ingest", "remove"} /\ job.path \in Paths
        /\ job.slug \in Slugs /\ job.hash \in Hashes /\ job.text \in Hashes
        /\ job.step \in {"parse", "write", "track", "book", "row"}
        /\ job.retried \in BOOLEAN
    BY DEF FileJob, Hashes
  <1>2. QED
    BY <1>1 DEF Request

LEMMA TakersType ==
    ASSUME TypeOK, NEW s, NEW p
    PROVE  Takers(s, p) \in SUBSET Paths
  <1>1. \A l \in Lanes : Ingesting(l) => lane[l].path \in Paths
    BY NotIdle, FileJobParts DEF Ingesting
  <1>2. DOMAIN tracked \subseteq Paths /\ \A t \in DOMAIN books : books[t].path \in Paths
    BY Types DEF TrackedOK, BooksOK, Book
  <1>3. QED
    BY <1>1, <1>2 DEF Takers

LEMMA ContestedType ==
    ASSUME TypeOK, NEW s, NEW p \in Paths
    PROVE  Contested(s, p) \in SUBSET Paths
  BY TakersType DEF Contested

LEMMA IdentityType ==
    ASSUME Base, NEW p \in Paths
    PROVE  Identity(p) \in Slugs
  <1>1. CASE p \in DOMAIN tracked
    BY <1>1, Types DEF Identity, Base, TrackedOK, Tracking
  <1>2. CASE p \notin DOMAIN tracked
    BY <1>2, Allocated DEF Identity, Base
  <1>3. QED
    BY <1>1, <1>2

\* A slug written over or added leaves the tables what they are.
LEMMA WithBook ==
    ASSUME BooksOK, IsFiniteSet(DOMAIN books), NEW s \in Slugs, NEW b \in Book,
           books' = With(books, s, b)
    PROVE  BooksOK' /\ IsFiniteSet(DOMAIN books')
  <1>1. DOMAIN books' = DOMAIN books \cup {s}
    BY DEF With
  <1>2. IsFiniteSet(DOMAIN books')
    BY <1>1, FS_AddElement
  <1>3. BooksOK'
    BY DEF With, BooksOK
  <1>4. QED
    BY <1>2, <1>3

LEMMA WithoutBooks ==
    ASSUME BooksOK, IsFiniteSet(DOMAIN books), NEW S, books' = Without(books, S)
    PROVE  BooksOK' /\ IsFiniteSet(DOMAIN books')
  <1>1. DOMAIN books' = DOMAIN books \ S
    BY DEF Without
  <1>2. IsFiniteSet(DOMAIN books')
    BY <1>1, FS_Subset
  <1>3. BooksOK'
    BY DEF Without, BooksOK
  <1>4. QED
    BY <1>2, <1>3

LEMMA WithRow ==
    ASSUME TrackedOK, NEW p \in Paths, NEW row \in Tracking, tracked' = With(tracked, p, row)
    PROVE  TrackedOK'
  BY DEF TrackedOK, With

LEMMA WithoutRows ==
    ASSUME TrackedOK, NEW S, tracked' = Without(tracked, S)
    PROVE  TrackedOK'
  BY DEF TrackedOK, Without

LEMMA FailuresChange ==
    ASSUME FailuresOK,
           \/ \E p \in Paths, row \in Failure : failures' = With(failures, p, row)
           \/ \E S \in SUBSET Paths : failures' = Without(failures, S)
    PROVE  FailuresOK'
  BY DEF FailuresOK, With, Without

\* The disk and the size of what is on it.
LEMMA DiskFile ==
    ASSUME TypeOK, NEW p \in DOMAIN disk
    PROVE  p \in Paths /\ disk[p] \in File /\ disk[p].content \in Contents
           /\ disk[p].mtime \in Nat /\ SizeOf[disk[p].content] \in Nat
  <1>1. p \in Paths /\ disk[p] \in File
    BY Types DEF DiskOK
  <1>2. QED
    BY <1>1, IndexAssumption DEF File

-----------------------------------------------------------------------------
(* The types, step by step. *)

TypesFor == TypeOK' /\ IsFiniteSet(DOMAIN books')

LEMMA DiskTypes ==
    ASSUME Base, Tick \/ Disk \/ AskScan \/ AskReconcile
    PROVE  TypesFor
  <1>1. /\ DiskOK /\ now \in Nat /\ edits \in Nat /\ pending \in SUBSET Request
        /\ excused \in SUBSET Paths /\ IsFiniteSet(DOMAIN books)
    BY Types DEF Base
  <1>2. /\ UNCHANGED <<books, tracked, failures, lane, sole, faults>>
        /\ DiskOK' /\ now' \in Nat /\ edits' \in Nat /\ pending' \in SUBSET Request
        /\ excused' \in SUBSET Paths
    <2>1. CASE Tick
      <3>1. now' = now + 1 /\ UNCHANGED <<disk, tables, pending, lane, sole, edits, faults, excused>>
        BY <2>1 DEF Tick
      <3>2. QED
        BY <1>1, <3>1, Unwritten DEF tables
    <2>2. ASSUME NEW p \in Paths, NEW c \in Contents, Edit(p, c)
          PROVE  /\ UNCHANGED <<books, tracked, failures, lane, sole, faults>>
                 /\ DiskOK' /\ now' \in Nat /\ edits' \in Nat /\ pending' \in SUBSET Request
                 /\ excused' \in SUBSET Paths
      <3>1. [content |-> c, mtime |-> now] \in File
        BY <1>1 DEF File
      <3>2. DiskOK'
        BY <1>1, <2>2, <3>1 DEF Edit, DiskOK, With
      <3>3. pending' \in SUBSET Request
        BY <1>1, <2>2 DEF Edit, Request
      <3>4. edits' \in Nat /\ UNCHANGED <<now, books, tracked, failures, lane, sole, faults>>
        BY <1>1, <2>2 DEF Edit, tables
      <3>5. excused' \in SUBSET Paths
        BY <1>1, <2>2 DEF Edit
      <3>6. QED
        BY <1>1, <3>2, <3>3, <3>4, <3>5
    <2>3. ASSUME NEW p \in Paths, Delete(p)
          PROVE  /\ UNCHANGED <<books, tracked, failures, lane, sole, faults>>
                 /\ DiskOK' /\ now' \in Nat /\ edits' \in Nat /\ pending' \in SUBSET Request
                 /\ excused' \in SUBSET Paths
      <3>1. DiskOK'
        BY <1>1, <2>3 DEF Delete, DiskOK, Without
      <3>2. pending' \in SUBSET Request
        BY <1>1, <2>3 DEF Delete, Request
      <3>3. edits' \in Nat /\ UNCHANGED <<now, books, tracked, failures, lane, sole, faults, excused>>
        BY <1>1, <2>3 DEF Delete, tables
      <3>4. QED
        BY <1>1, <3>1, <3>2, <3>3
    <2>4. ASSUME NEW p \in Paths, NEW q \in Paths, Rename(p, q)
          PROVE  /\ UNCHANGED <<books, tracked, failures, lane, sole, faults>>
                 /\ DiskOK' /\ now' \in Nat /\ edits' \in Nat /\ pending' \in SUBSET Request
                 /\ excused' \in SUBSET Paths
      <3>1. DiskOK'
        BY <1>1, <2>4 DEF Rename, DiskOK, With, Without
      <3>2. excused' \in SUBSET Paths
        BY <1>1, <2>4 DEF Rename
      <3>3. edits' \in Nat /\ UNCHANGED <<now, books, tracked, failures, lane, sole, faults, pending>>
        BY <1>1, <2>4 DEF Rename, tables
      <3>4. QED
        BY <1>1, <3>1, <3>2, <3>3
    <2>5. CASE AskScan \/ AskReconcile
      <3>1. /\ pending' \in SUBSET Request
            /\ UNCHANGED <<disk, now, tables, lane, sole, edits, faults, excused>>
        BY <1>1, <2>5 DEF AskScan, AskReconcile, Request
      <3>2. QED
        BY <1>1, <3>1, Unwritten DEF tables
    <2>6. QED
      BY <2>1, <2>2, <2>3, <2>4, <2>5 DEF Disk
  <1>3. QED
    BY <1>1, <1>2, Types, TypesNext, Unwritten DEF Base, TypesFor

LEMMA NewJobType ==
    ASSUME NEW type \in {"ingest", "remove"}, NEW p \in Paths, NEW slug \in Slugs,
           NEW step \in {"parse", "write", "track", "book", "row"}, NEW hash \in Hashes
    PROVE  NewJob(type, p, step, slug, hash) \in FileJob
  BY DEF NewJob, FileJob, Hashes

LEMMA PlainSlug ==
    ASSUME NEW p \in Paths PROVE <<SlugOf[p], 1>> \in Slugs
  BY IndexAssumption DEF Slugs

LEMMA JoinedType ==
    ASSUME TypeOK, NEW p \in Paths PROVE Joined(p) \in SUBSET Paths
  BY Types DEF Joined

\* The parts of the state that no job of a lane touches.
LEMMA LaneTypes ==
    ASSUME Base, UNCHANGED <<disk, now, sole, edits, faults>>,
           BooksOK', IsFiniteSet(DOMAIN books'), TrackedOK', FailuresOK',
           pending' \in SUBSET Request, lane' \in [Lanes -> {Idle} \cup FileJob],
           excused' \in SUBSET Paths
    PROVE  TypesFor
  BY Types, TypesNext, Unwritten DEF Base, TypesFor

LEMMA IngestTypes ==
    ASSUME Base, NEW l \in Lanes, Ingest(l)
    PROVE  TypesFor
  <1>1. /\ TypeOK /\ DiskOK /\ now \in Nat /\ BooksOK /\ TrackedOK /\ FailuresOK
        /\ pending \in SUBSET Request /\ excused \in SUBSET Paths /\ IsFiniteSet(DOMAIN books)
        /\ lane \in [Lanes -> {Idle} \cup FileJob]
    BY Types DEF Base
  <1>2. ASSUME NEW p \in Paths, IngestRead(l, p) PROVE TypesFor
    <2>1. pending' \in SUBSET Request
      BY <1>1, <1>2 DEF IngestRead, Start
    <2>2. excused' \in SUBSET Paths
      <3>1. Joined(p) \in SUBSET Paths /\ Contested(Identity(p), p) \in SUBSET Paths
        BY <1>1, JoinedType, ContestedType
      <3>2. excused' = Joined(p) \cup Contested(Identity(p), p) \/ excused' = Joined(p)
        BY <1>2 DEF IngestRead
      <3>3. QED
        BY <3>1, <3>2
    <2>3. lane' \in [Lanes -> {Idle} \cup FileJob]
      <3>1. CASE p \in DOMAIN disk
        <4> DEFINE job == NewJob("ingest", p, "parse", Identity(p), disk[p].content)
        <4>1. job \in FileJob
          BY <1>1, <3>1, IdentityType, DiskFile, NewJobType DEF Hashes
        <4>2. lane' = [lane EXCEPT ![l] = job]
          BY <1>2, <3>1 DEF IngestRead
        <4> HIDE DEF job
        <4>3. QED
          BY <1>1, <4>1, <4>2, Turned
      <3>2. CASE p \notin DOMAIN disk
        <4> DEFINE job == NewJob("ingest", p, "book", <<SlugOf[p], 1>>, NoHash)
        <4>1. job \in FileJob
          BY PlainSlug, NewJobType DEF Hashes
        <4>2. lane' = [lane EXCEPT ![l] = job]
          BY <1>2, <3>2 DEF IngestRead
        <4> HIDE DEF job
        <4>3. QED
          BY <1>1, <4>1, <4>2, Turned
      <3>3. QED
        BY <3>1, <3>2
    <2>4. UNCHANGED <<disk, now, books, tracked, failures, sole, edits, faults>>
      BY <1>2 DEF IngestRead, tables
    <2>5. QED
      BY <1>1, <2>1, <2>2, <2>3, <2>4, Unwritten, LaneTypes
  <1>3. ASSUME lane[l] # Idle
        PROVE  /\ lane[l] \in FileJob /\ lane[l].path \in Paths /\ lane[l].slug \in Slugs
               /\ lane[l].hash \in Hashes /\ lane[l].text \in Hashes
    BY <1>1, <1>3, NotIdle, FileJobParts
  <1>4. CASE IngestParse(l)
    <2> DEFINE c == disk[lane[l].path].content
               job == [lane[l] EXCEPT !.step = IF c \in Blank THEN "track" ELSE "write",
                                      !.text = IF c \in Blank THEN NoHash ELSE c]
    <2>1. lane[l] \in FileJob /\ c \in Contents
      BY <1>1, <1>3, <1>4, DiskFile DEF IngestParse
    <2>2. lane' = [lane EXCEPT ![l] = job]
      BY <1>4, Zenon DEF IngestParse
    <2> HIDE DEF c
    <2>3. job \in FileJob
      BY <2>1 DEF FileJob, Hashes
    <2> HIDE DEF job
    <2>4. lane' \in [Lanes -> {Idle} \cup FileJob]
      BY <1>1, <2>2, <2>3, Turned
    <2>5. UNCHANGED <<disk, now, books, tracked, failures, pending, sole, edits, faults, excused>>
      BY <1>4 DEF IngestParse, tables
    <2>6. QED
      BY <1>1, <2>4, <2>5, Unwritten, LaneTypes
  <1>5. CASE IngestFails(l)
    <2> DEFINE p == lane[l].path
               gone == p \notin DOMAIN disk
               row == [hash |-> lane[l].hash, at |-> now,
                       size |-> IF gone THEN 0 ELSE SizeOf[disk[p].content]]
    <2>1. lane[l] # Idle /\ End(l) /\ UNCHANGED <<disk, now, books, tracked, sole, edits, faults>>
      BY <1>5 DEF IngestFails
    <2>2. p \in Paths /\ lane[l].hash \in Hashes
      BY <1>3, <2>1
    <2>3. row \in Failure
      BY <1>1, <2>2, DiskFile DEF Failure
    <2>4. CASE AskAgain(l)
      <3>1. /\ pending' = pending \cup {<<"ingest", p>>}
            /\ UNCHANGED <<failures, excused>>
        BY <2>4 DEF AskAgain
      <3>2. pending' \in SUBSET Request
        BY <1>1, <2>2, <3>1 DEF Request
      <3>3. QED
        BY <1>1, <2>1, <3>1, <3>2, EndType, Unwritten, LaneTypes
    <2>5. CASE RecordFailure(l, gone)
      <3>1. failures' = With(failures, p, row) /\ excused' \in {excused \cup {p}, excused}
            /\ UNCHANGED pending
        BY <2>5 DEF RecordFailure
      <3> HIDE DEF row
      <3>2. FailuresOK' /\ excused' \in SUBSET Paths
        BY <1>1, <2>2, <2>3, <3>1, FailuresChange
      <3>3. QED
        BY <1>1, <2>1, <3>1, <3>2, EndType, Unwritten, LaneTypes
    <2>6. QED
      BY <1>5, <2>4, <2>5 DEF IngestFails
  <1>6. CASE IngestWrite(l)
    <2> DEFINE s == lane[l].slug
               b == [path |-> lane[l].path, chunks |-> {[text |-> lane[l].text, slug |-> s]}]
    <2>1. /\ lane[l] # Idle /\ lane[l].step = "write"
          /\ UNCHANGED <<disk, now, tracked, failures, pending, sole, edits, faults>>
      BY <1>6 DEF IngestWrite
    <2>2. /\ lane[l] \in FileJob /\ lane[l].path \in Paths /\ s \in Slugs
          /\ lane[l].text \in Contents
      BY <1>3, <2>1 DEF Base, LaneSteps, Hashes
    <2>3. CASE WriteBook(l)
      <3>1. books' = With(books, s, b) /\ Goto(l, "track") /\ UNCHANGED excused
        BY <2>3 DEF WriteBook
      <3>2. b \in Book
        BY <2>2 DEF Book, Chunk
      <3> HIDE DEF b
      <3>3. BooksOK' /\ IsFiniteSet(DOMAIN books')
        BY <1>1, <2>2, <3>1, <3>2, WithBook
      <3>4. lane' \in [Lanes -> {Idle} \cup FileJob]
        BY <1>1, <2>1, <3>1, GotoType
      <3>5. QED
        BY <1>1, <2>1, <3>1, <3>3, <3>4, Unwritten, LaneTypes
    <2>4. CASE LoseSlug(l)
      <3> DEFINE t == Allocate(lane[l].path)
                 job == [lane[l] EXCEPT !.slug = t, !.step = "parse", !.retried = TRUE]
      <3>1. t \in Slugs
        BY <1>1, <2>2, Allocated
      <3>2. /\ lane' = [lane EXCEPT ![l] = job]
            /\ excused' = excused \cup Contested(t, lane[l].path) /\ UNCHANGED books
        BY <2>4, Zenon DEF LoseSlug
      <3> HIDE DEF t
      <3>3. job \in FileJob
        BY <2>2, <3>1 DEF FileJob
      <3> HIDE DEF job
      <3>4. excused' \in SUBSET Paths
        BY <1>1, <2>2, <3>2, ContestedType
      <3>5. QED
        BY <1>1, <2>1, <3>2, <3>3, <3>4, Turned, Unwritten, LaneTypes
    <2>5. QED
      BY <1>6, <2>3, <2>4 DEF IngestWrite
  <1>7. CASE IngestTrack(l)
    <2> DEFINE p == lane[l].path
               row == [hash |-> lane[l].hash, slug |-> lane[l].slug,
                       size |-> SizeOf[disk[p].content], at |-> now]
    <2>1. /\ lane[l] # Idle /\ p \in DOMAIN disk /\ End(l)
          /\ tracked' = With(tracked, p, row) /\ failures' = Without(failures, {p})
          /\ excused' \in {excused \ {p}, excused \cup {p}}
          /\ UNCHANGED <<disk, now, books, pending, sole, edits, faults>>
      BY <1>7 DEF IngestTrack
    <2>2. p \in Paths /\ lane[l].hash \in Hashes /\ lane[l].slug \in Slugs
      BY <1>3, <2>1
    <2>3. row \in Tracking
      BY <1>1, <2>1, <2>2, DiskFile DEF Tracking
    <2> HIDE DEF row
    <2>4. TrackedOK' /\ FailuresOK' /\ excused' \in SUBSET Paths
      <3>1. TrackedOK'
        BY <1>1, <2>1, <2>2, <2>3, WithRow
      <3>2. FailuresOK'
        BY <1>1, <2>1, <2>2, FailuresChange
      <3>3. QED
        BY <1>1, <2>1, <2>2, <3>1, <3>2
    <2>5. QED
      BY <1>1, <2>1, <2>4, EndType, Unwritten, LaneTypes
  <1>8. CASE IngestUntracked(l)
    <2>1. /\ lane[l] # Idle /\ End(l)
          /\ excused' \in {excused \cup {lane[l].path}, excused}
          /\ UNCHANGED <<disk, now, books, tracked, failures, pending, sole, edits, faults>>
      BY <1>8 DEF IngestUntracked, tables
    <2>2. excused' \in SUBSET Paths
      BY <1>1, <1>3, <2>1
    <2>3. QED
      BY <1>1, <2>1, <2>2, EndType, Unwritten, LaneTypes
  <1>9. QED
    BY <1>2, <1>4, <1>5, <1>6, <1>7, <1>8 DEF Ingest

LEMMA RemoveTypes ==
    ASSUME Base, NEW l \in Lanes, Remove(l)
    PROVE  TypesFor
  <1>1. /\ TypeOK /\ DiskOK /\ now \in Nat /\ BooksOK /\ TrackedOK /\ FailuresOK
        /\ pending \in SUBSET Request /\ excused \in SUBSET Paths /\ IsFiniteSet(DOMAIN books)
        /\ lane \in [Lanes -> {Idle} \cup FileJob]
    BY Types DEF Base
  <1>2. ASSUME NEW p \in Paths, RemoveLook(l, p) PROVE TypesFor
    <2> DEFINE job == NewJob("remove", p, "book", <<SlugOf[p], 1>>, NoHash)
    <2>1. pending' \in SUBSET Request
      BY <1>1, <1>2 DEF RemoveLook, Start
    <2>2. job \in FileJob
      BY PlainSlug, NewJobType DEF Hashes
    <2>3. /\ lane' = lane \/ lane' = [lane EXCEPT ![l] = job]
          /\ excused' = Joined(p)
          /\ UNCHANGED <<disk, now, books, tracked, failures, sole, edits, faults>>
      BY <1>2 DEF RemoveLook, tables
    <2> HIDE DEF job
    <2>4. lane' \in [Lanes -> {Idle} \cup FileJob]
      BY <1>1, <2>2, <2>3, Turned
    <2>5. QED
      BY <1>1, <2>1, <2>3, <2>4, JoinedType, Unwritten, LaneTypes
  <1>3. CASE RemoveBook(l)
    <2>1. /\ lane[l] # Idle
          /\ UNCHANGED <<disk, now, tracked, failures, pending, sole, edits, faults, excused>>
          /\ \/ /\ books' = Without(books, {tracked[lane[l].path].slug}) /\ Goto(l, "row")
             \/ books' = books /\ End(l)
      BY <1>3 DEF RemoveBook
    <2>2. BooksOK' /\ IsFiniteSet(DOMAIN books')
      BY <1>1, <2>1, WithoutBooks, Unwritten
    <2>3. lane' \in [Lanes -> {Idle} \cup FileJob]
      BY <1>1, <2>1, GotoType, EndType
    <2>4. QED
      BY <1>1, <2>1, <2>2, <2>3, Unwritten, LaneTypes
  <1>4. CASE RemoveRow(l)
    <2>1. /\ tracked' = Without(tracked, {lane[l].path}) /\ End(l)
          /\ UNCHANGED <<disk, now, books, failures, pending, sole, edits, faults, excused>>
      BY <1>4 DEF RemoveRow
    <2>2. TrackedOK'
      BY <1>1, <2>1, WithoutRows
    <2>3. QED
      BY <1>1, <2>1, <2>2, EndType, Unwritten, LaneTypes
  <1>5. QED
    BY <1>2, <1>3, <1>4 DEF Remove

LEMMA ScanTypes ==
    ASSUME Base, ScanList \/ ScanDiff \/ ScanOffer
    PROVE  TypesFor
  <1>1. /\ TypeOK /\ DiskOK /\ now \in Nat /\ BooksOK /\ TrackedOK /\ FailuresOK
        /\ pending \in SUBSET Request /\ excused \in SUBSET Paths /\ IsFiniteSet(DOMAIN books)
        /\ lane \in [Lanes -> {Idle} \cup FileJob] /\ sole \in {Idle} \cup Scan \cup Repair
        /\ edits \in Nat /\ faults \in Nat
    BY Types DEF Base
  <1>2. SUFFICES /\ UNCHANGED <<disk, now, books, tracked, failures, lane, edits, faults, excused>>
                 /\ pending' \in SUBSET Request /\ sole' \in {Idle} \cup Scan \cup Repair
    BY <1>1, Unwritten, Types, TypesNext DEF TypesFor
  <1>3. CASE ScanList
    <2>1. DOMAIN disk \in SUBSET Paths
      BY <1>1 DEF DiskOK
    <2>2. sole' \in Scan
      BY <1>3, <2>1 DEF ScanList, Scan
    <2>3. QED
      BY <1>1, <1>3, <2>2 DEF ScanList, tables
  <1>4. CASE ScanDiff
    <2> DEFINE seen == sole.listed \cap DOMAIN disk
    <2>1. PICK M \in Matchings(seen) :
             sole' = [sole EXCEPT !.step = "move", !.moves = M,
                          !.gone = Gone(seen) \ {m[1] : m \in M},
                          !.offer = (Added(seen) \ {m[2] : m \in M}) \cup Modified(seen)]
      BY <1>4 DEF ScanDiff
    <2>2. sole \in Scan
      BY <1>1, <1>4, NotIdle DEF ScanDiff
    <2>3. Gone(seen) \in SUBSET Paths /\ Added(seen) \in SUBSET Paths /\ Modified(seen) \in SUBSET Paths
      BY <1>1 DEF Gone, Added, Modified, DiskOK, TrackedOK
    <2>4. M \in SUBSET (Paths \X Paths)
      BY <2>3 DEF Matchings, Pairs
    <2> HIDE DEF seen
    <2> DEFINE g == Gone(seen) \ {m[1] : m \in M}
               o == (Added(seen) \ {m[2] : m \in M}) \cup Modified(seen)
    <2>5. g \in SUBSET Paths /\ o \in SUBSET Paths
      BY <2>3
    <2>6. sole' = [sole EXCEPT !.step = "move", !.moves = M, !.gone = g, !.offer = o]
      BY <2>1, Zenon
    <2> HIDE DEF g, o
    <2>7. sole' \in Scan
      BY <2>2, <2>4, <2>5, <2>6 DEF Scan
    <2>8. QED
      BY <1>1, <1>4, <2>7 DEF ScanDiff, tables
  <1>5. CASE ScanOffer
    <2>1. sole \in Scan
      BY <1>1, <1>5, NotIdle DEF ScanOffer
    <2>2. sole.gone \in SUBSET Paths /\ sole.offer \in SUBSET Paths
      BY <2>1 DEF Scan
    <2>3. pending' \in SUBSET Request
      BY <1>1, <1>5, <2>2 DEF ScanOffer, Request
    <2>4. QED
      BY <1>1, <1>5, <2>3 DEF ScanOffer, tables
  <1>6. QED
    BY <1>3, <1>4, <1>5

\* move_file leaves either everything or the two tables as they should be.
LEMMA MoveTypes ==
    ASSUME Base, NEW p \in DOMAIN tracked, NEW q \in Paths, MoveFile(p, q)
    PROVE  BooksOK' /\ IsFiniteSet(DOMAIN books') /\ TrackedOK' /\ excused' \in SUBSET Paths
  <1> DEFINE row == tracked[p]
             slug == <<SlugOf[q], 1>>
             others == Takers(slug, q) \ {p}
             new == [hash |-> row.hash, slug |-> slug, size |-> row.size,
                     at |-> now + UTCAhead]
  <1>1. /\ TypeOK /\ now \in Nat /\ BooksOK /\ TrackedOK
        /\ excused \in SUBSET Paths /\ IsFiniteSet(DOMAIN books)
    BY Types DEF Base
  <1>2. /\ p \in Paths /\ row \in Tracking /\ slug \in Slugs /\ others \in SUBSET Paths
    BY <1>1, PlainSlug, TakersType DEF TrackedOK
  <1>3. CASE UNCHANGED <<books, tracked>> /\ excused' = excused \cup {p, q}
    BY <1>1, <1>2, <1>3, Unwritten
  <1>4. CASE /\ books' \in {books, Renamed(row.slug, slug, q)}
             /\ row.slug \notin DOMAIN books => books' = books
             /\ tracked' = With(Without(tracked, {p}), q, new)
             /\ excused' \in {excused \cup others \cup {q}, excused \cup others}
    <2>1. new \in Tracking
      BY <1>1, <1>2, IndexAssumption DEF Tracking
    <2> HIDE DEF new
    <2>2. TrackedOK'
      BY <1>1, <1>4, <2>1 DEF TrackedOK, With, Without
    <2>3. BooksOK' /\ IsFiniteSet(DOMAIN books')
      <3>1. CASE books' = books
        BY <1>1, <3>1, Unwritten
      <3>2. CASE row.slug \in DOMAIN books /\ books' = Renamed(row.slug, slug, q)
        <4> DEFINE b == books[row.slug]
        <4>1. b \in Book
          BY <1>1, <3>2 DEF BooksOK
        <4>2. DOMAIN books' = (DOMAIN books \ {row.slug}) \cup {slug}
          BY <3>2 DEF Renamed
        <4>3. IsFiniteSet(DOMAIN books')
          <5>1. IsFiniteSet(DOMAIN books \ {row.slug})
            BY <1>1, FS_Subset
          <5> DEFINE D == DOMAIN books \ {row.slug}
          <5> HIDE DEF D
          <5>2. IsFiniteSet(D \cup {slug})
            BY <5>1, FS_AddElement DEF D
          <5>3. QED
            BY <4>2, <5>2 DEF D
        <4>4. [b EXCEPT !.path = q] \in Book
          BY <4>1 DEF Book
        <4> HIDE DEF b
        <4>5. \A s \in DOMAIN books' :
                 books'[s] = IF s = slug THEN [b EXCEPT !.path = q] ELSE books[s]
          BY <3>2 DEF Renamed, b
        <4>6. BooksOK'
          BY <1>1, <1>2, <4>2, <4>4, <4>5 DEF BooksOK
        <4>7. QED
          BY <4>3, <4>6
      <3>3. QED
        BY <1>4, <3>1, <3>2
    <2>4. excused' \in SUBSET Paths
      BY <1>1, <1>2, <1>4
    <2>5. QED
      BY <2>2, <2>3, <2>4
  <1>5. QED
    BY <1>3, <1>4, Zenon DEF MoveFile

LEMMA ScanMoveTypes ==
    ASSUME Base, ScanMove
    PROVE  TypesFor
  <1>1. /\ TypeOK /\ DiskOK /\ now \in Nat /\ FailuresOK /\ pending \in SUBSET Request
        /\ lane \in [Lanes -> {Idle} \cup FileJob] /\ edits \in Nat /\ faults \in Nat
    BY Types DEF Base
  <1>2. PICK m \in sole.moves : MoveFile(m[1], m[2]) /\ sole' = [sole EXCEPT !.moves = @ \ {m}]
    BY DEF ScanMove
  <1>3. sole \in Scan /\ sole # Idle
    BY <1>1, NotIdle DEF ScanMove
  <1>4. m \in Paths \X Paths /\ m[1] \in DOMAIN tracked
    BY <1>2, <1>3 DEF Base, SoleAlone, Scan
  <1>5. BooksOK' /\ IsFiniteSet(DOMAIN books') /\ TrackedOK' /\ excused' \in SUBSET Paths
    BY <1>2, <1>4, MoveTypes
  <1>6. sole' \in Scan
    BY <1>2, <1>3 DEF Scan
  <1>7. UNCHANGED <<disk, now, failures, pending, lane, edits, faults>>
    BY DEF ScanMove
  <1>8. QED
    BY <1>1, <1>5, <1>6, <1>7, Unwritten, TypesNext DEF TypesFor

LEMMA ReconcileTypes ==
    ASSUME Base, Reconcile
    PROVE  TypesFor
  <1>1. /\ TypeOK /\ DiskOK /\ now \in Nat /\ BooksOK /\ TrackedOK /\ FailuresOK
        /\ pending \in SUBSET Request /\ excused \in SUBSET Paths /\ IsFiniteSet(DOMAIN books)
        /\ lane \in [Lanes -> {Idle} \cup FileJob] /\ sole \in {Idle} \cup Scan \cup Repair
        /\ edits \in Nat /\ faults \in Nat
    BY Types DEF Base
  <1>2. \A s \in DOMAIN books : books[s] \in Book /\ books[s].path \in Paths /\ s \in Slugs
    BY <1>1 DEF BooksOK, Book
  <1>3. SUFFICES /\ BooksOK' /\ IsFiniteSet(DOMAIN books') /\ TrackedOK'
                 /\ pending' \in SUBSET Request /\ excused' \in SUBSET Paths
                 /\ sole' \in {Idle} \cup Scan \cup Repair
    <2>1. UNCHANGED <<disk, now, failures, lane, edits, faults>>
      BY DEF Reconcile, ReconcilePurge, ReconcileMend, ReconcileQueue, tables
    <2>2. QED
      BY <1>1, <1>3, <2>1, Unwritten, TypesNext DEF TypesFor
  <1>4. CASE ReconcilePurge
    <2>1. DOMAIN books' = DOMAIN books
      BY <1>4 DEF ReconcilePurge, Purged
    <2>2. ASSUME NEW s \in DOMAIN books PROVE books'[s] \in Book
      <3> DEFINE C == {c \in books[s].chunks : Begins(s, c.slug)}
      <3>1. C \in SUBSET Chunk
        BY <1>2 DEF Book
      <3>2. books'[s] = [books[s] EXCEPT !.chunks = C]
        BY <1>4 DEF ReconcilePurge, Purged
      <3> HIDE DEF C
      <3>3. QED
        BY <1>2, <3>1, <3>2 DEF Book
    <2>3. BooksOK' /\ IsFiniteSet(DOMAIN books')
      BY <1>1, <1>2, <2>1, <2>2 DEF BooksOK
    <2>4. excused' \in SUBSET Paths
      BY <1>1, <1>2, <1>4 DEF ReconcilePurge, Fossilised
    <2>5. sole' \in Repair /\ pending' \in SUBSET Request
      BY <1>1, <1>4 DEF ReconcilePurge, Repair
    <2>6. UNCHANGED tracked
      BY <1>4 DEF ReconcilePurge
    <2>7. QED
      BY <1>1, <2>3, <2>4, <2>5, <2>6, Unwritten
  <1>5. CASE ReconcileMend
    <2>1. PICK s \in Orphans : Mend(s)
      BY <1>5 DEF ReconcileMend
    <2>2. /\ sole \in Repair /\ s \in Slugs /\ books[s].path \in Paths
          /\ UNCHANGED <<pending, excused>>
      BY <1>1, <1>2, <1>5, NotIdle DEF ReconcileMend, Orphans
    <2> DEFINE p == books[s].path
               row == [hash |-> NoHash, size |-> 0, at |-> now, slug |-> s]
    <2>3. CASE /\ tracked' = With(tracked, p, row) /\ UNCHANGED books
               /\ sole' = [sole EXCEPT !.again = @ \cup {p}]
      <3>1. row \in Tracking
        BY <1>1, <2>2 DEF Tracking, Hashes
      <3>2. sole' \in Repair
        BY <2>2, <2>3 DEF Repair
      <3> HIDE DEF row
      <3>3. TrackedOK'
        BY <1>1, <2>2, <2>3, <3>1, WithRow
      <3>4. QED
        BY <1>1, <2>2, <2>3, <3>2, <3>3, Unwritten
    <2>4. CASE books' = Without(books, {s}) /\ UNCHANGED <<tracked, sole>>
      BY <1>1, <2>2, <2>4, WithoutBooks, Unwritten
    <2>5. QED
      BY <2>1, <2>3, <2>4, Zenon DEF Mend
  <1>6. CASE ReconcileQueue
    <2>1. sole \in Repair /\ sole.again \in SUBSET Paths
      BY <1>1, <1>6, NotIdle DEF ReconcileQueue, Repair
    <2>2. pending' \in SUBSET Request
      BY <1>1, <1>6, <2>1 DEF ReconcileQueue, Request
    <2>3. QED
      BY <1>1, <1>6, <2>2, Unwritten DEF ReconcileQueue, tables
  <1>7. QED
    BY <1>4, <1>5, <1>6 DEF Reconcile

LEMMA CrashTypes ==
    ASSUME Base, Crash
    PROVE  TypesFor
  <1>1. /\ TypeOK /\ DiskOK /\ now \in Nat /\ BooksOK /\ TrackedOK /\ FailuresOK
        /\ pending \in SUBSET Request /\ excused \in SUBSET Paths /\ IsFiniteSet(DOMAIN books)
        /\ edits \in Nat /\ faults \in Nat
    BY Types DEF Base
  <1>2. \A l \in Lanes : lane[l] # Idle =>
           lane[l].path \in Paths /\ <<lane[l].type, lane[l].path>> \in Request
    BY <1>1, NotIdle, FileJobParts
  <1>3. pending' \in SUBSET Request
    <2>1. {<<lane[l].type, lane[l].path>> : l \in {k \in Lanes : lane[k] # Idle}} \subseteq Request
      BY <1>2
    <2>2. (IF sole # Idle THEN {<<sole.type>>} ELSE {}) \subseteq Request
      BY <1>1, NotIdle DEF Request, Scan, Repair
    <2>3. QED
      BY <1>1, <2>1, <2>2 DEF Crash
  <1>4. excused' \in SUBSET Paths
    <2>1. Mending \subseteq Paths
      BY <1>1, NotIdle DEF Mending, Scan, Repair
    <2>2. QED
      BY <1>1, <1>2, <2>1 DEF Crash
  <1>5. lane' \in [Lanes -> {Idle} \cup FileJob] /\ sole' \in {Idle} \cup Scan \cup Repair /\ faults' \in Nat
    BY <1>1 DEF Crash
  <1>6. UNCHANGED <<disk, now, books, tracked, failures, edits>>
    BY DEF Crash, tables
  <1>7. QED
    BY <1>1, <1>3, <1>4, <1>5, <1>6, Unwritten, TypesNext DEF TypesFor

-----------------------------------------------------------------------------
(* A scan stays alone, and a job keeps to its steps. *)

Steady(job) ==
    job # Idle =>
        /\ job.hash # NoHash <=> job.step \in {"parse", "write", "track"}
        /\ job.hash # NoHash => job.type = "ingest"
        /\ job.step = "write" => job.text \notin Blank \cup {NoHash}

LEMMA StepsSteady == LaneSteps <=> \A l \in Lanes : Steady(lane[l])
  BY DEF LaneSteps, Steady, Ingesting

LEMMA StepsSteadyNext == LaneSteps' <=> \A l \in Lanes : Steady(lane'[l])
  BY DEF LaneSteps, Steady, Ingesting

LEMMA TurnedSteady ==
    ASSUME TypeOK, LaneSteps, NEW l \in Lanes, NEW job, Steady(job),
           lane' = [lane EXCEPT ![l] = job]
    PROVE  LaneSteps'
  <1>1. lane \in [Lanes -> {Idle} \cup FileJob]
    BY Types
  <1>2. \A k \in Lanes : lane'[k] = IF k = l THEN job ELSE lane[k]
    BY <1>1
  <1>3. QED
    BY <1>2, StepsSteady, StepsSteadyNext

LEMMA NewJobSteady ==
    ASSUME NEW type, NEW p, NEW step, NEW slug, NEW hash,
           \/ type = "ingest" /\ step = "parse" /\ hash # NoHash
           \/ step = "book" /\ hash = NoHash
    PROVE  Steady(NewJob(type, p, step, slug, hash))
  BY DEF Steady, NewJob

LEMMA IngestSteps ==
    ASSUME Base, NEW l \in Lanes, Ingest(l)
    PROVE  LaneSteps' /\ sole = Idle /\ sole' = Idle
  <1>1. TypeOK /\ LaneSteps /\ lane \in [Lanes -> {Idle} \cup FileJob] /\ DiskOK
    BY Types DEF Base
  <1>2. UNCHANGED sole
    BY DEF Ingest, IngestRead, IngestParse, IngestFails, IngestWrite, IngestTrack, IngestUntracked
  <1>3. sole = Idle
    <2>1. CASE lane[l] # Idle
      BY <2>1 DEF Base, SoleAlone, LanesIdle
    <2>2. CASE lane[l] = Idle
      BY <2>2 DEF Ingest, IngestRead, Start, IngestParse, IngestFails, IngestWrite, IngestTrack,
                  IngestUntracked
    <2>3. QED
      BY <2>1, <2>2
  <1>4. ASSUME NEW p \in Paths, IngestRead(l, p) PROVE LaneSteps'
    <2>1. CASE p \in DOMAIN disk
      <3> DEFINE job == NewJob("ingest", p, "parse", Identity(p), disk[p].content)
      <3>1. Steady(job)
        BY <1>1, <2>1, DiskFile, IndexAssumption, NewJobSteady
      <3>2. lane' = [lane EXCEPT ![l] = job]
        BY <1>4, <2>1 DEF IngestRead
      <3> HIDE DEF job
      <3>3. QED
        BY <1>1, <3>1, <3>2, TurnedSteady
    <2>2. CASE p \notin DOMAIN disk
      <3> DEFINE job == NewJob("ingest", p, "book", <<SlugOf[p], 1>>, NoHash)
      <3>1. Steady(job)
        BY NewJobSteady
      <3>2. lane' = [lane EXCEPT ![l] = job]
        BY <1>4, <2>2 DEF IngestRead
      <3> HIDE DEF job
      <3>3. QED
        BY <1>1, <3>1, <3>2, TurnedSteady
    <2>3. QED
      BY <2>1, <2>2
  <1>5. ASSUME lane[l] # Idle PROVE lane[l] \in FileJob /\ Steady(lane[l])
    BY <1>1, <1>5, NotIdle, StepsSteady
  <1>6. ASSUME End(l) PROVE LaneSteps'
    <2>1. Steady(Idle)
      BY DEF Steady
    <2>2. QED
      BY <1>1, <1>6, <2>1, TurnedSteady DEF End
  <1>7. ASSUME IngestParse(l) PROVE LaneSteps'
    <2> DEFINE c == disk[lane[l].path].content
               job == [lane[l] EXCEPT !.step = IF c \in Blank THEN "track" ELSE "write",
                                      !.text = IF c \in Blank THEN NoHash ELSE c]
    <2>1. /\ lane[l] \in FileJob /\ Steady(lane[l]) /\ lane[l] # Idle
          /\ lane[l].step = "parse" /\ c \in Contents
      BY <1>1, <1>5, <1>7, DiskFile DEF IngestParse
    <2>2. lane' = [lane EXCEPT ![l] = job]
      BY <1>7, Zenon DEF IngestParse
    <2> HIDE DEF c
    <2>3. Steady(job)
      BY <2>1, IndexAssumption DEF Steady, FileJob
    <2> HIDE DEF job
    <2>4. QED
      BY <1>1, <2>2, <2>3, TurnedSteady
  <1>8. ASSUME IngestFails(l) \/ IngestTrack(l) \/ IngestUntracked(l) PROVE LaneSteps'
    BY <1>6, <1>8 DEF IngestFails, IngestTrack, IngestUntracked
  <1>9. ASSUME IngestWrite(l) PROVE LaneSteps'
    <2>1. lane[l] \in FileJob /\ Steady(lane[l]) /\ lane[l] # Idle /\ lane[l].step = "write"
      BY <1>5, <1>9 DEF IngestWrite
    <2>2. CASE WriteBook(l)
      <3> DEFINE job == [lane[l] EXCEPT !.step = "track"]
      <3>1. Steady(job)
        BY <2>1 DEF Steady, FileJob
      <3>2. lane' = [lane EXCEPT ![l] = job]
        BY <2>2, Zenon DEF WriteBook, Goto
      <3> HIDE DEF job
      <3>3. QED
        BY <1>1, <3>1, <3>2, TurnedSteady
    <2>3. CASE LoseSlug(l)
      <3> DEFINE t == Allocate(lane[l].path)
                 job == [lane[l] EXCEPT !.slug = t, !.step = "parse", !.retried = TRUE]
      <3>1. lane' = [lane EXCEPT ![l] = job]
        BY <2>3, Zenon DEF LoseSlug
      <3> HIDE DEF t
      <3>2. Steady(job)
        BY <2>1 DEF Steady, FileJob
      <3> HIDE DEF job
      <3>3. QED
        BY <1>1, <3>1, <3>2, TurnedSteady
    <2>4. QED
      BY <1>9, <2>2, <2>3 DEF IngestWrite
  <1>10. LaneSteps'
    BY <1>4, <1>7, <1>8, <1>9 DEF Ingest
  <1>11. QED
    BY <1>2, <1>3, <1>10

LEMMA RemoveSteps ==
    ASSUME Base, NEW l \in Lanes, Remove(l)
    PROVE  LaneSteps' /\ sole = Idle /\ sole' = Idle
  <1>1. TypeOK /\ LaneSteps /\ lane \in [Lanes -> {Idle} \cup FileJob]
    BY Types DEF Base
  <1>2. UNCHANGED sole
    BY DEF Remove, RemoveLook, RemoveBook, RemoveRow
  <1>3. sole = Idle
    <2>1. CASE lane[l] # Idle
      BY <2>1 DEF Base, SoleAlone, LanesIdle
    <2>2. CASE lane[l] = Idle
      BY <2>2 DEF Remove, RemoveLook, Start, RemoveBook, RemoveRow
    <2>3. QED
      BY <2>1, <2>2
  <1>4. ASSUME NEW p \in Paths, RemoveLook(l, p) PROVE LaneSteps'
    <2> DEFINE job == NewJob("remove", p, "book", <<SlugOf[p], 1>>, NoHash)
    <2>1. Steady(job)
      BY NewJobSteady
    <2>2. lane' = lane \/ lane' = [lane EXCEPT ![l] = job]
      BY <1>4 DEF RemoveLook
    <2> HIDE DEF job
    <2>3. CASE lane' = lane
      BY <1>1, <2>3, StepsSteady, StepsSteadyNext
    <2>4. QED
      BY <1>1, <2>1, <2>2, <2>3, TurnedSteady
  <1>5. ASSUME End(l) PROVE LaneSteps'
    <2>1. Steady(Idle)
      BY DEF Steady
    <2>2. QED
      BY <1>1, <1>5, <2>1, TurnedSteady DEF End
  <1>6. ASSUME lane[l] # Idle, lane[l].step = "book", Goto(l, "row") PROVE LaneSteps'
    <2> DEFINE job == [lane[l] EXCEPT !.step = "row"]
    <2>1. lane[l] \in FileJob /\ Steady(lane[l])
      BY <1>1, <1>6, NotIdle, StepsSteady
    <2>2. Steady(job)
      BY <1>6, <2>1 DEF Steady, FileJob
    <2>3. lane' = [lane EXCEPT ![l] = job]
      BY <1>6, Zenon DEF Goto
    <2> HIDE DEF job
    <2>4. QED
      BY <1>1, <2>2, <2>3, TurnedSteady
  <1>7. LaneSteps'
    BY <1>4, <1>5, <1>6 DEF Remove, RemoveBook, RemoveRow
  <1>8. QED
    BY <1>2, <1>3, <1>7

LEMMA ScanAlone ==
    ASSUME Base, ScanList \/ ScanStep
    PROVE  SoleAlone' /\ LaneSteps'
  <1>1. TypeOK /\ LaneSteps /\ SoleAlone /\ TrackedOK
    BY Types DEF Base
  <1>2. UNCHANGED lane
    BY DEF ScanList, ScanStep, ScanDiff, ScanMove, ScanOffer
  <1>3. LaneSteps'
    BY <1>1, <1>2, StepsSteady, StepsSteadyNext
  <1>4. SoleAlone'
    <2>1. CASE ScanList
      BY <1>2, <2>1 DEF ScanList, SoleAlone, LanesIdle, Matching, Scan
    <2>2. CASE ScanDiff
      <3> DEFINE seen == sole.listed \cap DOMAIN disk
      <3>1. PICK M \in Matchings(seen) :
               sole' = [sole EXCEPT !.step = "move", !.moves = M,
                            !.gone = Gone(seen) \ {m[1] : m \in M},
                            !.offer = (Added(seen) \ {m[2] : m \in M}) \cup Modified(seen)]
        BY <2>2 DEF ScanDiff
      <3>2. sole \in Scan /\ sole # Idle /\ UNCHANGED tracked
        BY <1>1, <2>2, NotIdle DEF ScanDiff, tables
      <3>3. /\ Matching(M)
            /\ \A m \in M : /\ m[1] \in DOMAIN tracked /\ m[2] \notin DOMAIN tracked
                            /\ tracked[m[1]].hash = disk[m[2]].content /\ m[2] \in DOMAIN disk
        BY DEF Matchings, Pairs, Gone, Added
      <3>4. sole'.moves = M
        BY <3>1, <3>2 DEF Scan
      <3>5. LanesIdle'
        BY <1>1, <1>2, <3>2 DEF SoleAlone, LanesIdle
      <3>6. \A m \in M : tracked[m[1]].hash # NoHash
        BY <1>1, <3>3, DiskFile, IndexAssumption
      <3>7. QED
        BY <3>2, <3>3, <3>4, <3>5, <3>6 DEF SoleAlone, Matching
    <2>3. CASE ScanMove
      <3>1. PICK m \in sole.moves : MoveFile(m[1], m[2]) /\ sole' = [sole EXCEPT !.moves = @ \ {m}]
        BY <2>3 DEF ScanMove
      <3>2. sole \in Scan /\ sole # Idle
        BY <1>1, <2>3, NotIdle DEF ScanMove
      <3>3. sole'.moves = sole.moves \ {m}
        BY <3>1, <3>2 DEF Scan
      <3>4. \/ UNCHANGED tracked
            \/ /\ DOMAIN tracked' = (DOMAIN tracked \ {m[1]}) \cup {m[2]}
               /\ \A p \in DOMAIN tracked' \ {m[2]} : tracked'[p] = tracked[p]
        BY <3>1 DEF MoveFile, With, Without
      <3>5. /\ Matching(sole.moves)
            /\ \A n \in sole.moves : /\ n[1] \in DOMAIN tracked /\ n[2] \notin DOMAIN tracked
                                     /\ tracked[n[1]].hash # NoHash
        BY <1>1, <3>2 DEF SoleAlone
      <3>6. \A n \in sole.moves \ {m} : n[1] # m[1] /\ n[2] # m[2]
        BY <3>1, <3>5 DEF Matching
      <3>7. \A n \in sole'.moves : /\ n[1] \in DOMAIN tracked' /\ n[2] \notin DOMAIN tracked'
                                  /\ tracked'[n[1]].hash # NoHash
        BY <3>1, <3>3, <3>4, <3>5, <3>6
      <3>8. Matching(sole'.moves)
        BY <3>3, <3>5 DEF Matching
      <3>9. LanesIdle'
        BY <1>1, <1>2, <3>2 DEF SoleAlone, LanesIdle
      <3>10. QED
        BY <3>7, <3>8, <3>9 DEF SoleAlone, Matching
    <2>4. CASE ScanOffer
      BY <2>4, Apart DEF ScanOffer, SoleAlone
    <2>5. QED
      BY <2>1, <2>2, <2>3, <2>4 DEF ScanStep
  <1>5. QED
    BY <1>3, <1>4

LEMMA BaseNext ==
    ASSUME Base, [Next]_vars
    PROVE  Base'
  <1>1. TypeOK /\ SoleAlone /\ LaneSteps /\ IsFiniteSet(DOMAIN books)
    BY DEF Base
  <1>2. ASSUME UNCHANGED <<tracked, lane, sole>> PROVE SoleAlone' /\ LaneSteps'
    <2>1. LaneSteps'
      BY <1>1, <1>2, StepsSteady, StepsSteadyNext
    <2>2. SoleAlone'
      BY <1>1, <1>2 DEF SoleAlone, LanesIdle, Matching
    <2>3. QED
      BY <2>1, <2>2
  <1>3. CASE Tick \/ Disk \/ AskScan \/ AskReconcile
    <2>1. UNCHANGED <<tracked, lane, sole>>
      BY <1>3 DEF Tick, Disk, AskScan, AskReconcile, Edit, Delete, Rename, tables
    <2>2. QED
      BY <1>2, <1>3, <2>1, DiskTypes DEF Base, TypesFor
  <1>4. ASSUME NEW l \in Lanes, Ingest(l) PROVE Base'
    <2>1. SoleAlone' /\ LaneSteps'
      BY <1>4, IngestSteps, Apart DEF SoleAlone
    <2>2. QED
      BY <1>4, <2>1, IngestTypes DEF Base, TypesFor
  <1>5. ASSUME NEW l \in Lanes, Remove(l) PROVE Base'
    <2>1. SoleAlone' /\ LaneSteps'
      BY <1>5, RemoveSteps, Apart DEF SoleAlone
    <2>2. QED
      BY <1>5, <2>1, RemoveTypes DEF Base, TypesFor
  <1>6. CASE ScanList \/ ScanStep
    BY <1>6, ScanAlone, ScanTypes, ScanMoveTypes DEF Base, TypesFor, ScanStep
  <1>7. CASE Reconcile
    <2>1. SoleAlone'
      <3>1. UNCHANGED lane /\ LanesIdle
        BY <1>1, <1>7 DEF Reconcile, ReconcilePurge, ReconcileMend, ReconcileQueue, SoleAlone
      <3>2. sole' \notin Scan
        <4>1. CASE ReconcilePurge
          BY <4>1 DEF ReconcilePurge, Scan
        <4>2. CASE ReconcileMend
          <5>1. sole \in Repair
            BY <1>1, <4>2, NotIdle DEF ReconcileMend
          <5>2. sole' = sole \/ \E p : sole' = [sole EXCEPT !.again = @ \cup {p}]
            BY <4>2 DEF ReconcileMend, Mend
          <5>3. QED
            BY <5>1, <5>2 DEF Repair, Scan
        <4>3. CASE ReconcileQueue
          BY <4>3, Apart DEF ReconcileQueue
        <4>4. QED
          BY <1>7, <4>1, <4>2, <4>3 DEF Reconcile
      <3>3. QED
        BY <3>1, <3>2 DEF SoleAlone, LanesIdle
    <2>2. LaneSteps'
      BY <1>1, <1>7, StepsSteady, StepsSteadyNext
         DEF Reconcile, ReconcilePurge, ReconcileMend, ReconcileQueue
    <2>3. QED
      BY <1>7, <2>1, <2>2, ReconcileTypes DEF Base, TypesFor
  <1>8. CASE Crash
    <2>1. SoleAlone' /\ LaneSteps'
      BY <1>8, Apart DEF Crash, SoleAlone, LaneSteps
    <2>2. QED
      BY <1>8, <2>1, CrashTypes DEF Base, TypesFor
  <1>9. CASE UNCHANGED vars
    <2>1. /\ UNCHANGED <<disk, now, books, tracked, failures, pending, lane, sole>>
          /\ UNCHANGED <<edits, faults, excused>>
      BY <1>9 DEF vars, tables
    <2>2. TypeOK'
      BY <1>1, <2>1, Types, TypesNext, Unwritten
    <2>3. QED
      BY <1>1, <1>2, <2>1, <2>2 DEF Base
  <1>10. QED
    BY <1>3, <1>4, <1>5, <1>6, <1>7, <1>8, <1>9 DEF Next

LEMMA BaseInit == Init => Base
  <1>1. ASSUME Init PROVE SoleAlone /\ LaneSteps
    BY <1>1, Apart DEF Init, SoleAlone, LaneSteps
  <1>2. QED
    BY <1>1, InitTypes DEF Base

LEMMA BaseAlways == Spec => []Base
  <1>1. QED
    BY BaseInit, BaseNext, PTL DEF Spec

\* The tables, the queue, the lanes and the scan keep their types: a job has a
\* slug and, where it needs one, a hash, whatever it read and when.
THEOREM TypeCorrect == Spec => []TypeOK
  <1>1. Base => TypeOK
    BY DEF Base
  <1>2. QED
    BY <1>1, BaseAlways, PTL

-----------------------------------------------------------------------------
(* What a row vouches for.  A row is told fresh by its size and its mtime     *)
(* alone, so all that a reader is told rests on this: unless the path is      *)
(* excused, or a job is between the two statements that write its book and    *)
(* its row, nobody else has the slug of the row, or is about to write under   *)
(* it; the book says what the file said when it was hashed; a file that looks *)
(* as it did then says so still; and a row that reconcile wrote without a     *)
(* hash is followed by an ingest, in hand, waiting, or about to be asked for. *)

\* Its size or its mtime gives the file away.
Noticed(p) ==
    \/ disk[p].mtime >= tracked[p].at
    \/ tracked[p].size # 0 /\ tracked[p].size # SizeOf[disk[p].content]

\* An ingest of the file is due, or it is seen to have changed.
Asked(p) ==
    \/ <<"ingest", p>> \in pending \/ p \in Mending
    \/ \E l \in On(p) : Ingesting(l)
    \/ p \in DOMAIN disk => Noticed(p) \/ disk[p].content \in Broken

Mine(p) ==
    /\ \A k \in Lanes :
          Ingesting(k) /\ lane[k].slug = tracked[p].slug => lane[k].path = p
    /\ \A q \in DOMAIN tracked : tracked[q].slug = tracked[p].slug => q = p
    /\ tracked[p].slug \in DOMAIN books => books[tracked[p].slug].path = p
Holds(p) ==
    tracked[p].hash # NoHash =>
        /\ BooksOf(p) \subseteq {tracked[p].slug}
        /\ Findable(p) = {tracked[p].hash} \ Blank
Seen(p) ==
    tracked[p].hash # NoHash /\ p \in DOMAIN disk /\ ~Noticed(p) =>
        disk[p].content = tracked[p].hash
Awaited(p) == tracked[p].hash = NoHash => Asked(p)
Vouched(p) == Mine(p) /\ Holds(p) /\ Seen(p) /\ Awaited(p)

Untorn(p) == \A l \in On(p) : ~Torn(l)
RowsVouch == \A p \in DOMAIN tracked \ excused : Untorn(p) => Vouched(p)

LEMMA TakersOf ==
    ASSUME NEW s, NEW p, NEW q
    PROVE  q \in Takers(s, p) <=>
              /\ q # p
              /\ \/ \E k \in Lanes : Ingesting(k) /\ lane[k].slug = s /\ lane[k].path = q
                 \/ q \in DOMAIN tracked /\ tracked[q].slug = s
                 \/ s \in DOMAIN books /\ books[s].path = q
  BY DEF Takers

LEMMA TakersNone ==
    ASSUME NEW s, NEW p, Takers(s, p) = {}
    PROVE  /\ \A k \in Lanes : Ingesting(k) /\ lane[k].slug = s => lane[k].path = p
           /\ \A q \in DOMAIN tracked : tracked[q].slug = s => q = p
           /\ s \in DOMAIN books => books[s].path = p
  <1>1. \A q : q # p => q \notin Takers(s, p)
    OBVIOUS
  <1>2. \A k \in Lanes : Ingesting(k) /\ lane[k].slug = s => lane[k].path = p
    BY <1>1 DEF Takers, Ingesting
  <1>3. \A q \in DOMAIN tracked : tracked[q].slug = s => q = p
    BY <1>1, TakersOf
  <1>4. s \in DOMAIN books => books[s].path = p
    BY <1>1 DEF Takers
  <1>5. QED
    BY <1>2, <1>3, <1>4

\* A book that is not of the path may come, go or change: what the path's row
\* says of its own is not touched.
Aside(p) ==
    /\ \A s \in DOMAIN books' :
          \/ s \in DOMAIN books /\ books'[s] = books[s]
          \/ s # tracked[p].slug /\ books'[s].path # p
    /\ tracked[p].slug \in DOMAIN books => tracked[p].slug \in DOMAIN books'

LEMMA SameBooks ==
    ASSUME NEW p, BooksOf(p)' = BooksOf(p), \A s \in BooksOf(p) : books'[s].chunks = books[s].chunks
    PROVE  Findable(p)' = Findable(p)
  <1>1. {{c.text : c \in books'[s].chunks} : s \in BooksOf(p)}
           = {{c.text : c \in books[s].chunks} : s \in BooksOf(p)}
    BY Zenon
  <1>2. QED
    BY <1>1, Zenon DEF Findable

LEMMA AsideHolds ==
    ASSUME NEW p, Holds(p), Aside(p), tracked'[p] = tracked[p]
    PROVE  Holds(p)'
  <1> SUFFICES ASSUME tracked[p].hash # NoHash
               PROVE  BooksOf(p)' = BooksOf(p) /\ Findable(p)' = Findable(p)
    BY DEF Holds
  <1>1. BooksOf(p) \subseteq {tracked[p].slug}
    BY DEF Holds
  <1>2. \A s \in BooksOf(p) : s \in DOMAIN books' /\ books'[s] = books[s]
    BY <1>1 DEF Aside, BooksOf
  <1>3. \A s \in BooksOf(p)' : s \in BooksOf(p)
    BY DEF Aside, BooksOf
  <1>4. BooksOf(p)' = BooksOf(p)
    BY <1>2, <1>3 DEF BooksOf
  <1>5. QED
    BY <1>2, <1>4, SameBooks

LEMMA AsideMine ==
    ASSUME NEW p, Mine(p), Aside(p), tracked'[p] = tracked[p],
           \A k \in Lanes : Ingesting(k)' /\ lane'[k].slug = tracked[p].slug => lane'[k].path = p,
           \A q \in DOMAIN tracked' : tracked'[q].slug = tracked[p].slug => q = p
    PROVE  Mine(p)'
  BY DEF Mine, Aside

LEMMA Unread ==
    ASSUME NEW p, UNCHANGED books PROVE Aside(p)
  BY DEF Aside

\* A row that no one writes to, while nothing else in the index changes but
\* what waits.
LEMMA Kept ==
    ASSUME NEW p, Vouched(p), UNCHANGED <<books, tracked, lane>>, Seen(p)', Awaited(p)'
    PROVE  Vouched(p)'
  <1>1. Holds(p)'
    BY Unread, AsideHolds DEF Vouched
  <1>2. Mine(p)'
    BY DEF Vouched, Mine, Ingesting
  <1>3. QED
    BY <1>1, <1>2 DEF Vouched

LEMMA AskedStill ==
    ASSUME NEW p, Asked(p), UNCHANGED <<disk, lane>>, tracked'[p] = tracked[p],
           <<"ingest", p>> \in pending => <<"ingest", p>> \in pending',
           p \in Mending => p \in Mending' \/ <<"ingest", p>> \in pending'
    PROVE  Asked(p)'
  BY DEF Asked, On, Ingesting, Noticed

LEMMA UntornStill ==
    ASSUME NEW p, UNCHANGED <<lane, tracked>>, Untorn(p)' PROVE Untorn(p)
  BY DEF Untorn, On, Torn

LEMMA DiskVouch ==
    ASSUME Base, RowsVouch, Tick \/ Disk \/ AskScan \/ AskReconcile
    PROVE  RowsVouch'
  <1>1. /\ UNCHANGED <<books, tracked, lane, sole>>
        /\ \A p : <<"ingest", p>> \in pending => <<"ingest", p>> \in pending'
        /\ excused \subseteq excused'
    BY DEF Tick, Disk, Edit, Delete, Rename, AskScan, AskReconcile, tables
  <1> SUFFICES ASSUME NEW p \in DOMAIN tracked', p \notin excused', Untorn(p)'
               PROVE  Vouched(p)'
    BY DEF RowsVouch
  <1>2. p \in DOMAIN tracked /\ p \notin excused /\ Vouched(p)
    BY <1>1, UntornStill DEF RowsVouch
  <1>3. tracked[p].at \in Int /\ now \in Nat
    BY <1>2, Types DEF Base, TrackedOK, Tracking
  <1>4. SUFFICES \/ p \notin DOMAIN disk'
                 \/ p \in DOMAIN disk' /\ Noticed(p)'
                 \/ p \in DOMAIN disk /\ p \in DOMAIN disk' /\ disk'[p] = disk[p]
    <2>1. Seen(p)'
      BY <1>1, <1>2, <1>4 DEF Vouched, Seen, Noticed
    <2>2. Asked(p) => Asked(p)'
      BY <1>1, <1>4 DEF Asked, On, Ingesting, Noticed, Mending
    <2>3. Awaited(p)'
      BY <1>1, <1>2, <2>2 DEF Vouched, Awaited
    <2>4. QED
      BY <1>1, <1>2, <2>1, <2>3, Kept
  <1>5. CASE UNCHANGED disk
    BY <1>5
  <1>6. ASSUME NEW q \in Paths, NEW c \in Contents, Edit(q, c)
        PROVE  \/ p \in DOMAIN disk' /\ Noticed(p)'
               \/ p \notin DOMAIN disk'
               \/ p \in DOMAIN disk /\ p \in DOMAIN disk' /\ disk'[p] = disk[p]
    <2>1. CASE p = q
      <3>1. p \in DOMAIN disk' /\ disk'[p].content = c /\ disk'[p].mtime = now
        BY <1>6, <2>1 DEF Edit, With
      <3>2. ~Unnoticed(p, c)
        BY <1>6, <2>1 DEF Edit
      <3>3. QED
        BY <1>1, <1>2, <1>3, <3>1, <3>2 DEF Unnoticed, Noticed
    <2>2. CASE p # q
      BY <1>6, <2>2 DEF Edit, With
    <2>3. QED
      BY <2>1, <2>2
  <1>7. ASSUME NEW q \in Paths, Delete(q)
        PROVE  \/ p \notin DOMAIN disk'
               \/ p \in DOMAIN disk /\ p \in DOMAIN disk' /\ disk'[p] = disk[p]
    BY <1>7 DEF Delete, Without
  <1>8. ASSUME NEW q \in Paths, NEW r \in Paths, Rename(q, r)
        PROVE  \/ p \notin DOMAIN disk'
               \/ p \in DOMAIN disk /\ p \in DOMAIN disk' /\ disk'[p] = disk[p]
    <2>1. p # r
      BY <1>2, <1>8 DEF Rename
    <2>2. QED
      BY <1>8, <2>1 DEF Rename, With, Without
  <1>9. QED
    BY <1>5, <1>6, <1>7, <1>8 DEF Tick, Disk, AskScan, AskReconcile

\* A lane that works on another path, and leaves the row and its book alone.
LEMMA OtherPath ==
    ASSUME Base, RowsVouch, sole = Idle,
           NEW l \in Lanes, NEW q, NEW job, lane' = [lane EXCEPT ![l] = job],
           lane[l] # Idle => lane[l].path = q, job # Idle => job.path = q,
           UNCHANGED disk,
           NEW p \in DOMAIN tracked, p \in DOMAIN tracked', p # q, tracked'[p] = tracked[p],
           p \notin excused, Untorn(p)',
           <<"ingest", p>> \in pending => <<"ingest", p>> \in pending',
           Vouched(p) /\ job # Idle /\ job.hash # NoHash => job.slug # tracked[p].slug,
           Vouched(p) => \A r \in DOMAIN tracked' : tracked'[r].slug = tracked[p].slug => r = p,
           Vouched(p) => Aside(p)
    PROVE  Vouched(p)'
  <1>1. /\ lane'[l] = job /\ \A k \in Lanes \ {l} : lane'[k] = lane[k]
    BY Types DEF Base
  <1>2. \A k \in On(p) : k \in On(p)' /\ lane'[k] = lane[k]
    BY <1>1 DEF On
  <1>3. Untorn(p)
    <2>1. \A k \in On(p) : Torn(k) => Torn(k)'
      BY <1>2 DEF Torn, On
    <2>2. QED
      BY <1>2, <2>1 DEF Untorn
  <1>4. Vouched(p)
    BY <1>3 DEF RowsVouch
  <1>5. Holds(p)'
    BY <1>4, AsideHolds DEF Vouched
  <1>6. Mine(p)'
    <2>1. ASSUME NEW k \in Lanes, Ingesting(k)', lane'[k].slug = tracked[p].slug
          PROVE  lane'[k].path = p
      <3>1. CASE k = l
        BY <1>1, <1>4, <2>1, <3>1 DEF Ingesting
      <3>2. CASE k # l
        BY <1>1, <1>4, <2>1, <3>2 DEF Ingesting, Vouched, Mine
      <3>3. QED
        BY <3>1, <3>2
    <2>2. QED
      BY <1>4, <2>1, AsideMine DEF Vouched
  <1>7. Seen(p)'
    BY <1>4 DEF Vouched, Seen, Noticed
  <1>8. Awaited(p)'
    <2>1. \A k \in On(p) : Ingesting(k) => Ingesting(k)'
      BY <1>2 DEF Ingesting
    <2>2. Asked(p) => Asked(p)'
      BY <1>2, <2>1 DEF Asked, Noticed, Mending
    <2>3. QED
      BY <1>4, <2>2 DEF Vouched, Awaited
  <1>9. QED
    BY <1>5, <1>6, <1>7, <1>8 DEF Vouched

\* A lane that works on the path itself, and has not written its book.
LEMMA OwnPath ==
    ASSUME Base, RowsVouch, NEW l \in Lanes, NEW job, lane' = [lane EXCEPT ![l] = job],
           NEW p \in DOMAIN tracked,
           lane[l] # Idle => lane[l].path = p /\ ~Torn(l), job # Idle => job.path = p,
           UNCHANGED <<disk, books, tracked>>,
           p \notin excused, Untorn(p)',
           Asked(p) => Asked(p)'
    PROVE  Vouched(p)'
  <1>1. /\ lane'[l] = job /\ \A k \in Lanes \ {l} : lane'[k] = lane[k]
    BY Types DEF Base
  <1>2. Untorn(p)
    <2>1. ASSUME NEW k \in On(p), Torn(k) PROVE FALSE
      <3>1. k # l /\ k \in Lanes
        BY <2>1 DEF On
      <3>2. k \in On(p)' /\ Torn(k)'
        BY <1>1, <2>1, <3>1 DEF On, Torn
      <3>3. QED
        BY <3>2 DEF Untorn
    <2>2. QED
      BY <2>1 DEF Untorn
  <1>3. Vouched(p)
    BY <1>2 DEF RowsVouch
  <1>4. Holds(p)'
    BY <1>3, Unread, AsideHolds DEF Vouched
  <1>5. Mine(p)'
    <2>1. ASSUME NEW k \in Lanes, Ingesting(k)', lane'[k].slug = tracked[p].slug
          PROVE  lane'[k].path = p
      BY <1>1, <1>3, <2>1 DEF Ingesting, Vouched, Mine
    <2>2. QED
      BY <1>3, <2>1 DEF Vouched, Mine
  <1>6. Seen(p)' /\ Awaited(p)'
    BY <1>3 DEF Vouched, Seen, Awaited, Noticed
  <1>7. QED
    BY <1>3, <1>4, <1>5, <1>6 DEF Vouched

\* A slug that is given out and is another row's excuses that row.
LEMMA SlugTaken ==
    ASSUME Base, NEW s, NEW q, Owned(s, q), NEW p \in DOMAIN tracked, p # q, tracked[p].slug = s
    PROVE  p \in Contested(s, q)
  BY TakersOf DEF Contested

LEMMA ReadVouch ==
    ASSUME Base, RowsVouch, sole = Idle, NEW l \in Lanes, NEW q \in Paths, IngestRead(l, q)
    PROVE  RowsVouch'
  <1> DEFINE s == Identity(q)
             job == IF q \in DOMAIN disk
                    THEN NewJob("ingest", q, "parse", s, disk[q].content)
                    ELSE NewJob("ingest", q, "book", <<SlugOf[q], 1>>, NoHash)
  <1>1. /\ lane[l] = Idle /\ lane' = [lane EXCEPT ![l] = job]
        /\ UNCHANGED <<disk, books, tracked>> /\ excused \subseteq excused'
        /\ pending' = pending \ {<<"ingest", q>>}
        /\ q \in DOMAIN disk => Contested(s, q) \subseteq excused'
    BY DEF IngestRead, Start, tables, Joined
  <1>2. /\ job.path = q /\ job # Idle
        /\ q \in DOMAIN disk => job.hash # NoHash /\ job.slug = s
        /\ q \notin DOMAIN disk => job.hash = NoHash
    BY DiskFile, IndexAssumption DEF NewJob, Idle, Base
  <1> SUFFICES ASSUME NEW p \in DOMAIN tracked', p \notin excused', Untorn(p)'
               PROVE  Vouched(p)'
    BY DEF RowsVouch
  <1>3. p \in DOMAIN tracked /\ p \notin excused
    BY <1>1
  <1> HIDE DEF s, job
  <1>4. lane'[l] = job
    BY <1>1, Types DEF Base
  <1>5. CASE p = q
    <2>1. Asked(p)'
      <3>1. CASE q \in DOMAIN disk
        <4>1. l \in On(p)' /\ Ingesting(l)'
          BY <1>2, <1>4, <1>5, <3>1 DEF On, Ingesting
        <4>2. QED
          BY <4>1 DEF Asked
      <3>2. CASE q \notin DOMAIN disk
        BY <1>1, <1>5, <3>2 DEF Asked
      <3>3. QED
        BY <3>1, <3>2
    <2>2. QED
      BY <1>1, <1>2, <1>3, <1>5, <2>1, OwnPath
  <1>6. CASE p # q
    <2>1. ASSUME Vouched(p), job.hash # NoHash PROVE job.slug # tracked[p].slug
      <3>1. q \in DOMAIN disk /\ job.slug = s
        BY <1>2, <2>1
      <3>2. CASE q \in DOMAIN tracked
        BY <1>3, <1>6, <2>1, <3>1, <3>2 DEF s, Identity, Vouched, Mine
      <3>3. CASE q \notin DOMAIN tracked
        <4>1. Owned(s, q)
          BY <3>3, Allocated DEF Base, s, Identity
        <4>2. tracked[p].slug = s => p \in Contested(s, q)
          BY <1>3, <1>6, <4>1, SlugTaken
        <4>3. QED
          BY <1>1, <3>1, <4>2
      <3>4. QED
        BY <3>2, <3>3
    <2>2. Vouched(p) => \A r \in DOMAIN tracked' : tracked'[r].slug = tracked[p].slug => r = p
      BY <1>1 DEF Vouched, Mine
    <2>3. Aside(p)
      BY <1>1, Unread
    <2>4. <<"ingest", p>> \in pending => <<"ingest", p>> \in pending'
      BY <1>1, <1>6
    <2>5. QED
      BY <1>1, <1>2, <1>3, <1>6, <2>1, <2>2, <2>3, <2>4, OtherPath
  <1>7. QED
    BY <1>5, <1>6

LEMMA ParseVouch ==
    ASSUME Base, RowsVouch, sole = Idle, NEW l \in Lanes, IngestParse(l)
    PROVE  RowsVouch'
  <1> DEFINE q == lane[l].path
             c == disk[q].content
             job == [lane[l] EXCEPT !.step = IF c \in Blank THEN "track" ELSE "write",
                                    !.text = IF c \in Blank THEN NoHash ELSE c]
  <1>1. /\ lane[l] # Idle /\ lane[l].step = "parse" /\ lane' = [lane EXCEPT ![l] = job]
        /\ UNCHANGED <<disk, books, tracked, pending, excused>>
    BY Zenon DEF IngestParse, tables
  <1>2. lane[l] \in FileJob /\ Ingesting(l)
    BY <1>1, NotIdle DEF Base, LaneSteps
  <1>3. job.path = q /\ job.slug = lane[l].slug /\ job.hash = lane[l].hash /\ job # Idle
    BY <1>2 DEF FileJob, Idle
  <1> HIDE DEF job
  <1> SUFFICES ASSUME NEW p \in DOMAIN tracked', p \notin excused', Untorn(p)'
               PROVE  Vouched(p)'
    BY DEF RowsVouch
  <1>4. p \in DOMAIN tracked /\ p \notin excused
    BY <1>1
  <1>5. lane'[l] = job
    BY <1>1, Types DEF Base
  <1>6. CASE p = q
    <2>1. Asked(p)'
      <3>1. l \in On(p)' /\ Ingesting(l)'
        BY <1>2, <1>3, <1>5, <1>6 DEF On, Ingesting
      <3>2. QED
        BY <3>1 DEF Asked
    <2>2. ~Torn(l)
      BY <1>1 DEF Torn
    <2>3. QED
      BY <1>1, <1>3, <1>4, <1>6, <2>1, <2>2, OwnPath
  <1>7. CASE p # q
    <2>1. ASSUME Vouched(p) PROVE job.slug # tracked[p].slug
      BY <1>2, <1>3, <1>7, <2>1 DEF Vouched, Mine
    <2>2. Vouched(p) => \A r \in DOMAIN tracked' : tracked'[r].slug = tracked[p].slug => r = p
      BY <1>1 DEF Vouched, Mine
    <2>3. Aside(p)
      BY <1>1, Unread
    <2>4. QED
      BY <1>1, <1>3, <1>4, <1>7, <2>1, <2>2, <2>3, OtherPath
  <1>8. QED
    BY <1>6, <1>7

LEMMA FailVouch ==
    ASSUME Base, RowsVouch, sole = Idle, NEW l \in Lanes, IngestFails(l)
    PROVE  RowsVouch'
  <1> DEFINE q == lane[l].path
             gone == q \notin DOMAIN disk
  <1>1. /\ lane[l] # Idle /\ lane[l].step = "parse" /\ lane' = [lane EXCEPT ![l] = Idle]
        /\ UNCHANGED <<disk, books, tracked>>
        /\ \/ pending' = pending \cup {<<"ingest", q>>} /\ UNCHANGED excused
           \/ pending' = pending /\ excused' = IF gone THEN excused \cup {q} ELSE excused
        /\ ~gone => disk[q].content \in Broken
    BY DEF IngestFails, AskAgain, RecordFailure, End
  <1> SUFFICES ASSUME NEW p \in DOMAIN tracked', p \notin excused', Untorn(p)'
               PROVE  Vouched(p)'
    BY DEF RowsVouch
  <1>2. p \in DOMAIN tracked /\ p \notin excused
    BY <1>1
  <1>3. CASE p = q
    <2>1. Asked(p)'
      BY <1>1, <1>3 DEF Asked
    <2>2. ~Torn(l)
      BY <1>1 DEF Torn
    <2>3. QED
      BY <1>1, <1>2, <1>3, <2>1, <2>2, OwnPath
  <1>4. CASE p # q
    <2>1. Vouched(p) => \A r \in DOMAIN tracked' : tracked'[r].slug = tracked[p].slug => r = p
      BY <1>1 DEF Vouched, Mine
    <2>2. Aside(p)
      BY <1>1, Unread
    <2>3. <<"ingest", p>> \in pending => <<"ingest", p>> \in pending'
      BY <1>1
    <2>4. QED
      BY <1>1, <1>2, <1>4, <2>1, <2>2, <2>3, OtherPath
  <1>5. QED
    BY <1>3, <1>4

LEMMA WriteVouch ==
    ASSUME Base, RowsVouch, sole = Idle, NEW l \in Lanes, IngestWrite(l)
    PROVE  RowsVouch'
  <1> DEFINE q == lane[l].path
             s == lane[l].slug
  <1>1. /\ lane[l] # Idle /\ lane[l].step = "write" /\ UNCHANGED <<disk, tracked, pending>>
        /\ excused \subseteq excused'
    BY DEF IngestWrite, WriteBook, LoseSlug
  <1>2. lane[l] \in FileJob /\ Ingesting(l) /\ q \in Paths
    BY <1>1, NotIdle, FileJobParts DEF Base, LaneSteps
  <1> SUFFICES ASSUME NEW p \in DOMAIN tracked', p \notin excused', Untorn(p)'
               PROVE  Vouched(p)'
    BY DEF RowsVouch
  <1>3. p \in DOMAIN tracked /\ p \notin excused
    BY <1>1
  <1>4. Vouched(p) => \A r \in DOMAIN tracked' : tracked'[r].slug = tracked[p].slug => r = p
    BY <1>1 DEF Vouched, Mine
  <1>5. CASE WriteBook(l)
    <2> DEFINE b == [path |-> q, chunks |-> {[text |-> lane[l].text, slug |-> s]}]
               job == [lane[l] EXCEPT !.step = "track"]
    <2>1. books' = With(books, s, b) /\ lane' = [lane EXCEPT ![l] = job]
      BY <1>5, Zenon DEF WriteBook, Goto
    <2>2. b.path = q
      OBVIOUS
    <2>3. /\ job.path = q /\ job.slug = s /\ job.step = "track" /\ job.hash = lane[l].hash
          /\ job # Idle
      BY <1>2 DEF FileJob, Idle
    <2> HIDE DEF b, job
    <2>4. p # q
      <3>1. lane'[l] = job
        BY <2>1, Types DEF Base
      <3>2. SUFFICES ASSUME p = q PROVE l \in On(p)' /\ Torn(l)'
        BY DEF Untorn
      <3>3. QED
        BY <1>1, <1>3, <2>3, <3>1, <3>2 DEF On, Torn
    <2>5. ASSUME Vouched(p) PROVE s # tracked[p].slug
      BY <1>2, <2>4, <2>5 DEF Vouched, Mine
    <2>6. Vouched(p) => Aside(p)
      BY <2>1, <2>2, <2>4, <2>5 DEF Aside, With
    <2>7. QED
      BY <1>1, <1>3, <1>4, <2>1, <2>3, <2>4, <2>5, <2>6, OtherPath
  <1>6. CASE LoseSlug(l)
    <2> DEFINE t == Allocate(q)
               job == [lane[l] EXCEPT !.slug = t, !.step = "parse", !.retried = TRUE]
    <2>1. /\ lane' = [lane EXCEPT ![l] = job] /\ UNCHANGED books
          /\ excused' = excused \cup Contested(t, q)
      BY <1>6, Zenon DEF LoseSlug
    <2> HIDE DEF t
    <2>2. /\ job.path = q /\ job.slug = t /\ job.hash = lane[l].hash /\ job # Idle
      BY <1>2 DEF FileJob, Idle
    <2> HIDE DEF job
    <2>3. lane'[l] = job
      BY <2>1, Types DEF Base
    <2>4. CASE p = q
      <3>1. Asked(p)'
        <4>1. l \in On(p)' /\ Ingesting(l)'
          BY <1>2, <2>2, <2>3, <2>4 DEF On, Ingesting
        <4>2. QED
          BY <4>1 DEF Asked
      <3>2. ~Torn(l)
        BY <1>1 DEF Torn
      <3>3. QED
        BY <1>1, <1>3, <2>1, <2>2, <2>4, <3>1, <3>2, OwnPath
    <2>5. CASE p # q
      <3>1. Owned(t, q)
        BY <1>2, Allocated DEF Base, t
      <3>2. job.slug # tracked[p].slug
        BY <1>3, <2>1, <2>2, <2>5, <3>1, SlugTaken
      <3>3. Aside(p)
        BY <2>1, Unread
      <3>4. QED
        BY <1>1, <1>3, <1>4, <2>1, <2>2, <2>5, <3>2, <3>3, OtherPath
    <2>6. QED
      BY <2>4, <2>5
  <1>7. QED
    BY <1>5, <1>6 DEF IngestWrite

\* The row is written: by a run that nothing disturbed, or the path is excused.
LEMMA TrackVouch ==
    ASSUME Base, RowsVouch, sole = Idle, NEW l \in Lanes, IngestTrack(l)
    PROVE  RowsVouch'
  <1> DEFINE q == lane[l].path
             s == lane[l].slug
             row == [hash |-> lane[l].hash, slug |-> s,
                     size |-> SizeOf[disk[q].content], at |-> now]
             job == Idle
  <1>1. /\ lane[l] # Idle /\ lane[l].step = "track" /\ q \in DOMAIN disk
        /\ lane' = [lane EXCEPT ![l] = job]
        /\ tracked' = With(tracked, q, row)
        /\ UNCHANGED <<disk, books, pending>>
        /\ excused' = IF CleanRun(l) THEN excused \ {q} ELSE excused \cup {q}
    BY Zenon DEF IngestTrack, End
  <1>2. Ingesting(l) /\ job = Idle
    BY <1>1 DEF Base, LaneSteps
  <1>3. row.hash = lane[l].hash /\ row.slug = s
    OBVIOUS
  <1> HIDE DEF row
  <1>4. /\ DOMAIN tracked' = DOMAIN tracked \cup {q} /\ tracked'[q] = row
        /\ \A r \in DOMAIN tracked' \ {q} : r \in DOMAIN tracked /\ tracked'[r] = tracked[r]
    BY <1>1 DEF With
  <1> SUFFICES ASSUME NEW p \in DOMAIN tracked', p \notin excused', Untorn(p)'
               PROVE  Vouched(p)'
    BY DEF RowsVouch
  <1>5. CASE p = q
    <2>1. CleanRun(l)
      BY <1>1, <1>5
    <2>2. /\ Takers(s, p) = {} /\ row.hash = disk[p].content /\ p \in DOMAIN disk
          /\ BooksOf(p) = IF row.hash \in Blank THEN {} ELSE {s}
          /\ Findable(p) = {row.hash} \ Blank
      BY <1>1, <1>3, <1>5, <2>1 DEF CleanRun
    <2>3. row.hash # NoHash
      BY <2>2, DiskFile, IndexAssumption DEF Base
    <2>4. tracked'[p] = row /\ row.slug = s
      BY <1>3, <1>4, <1>5
    <2>5. Mine(p)'
      <3>1. ASSUME NEW k \in Lanes, Ingesting(k)', lane'[k].slug = s PROVE lane'[k].path = p
        <4>1. k # l /\ lane'[k] = lane[k]
          BY <1>1, <1>2, <3>1, Types DEF Base, Ingesting
        <4>2. Ingesting(k) /\ lane[k].slug = s
          BY <3>1, <4>1 DEF Ingesting
        <4>3. QED
          BY <2>2, <4>1, <4>2, TakersNone
      <3>2. ASSUME NEW r \in DOMAIN tracked', tracked'[r].slug = s PROVE r = p
        <4>1. \A x \in DOMAIN tracked : tracked[x].slug = s => x = p
          BY <2>2, TakersNone
        <4>2. QED
          BY <1>4, <1>5, <3>2, <4>1
      <3>3. s \in DOMAIN books => books[s].path = p
        BY <2>2, TakersNone
      <3>4. QED
        BY <1>1, <2>4, <3>1, <3>2, <3>3 DEF Mine
    <2>6. Holds(p)'
      <3>1. BooksOf(p)' = BooksOf(p) /\ Findable(p)' = Findable(p)
        BY <1>1 DEF BooksOf, Findable
      <3>2. QED
        BY <2>2, <2>4, <3>1 DEF Holds
    <2>7. Seen(p)' /\ Awaited(p)'
      BY <1>1, <2>2, <2>3, <2>4 DEF Seen, Awaited
    <2>8. QED
      BY <2>5, <2>6, <2>7 DEF Vouched
  <1>6. CASE p # q
    <2>1. p \in DOMAIN tracked /\ tracked'[p] = tracked[p] /\ p \notin excused
      BY <1>1, <1>4, <1>6
    <2>2. Vouched(p) => s # tracked[p].slug
      BY <1>2, <1>6 DEF Vouched, Mine
    <2>3. Vouched(p) => \A r \in DOMAIN tracked' : tracked'[r].slug = tracked[p].slug => r = p
      BY <1>3, <1>4, <1>6, <2>2 DEF Vouched, Mine
    <2>4. Aside(p)
      BY <1>1, Unread
    <2>5. job # Idle => FALSE
      OBVIOUS
    <2> HIDE DEF job
    <2>6. QED
      BY <1>1, <1>6, <2>1, <2>3, <2>4, <2>5, OtherPath
  <1>7. QED
    BY <1>5, <1>6

LEMMA UntrackedVouch ==
    ASSUME Base, RowsVouch, sole = Idle, NEW l \in Lanes, IngestUntracked(l)
    PROVE  RowsVouch'
  <1> DEFINE q == lane[l].path
             job == Idle
  <1>1. /\ lane[l] # Idle /\ lane[l].step = "track"
        /\ lane' = [lane EXCEPT ![l] = job]
        /\ UNCHANGED <<disk, books, tracked, pending>>
        /\ excused' = IF Torn(l) THEN excused \cup {q} ELSE excused
    BY Zenon DEF IngestUntracked, End, tables
  <1> SUFFICES ASSUME NEW p \in DOMAIN tracked', p \notin excused', Untorn(p)'
               PROVE  Vouched(p)'
    BY DEF RowsVouch
  <1>2. p \in DOMAIN tracked /\ p \notin excused
    BY <1>1
  <1>3. p # q
    BY <1>1, <1>2 DEF Torn
  <1>4. Vouched(p) => \A r \in DOMAIN tracked' : tracked'[r].slug = tracked[p].slug => r = p
    BY <1>1 DEF Vouched, Mine
  <1>5. Aside(p)
    BY <1>1, Unread
  <1>6. job # Idle => FALSE
    OBVIOUS
  <1> HIDE DEF job
  <1>7. QED
    BY <1>1, <1>2, <1>3, <1>4, <1>5, <1>6, OtherPath

LEMMA IngestVouch ==
    ASSUME Base, RowsVouch, NEW l \in Lanes, Ingest(l)
    PROVE  RowsVouch'
  <1>1. sole = Idle
    BY IngestSteps
  <1>2. QED
    BY <1>1, ReadVouch, ParseVouch, FailVouch, WriteVouch, TrackVouch, UntrackedVouch DEF Ingest

LEMMA RemoveVouch ==
    ASSUME Base, RowsVouch, NEW l \in Lanes, Remove(l)
    PROVE  RowsVouch'
  <1> SUFFICES ASSUME NEW p \in DOMAIN tracked', p \notin excused', Untorn(p)'
               PROVE  Vouched(p)'
    BY DEF RowsVouch
  <1> sole = Idle
    BY RemoveSteps
  <1>1. ASSUME NEW q \in Paths, RemoveLook(l, q) PROVE Vouched(p)'
    <2> DEFINE job == NewJob("remove", q, "book", <<SlugOf[q], 1>>, NoHash)
    <2>1. /\ lane[l] = Idle /\ UNCHANGED <<disk, books, tracked>> /\ excused \subseteq excused'
          /\ pending' = pending \ {<<"remove", q>>}
          /\ lane' = lane \/ lane' = [lane EXCEPT ![l] = job]
      BY <1>1 DEF RemoveLook, Start, tables, Joined
    <2>2. job.path = q /\ job # Idle /\ job.hash = NoHash
      BY DEF NewJob, Idle
    <2> HIDE DEF job
    <2>3. p \in DOMAIN tracked /\ p \notin excused
      BY <2>1
    <2>4. <<"ingest", p>> \in pending => <<"ingest", p>> \in pending'
      BY <2>1
    <2>5. Vouched(p) => \A r \in DOMAIN tracked' : tracked'[r].slug = tracked[p].slug => r = p
      BY <2>1 DEF Vouched, Mine
    <2>6. CASE lane' = lane
      <3>1. Vouched(p)
        BY <2>1, <2>3, <2>6, UntornStill DEF RowsVouch
      <3>2. Seen(p)' /\ Awaited(p)'
        BY <2>1, <2>4, <2>6, <3>1, AskedStill DEF Vouched, Seen, Awaited, Noticed, Mending
      <3>3. QED
        BY <2>1, <2>6, <3>1, <3>2, Kept
    <2>7. CASE lane' = [lane EXCEPT ![l] = job]
      <3>1. lane'[l] = job /\ \A k \in Lanes \ {l} : lane'[k] = lane[k]
        BY <2>7, Types DEF Base
      <3>2. Asked(p) => Asked(p)'
        <4>1. \A k \in On(p) : Ingesting(k) => k \in On(p)' /\ Ingesting(k)'
          BY <2>1, <3>1 DEF On, Ingesting
        <4>2. QED
          BY <2>1, <2>4, <4>1 DEF Asked, Noticed, Mending
      <3>3. CASE p = q
        BY <2>1, <2>2, <2>3, <2>7, <3>2, <3>3, OwnPath
      <3>4. CASE p # q
        BY <2>1, <2>2, <2>3, <2>4, <2>5, <2>7, <3>4, Unread, OtherPath
      <3>5. QED
        BY <3>3, <3>4
    <2>8. QED
      BY <2>1, <2>6, <2>7
  <1>2. CASE RemoveBook(l)
    <2> DEFINE q == lane[l].path
    <2>1. /\ lane[l] # Idle /\ lane[l].step = "book"
          /\ UNCHANGED <<disk, tracked, pending, excused>>
      BY <1>2 DEF RemoveBook
    <2>2. lane[l] \in FileJob /\ lane[l].hash = NoHash
      BY <2>1, NotIdle DEF Base, LaneSteps, Ingesting
    <2>3. p \in DOMAIN tracked /\ p \notin excused
      BY <2>1
    <2>4. Vouched(p) => \A r \in DOMAIN tracked' : tracked'[r].slug = tracked[p].slug => r = p
      BY <2>1 DEF Vouched, Mine
    <2>5. CASE q \in DOMAIN tracked
      <3> DEFINE job == [lane[l] EXCEPT !.step = "row"]
      <3>1. books' = Without(books, {tracked[q].slug}) /\ lane' = [lane EXCEPT ![l] = job]
        BY <1>2, <2>5, Zenon DEF RemoveBook, Goto
      <3>2. job.path = q /\ job.step = "row" /\ job.hash = NoHash /\ job # Idle
        BY <2>2 DEF FileJob, Idle
      <3> HIDE DEF job
      <3>3. p # q
        <4>1. lane'[l] = job
          BY <3>1, Types DEF Base
        <4>2. SUFFICES ASSUME p = q PROVE l \in On(p)' /\ Torn(l)'
          BY DEF Untorn
        <4>3. QED
          BY <3>2, <4>1, <4>2 DEF On, Torn
      <3>4. Vouched(p) => Aside(p)
        BY <2>5, <3>1, <3>3 DEF Vouched, Mine, Aside, Without
      <3>5. QED
        BY <2>1, <2>3, <2>4, <3>1, <3>2, <3>3, <3>4, OtherPath
    <2>6. CASE q \notin DOMAIN tracked
      <3> DEFINE job == Idle
      <3>1. UNCHANGED books /\ lane' = [lane EXCEPT ![l] = job]
        BY <1>2, <2>6, Zenon DEF RemoveBook, End
      <3>2. p # q /\ Aside(p)
        BY <2>3, <2>6, <3>1, Unread
      <3>3. job # Idle => FALSE
        OBVIOUS
      <3> HIDE DEF job
      <3>4. QED
        BY <2>1, <2>3, <2>4, <3>1, <3>2, <3>3, OtherPath
    <2>7. QED
      BY <2>5, <2>6
  <1>3. CASE RemoveRow(l)
    <2> DEFINE q == lane[l].path
               job == Idle
    <2>1. /\ lane[l] # Idle /\ lane' = [lane EXCEPT ![l] = job]
          /\ tracked' = Without(tracked, {q})
          /\ UNCHANGED <<disk, books, pending, excused>>
      BY <1>3, Zenon DEF RemoveRow, End
    <2>2. /\ p \in DOMAIN tracked /\ p # q /\ tracked'[p] = tracked[p]
          /\ \A r \in DOMAIN tracked' : r \in DOMAIN tracked /\ tracked'[r] = tracked[r]
      BY <2>1 DEF Without
    <2>3. Vouched(p) => \A r \in DOMAIN tracked' : tracked'[r].slug = tracked[p].slug => r = p
      BY <2>2 DEF Vouched, Mine
    <2>4. Aside(p)
      BY <2>1, Unread
    <2>5. job # Idle => FALSE
      OBVIOUS
    <2> HIDE DEF job
    <2>6. QED
      BY <2>1, <2>2, <2>3, <2>4, <2>5, OtherPath
  <1>4. QED
    BY <1>1, <1>2, <1>3 DEF Remove

\* While a scan or a reconcile runs there is no job to be asked of.
LEMMA NoLanes ==
    ASSUME LanesIdle, UNCHANGED lane, NEW p
    PROVE  /\ \A k \in Lanes : ~Ingesting(k) /\ ~Ingesting(k)'
           /\ On(p) = {} /\ On(p)' = {} /\ Untorn(p)
  BY DEF LanesIdle, Ingesting, On, Untorn

LEMMA ScanVouch ==
    ASSUME Base, RowsVouch, ScanList \/ ScanDiff \/ ScanOffer
    PROVE  RowsVouch'
  <1>1. /\ UNCHANGED <<disk, books, tracked, lane, excused>>
        /\ \A p : <<"ingest", p>> \in pending => <<"ingest", p>> \in pending'
        /\ Mending = {}
    BY NotIdle, Apart DEF Base, ScanList, ScanDiff, ScanOffer, tables
  <1> SUFFICES ASSUME NEW p \in DOMAIN tracked', p \notin excused', Untorn(p)'
               PROVE  Vouched(p)'
    BY DEF RowsVouch
  <1>2. Vouched(p)
    BY <1>1, UntornStill DEF RowsVouch
  <1>3. Seen(p)' /\ Awaited(p)'
    BY <1>1, <1>2, AskedStill DEF Vouched, Seen, Awaited, Noticed, Mending
  <1>4. QED
    BY <1>1, <1>2, <1>3, Kept

\* The file that is renamed takes its row and its book along, and they say of
\* the new path what they said of the old.
LEMMA MovedVouch ==
    ASSUME Base, LanesIdle, UNCHANGED <<disk, lane, pending>>,
           NEW a \in DOMAIN tracked, NEW b \in Paths, a # b, b \notin DOMAIN tracked,
           Vouched(a), tracked[a].hash # NoHash,
           NEW slug, tracked[a].slug # slug => tracked[a].slug \notin DOMAIN books \/ slug \notin DOMAIN books,
           books' = IF tracked[a].slug \notin DOMAIN books THEN books
                    ELSE Renamed(tracked[a].slug, slug, b),
           NEW new, new.hash = tracked[a].hash, new.slug = slug,
           tracked' = With(Without(tracked, {a}), b, new),
           ~(b \in DOMAIN disk /\ disk[b].content # tracked[a].hash),
           BooksOf(b) = {}, Takers(slug, b) \subseteq {a}
    PROVE  Vouched(b)'
  <1> DEFINE from == tracked[a].slug
  <1>1. /\ tracked'[b] = new /\ DOMAIN tracked' = (DOMAIN tracked \ {a}) \cup {b}
        /\ \A r \in DOMAIN tracked' \ {b} : tracked'[r] = tracked[r]
    BY DEF With, Without
  <1>2. Mine(a) /\ BooksOf(a) \subseteq {from} /\ Findable(a) = {tracked[a].hash} \ Blank
    BY DEF Vouched, Holds
  <1>3. \A r \in DOMAIN tracked' : tracked'[r].slug = slug => r = b
    BY <1>1, TakersOf
  <1>4. \A k \in Lanes : ~Ingesting(k)'
    BY NoLanes
  <1>5. CASE from \notin DOMAIN books
    <2>1. BooksOf(a) = {}
      BY <1>2, <1>5 DEF BooksOf
    <2>2. UNCHANGED books
      BY <1>5
    <2>3. slug \notin DOMAIN books
      <3>1. slug \in DOMAIN books => books[slug].path = b \/ books[slug].path \in Takers(slug, b)
        BY DEF Takers
      <3>2. QED
        BY <2>1, <3>1 DEF BooksOf
    <2>4. Mine(b)'
      BY <1>1, <1>3, <1>4, <2>2, <2>3 DEF Mine
    <2>5. Findable(a) = {} /\ Findable(b) = {}
      BY <2>1 DEF Findable
    <2>6. BooksOf(b)' = {} /\ Findable(b)' = {}
      BY <2>2, <2>5 DEF BooksOf, Findable
    <2>7. Holds(b)'
      BY <1>1, <1>2, <2>5, <2>6 DEF Holds
    <2>8. QED
      BY <1>1, <2>4, <2>7 DEF Vouched, Seen, Awaited
  <1>6. CASE from \in DOMAIN books
    <2> DEFINE book == [books[from] EXCEPT !.path = b]
    <2>1. /\ DOMAIN books' = (DOMAIN books \ {from}) \cup {slug}
          /\ \A s \in DOMAIN books' : books'[s] = IF s = slug THEN book ELSE books[s]
      BY <1>6 DEF Renamed
    <2>2. books[from] \in Book /\ books[from].path = a
      BY <1>2, <1>6, Types DEF Base, BooksOK, Mine
    <2>3. book.path = b /\ book.chunks = books[from].chunks
      BY <2>2 DEF Book
    <2> HIDE DEF book
    <2>4. BooksOf(b)' = {slug}
      BY <2>1, <2>3 DEF BooksOf
    <2>5. BooksOf(a) = {from}
      BY <1>2, <1>6, <2>2 DEF BooksOf
    <2>6. Findable(a) = {c.text : c \in books[from].chunks}
      BY <2>5, Zenon DEF Findable
    <2>7. Findable(b)' = {c.text : c \in books'[slug].chunks}
      BY <2>4, Zenon DEF Findable
    <2>8. books'[slug].chunks = books[from].chunks
      BY <2>1, <2>3
    <2>9. Findable(b)' = Findable(a)
      BY <2>6, <2>7, <2>8
    <2>10. Holds(b)'
      BY <1>1, <1>2, <2>4, <2>9 DEF Holds
    <2>11. Mine(b)'
      <3>1. tracked'[b].slug = slug
        BY <1>1
      <3>2. slug \in DOMAIN books' => books'[slug].path = b
        BY <2>1, <2>3
      <3>3. QED
        BY <1>3, <1>4, <3>1, <3>2 DEF Mine
    <2>12. QED
      BY <1>1, <2>10, <2>11 DEF Vouched, Seen, Awaited
  <1>7. QED
    BY <1>5, <1>6

LEMMA MoveVouch ==
    ASSUME Base, RowsVouch, ScanMove
    PROVE  RowsVouch'
  <1>1. PICK m \in sole.moves : MoveFile(m[1], m[2])
    BY DEF ScanMove
  <1>2. /\ UNCHANGED <<disk, lane, pending>> /\ LanesIdle /\ sole \in Scan /\ TrackedOK
        /\ Mending = {}
        /\ m[1] \in DOMAIN tracked /\ tracked[m[1]].hash # NoHash /\ m[2] \notin DOMAIN tracked
    BY NotIdle, Apart, Types DEF ScanMove, Base, SoleAlone
  <1>3. m \in Paths \X Paths
    BY <1>2 DEF Scan
  <1> DEFINE a == m[1]
             b == m[2]
             slug == <<SlugOf[b], 1>>
             from == tracked[a].slug
             others == Takers(slug, b) \ {a}
             changed == b \in DOMAIN disk /\ disk[b].content # tracked[a].hash
             new == [hash |-> tracked[a].hash, slug |-> slug, size |-> tracked[a].size,
                     at |-> now + UTCAhead]
  <1>4. a \in DOMAIN tracked /\ b \in Paths /\ b \notin DOMAIN tracked /\ a # b
    BY <1>2, <1>3
  <1> SUFFICES ASSUME NEW p \in DOMAIN tracked', p \notin excused', Untorn(p)'
               PROVE  Vouched(p)'
    BY DEF RowsVouch
  <1>5. CASE UNCHANGED <<books, tracked>> /\ excused \subseteq excused'
    <2>1. Vouched(p)
      BY <1>2, <1>5, NoLanes DEF RowsVouch
    <2>2. Seen(p)' /\ Awaited(p)'
      BY <1>2, <1>5, <2>1, AskedStill DEF Vouched, Seen, Awaited, Noticed
    <2>3. QED
      BY <1>2, <1>5, <2>1, <2>2, Kept
  <1>6. CASE /\ from # slug => from \notin DOMAIN books \/ slug \notin DOMAIN books
             /\ books' = IF from \notin DOMAIN books THEN books ELSE Renamed(from, slug, b)
             /\ tracked' = With(Without(tracked, {a}), b, new)
             /\ excused' = excused \cup others
                   \cup (IF a \in excused \/ changed \/ BooksOf(b) # {} \/ others # {}
                         THEN {b} ELSE {})
    <2>1. new.hash = tracked[a].hash /\ new.slug = slug
      OBVIOUS
    <2> HIDE DEF new
    <2>2. /\ DOMAIN tracked' = (DOMAIN tracked \ {a}) \cup {b} /\ tracked'[b] = new
          /\ \A r \in DOMAIN tracked' \ {b} : tracked'[r] = tracked[r]
      BY <1>6 DEF With, Without
    <2>3. CASE p = b
      <3>1. a \notin excused /\ ~changed /\ BooksOf(b) = {} /\ Takers(slug, b) \subseteq {a}
        BY <1>6, <2>3
      <3>2. Vouched(a)
        BY <1>2, <1>4, <3>1, NoLanes DEF RowsVouch
      <3> DEFINE t == slug
                 pa == a
                 pb == b
      <3>3. /\ pa \in DOMAIN tracked /\ pb \in Paths /\ pa # pb /\ pb \notin DOMAIN tracked
            /\ tracked[pa].hash # NoHash /\ new.hash = tracked[pa].hash /\ new.slug = t
            /\ tracked[pa].slug # t =>
                  tracked[pa].slug \notin DOMAIN books \/ t \notin DOMAIN books
            /\ books' = IF tracked[pa].slug \notin DOMAIN books THEN books
                        ELSE Renamed(tracked[pa].slug, t, pb)
            /\ tracked' = With(Without(tracked, {pa}), pb, new)
            /\ ~(pb \in DOMAIN disk /\ disk[pb].content # tracked[pa].hash)
            /\ BooksOf(pb) = {} /\ Takers(t, pb) \subseteq {pa} /\ Vouched(pa) /\ p = pb
        BY <1>2, <1>4, <1>6, <2>1, <2>3, <3>1, <3>2
      <3> HIDE DEF t, pa, pb
      <3>4. QED
        BY <1>2, <3>3, MovedVouch
    <2>4. CASE p # b
      <3>1. p \in DOMAIN tracked /\ p # a /\ tracked'[p] = tracked[p] /\ p \notin excused
        BY <1>6, <2>2, <2>4
      <3>2. Vouched(p)
        BY <1>2, <3>1, NoLanes DEF RowsVouch
      <3>3. tracked[p].slug # slug
        <4>1. p \notin Takers(slug, b)
          BY <1>6, <3>1
        <4>2. QED
          BY <2>4, <3>1, <4>1, TakersOf
      <3>4. tracked[p].slug # from
        BY <1>4, <3>1, <3>2 DEF Vouched, Mine
      <3>5. Aside(p)
        <4>1. CASE UNCHANGED books
          BY <4>1, Unread
        <4>2. CASE from \in DOMAIN books /\ books' = Renamed(from, slug, b)
          <5>1. books[from] \in Book
            BY <4>2, Types DEF Base, BooksOK
          <5>2. [books[from] EXCEPT !.path = b].path = b
            BY <5>1 DEF Book
          <5>3. /\ DOMAIN books' = (DOMAIN books \ {from}) \cup {slug}
                /\ \A s \in DOMAIN books' :
                      books'[s] = IF s = slug THEN [books[from] EXCEPT !.path = b] ELSE books[s]
            BY <4>2 DEF Renamed
          <5>4. QED
            BY <2>4, <3>3, <3>4, <5>2, <5>3 DEF Aside
        <4>3. QED
          BY <1>6, <4>1, <4>2
      <3>6. Holds(p)'
        BY <3>1, <3>2, <3>5, AsideHolds DEF Vouched
      <3>7. Mine(p)'
        <4>1. \A r \in DOMAIN tracked' : tracked'[r].slug = tracked[p].slug => r = p
          BY <2>1, <2>2, <3>2, <3>3 DEF Vouched, Mine
        <4>2. \A k \in Lanes : Ingesting(k)' /\ lane'[k].slug = tracked[p].slug => lane'[k].path = p
          BY <1>2, NoLanes
        <4>3. QED
          BY <3>1, <3>2, <3>5, <4>1, <4>2, AsideMine DEF Vouched
      <3>8. Seen(p)' /\ Awaited(p)'
        BY <1>2, <3>1, <3>2, AskedStill DEF Vouched, Seen, Awaited, Noticed
      <3>9. QED
        BY <3>6, <3>7, <3>8 DEF Vouched
    <2>5. QED
      BY <2>3, <2>4
  <1>7. QED
    BY <1>1, <1>5, <1>6, Zenon DEF MoveFile

\* What a reconcile leaves of the books and of the rows, and what it adds.
Reconciling ==
    /\ UNCHANGED <<disk, lane>> /\ LanesIdle /\ excused \subseteq excused'
    /\ \A s \in DOMAIN books' :
          /\ s \in DOMAIN books /\ books'[s].path = books[s].path
          /\ books'[s].chunks \subseteq books[s].chunks
          /\ books[s].path \notin excused' => books'[s].chunks = books[s].chunks
    /\ \A q \in DOMAIN tracked :
          /\ q \in DOMAIN tracked' /\ tracked'[q] = tracked[q]
          /\ tracked[q].slug \in DOMAIN books => tracked[q].slug \in DOMAIN books'
    /\ \A q \in DOMAIN tracked' \ DOMAIN tracked :
          /\ tracked'[q].slug \in Orphans /\ books[tracked'[q].slug].path = q
          /\ tracked'[q].hash = NoHash /\ q \in Mending'
    /\ \A q \in DOMAIN tracked', r \in DOMAIN tracked' :
          q \notin DOMAIN tracked /\ r \notin DOMAIN tracked => q = r
    /\ \A q : <<"ingest", q>> \in pending => <<"ingest", q>> \in pending'
    /\ \A q \in Mending : q \in Mending' \/ <<"ingest", q>> \in pending'

LEMMA Reconciled ==
    ASSUME Base, Reconcile
    PROVE  Reconciling
  <1>1. BooksOK /\ TypeOK /\ SoleAlone
    BY Types DEF Base
  <1>2. UNCHANGED <<disk, lane>> /\ LanesIdle /\ excused \subseteq excused'
    BY <1>1 DEF Reconcile, ReconcilePurge, ReconcileMend, ReconcileQueue, SoleAlone
  <1>3. CASE ReconcilePurge
    <2>1. /\ UNCHANGED tracked /\ Mending = {} /\ excused' = excused \cup Fossilised
          /\ \A q : <<"ingest", q>> \in pending => <<"ingest", q>> \in pending'
      BY <1>3, Apart DEF ReconcilePurge
    <2>2. DOMAIN books' = DOMAIN books
      BY <1>3 DEF ReconcilePurge, Purged
    <2>3. ASSUME NEW s \in DOMAIN books
          PROVE  /\ books'[s].path = books[s].path
                 /\ books'[s].chunks = {c \in books[s].chunks : Begins(s, c.slug)}
      <3> DEFINE C == {c \in books[s].chunks : Begins(s, c.slug)}
      <3>1. books[s] \in Book
        BY <1>1 DEF BooksOK
      <3>2. books'[s] = [books[s] EXCEPT !.chunks = C]
        BY <1>3 DEF ReconcilePurge, Purged
      <3> HIDE DEF C
      <3>3. books'[s].path = books[s].path /\ books'[s].chunks = C
        BY <3>1, <3>2 DEF Book
      <3>4. QED
        BY <3>3 DEF C
    <2>4. ASSUME NEW s \in DOMAIN books, books[s].path \notin excused'
          PROVE  books'[s].chunks = books[s].chunks
      <3>1. \A c \in books[s].chunks : Begins(s, c.slug)
        BY <2>1, <2>4 DEF Fossilised
      <3>2. QED
        BY <2>3, <3>1
    <2>5. QED
      BY <1>2, <2>1, <2>2, <2>3, <2>4 DEF Reconciling
  <1>4. CASE ReconcileMend
    <2>1. PICK s \in Orphans : Mend(s)
      BY <1>4 DEF ReconcileMend
    <2>2. /\ sole \in Repair /\ UNCHANGED <<pending, excused>>
          /\ \A q \in DOMAIN tracked : tracked[q].slug # s
      BY <1>1, <1>4, NotIdle DEF ReconcileMend, Orphans
    <2> DEFINE p == books[s].path
               row == [hash |-> NoHash, size |-> 0, at |-> now, slug |-> s]
    <2>3. CASE /\ tracked' = With(tracked, p, row) /\ UNCHANGED books /\ p \notin DOMAIN tracked
               /\ sole' = [sole EXCEPT !.again = @ \cup {p}]
      <3>1. sole' \in Repair /\ sole'.again = sole.again \cup {p}
        <4>1. p \in Paths
          BY <1>1, <2>1 DEF Orphans, BooksOK, Book
        <4>2. QED
          BY <2>2, <2>3, <4>1 DEF Repair
      <3>2. Mending = sole.again /\ Mending' = sole.again \cup {p}
        BY <2>2, <3>1 DEF Mending, Repair, Idle
      <3>3. row.slug = s /\ row.hash = NoHash
        OBVIOUS
      <3> HIDE DEF row
      <3>4. /\ DOMAIN tracked' = DOMAIN tracked \cup {p} /\ tracked'[p] = row
            /\ \A q \in DOMAIN tracked : tracked'[q] = tracked[q]
        BY <2>3 DEF With
      <3>5. QED
        BY <1>2, <2>2, <2>3, <3>2, <3>3, <3>4 DEF Reconciling
    <2>4. CASE books' = Without(books, {s}) /\ UNCHANGED <<tracked, sole>>
      <3>1. UNCHANGED Mending
        BY <2>4 DEF Mending
      <3>2. DOMAIN books' = DOMAIN books \ {s} /\ \A t \in DOMAIN books' : books'[t] = books[t]
        BY <2>4 DEF Without
      <3>3. QED
        BY <1>2, <2>2, <2>4, <3>1, <3>2 DEF Reconciling
    <2>5. QED
      BY <2>1, <2>3, <2>4, Zenon DEF Mend
  <1>5. CASE ReconcileQueue
    <2>1. sole \in Repair /\ UNCHANGED <<books, tracked>>
      BY <1>1, <1>5, NotIdle DEF ReconcileQueue, tables
    <2>2. \A q \in Mending : <<"ingest", q>> \in pending'
      BY <1>5, <2>1, Apart DEF ReconcileQueue
    <2>3. pending \subseteq pending'
      BY <1>5 DEF ReconcileQueue
    <2>4. QED
      BY <1>2, <2>1, <2>2, <2>3 DEF Reconciling
  <1>6. QED
    BY <1>3, <1>4, <1>5 DEF Reconcile

\* The only book of a path that stays unexcused is its row's: a reconcile leaves
\* it as it was.
LEMMA ReconcileSpares ==
    ASSUME Reconciling, NEW p \in DOMAIN tracked, p \notin excused',
           BooksOf(p) \subseteq {tracked[p].slug}
    PROVE  BooksOf(p)' = BooksOf(p) /\ Findable(p)' = Findable(p)
  <1>1. \A s \in BooksOf(p) : s \in DOMAIN books'
    BY DEF BooksOf, Reconciling
  <1>2. BooksOf(p)' = BooksOf(p)
    BY <1>1 DEF BooksOf, Reconciling
  <1>3. \A s \in BooksOf(p) : books'[s].chunks = books[s].chunks
    BY <1>1 DEF BooksOf, Reconciling
  <1>4. QED
    BY <1>2, <1>3, SameBooks

LEMMA ReconcileVouch ==
    ASSUME Base, RowsVouch, Reconcile
    PROVE  RowsVouch'
  <1>0. Reconciling
    BY Reconciled
  <1>1. LanesIdle /\ UNCHANGED <<disk, lane>> /\ excused \subseteq excused'
    BY <1>0 DEF Reconciling
  <1>2. \A k \in Lanes : ~Ingesting(k)'
    BY <1>1, NoLanes
  <1>3. \A q \in DOMAIN tracked : q \in DOMAIN tracked' /\ tracked'[q] = tracked[q]
    BY <1>0 DEF Reconciling
  <1>4. \A q \in DOMAIN tracked' \ DOMAIN tracked :
           /\ tracked'[q].slug \in Orphans /\ books[tracked'[q].slug].path = q
           /\ tracked'[q].hash = NoHash /\ q \in Mending'
    BY <1>0 DEF Reconciling
  <1>5. \A s \in DOMAIN books' : s \in DOMAIN books /\ books'[s].path = books[s].path
    BY <1>0 DEF Reconciling
  <1>6. \A s \in Orphans : \A q \in DOMAIN tracked : tracked[q].slug # s
    BY DEF Orphans
  <1> SUFFICES ASSUME NEW p \in DOMAIN tracked', p \notin excused', Untorn(p)'
               PROVE  Vouched(p)'
    BY DEF RowsVouch
  <1>7. CASE p \in DOMAIN tracked
    <2>1. Vouched(p) /\ tracked'[p] = tracked[p]
      BY <1>1, <1>3, <1>7, NoLanes DEF RowsVouch
    <2>2. Mine(p)'
      <3>1. \A q \in DOMAIN tracked' : tracked'[q].slug = tracked[p].slug => q = p
        BY <1>3, <1>4, <1>6, <1>7, <2>1 DEF Vouched, Mine
      <3>2. tracked[p].slug \in DOMAIN books' => books'[tracked[p].slug].path = p
        BY <1>5, <2>1 DEF Vouched, Mine
      <3>3. QED
        BY <1>2, <2>1, <3>1, <3>2 DEF Mine
    <2>3. Holds(p)'
      BY <1>0, <1>7, <2>1, ReconcileSpares DEF Holds, Vouched
    <2>4. Seen(p)'
      BY <1>1, <2>1 DEF Vouched, Seen, Noticed
    <2>5. Awaited(p)'
      <3>1. /\ <<"ingest", p>> \in pending => <<"ingest", p>> \in pending'
            /\ p \in Mending => p \in Mending' \/ <<"ingest", p>> \in pending'
        BY <1>0 DEF Reconciling
      <3>2. QED
        BY <1>1, <2>1, <3>1, AskedStill DEF Vouched, Awaited
    <2>6. QED
      BY <2>2, <2>3, <2>4, <2>5 DEF Vouched
  <1>8. CASE p \notin DOMAIN tracked
    <2> DEFINE t == tracked'[p].slug
    <2>1. /\ t \in Orphans /\ books[t].path = p /\ tracked'[p].hash = NoHash
          /\ p \in Mending'
      BY <1>4, <1>8
    <2>2. \A q \in DOMAIN tracked' : tracked'[q].slug = t => q = p
      BY <1>3, <1>4, <1>6, <2>1
    <2>3. t \in DOMAIN books' => books'[t].path = p
      BY <1>5, <2>1
    <2>4. Mine(p)'
      BY <1>2, <2>2, <2>3 DEF Mine
    <2>5. Awaited(p)'
      BY <2>1 DEF Awaited, Asked
    <2>6. QED
      BY <2>1, <2>4, <2>5 DEF Vouched, Holds, Seen
  <1>9. QED
    BY <1>7, <1>8

\* A crash takes no book and no row; an ingest under way comes back as a
\* request.
LEMMA CrashVouch ==
    ASSUME Base, RowsVouch, Crash
    PROVE  RowsVouch'
  <1>1. /\ UNCHANGED <<disk, books, tracked>>
        /\ lane' = [l \in Lanes |-> Idle]
        /\ pending \subseteq pending'
        /\ \A l \in Lanes : lane[l] # Idle => <<lane[l].type, lane[l].path>> \in pending'
        /\ excused' = excused
              \cup {lane[l].path : l \in {k \in Lanes : lane[k] # Idle /\ Torn(k)}}
              \cup {p \in Mending : <<"ingest", p>> \notin pending}
    BY DEF Crash, tables
  <1> SUFFICES ASSUME NEW p \in DOMAIN tracked', p \notin excused', Untorn(p)'
               PROVE  Vouched(p)'
    BY DEF RowsVouch
  <1>2. Untorn(p)
    BY <1>1 DEF Untorn, On, Torn
  <1>3. Vouched(p)
    BY <1>1, <1>2 DEF RowsVouch
  <1>4. Holds(p)'
    BY <1>1, <1>3, Unread, AsideHolds DEF Vouched
  <1>5. Mine(p)'
    BY <1>1, <1>3 DEF Vouched, Mine, Ingesting
  <1>6. Asked(p) => Asked(p)'
    <2>1. ASSUME NEW l \in On(p), Ingesting(l) PROVE <<"ingest", p>> \in pending'
      BY <1>1, <2>1 DEF On, Base, LaneSteps
    <2>2. p \in Mending => <<"ingest", p>> \in pending'
      BY <1>1
    <2>3. QED
      BY <1>1, <2>1, <2>2 DEF Asked, Noticed
  <1>7. Seen(p)' /\ Awaited(p)'
    BY <1>1, <1>3, <1>6 DEF Vouched, Seen, Awaited, Noticed
  <1>8. QED
    BY <1>4, <1>5, <1>7 DEF Vouched

LEMMA StutterVouch ==
    ASSUME RowsVouch, UNCHANGED vars
    PROVE  RowsVouch'
  <1>1. UNCHANGED <<disk, books, tracked, lane, sole, excused, pending>>
    BY DEF vars, tables
  <1> SUFFICES ASSUME NEW p \in DOMAIN tracked', p \notin excused', Untorn(p)'
               PROVE  Vouched(p)'
    BY DEF RowsVouch
  <1>2. Vouched(p)
    BY <1>1, UntornStill DEF RowsVouch
  <1>3. Seen(p)' /\ Awaited(p)'
    BY <1>1, <1>2, AskedStill DEF Vouched, Seen, Awaited, Noticed, Mending
  <1>4. QED
    BY <1>1, <1>2, <1>3, Kept

-----------------------------------------------------------------------------
(* No slug is two paths'.  RowsVouch says it of the paths with a row; a job    *)
(* that writes over a book needs it of every path.                            *)

\* A path has slug s for its own: by a job in hand, a row or a book.
Claims(p, s) ==
    \/ \E k \in Lanes : Ingesting(k) /\ lane[k].slug = s /\ lane[k].path = p
    \/ p \in DOMAIN tracked /\ tracked[p].slug = s
    \/ s \in DOMAIN books /\ books[s].path = p
SlugsApart ==
    \A p, q \in Paths : \A s \in Slugs :
        p # q /\ Claims(p, s) /\ Claims(q, s) => p \in excused

LEMMA TakersClaim ==
    ASSUME NEW p, NEW q, NEW s
    PROVE  q \in Takers(s, p) <=> q # p /\ Claims(q, s)
  BY TakersOf DEF Claims

LEMMA FewerClaims ==
    ASSUME SlugsApart, excused \subseteq excused',
           \A p \in Paths, s \in Slugs : Claims(p, s)' => Claims(p, s)
    PROVE  SlugsApart'
  BY DEF SlugsApart

\* A slug that is handed out: whoever else has it is excused, and so is the path
\* it is given to.
LEMMA OneMoreClaim ==
    ASSUME SlugsApart, excused \subseteq excused', NEW p \in Paths, NEW s \in Slugs,
           \A q \in Paths, t \in Slugs : Claims(q, t)' => Claims(q, t) \/ (q = p /\ t = s),
           \A q \in Paths : q # p /\ Claims(q, s)' => {p, q} \subseteq excused'
    PROVE  SlugsApart'
  BY DEF SlugsApart

\* A lane turns to a job, or goes on with the one it has.
LEMMA LaneClaims ==
    ASSUME TypeOK, NEW l \in Lanes, NEW job, lane' = [lane EXCEPT ![l] = job],
           UNCHANGED <<books, tracked>>, NEW q \in Paths, NEW t, Claims(q, t)'
    PROVE  Claims(q, t) \/ (job # Idle /\ job.hash # NoHash /\ job.path = q /\ job.slug = t)
  <1>1. lane'[l] = job /\ \A k \in Lanes \ {l} : lane'[k] = lane[k]
    BY Types
  <1>2. ASSUME NEW k \in Lanes, Ingesting(k)', lane'[k].slug = t, lane'[k].path = q
        PROVE  Claims(q, t) \/ (job # Idle /\ job.hash # NoHash /\ job.path = q /\ job.slug = t)
    <2>1. CASE k = l
      BY <1>1, <1>2, <2>1 DEF Ingesting
    <2>2. CASE k # l
      BY <1>1, <1>2, <2>2 DEF Ingesting, Claims
    <2>3. QED
      BY <2>1, <2>2
  <1>3. QED
    BY <1>2 DEF Claims

\* A lane that goes on with the slug it has, or with none.
LEMMA SameJob ==
    ASSUME TypeOK, SlugsApart, excused \subseteq excused', UNCHANGED <<books, tracked>>,
           NEW l \in Lanes, NEW job, lane' = [lane EXCEPT ![l] = job],
           job # Idle /\ job.hash # NoHash =>
               Ingesting(l) /\ job.path = lane[l].path /\ job.slug = lane[l].slug
    PROVE  SlugsApart'
  <1>1. ASSUME NEW q \in Paths, NEW t \in Slugs, Claims(q, t)' PROVE Claims(q, t)
    <2>1. job # Idle /\ job.hash # NoHash /\ job.path = q /\ job.slug = t => Claims(q, t)
      BY DEF Claims
    <2>2. QED
      BY <1>1, <2>1, LaneClaims
  <1>2. QED
    BY <1>1, FewerClaims

LEMMA ReadApart ==
    ASSUME Base, SlugsApart, NEW l \in Lanes, NEW p \in Paths, IngestRead(l, p)
    PROVE  SlugsApart'
  <1>1. /\ excused \subseteq excused' /\ UNCHANGED <<books, tracked>> /\ TypeOK
    BY DEF IngestRead, Joined, tables, Base
  <1>2. CASE p \notin DOMAIN disk
    <2> DEFINE job == NewJob("ingest", p, "book", <<SlugOf[p], 1>>, NoHash)
    <2>1. lane' = [lane EXCEPT ![l] = job] /\ job.hash = NoHash
      BY <1>2 DEF IngestRead, NewJob
    <2> HIDE DEF job
    <2>2. QED
      BY <1>1, <2>1, SameJob
  <1>3. CASE p \in DOMAIN disk
    <2>1. PICK s \in Slugs : s = Identity(p)
      BY IdentityType
    <2> DEFINE job == NewJob("ingest", p, "parse", s, disk[p].content)
    <2>2. lane' = [lane EXCEPT ![l] = job] /\ Contested(s, p) \subseteq excused'
      BY <1>3, <2>1 DEF IngestRead
    <2>3. job.path = p /\ job.slug = s
      BY DEF NewJob
    <2> HIDE DEF job
    <2>4. \A q \in Paths, t \in Slugs : Claims(q, t)' => Claims(q, t) \/ (q = p /\ t = s)
      BY <1>1, <2>2, <2>3, LaneClaims
    <2>5. CASE p \in DOMAIN tracked
      <3>1. Claims(p, s)
        BY <2>1, <2>5 DEF Claims, Identity
      <3>2. QED
        BY <1>1, <2>4, <3>1, FewerClaims
    <2>6. CASE p \notin DOMAIN tracked
      <3>1. Owned(s, p)
        BY <2>1, <2>6, Allocated DEF Base, Identity
      <3>2. ASSUME NEW q \in Paths, q # p, Claims(q, s)' PROVE {p, q} \subseteq excused'
        <4>1. q \in Takers(s, p)
          BY <2>4, <3>2, TakersClaim
        <4>2. QED
          BY <2>2, <3>1, <4>1 DEF Contested
      <3>3. QED
        BY <1>1, <2>4, <3>2, OneMoreClaim
    <2>7. QED
      BY <2>5, <2>6
  <1>4. QED
    BY <1>2, <1>3

LEMMA WriteApart ==
    ASSUME Base, SlugsApart, NEW l \in Lanes, IngestWrite(l)
    PROVE  SlugsApart'
  <1> DEFINE p == lane[l].path
             s == lane[l].slug
  <1>1. /\ lane[l] # Idle /\ lane[l].step = "write" /\ UNCHANGED tracked
        /\ excused \subseteq excused' /\ TypeOK
    BY DEF IngestWrite, WriteBook, LoseSlug, Base
  <1>2. lane[l] \in FileJob /\ Ingesting(l) /\ p \in Paths
    BY <1>1, NotIdle, FileJobParts DEF Base, LaneSteps
  <1>3. CASE WriteBook(l)
    <2> DEFINE b == [path |-> p, chunks |-> {[text |-> lane[l].text, slug |-> s]}]
    <2>1. /\ books' = With(books, s, b)
          /\ lane' = [lane EXCEPT ![l] = [lane[l] EXCEPT !.step = "track"]]
      BY <1>3, Zenon DEF WriteBook, Goto
    <2>2. b.path = p
      OBVIOUS
    <2> HIDE DEF b
    <2>3. /\ \A k \in Lanes : lane[k] \in {Idle} \cup FileJob
          /\ \A k \in Lanes : lane'[k] = IF k = l THEN [lane[l] EXCEPT !.step = "track"] ELSE lane[k]
      BY <1>1, <2>1, Types
    <2>4. ASSUME NEW k \in Lanes, Ingesting(k)'
          PROVE  Ingesting(k) /\ lane'[k].slug = lane[k].slug /\ lane'[k].path = lane[k].path
      <3>1. CASE k = l
        BY <1>2, <2>3, <3>1 DEF FileJob
      <3>2. CASE k # l
        BY <2>3, <2>4, <3>2 DEF Ingesting
      <3>3. QED
        BY <3>1, <3>2
    <2>5. ASSUME NEW q \in Paths, NEW t \in Slugs, Claims(q, t)' PROVE Claims(q, t)
      <3>1. CASE \E k \in Lanes : Ingesting(k)' /\ lane'[k].slug = t /\ lane'[k].path = q
        BY <2>4, <3>1 DEF Claims
      <3>2. CASE q \in DOMAIN tracked' /\ tracked'[q].slug = t
        BY <1>1, <3>2 DEF Claims
      <3>3. CASE t \in DOMAIN books' /\ books'[t].path = q
        <4>1. CASE t = s
          BY <1>2, <2>1, <2>2, <3>3, <4>1 DEF With, Claims
        <4>2. CASE t # s
          BY <2>1, <3>3, <4>2 DEF With, Claims
        <4>3. QED
          BY <4>1, <4>2
      <3>4. QED
        BY <2>5, <3>1, <3>2, <3>3 DEF Claims
    <2>6. QED
      BY <1>1, <2>5, FewerClaims
  <1>4. CASE LoseSlug(l)
    <2>1. PICK r \in Paths, t \in Slugs : r = p /\ t = Allocate(p)
      BY <1>2, Allocated DEF Base
    <2> DEFINE job == [lane[l] EXCEPT !.slug = t, !.step = "parse", !.retried = TRUE]
    <2>2. /\ lane' = [lane EXCEPT ![l] = job] /\ UNCHANGED books
          /\ excused' = excused \cup Contested(t, r)
      BY <1>4, <2>1, Zenon DEF LoseSlug
    <2>3. Owned(t, r)
      BY <1>2, <2>1, Allocated DEF Base
    <2>4. job.path = r /\ job.slug = t
      BY <1>2, <2>1 DEF FileJob
    <2> HIDE DEF job
    <2>5. \A q \in Paths, u \in Slugs : Claims(q, u)' => Claims(q, u) \/ (q = r /\ u = t)
      BY <1>1, <2>2, <2>4, LaneClaims
    <2>6. ASSUME NEW q \in Paths, q # r, Claims(q, t)' PROVE {r, q} \subseteq excused'
      <3>1. q \in Takers(t, r)
        BY <2>5, <2>6, TakersClaim
      <3>2. QED
        BY <2>2, <2>3, <3>1 DEF Contested
    <2>7. QED
      BY <1>1, <2>5, <2>6, OneMoreClaim
  <1>5. QED
    BY <1>3, <1>4 DEF IngestWrite

\* Only a clean run has its path excused no longer, and nobody else has its slug.
LEMMA TrackApart ==
    ASSUME Base, SlugsApart, NEW l \in Lanes, IngestTrack(l)
    PROVE  SlugsApart'
  <1>1. PICK p \in Paths, s \in Slugs : p = lane[l].path /\ s = lane[l].slug
    BY NotIdle, FileJobParts DEF Base, IngestTrack
  <1> DEFINE row == [hash |-> lane[l].hash, slug |-> s,
                     size |-> SizeOf[disk[p].content], at |-> now]
  <1>2. /\ lane[l] # Idle /\ lane[l].step = "track" /\ lane' = [lane EXCEPT ![l] = Idle]
        /\ tracked' = With(tracked, p, row) /\ UNCHANGED books
        /\ excused' = IF CleanRun(l) THEN excused \ {p} ELSE excused \cup {p}
    BY <1>1, Zenon DEF IngestTrack, End
  <1>3. Ingesting(l)
    BY <1>2 DEF Base, LaneSteps
  <1>4. row.slug = s
    OBVIOUS
  <1> HIDE DEF row
  <1>5. \A k \in Lanes : Ingesting(k)' => Ingesting(k) /\ k # l /\ lane'[k] = lane[k]
    BY <1>2, Types DEF Base, Ingesting
  <1>6. ASSUME NEW q \in Paths, NEW t \in Slugs, Claims(q, t)' PROVE Claims(q, t)
    <2>1. Claims(p, s)
      BY <1>1, <1>3 DEF Claims
    <2>2. q \in DOMAIN tracked' /\ tracked'[q].slug = t => Claims(q, t)
      BY <1>2, <1>4, <2>1 DEF Claims, With
    <2>3. QED
      BY <1>2, <1>5, <1>6, <2>2 DEF Claims
  <1>7. CASE ~CleanRun(l)
    BY <1>2, <1>6, <1>7, FewerClaims
  <1>8. CASE CleanRun(l)
    <2>1. On(p) = {l} /\ Takers(s, p) = {} /\ BooksOf(p) \subseteq {s}
      BY <1>1, <1>8 DEF CleanRun
    <2>2. ASSUME NEW t \in Slugs, Claims(p, t)' PROVE t = s
      <3>1. ~ \E k \in Lanes : Ingesting(k)' /\ lane'[k].path = p
        BY <1>5, <2>1 DEF On, Ingesting
      <3>2. p \in DOMAIN tracked' /\ tracked'[p].slug = t => t = s
        BY <1>2, <1>4 DEF With
      <3>3. t \in DOMAIN books' /\ books'[t].path = p => t = s
        BY <1>2, <2>1 DEF BooksOf
      <3>4. QED
        BY <2>2, <3>1, <3>2, <3>3 DEF Claims
    <2>3. \A q \in Paths : q # p => ~Claims(q, s)
      BY <2>1, TakersClaim
    <2>4. QED
      BY <1>2, <1>6, <1>8, <2>2, <2>3 DEF SlugsApart
  <1>9. QED
    BY <1>7, <1>8

LEMMA RestApart ==
    ASSUME Base, SlugsApart, NEW l \in Lanes,
           IngestParse(l) \/ IngestFails(l) \/ IngestUntracked(l)
    PROVE  SlugsApart'
  <1>1. /\ lane[l] # Idle /\ UNCHANGED <<books, tracked>> /\ excused \subseteq excused' /\ TypeOK
    BY DEF IngestParse, IngestFails, AskAgain, RecordFailure, IngestUntracked, Base, tables
  <1>2. lane[l] \in FileJob
    BY <1>1, NotIdle
  <1>3. CASE IngestParse(l)
    <2> DEFINE c == disk[lane[l].path].content
               job == [lane[l] EXCEPT !.step = IF c \in Blank THEN "track" ELSE "write",
                                      !.text = IF c \in Blank THEN NoHash ELSE c]
    <2>1. lane' = [lane EXCEPT ![l] = job]
      BY <1>3, Zenon DEF IngestParse
    <2>2. job.path = lane[l].path /\ job.slug = lane[l].slug
      BY <1>2 DEF FileJob
    <2>3. Ingesting(l)
      BY <1>1, <1>3 DEF IngestParse, Base, LaneSteps
    <2> HIDE DEF job
    <2>4. QED
      BY <1>1, <2>1, <2>2, <2>3, SameJob
  <1>4. CASE IngestFails(l) \/ IngestUntracked(l)
    <2> DEFINE job == Idle
    <2>1. lane' = [lane EXCEPT ![l] = job]
      BY <1>4 DEF IngestFails, IngestUntracked, End
    <2>2. job = Idle
      OBVIOUS
    <2> HIDE DEF job
    <2>3. QED
      BY <1>1, <2>1, <2>2, SameJob
  <1>5. QED
    BY <1>3, <1>4

LEMMA RemoveApart ==
    ASSUME Base, SlugsApart, NEW l \in Lanes, Remove(l)
    PROVE  SlugsApart'
  <1>1. TypeOK /\ lane \in [Lanes -> {Idle} \cup FileJob]
    BY Types DEF Base
  <1>2. ASSUME NEW p \in Paths, RemoveLook(l, p) PROVE SlugsApart'
    <2> DEFINE job == IF p \in DOMAIN disk THEN lane[l]
                      ELSE NewJob("remove", p, "book", <<SlugOf[p], 1>>, NoHash)
    <2>1. /\ lane' = [lane EXCEPT ![l] = job] /\ lane[l] = Idle
          /\ UNCHANGED <<books, tracked>> /\ excused \subseteq excused'
      BY <1>1, <1>2 DEF RemoveLook, Start, Joined, tables
    <2>2. job # Idle => job.hash = NoHash
      BY <2>1 DEF NewJob
    <2> HIDE DEF job
    <2>3. QED
      BY <1>1, <2>1, <2>2, SameJob
  <1>3. ASSUME RemoveBook(l) \/ RemoveRow(l) PROVE SlugsApart'
    <2>1. /\ lane[l] # Idle /\ lane[l].step \in {"book", "row"} /\ UNCHANGED excused
          /\ DOMAIN books' \subseteq DOMAIN books
          /\ \A t \in DOMAIN books' : books'[t] = books[t]
          /\ DOMAIN tracked' \subseteq DOMAIN tracked
          /\ \A q \in DOMAIN tracked' : tracked'[q] = tracked[q]
      BY <1>3 DEF RemoveBook, RemoveRow, Without
    <2>2. lane[l] \in FileJob /\ lane[l].hash = NoHash
      BY <1>1, <2>1, NotIdle DEF Base, LaneSteps, Ingesting
    <2>3. ASSUME NEW k \in Lanes, Ingesting(k)' PROVE lane'[k] = lane[k]
      <3>1. CASE k = l
        <4>1. lane'[l] = Idle \/ lane'[l].hash = NoHash
          BY <1>1, <1>3, <2>2 DEF RemoveBook, RemoveRow, End, Goto, FileJob
        <4>2. QED
          BY <2>3, <3>1, <4>1 DEF Ingesting
      <3>2. CASE k # l
        BY <1>1, <1>3, <3>2 DEF RemoveBook, RemoveRow, End, Goto
      <3>3. QED
        BY <3>1, <3>2
    <2>4. ASSUME NEW q \in Paths, NEW t \in Slugs, Claims(q, t)' PROVE Claims(q, t)
      BY <2>1, <2>3, <2>4 DEF Claims, Ingesting
    <2>5. QED
      BY <2>1, <2>4, FewerClaims
  <1>4. QED
    BY <1>2, <1>3 DEF Remove

\* What move_file does: nothing, if the slug is taken, or the row and the book go
\* over to the new path.
Follows(a, b, slug) ==
    /\ books' = IF tracked[a].slug \notin DOMAIN books THEN books
                ELSE Renamed(tracked[a].slug, slug, b)
    /\ tracked[a].slug # slug => tracked[a].slug \notin DOMAIN books \/ slug \notin DOMAIN books
    /\ \E row :
          /\ row.slug = slug /\ row.hash = tracked[a].hash
          /\ tracked' = With(Without(tracked, {a}), b, row)
    /\ excused \cup (Takers(slug, b) \ {a}) \subseteq excused'
    /\ \/ b \in excused'
       \/ /\ a \notin excused /\ Takers(slug, b) \subseteq {a} /\ BooksOf(b) = {}
          /\ ~(b \in DOMAIN disk /\ disk[b].content # tracked[a].hash)
Moving(a, b, slug) ==
    /\ a # b /\ a \in DOMAIN tracked /\ b \notin DOMAIN tracked /\ tracked[a].hash \in Contents
    /\ <<a, b>> \in sole.moves /\ sole' = [sole EXCEPT !.moves = @ \ {<<a, b>>}]
    /\ \/ UNCHANGED <<books, tracked>> /\ excused' = excused \cup {a, b}
       \/ Follows(a, b, slug)

LEMMA Moved ==
    ASSUME Base, ScanMove
    PROVE  \E a, b \in Paths, slug \in Slugs : Moving(a, b, slug)
  <1>1. PICK m \in sole.moves :
           MoveFile(m[1], m[2]) /\ sole' = [sole EXCEPT !.moves = @ \ {m}]
    BY DEF ScanMove
  <1>2. /\ sole \in Scan /\ TypeOK /\ m[1] \in DOMAIN tracked
        /\ tracked[m[1]].hash # NoHash /\ m[2] \notin DOMAIN tracked
    BY NotIdle DEF ScanMove, Base, SoleAlone
  <1>3. m \in Paths \X Paths
    BY <1>2 DEF Scan
  <1>4. PICK a \in Paths, b \in Paths : m = <<a, b>>
    BY <1>3
  <1> DEFINE own == tracked[a].slug
             plain == <<SlugOf[b], 1>>
             others == Takers(plain, b) \ {a}
             changed == b \in DOMAIN disk /\ disk[b].content # tracked[a].hash
             row == [hash |-> tracked[a].hash, slug |-> plain, size |-> tracked[a].size,
                     at |-> now + UTCAhead]
             left == IF a \in excused \/ changed \/ BooksOf(b) # {} \/ others # {}
                     THEN {b} ELSE {}
  <1>5. MoveFile(a, b)
    BY <1>1, <1>4
  <1>6. \/ UNCHANGED <<books, tracked>> /\ excused' = excused \cup {a, b}
        \/ /\ books' = IF own \notin DOMAIN books THEN books ELSE Renamed(own, plain, b)
           /\ own # plain => own \notin DOMAIN books \/ plain \notin DOMAIN books
           /\ tracked' = With(Without(tracked, {a}), b, row)
           /\ excused' = excused \cup others \cup left
    BY <1>5, Zenon DEF MoveFile
  <1>7. row.slug = plain /\ row.hash = tracked[a].hash
    OBVIOUS
  <1>8. \/ b \in left
        \/ /\ a \notin excused /\ Takers(plain, b) \subseteq {a} /\ BooksOf(b) = {}
           /\ ~(b \in DOMAIN disk /\ disk[b].content # tracked[a].hash)
    OBVIOUS
  <1>9. /\ a # b /\ a \in DOMAIN tracked /\ b \notin DOMAIN tracked
        /\ plain \in Slugs /\ tracked[a].hash \in Contents
    BY <1>2, <1>4, PlainSlug, Types DEF TrackedOK, Tracking, Hashes
  <1>10. /\ <<a, b>> \in sole.moves /\ sole' = [sole EXCEPT !.moves = @ \ {<<a, b>>}]
    BY <1>1, <1>4
  <1> HIDE DEF row, left, plain
  <1>11. CASE UNCHANGED <<books, tracked>> /\ excused' = excused \cup {a, b}
    BY <1>9, <1>10, <1>11 DEF Moving
  <1>12. CASE /\ books' = IF own \notin DOMAIN books THEN books ELSE Renamed(own, plain, b)
              /\ own # plain => own \notin DOMAIN books \/ plain \notin DOMAIN books
              /\ tracked' = With(Without(tracked, {a}), b, row)
              /\ excused' = excused \cup others \cup left
    <2>1. Follows(a, b, plain)
      BY <1>7, <1>8, <1>12 DEF Follows
    <2>2. QED
      BY <1>9, <1>10, <2>1 DEF Moving
  <1>13. QED
    BY <1>6, <1>11, <1>12

\* The file that is renamed is given the plain slug of its new path.
LEMMA MoveApart ==
    ASSUME Base, RowsVouch, SlugsApart, ScanMove
    PROVE  SlugsApart'
  <1>1. PICK a \in Paths, b \in Paths, slug \in Slugs : Moving(a, b, slug)
    BY Moved
  <1>2. UNCHANGED lane /\ LanesIdle /\ TypeOK
    BY DEF ScanMove, Base, SoleAlone
  <1>3. \A k \in Lanes : ~Ingesting(k)'
    BY <1>2, NoLanes
  <1>4. CASE UNCHANGED <<books, tracked>> /\ excused' = excused \cup {a, b}
    <2>1. ASSUME NEW q \in Paths, NEW t \in Slugs, Claims(q, t)' PROVE Claims(q, t)
      BY <1>3, <1>4, <2>1 DEF Claims
    <2>2. QED
      BY <1>4, <2>1, FewerClaims
  <1>5. CASE Follows(a, b, slug)
    <2> DEFINE from == tracked[a].slug
    <2>0. /\ a # b /\ a \in DOMAIN tracked /\ tracked[a].hash # NoHash
          /\ books' = IF from \notin DOMAIN books THEN books ELSE Renamed(from, slug, b)
          /\ excused \cup (Takers(slug, b) \ {a}) \subseteq excused'
          /\ b \in excused' \/ (a \notin excused /\ Takers(slug, b) \subseteq {a})
      BY <1>1, <1>5, IndexAssumption DEF Moving, Follows
    <2>1. PICK row : row.slug = slug /\ tracked' = With(Without(tracked, {a}), b, row)
      BY <1>5 DEF Follows
    <2> HIDE DEF from
    <2>2. \A q \in DOMAIN tracked' :
             \/ q = b /\ tracked'[q].slug = slug
             \/ q \in DOMAIN tracked \ {a} /\ tracked'[q] = tracked[q]
      BY <2>1 DEF With, Without
    <2>3. ASSUME NEW t \in DOMAIN books'
          PROVE  \/ t \in DOMAIN books /\ books'[t] = books[t]
                 \/ t = slug /\ books'[t].path = b /\ from \in DOMAIN books
      <3>1. CASE from \notin DOMAIN books
        BY <2>0, <3>1
      <3>2. CASE from \in DOMAIN books
        <4>1. books[from] \in Book
          BY <1>2, <3>2, Types DEF BooksOK
        <4>2. [books[from] EXCEPT !.path = b].path = b
          BY <4>1 DEF Book
        <4>3. QED
          BY <2>0, <2>3, <3>2, <4>2 DEF Renamed
      <3>3. QED
        BY <3>1, <3>2
    <2>4. \A q \in Paths, t \in Slugs : Claims(q, t)' => Claims(q, t) \/ (q = b /\ t = slug)
      BY <1>3, <2>2, <2>3 DEF Claims
    <2>5. ASSUME NEW q \in Paths, q # b, q # a, Claims(q, slug)' PROVE {b, q} \subseteq excused'
      <3>1. q \in Takers(slug, b) \ {a}
        BY <2>4, <2>5, TakersClaim
      <3>2. QED
        BY <2>0, <3>1
    <2>6. ASSUME Claims(a, slug)' PROVE {b, a} \subseteq excused'
      <3>1. slug \in DOMAIN books' /\ books'[slug].path = a
        BY <1>3, <2>0, <2>2, <2>6 DEF Claims
      <3>2. slug \in DOMAIN books /\ books[slug].path = a /\ from \notin DOMAIN books
        <4>1. CASE from \in DOMAIN books
          <5>1. books'[slug] = [books[from] EXCEPT !.path = b] /\ books[from] \in Book
            BY <1>2, <2>0, <4>1, Types DEF Renamed, BooksOK
          <5>2. books'[slug].path = b
            BY <5>1 DEF Book
          <5>3. QED
            BY <2>0, <3>1, <5>2
        <4>2. QED
          BY <2>0, <3>1, <4>1
      <3>3. a \in excused
        <4>1. SUFFICES ASSUME a \notin excused PROVE slug = from
          BY <3>2
        <4>2. Vouched(a) /\ tracked[a].hash # NoHash
          BY <1>2, <2>0, <4>1, NoLanes DEF RowsVouch
        <4>3. slug \in BooksOf(a)
          BY <3>2 DEF BooksOf
        <4>4. QED
          BY <4>2, <4>3 DEF Vouched, Holds, from
      <3>4. QED
        BY <2>0, <3>3
    <2>7. excused \subseteq excused'
      BY <2>0
    <2>8. QED
      BY <2>4, <2>5, <2>6, <2>7, OneMoreClaim
  <1>6. QED
    BY <1>1, <1>4, <1>5 DEF Moving

LEMMA OtherApart ==
    ASSUME Base, SlugsApart,
           \/ Tick \/ Disk \/ AskScan \/ AskReconcile
           \/ ScanList \/ ScanDiff \/ ScanOffer \/ Reconcile \/ Crash \/ UNCHANGED vars
    PROVE  SlugsApart'
  <1>1. excused \subseteq excused' /\ \A k \in Lanes : Ingesting(k)' => lane'[k] = lane[k]
    BY DEF Tick, Disk, Edit, Delete, Rename, AskScan, AskReconcile, ScanList, ScanDiff, ScanOffer,
           Reconcile, ReconcilePurge, ReconcileMend, ReconcileQueue, Crash, Ingesting, vars, tables
  <1>2. ASSUME NEW q \in Paths, NEW t \in Slugs, Claims(q, t)' PROVE Claims(q, t)
    <2>1. CASE UNCHANGED <<books, tracked>>
      BY <1>1, <1>2, <2>1 DEF Claims, Ingesting
    <2>2. CASE Reconcile
      <3>1. /\ t \in DOMAIN books' => t \in DOMAIN books /\ books'[t].path = books[t].path
            /\ q \in DOMAIN tracked' /\ q \notin DOMAIN tracked =>
                  tracked'[q].slug \in DOMAIN books /\ books[tracked'[q].slug].path = q
            /\ q \in DOMAIN tracked => tracked'[q] = tracked[q]
        BY <2>2, Reconciled DEF Reconciling, Orphans
      <3>2. QED
        BY <1>1, <1>2, <3>1 DEF Claims, Ingesting
    <2>3. QED
      BY <2>1, <2>2 DEF Tick, Disk, Edit, Delete, Rename, AskScan, AskReconcile, ScanList, ScanDiff,
                        ScanOffer, Crash, vars, tables
  <1>3. QED
    BY <1>1, <1>2, FewerClaims

LEMMA ApartNext ==
    ASSUME Base, RowsVouch, SlugsApart, [Next]_vars
    PROVE  SlugsApart'
  <1>1. ASSUME NEW l \in Lanes, Ingest(l) PROVE SlugsApart'
    BY <1>1, ReadApart, RestApart, WriteApart, TrackApart DEF Ingest
  <1>2. QED
    BY <1>1, RemoveApart, MoveApart, OtherApart DEF Next, ScanStep

-----------------------------------------------------------------------------
(* The invariant, and what a row that is told up to date says of its file. *)

IndexInv == Base /\ RowsVouch /\ SlugsApart

LEMMA IndexInvNext ==
    ASSUME IndexInv, [Next]_vars
    PROVE  IndexInv'
  <1>1. Base'
    BY BaseNext DEF IndexInv
  <1>2. RowsVouch'
    BY DiskVouch, IngestVouch, RemoveVouch, ScanVouch, MoveVouch, ReconcileVouch, CrashVouch,
       StutterVouch DEF IndexInv, Next, ScanStep
  <1>3. QED
    BY <1>1, <1>2, ApartNext DEF IndexInv

LEMMA IndexInvAlways == Spec => []IndexInv
  <1>1. ASSUME Init PROVE IndexInv
    <2>1. /\ DOMAIN disk = {} /\ DOMAIN tracked = {} /\ DOMAIN books = {}
          /\ \A l \in Lanes : lane[l] = Idle
      BY <1>1 DEF Init, Empty
    <2>2. SlugsApart
      BY <2>1 DEF SlugsApart, Claims, Ingesting
    <2>3. QED
      BY <1>1, <2>1, <2>2, BaseInit DEF IndexInv, RowsVouch
  <1>2. QED
    BY <1>1, IndexInvNext, PTL DEF Spec

LEMMA RowAnswers ==
    ASSUME IndexInv, NEW p \in Paths \ excused, Quiet(p), Fresh(p), ~Unparsable(p)
    PROVE  /\ p \in DOMAIN disk /\ p \in DOMAIN tracked /\ Vouched(p)
           /\ tracked[p].hash = disk[p].content /\ tracked[p].hash # NoHash
  <1>1. p \in DOMAIN disk /\ p \in DOMAIN tracked /\ On(p) = {}
    BY DEF Fresh, Quiet
  <1>2. Vouched(p)
    BY <1>1 DEF IndexInv, RowsVouch, Untorn
  <1>3. disk[p].content \in Contents /\ disk[p].mtime \in Nat /\ tracked[p].at \in Int
    BY <1>1, DiskFile, Types DEF IndexInv, Base, TrackedOK, Tracking
  <1>4. tracked[p].hash # NoHash
    <2> SUFFICES ASSUME tracked[p].hash = NoHash PROVE FALSE
      OBVIOUS
    <2>1. ~Noticed(p)
      BY <1>3, IndexAssumption DEF Fresh, Noticed
    <2>2. Noticed(p) \/ disk[p].content \in Broken
      BY <1>1, <1>2 DEF Vouched, Awaited, Asked, Quiet
    <2>3. QED
      BY <1>1, <1>3, <2>1, <2>2 DEF Unparsable
  <1>5. disk[p].content = tracked[p].hash
    BY <1>1, <1>2, <1>3, <1>4 DEF Vouched, Seen, Fresh, Noticed
  <1>6. QED
    BY <1>1, <1>2, <1>4, <1>5

\* Whatever was edited, renamed or killed while the jobs ran, a file that
\* freshness.check_file calls up to date is findable by what it says: the row
\* that answers for it vouches for the book.  Of the paths excused nothing is
\* said: among them those a reconcile had attached again, and not asked for, when
\* it was killed, and those moved and then edited before their UTC stamp.
THEOREM FreshFindable == Spec => []FreshIsFindable
  <1>1. ASSUME IndexInv PROVE FreshIsFindable
    <2> SUFFICES ASSUME NEW p \in Paths \ excused, Quiet(p), Fresh(p), ~Unparsable(p)
                 PROVE  Findable(p) = Expected(p)
      BY DEF FreshIsFindable
    <2>1. QED
      BY <1>1, RowAnswers DEF Vouched, Holds, Expected
  <1>2. QED
    BY <1>1, IndexInvAlways, PTL

\* Two files whose paths make the same slug are kept apart: the slug of a row
\* is no other row's, and its book is the file's own.
THEOREM BooksApart == Spec => []OneBookPerFile
  <1>1. ASSUME IndexInv PROVE OneBookPerFile
    <2> SUFFICES ASSUME NEW p \in DOMAIN tracked \ excused, On(p) = {} PROVE Mine(p)
      BY DEF OneBookPerFile, Mine
    <2>1. QED
      BY <1>1 DEF IndexInv, RowsVouch, Untorn, Vouched
  <1>2. QED
    BY <1>1, IndexInvAlways, PTL

-----------------------------------------------------------------------------
(* The index is a catalogue: the mapping, and how a step changes its parts. *)

LEMMA MappedAt ==
    ASSUME NEW p \in Paths
    PROVE  /\ Listings[p] = Findable(p) /\ Listings'[p] = Findable(p)'
           /\ Files[p] = IF p \in DOMAIN disk THEN disk[p].content ELSE NoHash
           /\ Files'[p] = IF p \in DOMAIN disk' THEN disk'[p].content ELSE NoHash
  BY DEF Listings, Files

LEMMA MappedStill ==
    /\ UNCHANGED disk => UNCHANGED Files
    /\ UNCHANGED books => UNCHANGED Listings
    /\ UNCHANGED <<lane, sole, tracked>> => UNCHANGED InProgress
  <1>1. UNCHANGED disk => UNCHANGED Files
    BY DEF Files
  <1>2. UNCHANGED books => UNCHANGED Listings
    BY DEF Listings, Findable, BooksOf
  <1>3. UNCHANGED <<lane, sole, tracked>> => UNCHANGED InProgress
    BY DEF InProgress, JobsSaw, ScanSaw
  <1>4. QED
    BY <1>1, <1>2, <1>3

LEMMA FindableIs ==
    ASSUME NEW p, NEW t
    PROVE  /\ t \in Findable(p) <=>
                 \E s \in DOMAIN books : books[s].path = p /\ \E c \in books[s].chunks : c.text = t
           /\ t \in Findable(p)' <=>
                 \E s \in DOMAIN books' :
                    books'[s].path = p /\ \E c \in books'[s].chunks : c.text = t
  BY DEF Findable, BooksOf

LEMMA SeenByJob ==
    ASSUME NEW job
    PROVE  /\ job = Idle => SeenBy(job) = {}
           /\ job # Idle =>
                 /\ job.step = "write" => SeenBy(job) = {<<job.path, job.text>>}
                 /\ job.step = "book" => SeenBy(job) = {<<job.path, NoHash>>}
                 /\ job.step \notin {"write", "book"} => SeenBy(job) = {}
  BY DEF SeenBy

LEMMA LaneSees ==
    ASSUME TypeOK, sole = Idle, sole' = Idle,
           NEW l \in Lanes, NEW job, lane' = [lane EXCEPT ![l] = job]
    PROVE  SeenBy(lane[l]) \subseteq InProgress /\ InProgress' \subseteq InProgress \cup SeenBy(job)
  <1>1. \A k \in Lanes : lane'[k] = IF k = l THEN job ELSE lane[k]
    BY Types
  <1>2. ScanSaw = {} /\ ScanSaw' = {}
    BY DEF ScanSaw
  <1>3. QED
    BY <1>1, <1>2 DEF InProgress, JobsSaw

-----------------------------------------------------------------------------
(* The user's steps, and those that look. *)

LEMMA DiskChanges ==
    ASSUME TypeOK, Disk
    PROVE  Promised!Change
  <1>1. UNCHANGED <<Listings, InProgress>>
    BY MappedStill DEF Disk, Edit, Delete, Rename, tables
  <1>2. ASSUME NEW p \in Paths, NEW c \in Contents, Edit(p, c)
        PROVE  Files' = [Files EXCEPT ![p] = c]
    BY <1>2 DEF Edit, Files, With
  <1>3. ASSUME NEW p \in Paths, Delete(p)
        PROVE  Files' = [Files EXCEPT ![p] = NoHash]
    BY <1>3 DEF Delete, Files, Without
  <1>4. ASSUME NEW p \in Paths, NEW q \in Paths, Rename(p, q)
        PROVE  Files' = [Files EXCEPT ![q] = Files[p], ![p] = NoHash]
    BY <1>4 DEF Rename, Files, With, Without
  <1>5. QED
    BY <1>1, <1>2, <1>3, <1>4 DEF Disk, Promised!Change

LEMMA LaneLooks ==
    ASSUME TypeOK, sole = Idle, sole' = Idle, UNCHANGED <<disk, books>>,
           NEW l \in Lanes, NEW job, lane' = [lane EXCEPT ![l] = job],
           SeenBy(job) \subseteq {<<p, Files[p]>> : p \in Paths}
    PROVE  Promised!Look
  BY LaneSees, MappedStill DEF Promised!Look

LEMMA ReadLooks ==
    ASSUME Base, NEW l \in Lanes, NEW p \in Paths, IngestRead(l, p) \/ RemoveLook(l, p)
    PROVE  Promised!Look
  <1>1. /\ TypeOK /\ sole = Idle /\ sole' = Idle /\ UNCHANGED <<disk, books>> /\ lane[l] = Idle
    BY DEF Base, IngestRead, RemoveLook, Start, tables
  <1>2. PICK job :
           /\ lane' = [lane EXCEPT ![l] = job]
           /\ \/ job # Idle /\ job.step = "parse"
              \/ p \notin DOMAIN disk /\ job # Idle /\ job.step = "book" /\ job.path = p
              \/ job = Idle
    <2> DEFINE read == NewJob("ingest", p, "parse", Identity(p), disk[p].content)
               gone(type) == NewJob(type, p, "book", <<SlugOf[p], 1>>, NoHash)
    <2>1. /\ read # Idle /\ read.step = "parse"
          /\ \A t : gone(t) # Idle /\ gone(t).step = "book" /\ gone(t).path = p
      BY DEF NewJob, Idle
    <2>2. \/ lane' = [lane EXCEPT ![l] = read]
          \/ p \notin DOMAIN disk /\ \E t : lane' = [lane EXCEPT ![l] = gone(t)]
          \/ lane' = lane
      BY DEF IngestRead, RemoveLook
    <2>3. lane' = lane => lane' = [lane EXCEPT ![l] = Idle]
      BY <1>1, Types
    <2> HIDE DEF read, gone
    <2>4. QED
      BY <2>1, <2>2, <2>3
  <1>3. SeenBy(job) \subseteq {<<q, Files[q]>> : q \in Paths}
    <2>1. CASE p \notin DOMAIN disk /\ job # Idle /\ job.step = "book" /\ job.path = p
      <3>1. Files[p] = NoHash
        BY <2>1, MappedAt
      <3>2. SeenBy(job) = {<<p, Files[p]>>}
        BY <2>1, <3>1, SeenByJob
      <3>3. QED
        BY <3>2
    <2>2. CASE job = Idle \/ (job # Idle /\ job.step = "parse")
      BY <2>2, SeenByJob
    <2>3. QED
      BY <1>2, <2>1, <2>2
  <1>4. QED
    BY <1>1, <1>2, <1>3, LaneLooks

LEMMA RestLooks ==
    ASSUME Base, NEW l \in Lanes,
           \/ IngestParse(l) \/ IngestFails(l) \/ (IngestWrite(l) /\ LoseSlug(l))
           \/ IngestTrack(l) \/ IngestUntracked(l) \/ RemoveRow(l)
    PROVE  Promised!Look
  <1>1. TypeOK /\ sole = Idle /\ sole' = Idle /\ lane[l] # Idle /\ lane[l] \in FileJob
    <2>1. Ingest(l) \/ Remove(l)
      BY DEF Ingest, Remove
    <2>2. lane[l] # Idle
      BY DEF IngestParse, IngestFails, IngestWrite, IngestTrack, IngestUntracked, RemoveRow
    <2>3. QED
      BY <2>1, <2>2, IngestSteps, RemoveSteps, NotIdle DEF Base
  <1>2. UNCHANGED <<disk, books>>
    BY DEF IngestParse, IngestFails, IngestWrite, LoseSlug, IngestTrack, IngestUntracked, RemoveRow,
           tables
  <1>3. CASE IngestParse(l)
    <2> DEFINE p == lane[l].path
               c == disk[p].content
               job == [lane[l] EXCEPT !.step = IF c \in Blank THEN "track" ELSE "write",
                                      !.text = IF c \in Blank THEN NoHash ELSE c]
    <2>1. lane' = [lane EXCEPT ![l] = job] /\ p \in DOMAIN disk /\ p \in Paths
      BY <1>1, <1>3, FileJobParts, Zenon DEF IngestParse
    <2>2. c = Files[p]
      BY <2>1, MappedAt
    <2> HIDE DEF c
    <2>3. /\ job # Idle /\ job.path = p /\ job.step \in {"track", "write"}
          /\ job.step = "write" => job.text = c
      BY <1>1 DEF FileJob, Idle
    <2> HIDE DEF job
    <2>4. SeenBy(job) \subseteq {<<p, Files[p]>>}
      BY <2>2, <2>3, SeenByJob
    <2>5. SeenBy(job) \subseteq {<<q, Files[q]>> : q \in Paths}
      BY <2>1, <2>4
    <2>6. QED
      BY <1>1, <1>2, <2>1, <2>5, LaneLooks
  <1>4. CASE IngestWrite(l) /\ LoseSlug(l)
    <2> DEFINE t == Allocate(lane[l].path)
               job == [lane[l] EXCEPT !.slug = t, !.step = "parse", !.retried = TRUE]
    <2>1. lane' = [lane EXCEPT ![l] = job]
      BY <1>4, Zenon DEF LoseSlug
    <2> HIDE DEF t
    <2>2. job # Idle /\ job.step = "parse"
      BY <1>1 DEF FileJob, Idle
    <2> HIDE DEF job
    <2>3. SeenBy(job) = {}
      BY <2>2, SeenByJob
    <2>4. QED
      BY <1>1, <1>2, <2>1, <2>3, LaneLooks
  <1>5. CASE IngestFails(l) \/ IngestTrack(l) \/ IngestUntracked(l) \/ RemoveRow(l)
    <2> DEFINE job == Idle
    <2>1. lane' = [lane EXCEPT ![l] = job]
      BY <1>5 DEF IngestFails, IngestTrack, IngestUntracked, RemoveRow, End
    <2>2. SeenBy(job) = {}
      BY SeenByJob
    <2> HIDE DEF job
    <2>3. QED
      BY <1>1, <1>2, <2>1, <2>2, LaneLooks
  <1>6. QED
    BY <1>3, <1>4, <1>5

\* Of the two files of a move, the scan has seen the one gone and the other there.
LEMMA ScanLooks ==
    ASSUME Base, ScanList \/ ScanDiff \/ ScanOffer \/ Crash
    PROVE  Promised!Look
  <1>1. /\ UNCHANGED <<disk, books, tracked>> /\ TypeOK
        /\ UNCHANGED lane \/ \A l \in Lanes : lane'[l] = Idle
    BY DEF ScanList, ScanDiff, ScanOffer, Crash, tables, Base
  <1>2. JobsSaw' \subseteq InProgress
    BY <1>1, SeenByJob DEF InProgress, JobsSaw
  <1>3. ScanSaw' \subseteq InProgress \cup {<<p, Files[p]>> : p \in Paths}
    <2>1. CASE ScanList
      <3>0. sole'.type = "scan"
        BY <2>1 DEF ScanList
      <3>1. sole'.step = "diff" /\ sole'.listed = DOMAIN disk /\ sole' # Idle
        BY <2>1 DEF ScanList, Idle
      <3>2. ScanSaw' = (Paths \ DOMAIN disk) \X {NoHash}
        BY <3>0, <3>1 DEF ScanSaw
      <3>3. QED
        BY <3>2 DEF Files
    <2>2. CASE ScanDiff
      <3>1. PICK M \in Matchings(sole.listed \cap DOMAIN disk) :
               /\ sole # Idle /\ sole.step = "diff"
               /\ sole' = [sole EXCEPT
                     !.step = "move", !.moves = M,
                     !.gone = Gone(sole.listed \cap DOMAIN disk) \ {m[1] : m \in M},
                     !.offer = (Added(sole.listed \cap DOMAIN disk) \ {m[2] : m \in M})
                               \cup Modified(sole.listed \cap DOMAIN disk)]
        BY <2>2 DEF ScanDiff
      <3>2. sole \in Scan
        BY <1>1, <3>1, NotIdle
      <3>3. /\ sole' # Idle /\ sole'.type = "scan" /\ sole'.step = "move" /\ sole'.moves = M
            /\ sole.type = "scan"
        BY <3>1, <3>2 DEF Scan, Idle
      <3>4. ScanSaw' = UNION {{<<m[1], NoHash>>, <<m[2], tracked[m[1]].hash>>} : m \in M}
        BY <1>1, <3>3 DEF ScanSaw
      <3>5. ASSUME NEW m \in M
            PROVE  {<<m[1], NoHash>>, <<m[2], tracked[m[1]].hash>>}
                      \subseteq InProgress \cup {<<p, Files[p]>> : p \in Paths}
        <4>1. /\ m[1] \in Paths /\ m[1] \notin sole.listed \cap DOMAIN disk
              /\ m[2] \in DOMAIN disk /\ m[2] \in Paths
              /\ tracked[m[1]].hash = disk[m[2]].content
          BY <1>1, <3>1, <3>5, Types DEF Matchings, Pairs, Gone, Added, TrackedOK, DiskOK
        <4>2. <<m[2], tracked[m[1]].hash>> = <<m[2], Files[m[2]]>>
          BY <4>1, MappedAt
        <4>3. CASE m[1] \notin sole.listed
          <5>1. <<m[1], NoHash>> \in ScanSaw
            BY <3>1, <3>3, <4>1, <4>3 DEF ScanSaw
          <5>2. <<m[1], NoHash>> \in InProgress
            BY <5>1 DEF InProgress
          <5>3. QED
            BY <4>1, <4>2, <5>2
        <4>4. CASE m[1] \notin DOMAIN disk
          <5>1. <<m[1], NoHash>> = <<m[1], Files[m[1]]>>
            BY <4>1, <4>4, MappedAt
          <5>2. QED
            BY <4>1, <4>2, <5>1
        <4>5. QED
          BY <4>1, <4>3, <4>4
      <3>6. QED
        BY <3>4, <3>5
    <2>3. CASE ScanOffer \/ Crash
      BY <2>3 DEF ScanOffer, Crash, ScanSaw
    <2>4. QED
      BY <2>1, <2>2, <2>3
  <1>4. InProgress' = JobsSaw' \cup ScanSaw'
    BY DEF InProgress
  <1>5. InProgress' \subseteq InProgress \cup {<<p, Files[p]>> : p \in Paths}
    BY <1>2, <1>3, <1>4
  <1>6. UNCHANGED <<Files, Listings>>
    BY <1>1, MappedStill
  <1>7. QED
    BY <1>5, <1>6 DEF Promised!Look

-----------------------------------------------------------------------------
(* A book that is written or dropped is nobody's but the job's own. *)

LEMMA Recorded ==
    ASSUME NEW p \in Paths, NEW c \in Contents \cup {NoHash}, <<p, c>> \in InProgress,
           InProgress' \subseteq InProgress, UNCHANGED <<disk, excused>>,
           Promised!Said(c) \subseteq Findable(p)',
           Findable(p)' \subseteq Findable(p) \cup Promised!Said(c),
           \A q \in Paths \ {p} : q \notin excused => Findable(q)' = Findable(q)
    PROVE  Promised!Record(p)
  <1>1. UNCHANGED Files
    BY MappedStill
  <1>2. \A q \in Paths : Listings[q] = Findable(q) /\ Listings'[q] = Findable(q)'
    BY MappedAt
  <1>3. Promised!Keeps(Paths \ {p})
    BY <1>2 DEF Promised!Keeps, Promised!Bound
  <1>4. QED
    BY <1>1, <1>2, <1>3 DEF Promised!Record

LEMMA WriteRecords ==
    ASSUME Base, SlugsApart, NEW l \in Lanes, IngestWrite(l), WriteBook(l)
    PROVE  \E p \in Paths : Promised!Record(p)
  <1>1. /\ lane[l] # Idle /\ lane[l].step = "write" /\ UNCHANGED <<disk, excused>>
        /\ sole = Idle /\ sole' = Idle /\ TypeOK
    BY IngestSteps DEF IngestWrite, WriteBook, Ingest, Base
  <1>2. lane[l] \in FileJob /\ Ingesting(l) /\ lane[l].text \in Contents \ Blank
    <2>1. lane[l] \in FileJob /\ Ingesting(l) /\ lane[l].text \notin Blank \cup {NoHash}
      BY <1>1, NotIdle DEF Base, LaneSteps
    <2>2. QED
      BY <2>1, FileJobParts DEF Hashes
  <1>3. PICK p \in Paths, s \in Slugs : p = lane[l].path /\ s = lane[l].slug
    BY <1>2, FileJobParts
  <1> DEFINE c == lane[l].text
             b == [path |-> p, chunks |-> {[text |-> c, slug |-> s]}]
             job == [lane[l] EXCEPT !.step = "track"]
  <1>4. books' = With(books, s, b) /\ lane' = [lane EXCEPT ![l] = job]
    BY <1>3, Zenon DEF WriteBook, Goto
  <1>5. job # Idle /\ job.step = "track"
    BY <1>2 DEF FileJob, Idle
  <1>6. b.path = p /\ \A x : x \in b.chunks <=> x = [text |-> c, slug |-> s]
    OBVIOUS
  <1>7. [text |-> c, slug |-> s].text = c
    OBVIOUS
  <1> HIDE DEF b, job
  <1>8. <<p, c>> \in InProgress /\ InProgress' \subseteq InProgress
    <2>1. SeenBy(job) = {} /\ SeenBy(lane[l]) = {<<p, c>>}
      BY <1>1, <1>3, <1>5, SeenByJob
    <2>2. QED
      BY <1>1, <1>4, <2>1, LaneSees
  <1>9. /\ DOMAIN books' = DOMAIN books \cup {s} /\ books'[s] = b
        /\ \A t \in DOMAIN books' \ {s} : t \in DOMAIN books /\ books'[t] = books[t]
    BY <1>4 DEF With
  <1>10. ASSUME NEW q \in Paths \ {p}, q \notin excused PROVE Findable(q)' = Findable(q)
    <2>1. Claims(p, s) /\ ~Claims(q, s)
      BY <1>2, <1>3, <1>10 DEF Claims, SlugsApart
    <2>2. s \notin BooksOf(q)
      BY <2>1 DEF Claims, BooksOf
    <2>3. BooksOf(q)' = BooksOf(q) /\ \A t \in BooksOf(q) : books'[t].chunks = books[t].chunks
      BY <1>6, <1>9, <1>10, <2>2 DEF BooksOf
    <2>4. QED
      BY <2>3, SameBooks
  <1>11. Promised!Said(c) = {c}
    BY <1>2, IndexAssumption DEF Promised!Said
  <1> HIDE DEF c
  <1>12. c \in Findable(p)'
    <2>1. s \in DOMAIN books' /\ books'[s].path = p /\ \E x \in books'[s].chunks : x.text = c
      BY <1>6, <1>7, <1>9
    <2>2. QED
      BY <2>1, FindableIs
  <1>13. ASSUME NEW t \in Findable(p)' PROVE t \in Findable(p) \cup {c}
    <2>1. PICK r \in DOMAIN books' :
             books'[r].path = p /\ \E x \in books'[r].chunks : x.text = t
      BY <1>13, FindableIs
    <2>2. CASE r = s
      BY <1>6, <1>7, <1>9, <2>1, <2>2
    <2>3. CASE r # s
      BY <1>9, <2>1, <2>3, FindableIs
    <2>4. QED
      BY <2>2, <2>3
  <1>14. c \in Contents \cup {NoHash}
    BY <1>2 DEF c
  <1>15. QED
    BY <1>1, <1>8, <1>10, <1>11, <1>12, <1>13, <1>14, Recorded

LEMMA RemoveRecords ==
    ASSUME Base, SlugsApart, NEW l \in Lanes, RemoveBook(l)
    PROVE  \E p \in Paths : Promised!Record(p)
  <1>1. /\ lane[l] # Idle /\ lane[l].step = "book" /\ UNCHANGED <<disk, excused>>
        /\ sole = Idle /\ sole' = Idle /\ TypeOK
    BY RemoveSteps DEF RemoveBook, Remove, Base
  <1>2. lane[l] \in FileJob
    BY <1>1, NotIdle
  <1>3. PICK p \in Paths : p = lane[l].path
    BY <1>2, FileJobParts
  <1>4. PICK job : lane' = [lane EXCEPT ![l] = job] /\ SeenBy(job) = {}
    <2> DEFINE row == [lane[l] EXCEPT !.step = "row"]
    <2>1. lane' = [lane EXCEPT ![l] = row] \/ lane' = [lane EXCEPT ![l] = Idle]
      BY Zenon DEF RemoveBook, Goto, End
    <2>2. row # Idle /\ row.step = "row"
      BY <1>2 DEF FileJob, Idle
    <2> HIDE DEF row
    <2>3. SeenBy(row) = {} /\ SeenBy(Idle) = {}
      BY <2>2, SeenByJob
    <2>4. QED
      BY <2>1, <2>3
  <1>5. <<p, NoHash>> \in InProgress /\ InProgress' \subseteq InProgress
    <2>1. SeenBy(lane[l]) = {<<p, NoHash>>}
      BY <1>1, <1>3, SeenByJob
    <2>2. QED
      BY <1>1, <1>4, <2>1, LaneSees
  <1>6. /\ DOMAIN books' \subseteq DOMAIN books
        /\ \A t \in DOMAIN books' : books'[t] = books[t]
        /\ \A t \in DOMAIN books \ DOMAIN books' : p \in DOMAIN tracked /\ t = tracked[p].slug
    BY <1>3 DEF RemoveBook, Without
  <1>7. ASSUME NEW q \in Paths \ {p}, q \notin excused PROVE Findable(q)' = Findable(q)
    <2>1. ASSUME NEW t \in BooksOf(q) PROVE t \in DOMAIN books'
      <3>1. Claims(q, t) /\ t \in Slugs
        BY <1>1, <2>1, Types DEF Claims, BooksOf, BooksOK
      <3>2. p \in DOMAIN tracked /\ t = tracked[p].slug => Claims(p, t)
        BY DEF Claims
      <3>3. QED
        BY <1>6, <1>7, <2>1, <3>1, <3>2 DEF SlugsApart, BooksOf
    <2>2. BooksOf(q)' = BooksOf(q) /\ \A t \in BooksOf(q) : books'[t].chunks = books[t].chunks
      BY <1>6, <2>1 DEF BooksOf
    <2>3. QED
      BY <2>2, SameBooks
  <1>8. Promised!Said(NoHash) = {}
    BY DEF Promised!Said
  <1>9. Findable(p)' \subseteq Findable(p)
    BY <1>6, FindableIs
  <1>10. QED
    BY <1>1, <1>5, <1>7, <1>8, <1>9, Recorded

-----------------------------------------------------------------------------
(* A move takes along what was found; a reconcile drops only what no row       *)
(* vouches for.                                                               *)

LEMMA MovesSeen ==
    ASSUME Base, ScanMove, NEW a \in Paths, NEW b \in Paths, NEW slug, Moving(a, b, slug)
    PROVE  /\ {<<a, NoHash>>, <<b, tracked[a].hash>>} \subseteq InProgress
           /\ InProgress' \subseteq InProgress
  <1>1. /\ sole # Idle /\ sole.step = "move" /\ sole \in Scan /\ UNCHANGED lane
        /\ Matching(sole.moves) /\ \A m \in sole.moves : m[1] \in DOMAIN tracked
    BY NotIdle DEF ScanMove, Base, SoleAlone
  <1>2. /\ <<a, b>> \in sole.moves /\ sole' = [sole EXCEPT !.moves = @ \ {<<a, b>>}]
        /\ b \notin DOMAIN tracked
    BY DEF Moving
  <1>3. /\ sole' # Idle /\ sole'.type = "scan" /\ sole'.step = "move"
        /\ sole'.moves = sole.moves \ {<<a, b>>} /\ sole.type = "scan"
    BY <1>1, <1>2 DEF Scan, Idle
  <1>4. /\ ScanSaw = UNION {{<<m[1], NoHash>>, <<m[2], tracked[m[1]].hash>>} : m \in sole.moves}
        /\ ScanSaw' = UNION {{<<m[1], NoHash>>, <<m[2], tracked'[m[1]].hash>>} : m \in sole'.moves}
    BY <1>1, <1>3 DEF ScanSaw
  <1>5. {<<a, NoHash>>, <<b, tracked[a].hash>>} \subseteq ScanSaw
    <2>1. <<a, b>>[1] = a /\ <<a, b>>[2] = b
      OBVIOUS
    <2>2. QED
      BY <1>2, <1>4, <2>1
  <1>6. ASSUME NEW m \in sole'.moves PROVE m \in sole.moves /\ tracked'[m[1]] = tracked[m[1]]
    <2>1. m \in sole.moves /\ m # <<a, b>>
      BY <1>3, <1>6
    <2>2. m[1] # a /\ m[1] # b
      BY <1>1, <1>2, <2>1 DEF Matching
    <2>3. m[1] \in DOMAIN tracked
      BY <1>1, <2>1
    <2>4. CASE UNCHANGED tracked
      BY <2>1, <2>4
    <2>5. CASE Follows(a, b, slug)
      BY <2>1, <2>2, <2>3, <2>5 DEF Follows, With, Without
    <2>6. QED
      BY <2>4, <2>5 DEF Moving
  <1>7. ScanSaw' \subseteq ScanSaw
    BY <1>4, <1>6
  <1>8. UNCHANGED JobsSaw
    BY <1>1 DEF JobsSaw
  <1>9. QED
    BY <1>5, <1>7, <1>8 DEF InProgress

LEMMA MoveMoves ==
    ASSUME Base, RowsVouch, SlugsApart, ScanMove
    PROVE  \E a, b \in Paths : Promised!Move(a, b)
  <1>1. PICK a \in Paths, b \in Paths, slug \in Slugs : Moving(a, b, slug)
    BY Moved
  <1>2. PICK c : c = tracked[a].hash
    OBVIOUS
  <1>3. /\ UNCHANGED <<disk, lane, pending>> /\ LanesIdle /\ TypeOK
        /\ a # b /\ a \in DOMAIN tracked /\ b \notin DOMAIN tracked
        /\ c \in Contents /\ c # NoHash
    BY <1>1, <1>2, IndexAssumption DEF ScanMove, Base, SoleAlone, Moving
  <1>4. UNCHANGED Files
    BY <1>3, MappedStill
  <1>5. \A q \in Paths : Listings[q] = Findable(q) /\ Listings'[q] = Findable(q)'
    BY MappedAt
  <1>6. {<<a, NoHash>>, <<b, c>>} \subseteq InProgress /\ InProgress' \subseteq InProgress
    BY <1>1, <1>2, MovesSeen
  <1>7. CASE UNCHANGED <<books, tracked>> /\ excused' = excused \cup {a, b}
    <2>1. UNCHANGED Listings
      BY <1>7, MappedStill
    <2>2. a \notin Promised!Bound /\ b \notin Promised!Bound
      BY <1>7 DEF Promised!Bound
    <2>3. Promised!Keeps(Paths \ {a, b})
      BY <2>1 DEF Promised!Keeps
    <2>4. QED
      BY <1>3, <1>4, <1>6, <2>2, <2>3 DEF Promised!Move
  <1>8. CASE Follows(a, b, slug)
    <2> DEFINE from == tracked[a].slug
    <2>1. /\ books' = IF from \notin DOMAIN books THEN books ELSE Renamed(from, slug, b)
          /\ excused \cup (Takers(slug, b) \ {a}) \subseteq excused'
          /\ from \in Slugs
      BY <1>3, <1>8, Types DEF Follows, TrackedOK, Tracking
    <2>2. ASSUME a \notin excused
          PROVE  Vouched(a) /\ BooksOf(a) \subseteq {from} /\ Findable(a) = Promised!Said(c)
      <3>1. Vouched(a)
        BY <1>3, <2>2, NoLanes DEF RowsVouch
      <3>2. {c} \ Blank = Promised!Said(c)
        BY <1>3 DEF Promised!Said
      <3>3. QED
        BY <1>2, <1>3, <3>1, <3>2 DEF Vouched, Holds
    <2>3. ASSUME NEW t \in DOMAIN books'
          PROVE  \/ t \in DOMAIN books /\ books'[t] = books[t] /\ (from \in DOMAIN books => t # from)
                 \/ t = slug /\ books'[t].path = b /\ from \in DOMAIN books
      <3>1. CASE from \notin DOMAIN books
        BY <2>1, <3>1
      <3>2. CASE from \in DOMAIN books
        <4>1. books[from] \in Book
          BY <1>3, <3>2, Types DEF BooksOK
        <4>2. [books[from] EXCEPT !.path = b].path = b
          BY <4>1 DEF Book
        <4>3. QED
          BY <2>1, <2>3, <3>2, <4>2 DEF Renamed
      <3>3. QED
        BY <3>1, <3>2
    <2>4. ASSUME a \notin excused PROVE Findable(a)' = {}
      <3>1. \A t \in DOMAIN books' : books'[t].path # a
        BY <1>3, <2>2, <2>3, <2>4 DEF BooksOf
      <3>2. QED
        BY <3>1, FindableIs
    <2>5. ASSUME b \notin excused'
          PROVE  Findable(a) = Promised!Said(c) /\ Findable(b)' = Promised!Said(c)
      <3>1. /\ a \notin excused /\ Takers(slug, b) \subseteq {a} /\ BooksOf(b) = {}
            /\ ~(b \in DOMAIN disk /\ disk[b].content # tracked[a].hash)
        BY <1>8, <2>5 DEF Follows
      <3>2. PICK row : /\ row.slug = slug /\ row.hash = tracked[a].hash
                       /\ tracked' = With(Without(tracked, {a}), b, row)
        BY <1>8 DEF Follows
      <3>3. tracked[a].slug # slug => tracked[a].slug \notin DOMAIN books \/ slug \notin DOMAIN books
        BY <1>8 DEF Follows
      <3>4. Vouched(a) /\ tracked[a].hash # NoHash
        BY <1>2, <1>3, <2>2, <3>1
      <3>5. Vouched(b)'
        BY <1>3, <2>1, <3>1, <3>2, <3>3, <3>4, MovedVouch
      <3>6. tracked'[b].hash = c
        BY <1>2, <3>2 DEF With
      <3>7. Findable(b)' = {c} \ Blank
        BY <1>3, <3>5, <3>6 DEF Vouched, Holds
      <3>8. QED
        BY <1>3, <2>2, <3>1, <3>7 DEF Promised!Said
    <2>6. ASSUME NEW q \in Paths \ {a, b}, q \notin excused'
          PROVE  Findable(q)' = Findable(q)
      <3>1. q \notin excused /\ q \notin Takers(slug, b)
        BY <2>1, <2>6
      <3>2. ASSUME NEW t \in BooksOf(q) PROVE t # slug /\ t # from
        <4>1. t # slug
          BY <2>6, <3>1, <3>2, TakersOf DEF BooksOf
        <4>2. Claims(a, from) /\ (t = from => Claims(q, from))
          BY <1>3, <3>2 DEF Claims, BooksOf
        <4>3. QED
          BY <2>1, <2>6, <3>1, <4>1, <4>2 DEF SlugsApart
      <3>3. ASSUME NEW t \in BooksOf(q) PROVE t \in DOMAIN books'
        BY <2>1, <3>2, <3>3 DEF BooksOf, Renamed
      <3>4. BooksOf(q)' = BooksOf(q) /\ \A t \in BooksOf(q) : books'[t].chunks = books[t].chunks
        BY <2>3, <2>6, <3>2, <3>3 DEF BooksOf
      <3>5. QED
        BY <3>4, SameBooks
    <2>7. Promised!Keeps(Paths \ {a, b})
      BY <1>5, <2>6 DEF Promised!Keeps, Promised!Bound
    <2>8. a \in Promised!Bound => Listings[a] = Promised!Said(c) /\ Listings'[a] = {}
      BY <1>5, <2>2, <2>4 DEF Promised!Bound
    <2>9. b \in Promised!Bound => Listings[a] = Promised!Said(c) /\ Listings'[b] = Promised!Said(c)
      BY <1>5, <2>5 DEF Promised!Bound
    <2>10. QED
      BY <1>3, <1>4, <1>6, <2>7, <2>8, <2>9 DEF Promised!Move
  <1>9. QED
    BY <1>1, <1>7, <1>8 DEF Moving

LEMMA ReconcileTidies ==
    ASSUME IndexInv, Reconcile
    PROVE  Promised!Tidy
  <1>1. Base /\ TypeOK /\ Reconciling
    BY Reconciled DEF IndexInv, Base
  <1>2. InProgress = {} /\ InProgress' = {}
    <2>1. ScanSaw = {} /\ ScanSaw' = {}
      <3>1. sole = Idle \/ sole \in Repair
        BY <1>1, NotIdle DEF Reconcile, ReconcilePurge, ReconcileMend, ReconcileQueue
      <3>2. sole' = Idle \/ sole'.type = "reconcile"
        <4>1. CASE ReconcilePurge \/ ReconcileQueue
          BY <4>1 DEF ReconcilePurge, ReconcileQueue
        <4>2. CASE ReconcileMend
          <5>1. sole \in Repair
            BY <1>1, <4>2, NotIdle DEF ReconcileMend
          <5>2. sole' = sole \/ \E p : sole' = [sole EXCEPT !.again = @ \cup {p}]
            BY <4>2 DEF ReconcileMend, Mend
          <5>3. QED
            BY <5>1, <5>2 DEF Repair
        <4>3. QED
          BY <4>1, <4>2 DEF Reconcile
      <3>3. QED
        BY <3>1, <3>2, Apart DEF ScanSaw
    <2>2. JobsSaw = {} /\ JobsSaw' = {}
      BY <1>1, SeenByJob DEF JobsSaw, LanesIdle, Reconciling
    <2>3. QED
      BY <2>1, <2>2 DEF InProgress
  <1>3. UNCHANGED Files
    BY <1>1, MappedStill DEF Reconciling
  <1>4. \A p \in Paths : Listings[p] = Findable(p) /\ Listings'[p] = Findable(p)'
    BY MappedAt
  <1>5. ASSUME NEW p \in Paths PROVE Findable(p)' \subseteq Findable(p)
    <2>1. ASSUME NEW t \in Findable(p)' PROVE t \in Findable(p)
      <3>1. PICK s \in DOMAIN books' : books'[s].path = p /\ \E x \in books'[s].chunks : x.text = t
        BY <2>1, FindableIs
      <3>2. s \in DOMAIN books /\ books[s].path = p /\ \E x \in books[s].chunks : x.text = t
        BY <1>1, <3>1 DEF Reconciling
      <3>3. QED
        BY <3>1, <3>2, FindableIs
    <2>2. QED
      BY <2>1
  <1>6. ASSUME NEW p \in UpToDate, p \notin excused' PROVE Findable(p)' = Findable(p)
    <2>1. p \in DOMAIN tracked /\ BooksOf(p) \subseteq {tracked[p].slug}
      BY <1>1, <1>6, RowAnswers DEF UpToDate, Vouched, Holds, Reconciling
    <2>2. QED
      BY <1>1, <1>6, <2>1, ReconcileSpares
  <1>7. Promised!Keeps(UpToDate)
    BY <1>4, <1>6 DEF Promised!Keeps, Promised!Bound
  <1>8. \A p \in Promised!Bound : Listings'[p] \subseteq Listings[p]
    BY <1>4, <1>5 DEF Promised!Bound
  <1>9. QED
    BY <1>2, <1>3, <1>7, <1>8 DEF Promised!Tidy

-----------------------------------------------------------------------------
(* Every step is one of the catalogue's, and an honest one. *)

LEMMA StepOfCatalogue ==
    ASSUME IndexInv, Next
    PROVE  Promised!Step
  <1>1. Base /\ RowsVouch /\ SlugsApart /\ TypeOK
    BY DEF IndexInv, Base
  <1>2. CASE Disk
    BY <1>1, <1>2, DiskChanges DEF Promised!Step
  <1>3. CASE Tick \/ AskScan \/ AskReconcile
    <2>1. UNCHANGED <<Files, Listings, InProgress>>
      BY <1>3, MappedStill DEF Tick, AskScan, AskReconcile, tables
    <2>2. Promised!Look
      BY <2>1 DEF Promised!Look
    <2>3. QED
      BY <2>2 DEF Promised!Step
  <1>4. ASSUME NEW l \in Lanes, Ingest(l) \/ Remove(l) PROVE Promised!Step
    <2>1. CASE \E p \in Paths : IngestRead(l, p) \/ RemoveLook(l, p)
      BY <1>1, <2>1, ReadLooks DEF Promised!Step
    <2>2. CASE \/ IngestParse(l) \/ IngestFails(l) \/ (IngestWrite(l) /\ LoseSlug(l))
               \/ IngestTrack(l) \/ IngestUntracked(l) \/ RemoveRow(l)
      BY <1>1, <2>2, RestLooks DEF Promised!Step
    <2>3. CASE IngestWrite(l) /\ WriteBook(l)
      BY <1>1, <2>3, WriteRecords DEF Promised!Step
    <2>4. CASE RemoveBook(l)
      BY <1>1, <2>4, RemoveRecords DEF Promised!Step
    <2>5. IngestWrite(l) => WriteBook(l) \/ LoseSlug(l)
      BY DEF IngestWrite
    <2>6. QED
      BY <1>4, <2>1, <2>2, <2>3, <2>4, <2>5 DEF Ingest, Remove
  <1>5. CASE ScanList \/ ScanDiff \/ ScanOffer \/ Crash
    BY <1>1, <1>5, ScanLooks DEF Promised!Step
  <1>6. CASE ScanMove
    BY <1>1, <1>6, MoveMoves DEF Promised!Step
  <1>7. CASE Reconcile
    BY <1>7, ReconcileTidies DEF Promised!Step
  <1>8. QED
    BY <1>2, <1>3, <1>4, <1>5, <1>6, <1>7 DEF Next, ScanStep

\* Only a run that nothing disturbed has a path excused no longer.
LEMMA OnlyCleanRuns ==
    ASSUME Next, NEW p, p \in excused, p \notin excused'
    PROVE  \E l \in Lanes : IngestTrack(l) /\ CleanRun(l) /\ lane[l].path = p
  <1>1. CASE \E l \in Lanes : IngestTrack(l)
    BY <1>1 DEF IngestTrack
  <1>2. CASE ScanMove
    BY <1>2 DEF ScanMove, MoveFile
  <1>3. CASE \E l \in Lanes : (Ingest(l) /\ ~IngestTrack(l)) \/ Remove(l)
    BY <1>3 DEF Ingest, IngestRead, Joined, IngestParse, IngestFails, AskAgain, RecordFailure,
                IngestWrite, WriteBook, LoseSlug, IngestUntracked, Remove, RemoveLook, RemoveBook,
                RemoveRow
  <1>4. CASE \/ Tick \/ Disk \/ AskScan \/ AskReconcile \/ ScanList \/ ScanDiff \/ ScanOffer
             \/ Reconcile \/ Crash
    BY <1>4 DEF Tick, Disk, Edit, Delete, Rename, AskScan, AskReconcile, ScanList, ScanDiff,
                ScanOffer, Reconcile, ReconcilePurge, ReconcileMend, ReconcileQueue, Crash
  <1>5. QED
    BY <1>1, <1>2, <1>3, <1>4 DEF Next, ScanStep

LEMMA SaidNext ==
    ASSUME TypeOK', NEW p \in Paths
    PROVE  Promised!Said(Files'[p]) = Expected(p)'
  <1>1. p \in DOMAIN disk' => disk'[p].content # NoHash
    BY TypesNext, IndexAssumption DEF DiskOK, File
  <1>2. QED
    BY <1>1, MappedAt DEF Expected, Promised!Said

LEMMA HonestNext ==
    ASSUME IndexInv, Next, TypeOK', FreshIsFindable'
    PROVE  Promised!Honest
  <1> SUFFICES ASSUME NEW p \in (UpToDate' \ excused') \cup (excused \ excused')
               PROVE  Listings'[p] = Promised!Said(Files'[p])
    BY DEF Promised!Honest, Promised!Right
  <1>1. p \in Paths
    BY Types DEF UpToDate, IndexInv, Base
  <1>2. SUFFICES Findable(p)' = Expected(p)'
    BY <1>1, MappedAt, SaidNext
  <1>3. CASE p \in UpToDate' \ excused'
    BY <1>1, <1>3 DEF UpToDate, FreshIsFindable
  <1>4. CASE p \in excused \ excused'
    <2>1. PICK l \in Lanes : IngestTrack(l) /\ CleanRun(l) /\ lane[l].path = p
      BY <1>4, OnlyCleanRuns
    <2>2. /\ p \in DOMAIN disk /\ UNCHANGED <<disk, books>>
          /\ Findable(p) = {disk[p].content} \ Blank
      BY <2>1 DEF IngestTrack, CleanRun
    <2>3. Findable(p)' = Findable(p)
      BY <2>2 DEF Findable, BooksOf
    <2>4. QED
      BY <2>2, <2>3 DEF Expected
  <1>5. QED
    BY <1>3, <1>4

LEMMA InitRefines ==
    ASSUME Init
    PROVE  Promised!Init
  <1>1. /\ DOMAIN disk = {} /\ DOMAIN books = {} /\ DOMAIN tracked = {}
        /\ \A l \in Lanes : lane[l] = Idle
        /\ sole = Idle /\ excused = {}
    BY DEF Init, Empty
  <1>2. Files = [p \in Paths |-> NoHash]
    BY <1>1 DEF Files
  <1>3. Listings = [p \in Paths |-> {}]
    <2>1. \A p : Findable(p) = {}
      BY <1>1, FindableIs
    <2>2. QED
      BY <2>1 DEF Listings
  <1>4. InProgress = {} /\ UpToDate = {}
    BY <1>1, SeenByJob DEF InProgress, JobsSaw, ScanSaw, UpToDate, Fresh
  <1>5. QED
    BY <1>1, <1>2, <1>3, <1>4 DEF Promised!Init

\* Index implements Catalogue: with any number of jobs at once, of changes to the
\* disk between their steps and of crashes, a search finds under a path what some
\* job read there, loses it only to a job that saw the file gone or to the tidying
\* of what no row vouches for, a file moved keeps exactly what was found of it, and
\* what is told to be up to date, or ceases to be excused, is right.  A path
\* becomes excused by a race, by a crash between two commits, one inside a
\* reconcile included, and by an edit that the UTC stamp of a move lies ahead of.
THEOREM Implementation == Spec => ImplementsCatalogue
  <1>1. ASSUME IndexInv, IndexInv', FreshIsFindable', [Next]_vars
        PROVE  [Promised!Next]_(Promised!vars)
    <2>1. CASE Next
      <3>1. TypeOK'
        BY <1>1 DEF IndexInv, Base
      <3>2. QED
        BY <1>1, <2>1, <3>1, StepOfCatalogue, HonestNext DEF Promised!Next
    <2>2. CASE UNCHANGED vars
      <3>1. UNCHANGED <<disk, books, tracked, pending, lane, sole, excused>>
        BY <2>2 DEF vars, tables
      <3>2. UNCHANGED <<Files, Listings, InProgress>>
        BY <3>1, MappedStill
      <3>3. UNCHANGED UpToDate
        BY <3>1 DEF UpToDate, Quiet, On, Mending, Fresh, Unparsable
      <3>4. QED
        BY <3>1, <3>2, <3>3 DEF Promised!vars
    <2>3. QED
      BY <1>1, <2>1, <2>2
  <1>2. QED
    BY <1>1, InitRefines, IndexInvAlways, FreshFindable, PTL
       DEF Spec, ImplementsCatalogue, Promised!Spec
=============================================================================
