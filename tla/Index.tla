------------------------------- MODULE Index -------------------------------
(***************************************************************************)
(* How the index of one source directory follows its files: the ingest,   *)
(* remove, scan and reconcile jobs of rtfm/core/handlers.py, the tables    *)
(* they write in library.db (rtfm/core/library.py), and the files changing *)
(* under them.                                                             *)
(*                                                                         *)
(* A job is cut where another job, the user or a crash can come in: each   *)
(* step is one look at the disk or one committed transaction.  The queue   *)
(* is what its dedup makes it, a set of requests; WorkQueue says how rows  *)
(* become requests again after a crash, and Supervisor that a scan or a    *)
(* reconcile runs alone.                                                   *)
(*                                                                         *)
(* A document's text stands for its chunks: one chunk per book, which      *)
(* keeps in its chunk_id the slug it was written under.  Hashes are        *)
(* perfect.  One tick of the clock is the margin of one second that        *)
(* freshness.py leaves between a file's mtime and its indexed_at.  Rows    *)
(* are stamped in local time, but for those of files moved, in UTC.        *)
(***************************************************************************)
EXTENDS Integers, FiniteSets

CONSTANTS
    Paths,
    Bases,       \* what _path_to_slug makes of paths
    SlugOf,      \* path -> base: different paths may share one
    Contents,
    SizeOf,      \* content -> bytes
    Blank,       \* contents no parser makes a chunk of
    Broken,      \* contents the parser raises on
    NoHash,      \* the empty file_hash
    Lanes,       \* jobs of the project that may run at a time
    UTCAhead,    \* ticks from local time to UTC: positive west of Greenwich
    Faults,      \* the faults allowed: "crash"
    MaxTime,     \* bound: clock
    MaxEdits,    \* bound: changes of the disk
    MaxFaults    \* bound: faults

ASSUME IndexAssumption ==
    /\ IsFiniteSet(Paths) /\ IsFiniteSet(Contents)
    /\ SlugOf \in [Paths -> Bases]
    /\ SizeOf \in [Contents -> Nat]
    /\ Blank \subseteq Contents /\ Broken \subseteq Contents
    /\ NoHash \notin Contents
    /\ UTCAhead \in Int
    /\ Faults \subseteq {"crash"}
    /\ {MaxTime, MaxEdits, MaxFaults} \subseteq Nat

VARIABLES
    disk,        \* path -> its content and mtime
    now,         \* the clock
    books,       \* slug -> filename and chunk: tables books and chunks
    tracked,     \* path -> row of indexed_files
    failures,    \* path -> row of ingest_failures
    pending,     \* the requests that wait in work_queue
    lane,        \* the ingest and remove jobs running
    sole,        \* the scan or reconcile running, if any
    edits, faults,
    excused      \* history: paths a known race or gap has left behind

tables == <<books, tracked, failures>>
vars == <<disk, now, tables, pending, lane, sole, edits, faults, excused>>

Slugs == Bases \X (Nat \ {0})
Hashes == Contents \cup {NoHash}
File == [content : Contents, mtime : Nat]
Chunk == [text : Contents, slug : Slugs]
Book == [path : Paths, chunks : SUBSET Chunk]
Tracking == [hash : Hashes, slug : Slugs, size : Nat, at : Int]
Failure == [hash : Hashes, size : Nat, at : Nat]
Request == ({"ingest", "remove"} \X Paths) \cup {<<"scan">>, <<"reconcile">>}

Idle == [type |-> "idle"]
FileJob == [type : {"ingest", "remove"}, path : Paths,
            step : {"parse", "write", "track", "book", "row"},
            slug : Slugs, hash : Hashes, text : Contents \cup {NoHash},
            retried : BOOLEAN]
Scan == [type : {"scan"}, step : {"diff", "move", "offer"},
         listed : SUBSET Paths, gone : SUBSET Paths, offer : SUBSET Paths,
         moves : SUBSET (Paths \X Paths)]
Repair == [type : {"reconcile"}, step : {"mend"}, again : SUBSET Paths]

\* Partial functions, the tables.
With(f, k, v) == [x \in DOMAIN f \cup {k} |-> IF x = k THEN v ELSE f[x]]
Without(f, S) == [x \in DOMAIN f \ S |-> f[x]]

TypeOK ==
    /\ DOMAIN disk \subseteq Paths /\ \A p \in DOMAIN disk : disk[p] \in File
    /\ now \in Nat
    /\ DOMAIN books \subseteq Slugs
    /\ \A s \in DOMAIN books : books[s] \in Book
    /\ DOMAIN tracked \subseteq Paths
    /\ \A p \in DOMAIN tracked : tracked[p] \in Tracking
    /\ DOMAIN failures \subseteq Paths
    /\ \A p \in DOMAIN failures : failures[p] \in Failure
    /\ pending \subseteq Request
    /\ lane \in [Lanes -> {Idle} \cup FileJob]
    /\ sole \in {Idle} \cup Scan \cup Repair
    /\ {edits, faults} \subseteq Nat
    /\ excused \subseteq Paths

Empty == [x \in {} |-> x]

Init ==
    /\ disk = Empty /\ now = 1
    /\ books = Empty /\ tracked = Empty /\ failures = Empty
    /\ pending = {}
    /\ lane = [l \in Lanes |-> Idle] /\ sole = Idle
    /\ edits = 0 /\ faults = 0
    /\ excused = {}

\* What a search can find of a path.
BooksOf(p) == {s \in DOMAIN books : books[s].path = p}
Findable(p) == UNION {{c.text : c \in books[s].chunks} : s \in BooksOf(p)}

LanesIdle == \A l \in Lanes : lane[l] = Idle
On(p) == {l \in Lanes : lane[l] # Idle /\ lane[l].path = p}

\* The files a reconcile has attached again and not yet asked for.
Mending == IF sole = Idle \/ sole.type # "reconcile" THEN {} ELSE sole.again

-----------------------------------------------------------------------------
(* The user and the agents.  A change may come with a request for the file,  *)
(* from the edit hook or from a reader that noticed, or be left to the scan. *)

Tick ==
    /\ now < MaxTime /\ now' = now + 1
    /\ UNCHANGED <<disk, tables, pending, lane, sole, edits, faults, excused>>

\* The row's stamp lies ahead, and its size does not tell: to readers and scans
\* the file has not changed since.
Unnoticed(p, c) ==
    /\ p \in DOMAIN tracked /\ tracked[p].at > now
    /\ tracked[p].size # 0 => tracked[p].size = SizeOf[c]

Edit(p, c) ==
    /\ edits < MaxEdits /\ edits' = edits + 1
    /\ disk' = With(disk, p, [content |-> c, mtime |-> now])
    /\ \/ pending' = pending \cup {<<"ingest", p>>}
       \/ pending' = pending
    /\ excused' = IF Unnoticed(p, c) THEN excused \cup {p} ELSE excused
    /\ UNCHANGED <<now, tables, lane, sole, faults>>

Delete(p) ==
    /\ edits < MaxEdits /\ edits' = edits + 1
    /\ p \in DOMAIN disk /\ disk' = Without(disk, {p})
    /\ \/ pending' = pending \cup {<<"remove", p>>}
       \/ pending' = pending
    /\ UNCHANGED <<now, tables, lane, sole, faults, excused>>

\* mv keeps the mtime: over a file that is tracked, it can pass unnoticed.
Rename(p, q) ==
    /\ edits < MaxEdits /\ edits' = edits + 1
    /\ p \in DOMAIN disk /\ p # q
    /\ disk' = Without(With(disk, q, disk[p]), {p})
    /\ excused' = IF q \in DOMAIN tracked \cup DOMAIN failures
                  THEN excused \cup {q} ELSE excused
    /\ UNCHANGED <<now, tables, pending, lane, sole, faults>>

\* The supervisor's clock.
AskScan ==
    /\ <<"scan">> \notin pending
    /\ pending' = pending \cup {<<"scan">>}
    /\ UNCHANGED <<disk, now, tables, lane, sole, edits, faults, excused>>

AskReconcile ==
    /\ <<"reconcile">> \notin pending
    /\ pending' = pending \cup {<<"reconcile">>}
    /\ UNCHANGED <<disk, now, tables, lane, sole, edits, faults, excused>>

-----------------------------------------------------------------------------
(* handle_ingest. *)

Owned(s, p) == s \notin DOMAIN books \/ books[s].path = p

\* allocate_book_slug: the first of base, base-2, ... that is free, or his.
Allocate(p) ==
    LET n == CHOOSE n \in 1 .. Cardinality(DOMAIN books) + 1 :
                 /\ Owned(<<SlugOf[p], n>>, p)
                 /\ \A m \in 1 .. n - 1 : ~Owned(<<SlugOf[p], m>>, p)
    IN  <<SlugOf[p], n>>

Mutant_Identity(p) ==            \* what _path_to_slug says, asking nobody
    IF p \in DOMAIN tracked THEN tracked[p].slug ELSE <<SlugOf[p], 1>>

\* A file already tracked keeps its slug.
Identity(p) == IF p \in DOMAIN tracked THEN tracked[p].slug ELSE Allocate(p)

Start(l, type, p) ==
    /\ sole = Idle /\ lane[l] = Idle
    /\ <<type, p>> \in pending
    /\ pending' = pending \ {<<type, p>>}

Goto(l, step) == lane' = [lane EXCEPT ![l].step = step]
End(l) == lane' = [lane EXCEPT ![l] = Idle]

NewJob(type, p, step, slug, hash) ==
    [type |-> type, path |-> p, step |-> step, slug |-> slug,
     hash |-> hash, text |-> NoHash, retried |-> FALSE]

\* Between the last two statements of a job, the row is not of its book.
Torn(l) ==
    \/ lane[l].step = "row"
    \/ lane[l].step = "track" /\ lane[l].path \in DOMAIN tracked

\* Two runs of one path: nothing keeps them apart.
Joined(p) == IF On(p) # {} THEN excused \cup {p} ELSE excused

\* (A job that takes a file out has no hash.)
Ingesting(l) == lane[l] # Idle /\ lane[l].hash # NoHash

\* The other paths that have slug s for theirs: a job in hand, a row, a book.
Takers(s, p) ==
    ({lane[l].path : l \in {k \in Lanes : Ingesting(k) /\ lane[k].slug = s}}
     \cup {q \in DOMAIN tracked : tracked[q].slug = s}
     \cup {books[t].path : t \in {s} \cap DOMAIN books}) \ {p}

\* A slug that no book has is free, whoever else is about to use it, or has a
\* row with it.
Contested(s, p) ==
    IF Owned(s, p) /\ Takers(s, p) # {} THEN Takers(s, p) \cup {p} ELSE {}

\* It looks up the identity and hashes the file; one that has vanished leaves
\* the index.
IngestRead(l, p) ==
    LET s == Identity(p) IN
    /\ Start(l, "ingest", p)
    /\ IF p \in DOMAIN disk
       THEN /\ lane' = [lane EXCEPT ![l] =
                            NewJob("ingest", p, "parse", s, disk[p].content)]
            /\ excused' = Joined(p) \cup Contested(s, p)
       ELSE /\ lane' = [lane EXCEPT ![l] =
                            NewJob("ingest", p, "book", <<SlugOf[p], 1>>, NoHash)]
            /\ excused' = Joined(p)
    /\ UNCHANGED <<disk, now, tables, sole, edits, faults>>

\* Library.ingest reads the file a second time, and may find another content.
IngestParse(l) ==
    LET p == lane[l].path IN
    /\ lane[l] # Idle /\ lane[l].step = "parse"
    /\ p \in DOMAIN disk
    /\ LET c == disk[p].content IN
       /\ c \notin Broken
       /\ lane' = [lane EXCEPT
             ![l].step = IF c \in Blank THEN "track" ELSE "write",
             ![l].text = IF c \in Blank THEN NoHash ELSE c]
    /\ UNCHANGED <<disk, now, tables, pending, sole, edits, faults, excused>>

\* It raises.  A file that changed meanwhile, or is changing still, is asked
\* for again; otherwise the failure is recorded against the hash, be it only
\* that the file is gone.
AskAgain(l) ==
    /\ lane[l].path \in DOMAIN disk
    /\ pending' = pending \cup {<<"ingest", lane[l].path>>}
    /\ UNCHANGED <<failures, excused>>

RecordFailure(l, gone) ==
    LET p == lane[l].path IN
    /\ ~gone => disk[p].content = lane[l].hash
    /\ failures' = With(failures, p,
          [hash |-> lane[l].hash, at |-> now,
           size |-> IF gone THEN 0 ELSE SizeOf[disk[p].content]])
    /\ excused' = IF gone THEN excused \cup {p} ELSE excused
    /\ UNCHANGED pending

IngestFails(l) ==
    LET p == lane[l].path
        gone == p \notin DOMAIN disk
    IN
    /\ lane[l] # Idle /\ lane[l].step = "parse"
    /\ ~gone => disk[p].content \in Broken
    /\ AskAgain(l) \/ RecordFailure(l, gone)
    /\ End(l)
    /\ UNCHANGED <<disk, now, books, tracked, sole, edits, faults>>

\* _index_chunks: the book of that slug, whoever's it is, is written over.
WriteBook(l) ==
    LET s == lane[l].slug IN
    /\ books' = With(books, s, [path |-> lane[l].path,
                                chunks |-> {[text |-> lane[l].text, slug |-> s]}])
    /\ Goto(l, "track")
    /\ UNCHANGED excused

\* Its SELECT came before the other's INSERT: UNIQUE constraint failed, and
\* the job asks, once, for another slug and parses again.
LoseSlug(l) ==
    LET s == Allocate(lane[l].path) IN
    /\ ~Owned(lane[l].slug, lane[l].path) /\ ~lane[l].retried
    /\ lane' = [lane EXCEPT ![l].slug = s, ![l].step = "parse",
                            ![l].retried = TRUE]
    /\ excused' = excused \cup Contested(s, lane[l].path)
    /\ UNCHANGED books

IngestWrite(l) ==
    /\ lane[l] # Idle /\ lane[l].step = "write"
    /\ WriteBook(l) \/ LoseSlug(l)
    /\ UNCHANGED <<disk, now, tracked, failures, pending, sole, edits, faults>>

\* Alone, with one content from beginning to end, which the path's only book
\* now holds: in every other case the row may vouch for something else than the
\* book.  (Old chunks stay when the new content has none.)
CleanRun(l) ==
    LET p == lane[l].path
        s == lane[l].slug
    IN  /\ On(p) = {l} /\ Takers(s, p) = {}
        /\ lane[l].hash = disk[p].content
        /\ BooksOf(p) = IF lane[l].hash \in Blank THEN {} ELSE {s}
        /\ Findable(p) = {lane[l].hash} \ Blank

\* update_indexed_file, with the size the file has now.
IngestTrack(l) ==
    LET p == lane[l].path IN
    /\ lane[l] # Idle /\ lane[l].step = "track"
    /\ p \in DOMAIN disk
    /\ tracked' = With(tracked, p,
          [hash |-> lane[l].hash, slug |-> lane[l].slug,
           size |-> SizeOf[disk[p].content], at |-> now])
    /\ failures' = Without(failures, {p})
    /\ excused' = IF CleanRun(l) THEN excused \ {p}
                  ELSE excused \cup {p}
    /\ End(l)
    /\ UNCHANGED <<disk, now, books, pending, sole, edits, faults>>

\* stat raises: the book stays behind, without a row or with the row of what
\* it held before.
IngestUntracked(l) ==
    LET p == lane[l].path IN
    /\ lane[l] # Idle /\ lane[l].step = "track"
    /\ p \notin DOMAIN disk
    /\ excused' = IF Torn(l) THEN excused \cup {p} ELSE excused
    /\ End(l)
    /\ UNCHANGED <<disk, now, tables, pending, sole, edits, faults>>

-----------------------------------------------------------------------------
(* handle_remove, and Library.remove_file for both. *)

\* The last look.
RemoveLook(l, p) ==
    /\ Start(l, "remove", p)
    /\ lane' = IF p \in DOMAIN disk THEN lane
               ELSE [lane EXCEPT ![l] =
                        NewJob("remove", p, "book", <<SlugOf[p], 1>>, NoHash)]
    /\ excused' = Joined(p)
    /\ UNCHANGED <<disk, now, tables, sole, edits, faults>>

RemoveBook(l) ==
    LET p == lane[l].path IN
    /\ lane[l] # Idle /\ lane[l].step = "book"
    /\ IF p \in DOMAIN tracked
       THEN books' = Without(books, {tracked[p].slug}) /\ Goto(l, "row")
       ELSE books' = books /\ End(l)
    /\ UNCHANGED <<disk, now, tracked, failures, pending, sole, edits, faults,
                   excused>>

RemoveRow(l) ==
    /\ lane[l] # Idle /\ lane[l].step = "row"
    /\ tracked' = Without(tracked, {lane[l].path})
    /\ End(l)
    /\ UNCHANGED <<disk, now, books, failures, pending, sole, edits, faults,
                   excused>>

-----------------------------------------------------------------------------
(* handle_scan, alone. *)

ScanList ==
    /\ sole = Idle /\ LanesIdle /\ <<"scan">> \in pending
    /\ pending' = pending \ {<<"scan">>}
    /\ sole' = [type |-> "scan", step |-> "diff", listed |-> DOMAIN disk,
                gone |-> {}, offer |-> {}, moves |-> {}]
    /\ UNCHANGED <<disk, now, tables, lane, edits, faults, excused>>

Mutant_Unchanged(p, row) ==      \* looks at the size alone
    row.size # 0 /\ row.size = SizeOf[disk[p].content]

\* probably_unchanged: size and mtime agree with the row.
Unchanged(p, row) ==
    /\ row.size # 0 /\ row.size = SizeOf[disk[p].content]
    /\ disk[p].mtime < row.at

\* compute_diff, over the files listed that are still there.
Skipped(p) ==
    \/ p \in DOMAIN tracked /\ Unchanged(p, tracked[p])
    \/ /\ p \in DOMAIN failures \ DOMAIN tracked
       /\ Unchanged(p, failures[p])
    \/ p \in DOMAIN failures /\ failures[p].hash = disk[p].content

Added(seen)    == {p \in seen \ DOMAIN tracked : ~Skipped(p)}
Modified(seen) == {p \in seen \cap DOMAIN tracked :
                      ~Skipped(p) /\ tracked[p].hash # disk[p].content}
Gone(seen)     == DOMAIN tracked \ seen

Mutant_Pairs(seen) ==            \* by their size
    {m \in Gone(seen) \X Added(seen) : tracked[m[1]].size = SizeOf[disk[m[2]].content]}

\* Files gone are paired with files added that have their hash, one to one,
\* as long as there are any.
Pairs(seen) ==
    {m \in Gone(seen) \X Added(seen) : tracked[m[1]].hash = disk[m[2]].content}
Matching(M) == \A m, n \in M : m[1] = n[1] \/ m[2] = n[2] => m = n
Matchings(seen) ==
    {M \in SUBSET Pairs(seen) :
        /\ Matching(M)
        /\ \A m \in Pairs(seen) \ M : ~Matching(M \cup {m})}

ScanDiff ==
    /\ sole # Idle /\ sole.step = "diff"
    /\ LET seen == sole.listed \cap DOMAIN disk
       IN  \E M \in Matchings(seen) :
             sole' = [sole EXCEPT
                !.step = "move", !.moves = M,
                !.gone = Gone(seen) \ {m[1] : m \in M},
                !.offer = (Added(seen) \ {m[2] : m \in M}) \cup Modified(seen)]
    /\ UNCHANGED <<disk, now, tables, pending, lane, edits, faults, excused>>

\* move_file: the book takes the new name and the plain slug of the new path,
\* its chunks keep theirs.  The row is stamped datetime('now'), which is UTC.
\* A slug that is taken fails the move, which is logged and forgotten.
Renamed(from, to, path) ==
    [s \in (DOMAIN books \ {from}) \cup {to} |->
        IF s = to THEN [books[from] EXCEPT !.path = path] ELSE books[s]]

MoveFile(p, q) ==
    LET row == tracked[p]
        slug == <<SlugOf[q], 1>>
        vacant == row.slug \notin DOMAIN books
        others == Takers(slug, q) \ {p}
        changed == q \in DOMAIN disk /\ disk[q].content # row.hash
        stray == BooksOf(q) # {}
    IN
    IF ~vacant /\ slug # row.slug /\ slug \in DOMAIN books
    THEN UNCHANGED <<books, tracked>> /\ excused' = excused \cup {p, q}
    ELSE /\ books' = IF vacant THEN books ELSE Renamed(row.slug, slug, q)
         /\ tracked' = With(Without(tracked, {p}), q,
               [hash |-> row.hash, slug |-> slug, size |-> row.size,
                at |-> now + UTCAhead])
         /\ excused' = excused \cup others
               \cup (IF p \in excused \/ changed \/ stray \/ others # {}
                     THEN {q} ELSE {})

ScanMove ==
    /\ sole # Idle /\ sole.step = "move"
    /\ \E m \in sole.moves :
          /\ MoveFile(m[1], m[2])
          /\ sole' = [sole EXCEPT !.moves = @ \ {m}]
    /\ UNCHANGED <<disk, now, failures, pending, lane, edits, faults>>

\* confirm_removals looks at the disk once more, then both batches are queued.
ScanOffer ==
    /\ sole # Idle /\ sole.step = "move" /\ sole.moves = {}
    /\ pending' = pending
          \cup {<<"remove", p>> : p \in sole.gone \ DOMAIN disk}
          \cup {<<"ingest", p>> : p \in sole.offer}
    /\ sole' = Idle
    /\ UNCHANGED <<disk, now, tables, lane, edits, faults, excused>>

-----------------------------------------------------------------------------
(* reconcile, alone. *)

\* purge_fossil_chunks: chunk_id NOT LIKE slug || '%'.  The plain slug is the
\* beginning of every numbered one of its base.
Begins(s, t) == s[1] = t[1] /\ s[2] \in {1, t[2]}
Purged(b) ==
    [s \in DOMAIN b |-> [b[s] EXCEPT !.chunks = {c \in @ : Begins(s, c.slug)}]]
Fossilised == {books[s].path : s \in {t \in DOMAIN books :
                  \E c \in books[t].chunks : ~Begins(t, c.slug)}}

Mutant_Orphans ==                \* recomputes the slugs
    DOMAIN books \ {<<SlugOf[p], 1>> : p \in DOMAIN tracked}

\* untracked_books.
Orphans == DOMAIN books \ {tracked[p].slug : p \in DOMAIN tracked}

\* What is purged is committed before any book is looked at.
ReconcilePurge ==
    /\ sole = Idle /\ LanesIdle /\ <<"reconcile">> \in pending
    /\ pending' = pending \ {<<"reconcile">>}
    /\ books' = Purged(books)
    /\ excused' = excused \cup Fossilised
    /\ sole' = [type |-> "reconcile", step |-> "mend", again |-> {}]
    /\ UNCHANGED <<disk, now, tracked, failures, lane, edits, faults>>

Mend(s) ==
    LET p == books[s].path IN
    IF p \in DOMAIN disk \ DOMAIN tracked
    THEN /\ tracked' = With(tracked, p,
                [hash |-> NoHash, size |-> 0, at |-> now, slug |-> s])
         /\ sole' = [sole EXCEPT !.again = @ \cup {p}]
         /\ UNCHANGED books
    ELSE books' = Without(books, {s}) /\ UNCHANGED <<tracked, sole>>

\* repair_untracked_books, one book after another, each with a commit of its
\* own: the book of a file that is there and not tracked is attached again;
\* that of a file gone, or tracked by now with another book, is dropped.
ReconcileMend ==
    /\ sole # Idle /\ sole.step = "mend"
    /\ \E s \in Orphans : Mend(s)
    /\ UNCHANGED <<disk, now, failures, pending, lane, edits, faults, excused>>

\* Only then are the files attached asked for, all at once.
ReconcileQueue ==
    /\ sole # Idle /\ sole.step = "mend" /\ Orphans = {}
    /\ pending' = pending \cup {<<"ingest", p>> : p \in sole.again}
    /\ sole' = Idle
    /\ UNCHANGED <<disk, now, tables, lane, edits, faults, excused>>

Reconcile == ReconcilePurge \/ ReconcileMend \/ ReconcileQueue

-----------------------------------------------------------------------------

\* The supervisor dies; the next one finds the rows and queues them again.
\* A removal cut in two leaves a row without a book, an ingest cut before the
\* row is written the row of what the book held before, a reconcile a row that
\* vouches for an old book, with nothing that asks for its file.
Crash ==
    /\ "crash" \in Faults /\ faults < MaxFaults /\ faults' = faults + 1
    /\ ~LanesIdle \/ sole # Idle
    /\ pending' = pending
          \cup {<<lane[l].type, lane[l].path>> : l \in {k \in Lanes : lane[k] # Idle}}
          \cup (IF sole # Idle THEN {<<sole.type>>} ELSE {})
    /\ lane' = [l \in Lanes |-> Idle] /\ sole' = Idle
    /\ excused' = excused
          \cup {lane[l].path : l \in {k \in Lanes : lane[k] # Idle /\ Torn(k)}}
          \cup {p \in Mending : <<"ingest", p>> \notin pending}
    /\ UNCHANGED <<disk, now, tables, edits>>

Disk ==
    \/ \E p \in Paths : Delete(p) \/ \E c \in Contents : Edit(p, c)
    \/ \E p, q \in Paths : Rename(p, q)

Ingest(l) ==
    \/ \E p \in Paths : IngestRead(l, p)
    \/ IngestParse(l) \/ IngestFails(l) \/ IngestWrite(l)
    \/ IngestTrack(l) \/ IngestUntracked(l)

Remove(l) ==
    (\E p \in Paths : RemoveLook(l, p)) \/ RemoveBook(l) \/ RemoveRow(l)

ScanStep == ScanDiff \/ ScanMove \/ ScanOffer

Next ==
    \/ Tick \/ Disk \/ AskScan \/ AskReconcile
    \/ \E l \in Lanes : Ingest(l) \/ Remove(l)
    \/ ScanList \/ ScanStep \/ Reconcile
    \/ Crash

Spec == Init /\ [][Next]_vars

\* Scans and reconciles come round for ever, a job that has started goes on,
\* and what waits is served: nothing behind a scan at the head of the queue is
\* dispatched before it.
Fairness ==
    /\ WF_vars(AskScan) /\ WF_vars(AskReconcile)
    /\ \A l \in Lanes : WF_vars(Ingest(l) \/ Remove(l))
    /\ WF_vars(ScanStep)
    /\ WF_vars(ReconcileMend \/ ReconcileQueue)
    /\ SF_vars(ScanList) /\ SF_vars(ReconcilePurge)
    /\ \A p \in Paths :
          /\ SF_vars(\E l \in Lanes : IngestRead(l, p))
          /\ SF_vars(\E l \in Lanes : RemoveLook(l, p))

FairSpec == Spec /\ Fairness
-----------------------------------------------------------------------------
(* What the index promises. *)

\* What it ought to find.
Expected(p) == IF p \in DOMAIN disk THEN {disk[p].content} \ Blank ELSE {}

\* A content that will not parse is left as it was.
Unparsable(p) == p \in DOMAIN disk /\ disk[p].content \in Broken

\* check_file answers None: the row agrees with the file.
Fresh(p) ==
    /\ p \in DOMAIN disk /\ p \in DOMAIN tracked
    /\ tracked[p].size # 0 => tracked[p].size = SizeOf[disk[p].content]
    /\ disk[p].mtime < tracked[p].at \/ disk[p].content = tracked[p].hash

\* Nothing is about to be done for it.
Quiet(p) ==
    /\ On(p) = {} /\ <<"ingest", p>> \notin pending /\ p \notin Mending
    /\ sole = Idle \/ sole.type = "reconcile"

\* A file that a reader is told is up to date is findable by what it says,
\* unless its path is excused.
FreshIsFindable ==
    \A p \in Paths \ excused :
        Quiet(p) /\ Fresh(p) /\ ~Unparsable(p) => Findable(p) = Expected(p)

\* The same, of every path: "None when the index is up to date for that file".
FreshMeansUpToDate ==
    \A p \in Paths :
        Quiet(p) /\ Fresh(p) /\ ~Unparsable(p) => Findable(p) = Expected(p)

\* What a job has read and goes by: the text it is about to write; that the
\* file is gone, for one that takes it out; what the scan listed and compared.
SeenBy(job) ==
    IF job = Idle THEN {}
    ELSE {<<job.path, c>> : c \in IF job.step = "write" THEN {job.text}
                                  ELSE IF job.step = "book" THEN {NoHash} ELSE {}}
JobsSaw == UNION {SeenBy(lane[l]) : l \in Lanes}
ScanSaw ==
    IF sole = Idle \/ sole.type = "reconcile" THEN {}
    ELSE IF sole.step = "diff" THEN (Paths \ sole.listed) \X {NoHash}
    ELSE UNION {{<<m[1], NoHash>>, <<m[2], tracked[m[1]].hash>>} : m \in sole.moves}

Files == [p \in Paths |-> IF p \in DOMAIN disk THEN disk[p].content ELSE NoHash]
Listings == [p \in Paths |-> Findable(p)]
InProgress == JobsSaw \cup ScanSaw
UpToDate == {p \in Paths : Quiet(p) /\ Fresh(p) /\ ~Unparsable(p)}

Promised == INSTANCE Catalogue WITH
    Nothing <- NoHash, file <- Files, found <- Listings, seen <- InProgress, told <- UpToDate

\* The index is a catalogue of the files: whatever jobs, changes and crashes
\* come between, nothing is found under a path but what a job read there, and
\* nothing is lost but for a cause.
ImplementsCatalogue == Promised!Spec

\* Two files never share a book, and a row's book is the file's own.
OneBookPerFile ==
    \A p \in DOMAIN tracked \ excused : On(p) = {} =>
        /\ \A q \in DOMAIN tracked \ {p} : tracked[p].slug # tracked[q].slug
        /\ tracked[p].slug \in DOMAIN books => books[tracked[p].slug].path = p

\* "Remember that this content could not be parsed."
FailuresAreOfTheContent ==
    \A p \in DOMAIN failures : failures[p].hash \in Broken

\* When the files settle, the index comes to say of each what the file says,
\* and nothing of those that are gone.
IndexSettles ==
    \A p \in Paths :
        <>[](p \in excused \/ Unparsable(p) \/ Findable(p) = Expected(p))

\* "Their books will be re-populated on the next scan (empty books trigger a
\* re-ingest)."
EmptyBooksRefill ==
    \A p \in Paths :
        (\E s \in DOMAIN books : books[s].path = p /\ books[s].chunks = {})
        ~> \/ Findable(p) # {}
           \/ Expected(p) = {} \/ Unparsable(p)
=============================================================================
