------------------------------ MODULE Sources ------------------------------
(***************************************************************************)
(* Several directories, several corpora, one index.  A tracked file is     *)
(* named by its corpus and its path relative to whichever directory it     *)
(* came from, so each scan of one directory must tell its own files from   *)
(* those of its siblings, a deletion from a volume that is not there, and  *)
(* a file that moved to another corpus from one that lives in both         *)
(* (rtfm/core/sync.py, handle_scan, handle_remove and handle_ingest of     *)
(* rtfm/core/handlers.py, rtfm/core/repair.py).                            *)
(*                                                                         *)
(* A file is its content, perfectly hashed; books follow their rows, and   *)
(* what goes wrong inside one ingest is the subject of Index.  A volume is *)
(* up; or bare, its mount point an empty readable directory; or gone, its  *)
(* directory missing; or in error, every look at it raising OSError.       *)
(***************************************************************************)
EXTENDS Integers, FiniteSets, Sequences

CONSTANTS
    Corpora,
    Roots,
    Paths,
    Texts,
    NoFile,      \* no file at a path
    NoRoot,      \* root_path NULL, or no ignored_under
    NoRow,       \* no row in indexed_files
    Starts       \* what is declared and on disk at first, and may change

Sites == Corpora \X Roots
Places == {"up", "bare", "gone", "error"}
Kinds == {"write", "move", "mount", "ignore", "config"}
Disks == [Roots -> [Paths -> Texts \cup {NoFile}]]
Setup == [declared : (SUBSET Sites) \ {{}}, disk : Disks,
          config : SUBSET ((SUBSET Sites) \ {{}}),   \* what may be declared later
          mount : SUBSET Places,                   \* what may become of a volume
          changes : [Kinds -> Nat]]                \* bound: changes of each kind

Row == [hash : Texts, root : Roots \cup {NoRoot}]

ASSUME SourcesAssumption ==
    /\ NoFile \notin Texts /\ NoRoot \notin Roots /\ NoRow \notin Row
    /\ IsFiniteSet(Paths)
    /\ Starts \subseteq Setup

VARIABLES
    setup,       \* what may still change
    disk,        \* root -> path -> content, on the volume, there or not
    place,       \* root -> what is at its mount point
    leftOut,     \* root -> the paths its ignore files leave out
    configured,  \* the sources of config.json
    recorded,    \* table sync_roots
    rows,        \* table indexed_files
    pending,     \* the document jobs that wait in work_queue, in order
    scan         \* the scan running, if any

world == <<setup, disk, place, leftOut, configured>>
tables == <<recorded, rows>>
sourceVars == <<world, tables, pending, scan>>

DocumentJob == ({"scan"} \X Sites) \cup ({"ingest"} \X Sites \X Paths)
       \cup ({"remove"} \X Corpora \X Paths \X (Roots \cup {NoRoot}))
NoScan == [step |-> "none"]
ScanRun == [step : {"diff", "offer"}, site : Sites, siblings : SUBSET Roots,
            listed : SUBSET Paths, gone : SUBSET Paths, offer : SUBSET Paths]

SourcesTypeOK ==
    /\ setup \in Setup
    /\ disk \in Disks
    /\ place \in [Roots -> Places]
    /\ leftOut \in [Roots -> SUBSET Paths]
    /\ configured \in (SUBSET Sites) \ {{}}
    /\ recorded \subseteq Sites
    /\ rows \in [Corpora \X Paths -> Row \cup {NoRow}]
    /\ pending \in Seq(DocumentJob)
    /\ \A i, j \in DOMAIN pending : pending[i] = pending[j] => i = j
    /\ scan = NoScan \/ scan \in ScanRun

-----------------------------------------------------------------------------
(* What a look at a directory shows. *)

There(r, p) == place[r] = "up" /\ disk[r][p] # NoFile
Readable(r) == place[r] \in {"up", "bare"}
Broken(r) == place[r] = "error"                       \* OSError
Rules(r) == IF place[r] = "up" THEN leftOut[r] ELSE {}

Tracked(c, p) == rows[<<c, p>>] # NoRow

\* A project whose sources have been indexed.
Indexable(c, p, r) == <<c, r>> \in configured /\ disk[r][p] # NoFile

SourcesInit ==
    /\ setup \in Starts
    /\ disk = setup.disk
    /\ place = [r \in Roots |-> "up"]
    /\ leftOut = [r \in Roots |-> {}]
    /\ configured = setup.declared
    /\ recorded = configured
    /\ rows \in [Corpora \X Paths -> Row \cup {NoRow}]
    /\ \A c \in Corpora, p \in Paths :
           LET rs == {r \in Roots : Indexable(c, p, r)}
           IN  rows[<<c, p>>] \in IF rs = {} THEN {NoRow}
                              ELSE {[hash |-> disk[r][p], root |-> r] : r \in rs}
    /\ pending = <<>> /\ scan = NoScan

-----------------------------------------------------------------------------
(* The queue: remove, ingest and scan share one priority and are served in  *)
(* order of arrival; the jobs before a scan run side by side, a scan alone. *)

Waiting == {pending[i] : i \in DOMAIN pending}
Inject(S) == {q \in [1 .. Cardinality(S) -> S] : \A x \in S : \E i \in DOMAIN q : q[i] = x}
Arranged(S) == CHOOSE q \in Inject(S) : TRUE
Mutant_Queued(jobs) == pending \o Arranged(jobs)
Queued(jobs) == pending \o Arranged(jobs \ Waiting)
Dropped(i) == [j \in 1 .. Len(pending) - 1 |-> pending[IF j < i THEN j ELSE j + 1]]
Take(job) ==
    /\ scan = NoScan
    /\ \E i \in DOMAIN pending :
           /\ pending[i] = job
           /\ \A j \in 1 .. i - 1 : pending[j][1] # "scan" /\ job[1] # "scan"
           /\ pending' = Dropped(i)

-----------------------------------------------------------------------------
(* The user, and the volumes. *)

SpendChange(kind) ==
    /\ setup.changes[kind] > 0
    /\ setup' = [setup EXCEPT !.changes[kind] = @ - 1]

WriteFile(r, p, v) ==                \* v = NoFile deletes
    /\ SpendChange("write")
    /\ place[r] = "up" /\ disk[r][p] # v
    /\ disk' = [disk EXCEPT ![r][p] = v]
    /\ UNCHANGED <<place, leftOut, configured, tables, pending, scan>>

Carry(r, p, s, q) ==                 \* mv, from one source to another or within
    /\ SpendChange("move")
    /\ There(r, p) /\ place[s] = "up" /\ <<r, p>> # <<s, q>>
    /\ disk' = [disk EXCEPT ![s][q] = disk[r][p], ![r][p] = NoFile]
    /\ UNCHANGED <<place, leftOut, configured, tables, pending, scan>>

Mount(r, to) ==
    /\ place[r] # to /\ to \in setup.mount \cup {"up"}
    /\ IF to = "up" THEN UNCHANGED setup ELSE SpendChange("mount")
    /\ place' = [place EXCEPT ![r] = to]
    /\ UNCHANGED <<disk, leftOut, configured, tables, pending, scan>>

EditRules(r, p) ==                   \* a rule added, or taken back
    /\ SpendChange("ignore")
    /\ place[r] = "up"
    /\ leftOut' = [leftOut EXCEPT ![r] =
                      IF p \in @ THEN @ \ {p} ELSE @ \cup {p}]
    /\ UNCHANGED <<disk, place, configured, tables, pending, scan>>

\* add_source and remove_source, or config.json by hand.
Declare(d) ==
    /\ SpendChange("config")
    /\ d \in setup.config /\ d # configured
    /\ configured' = d
    /\ UNCHANGED <<disk, place, leftOut, tables, pending, scan>>

-----------------------------------------------------------------------------
(* handle_scan: list, compare, move, then look again before offering. *)

\* The supervisor's clock, watcher or a user.
AskScan(site) ==
    /\ site \in configured /\ <<"scan", site>> \notin Waiting
    /\ pending' = Queued({<<"scan", site>>})
    /\ UNCHANGED <<world, tables, scan>>

ScanStart(c, r) ==
    /\ Take(<<"scan", <<c, r>>>>)
    /\ IF Readable(r)
       THEN /\ scan' = [step |-> "diff", site |-> <<c, r>>,
                        siblings |-> {s \in Roots \ {r} : <<c, s>> \in recorded},
                        listed |-> {p \in Paths : There(r, p)} \ Rules(r),
                        gone |-> {}, offer |-> {}]
            /\ recorded' = recorded \cup {<<c, r>>}
       ELSE UNCHANGED <<scan, recorded>>     \* skipped, or the job fails
    /\ UNCHANGED <<world, rows>>

\* claim_files_for_root
ClaimFiles(c, r, ps) ==
    [k \in DOMAIN rows |->
        IF k[1] = c /\ k[2] \in ps /\ rows[k] # NoRow
        THEN [rows[k] EXCEPT !.root = r] ELSE rows[k]]

Mutant_Indexed(table, c, r) ==       \* forgets the rows no scan has claimed
    {p \in Paths : table[<<c, p>>] # NoRow /\ table[<<c, p>>].root = r}

\* list_indexed_files(corpus, root)
Indexed(table, c, r) ==
    {p \in Paths : table[<<c, p>>] # NoRow /\ table[<<c, p>>].root \in {r, NoRoot}}

Mutant_StillThere(c, p, r) == FALSE  \* the same content is a move

\* build_disk_check: is it still on disk elsewhere than in the directory
\* being scanned?  A root that is bare or gone answers no.
StillThere(c, p, r) ==
    \E s \in Roots \ {r} : <<c, s>> \in recorded /\ (Broken(s) \/ There(s, p))

\* Pairs of which no two share an end, to which none of the others can be added.
Apart(m) == \A x, y \in m : x # y => x[1] # y[1] /\ x[2] # y[2]
Matchings(pairs) ==
    {m \in SUBSET pairs : Apart(m) /\ \A x \in pairs \ m : ~Apart(m \cup {x})}

\* move_file: a row leaves its key for another, which forgets the root.
MovedAll(table, moves) ==
    [k \in DOMAIN table |->
        IF \E m \in moves : m[2] = k
        THEN [hash |-> table[(CHOOSE m \in moves : m[2] = k)[1]].hash,
              root |-> NoRoot]
        ELSE IF \E m \in moves : m[1] = k THEN NoRow ELSE table[k]]

\* compute_diff and the moves it finds.
ScanDiff ==
    LET c == scan.site[1]
        r == scan.site[2]
        table == ClaimFiles(c, r, scan.listed)
        seen == {p \in scan.listed : There(r, p)}     \* hashed without error
        added == {p \in seen : table[<<c, p>>] = NoRow}
        modified == {p \in seen \ added : table[<<c, p>>].hash # disk[r][p]}
        gone == Indexed(table, c, r) \ seen
        renames == {m \in gone \X added : table[<<c, m[1]>>].hash = disk[r][m[2]]}
        \* list_indexed_files() keeps one row of each path.
        Global == {g \in [Paths -> Corpora] :
                      \A q \in Paths : table[<<g[q], q>>] = NoRow =>
                          \A b \in Corpora : table[<<b, q>>] = NoRow}
    IN  /\ scan.step = "diff"
        /\ \E inside \in Matchings(renames), g \in Global :
             LET new == added \ {m[2] : m \in inside}
                 leavers == {m \in Paths \X new :
                                LET q == m[1]
                                IN  /\ g[q] # c /\ table[<<g[q], q>>] # NoRow
                                    /\ table[<<g[q], q>>].hash = disk[r][m[2]]
                                    /\ ~StillThere(g[q], q, r)}
             IN  \E across \in Matchings(leavers) :
                   /\ rows' = MovedAll(table,
                                {<<<<c, m[1]>>, <<c, m[2]>>>> : m \in inside}
                                \cup {<<<<g[m[1]], m[1]>>, <<c, m[2]>>>> : m \in across})
                   /\ scan' = [step |-> "offer", site |-> scan.site,
                               siblings |-> scan.siblings, listed |-> scan.listed,
                               gone |-> gone \ {m[1] : m \in inside},
                               offer |-> modified \cup (new \ {m[2] : m \in across})]
        /\ UNCHANGED <<world, recorded, pending>>

\* _absence_is_proven, for a readable directory that does not have the file.
AbsenceProven(r, p) == Readable(r) /\ ~There(r, p)

\* confirm_removals, and the children are queued.
ScanOffer ==
    LET c == scan.site[1]
        r == scan.site[2]
        confirmed == {p \in scan.gone :
                         \/ p \in Rules(r)
                         \/ \A s \in {r} \cup scan.siblings : AbsenceProven(s, p)}
        under(p) == IF p \in Rules(r) THEN r ELSE NoRoot
    IN  /\ scan.step = "offer"
        /\ pending' = IF Broken(r) /\ scan.gone # {}   \* reading the rules raises
                      THEN pending
                      ELSE Queued({<<"remove", c, p, under(p)>> : p \in confirmed}
                                  \cup {<<"ingest", scan.site, p>> : p \in scan.offer})
        /\ scan' = NoScan
        /\ UNCHANGED <<world, tables>>

-----------------------------------------------------------------------------
(* The jobs it queues, and the pass that retires sources. *)

\* handle_ingest: a file that is not there is taken out if its directory is.
Ingest(c, r, p) ==
    /\ Take(<<"ingest", <<c, r>>, p>>)
    /\ \/ /\ There(r, p)
          /\ recorded' = recorded \cup {<<c, r>>}
          /\ rows' = [rows EXCEPT ![<<c, p>>] = [hash |-> disk[r][p], root |-> r]]
       \/ /\ ~There(r, p) /\ Readable(r)
          /\ rows' = [rows EXCEPT ![<<c, p>>] = NoRow]
          /\ UNCHANGED recorded
       \/ ~Readable(r) /\ UNCHANGED tables            \* raises
    /\ UNCHANGED <<world, scan>>

Mutant_Kept(c, p) == FALSE           \* no last look

\* handle_remove's last look.
Kept(c, p) == \E r \in Roots : <<c, r>> \in recorded /\ (Broken(r) \/ There(r, p))

RemoveFile(c, p, under) ==
    /\ Take(<<"remove", c, p, under>>)
    /\ rows' = IF \/ under # NoRoot /\ Broken(under)
                  \/ Kept(c, p) /\ ~(under # NoRoot /\ p \in Rules(under))
               THEN rows
               ELSE [rows EXCEPT ![<<c, p>>] = NoRow]
    /\ UNCHANGED <<world, recorded, scan>>

Mutant_Undeclared(c, p) == ~\E r \in Roots : <<c, r>> \in configured

\* find_undeclared_files
Undeclared(c, p) ==
    LET row == rows[<<c, p>>]
    IN  /\ row # NoRow
        /\ IF row.root = NoRoot THEN ~\E r \in Roots : <<c, r>> \in configured
           ELSE <<c, row.root>> \notin configured

\* forget_undeclared_sources, when the project is opened and by reconcile.
Retire ==
    /\ scan = NoScan
    /\ rows' = [k \in DOMAIN rows |-> IF Undeclared(k[1], k[2]) THEN NoRow ELSE rows[k]]
    /\ recorded' = recorded \cap configured
    /\ UNCHANGED <<world, pending, scan>>

-----------------------------------------------------------------------------
User ==
    \/ \E r \in Roots, p \in Paths :
           \/ \E v \in Texts \cup {NoFile} : WriteFile(r, p, v)
           \/ \E s \in Roots, q \in Paths : Carry(r, p, s, q)
           \/ EditRules(r, p)
    \/ \E r \in Roots, to \in Places : Mount(r, to)
    \/ \E d \in setup.config : Declare(d)

SourcesNext ==
    \/ User
    \/ \E c \in Corpora, r \in Roots : AskScan(<<c, r>>) \/ ScanStart(c, r)
    \/ ScanDiff \/ ScanOffer
    \/ \E c \in Corpora, p \in Paths :
           \/ \E r \in Roots : Ingest(c, r, p)
           \/ \E u \in Roots \cup {NoRoot} : RemoveFile(c, p, u)
    \/ Retire

ServeQueue ==
    \/ \E c \in Corpora, r \in Roots : ScanStart(c, r)
    \/ ScanDiff \/ ScanOffer
    \/ \E c \in Corpora, p \in Paths :
           \/ \E r \in Roots : Ingest(c, r, p)
           \/ \E u \in Roots \cup {NoRoot} : RemoveFile(c, p, u)

\* Scans keep being asked for, the supervisor serves the queue, and a daily
\* reconcile finds the project idle.
SourcesFairness ==
    /\ \A c \in Corpora, r \in Roots : WF_sourceVars(AskScan(<<c, r>>))
    /\ WF_sourceVars(ServeQueue)
    /\ SF_sourceVars(Retire)

SourcesSpec == SourcesInit /\ [][SourcesNext]_sourceVars /\ SourcesFairness

-----------------------------------------------------------------------------
(* Properties. *)

Wanted(c, p, r) ==
    /\ <<c, r>> \in configured /\ disk[r][p] # NoFile /\ p \notin leftOut[r]

\* Where the code is known not to tell.  A sibling had the path too: the
\* ingest of its file, since deleted, the removal of what its rules leave
\* out, or its scan takes the row there is.
Mistaken(c, p, r) ==
    \E s \in Roots \ {r} :
        \/ <<"ingest", <<c, s>>, p>> \in Waiting
        \/ <<"remove", c, p, s>> \in Waiting /\ p \in Rules(s)
        \/ scan # NoScan /\ scan.site = <<c, s>> /\ p \in scan.listed
\* The file came back while the scan that did not find it was comparing.
Missed(c, p, r) == scan # NoScan /\ scan.site = <<c, r>> /\ p \notin scan.listed
\* Its directory is being scanned under the name of another corpus.
Renamed(c, r) == scan # NoScan /\ scan.site[1] # c /\ scan.site[2] = r

\* A file that is wanted, on a volume that is up or in error, and indexed from
\* there stays in the index: no scan of a sibling, no other corpus with the
\* same content, no removal queued long ago and no directory in error takes
\* its row away (confirm_removals, build_disk_check, handle_remove's last
\* look).  A mount point without its volume, and a row that no scan has
\* claimed since it was moved, are not promised anything.
DroppedForCause ==
    [][\A c \in Corpora, p \in Paths, r \in Roots :
          /\ Tracked(c, p) /\ rows[<<c, p>>].root = r
          /\ Wanted(c, p, r) /\ place[r] \in {"up", "error"}
          /\ rows'[<<c, p>>] = NoRow
          => Mistaken(c, p, r) \/ Missed(c, p, r) \/ Renamed(c, r)]_sourceVars

\* Once files, volumes and configuration settle, the rows are the files of
\* the declared sources, no more and no less, with the content they have.
AllUp == \A r \in Roots : place[r] = "up"
Aligned ==
    \A c \in Corpora, p \in Paths :
        IF \E r \in Roots : Wanted(c, p, r)
        THEN \E r \in Roots : Wanted(c, p, r) /\ Tracked(c, p)
                              /\ rows[<<c, p>>].hash = disk[r][p]
        ELSE ~Tracked(c, p)
\* Where they do not: a path under two directories of a corpus; a directory
\* under two corpora; an unclaimed row, and files of its content in two
\* directories: each scan takes the row for its own file's.
Twice(c, p) ==
    \E r, s \in Roots : r # s /\ {<<c, r>>, <<c, s>>} \subseteq configured \cup recorded
                        /\ disk[r][p] # NoFile /\ disk[s][p] # NoFile
TwoNames == \E r \in Roots : \E b, c \in Corpora :
                b # c /\ {<<b, r>>, <<c, r>>} \subseteq configured
Unclaimed(c, p) == rows[<<c, p>>].root = NoRoot
Tossed(c) ==
    \E k \in Paths : /\ Tracked(c, k) /\ Unclaimed(c, k)
                     /\ \E r, s \in Roots, p, q \in Paths :
                           /\ r # s /\ Indexable(c, p, r) /\ Indexable(c, q, s)
                           /\ {disk[r][p], disk[s][q]} = {rows[<<c, k>>].hash}
Contended == TwoNames \/ \E c \in Corpora : Tossed(c) \/ \E p \in Paths : Twice(c, p)
SourcesSettle == <>[](AllUp /\ ~Contended => Aligned)

\* And then the tables are left alone: scanning what has not changed writes
\* nothing (the loops that test_multiroot.py tells of).
ChurnStops == <>[][Contended]_tables
=============================================================================
