# rtfm in TLA+

rtfm keeps a searchable index (`library.db`, SQLite) of each project registered
on a machine, and one background supervisor that keeps the indexes in step with
the files. This directory models the part of it where order, failure and
concurrency decide whether the index, and what a reader is told from it, is
right. The models are translated from `src/rtfm`; `PROJECT.json` gives, for
every definition, the lines it stands for.

1. Inventory — 2. Modules — 3. Runs — 4. Proofs — 5. What the code does that it
does not say — 6. Simplifications — 7. Not modelled — 8. Plan

## 1. Inventory

### Components, their state and their operations

| component | code | state | operations | module |
|---|---|---|---|---|
| job queue | `core/queue.py` | table `work_queue` (id, type, payload, priority, status, times, attempts), unique index on pending (type, payload) | `enqueue`, `enqueue_many`, `peek`, `dequeue`, `mark_done`, `mark_failed`, `mark_pending`, `retry_failed`, `reap_zombies`, `clear_done`; `_forget_old_jobs` of the vacuum job | JobQueue, WorkQueue |
| supervisor | `core/supervisor.py`, `core/worker.py` | `_wanted`, `_slots` (queue, identity, inflight, exclusive, retry_at), `_opening`, `_inflight`, two thread pools | `_sync_registry`, `_collect_opened`, `_drop_unwanted`, `_reopen_replaced_databases`, `_sweep_stale_claims`, `_dispatch`, `_note_queue_error`, `_recover_slot`, `_reap_finished`, `_close` | Supervisor |
| stop and single instance | `core/supervisor.py`, `core/portable.py`, `cli_worker.py` | `supervisor.lock` and the pid in it, `supervisor.stop` | start, stop, restart, probe, recycle, respawn, `_shutdown` | Lifecycle |
| registry of projects | `core/registry.py`, `core/projects.py` | `workers.json`, `workers.lock` | register, list | Lifecycle |
| change notification, schedule | `core/watch.py`, `core/supervisor.py` (`_SourceSchedule`) | directories watched, the kernel's queue, `_changes`, `_watch_failures`; per source: due, interval, queued, changed | watch, unwatch, walk, events, overflow, spent budget; settling, spacing, polling back-off, `SCAN_LOST_AFTER_SECONDS` | Schedule |
| index of a directory | `core/handlers.py`, `core/library.py`, `core/sync.py`, `core/reconcile.py`, `core/freshness.py` | tables `books`, `chunks`, `indexed_files`, `ingest_failures`, `sync_roots` | `handle_ingest`, `handle_remove`, `handle_scan`, `reconcile`, `check_file` | Index, Sources, Selection |
| embedding and OCR jobs | `core/handlers.py`, `core/embeddings.py`, `core/ocr_daemon.py`, `parsers/pdf.py` | `chunk_embeddings`, page ranges in payloads | `handle_embed`, `handle_ocr`, the rebuild of `rtfm embed --force` | Enrichment |
| parsers | `parsers/` | none | a file in, passages out | Passages |
| freshness of answers | `core/freshness.py`, `mcp.py`, `cli.py` | none of its own: rows of the queue, budgets of time | `check_file`, `requeue`, `catch_up`, `wait_for` | Answers, Index |
| integrity guard, repairs | `core/dbcare.py`, `core/repair.py` | the file itself, quarantined copies | `ensure_healthy_db`, the retiring of undeclared sources, one-off migrations | Supervisor, Sources |
| operator commands | `cli_worker.py` | none | `queue reap`, `retry-failed`, `clear-done`, `worker start/stop/restart` | WorkQueue, Lifecycle |
| hooks and plugin | `plugin/`, `hooks/` | copies of scripts | enrolment and start of a supervisor, the edit hook | Lifecycle, Selection, Answers |
| machine-wide throttle | `core/throttle.py` | lock files used as a semaphore | acquire, release | none |
| search, citation, graph, MCP server, CLI, exports | `mcp.py`, `_mcp/`, `cli.py`, `core/citation.py`, ... | none that outlives a call | queries and their rendering | none |

### How they interact

* Everybody reaches the queue through the database file: hooks, the CLI, the MCP
  server and the handlers *insert*; the supervisor claims and closes; an operator
  retries, reaps and trims. Connections are in autocommit
  (`isolation_level=None`): each SQL statement is a transaction, and
  `reap_zombies` and `retry_failed` are several.
* The supervisor opens projects on one pool, runs jobs on another, watches trees
  on a thread, and does everything else on one thread. A connection keeps the file
  it opened, while producers open `library.db` by path: after `rtfm init`, a
  restore or a quarantine the two are different files.
* The handlers of one project run in parallel except `scan`, `reconcile` and
  `vacuum`. They read the disk several times and commit several times; users and
  agents change the disk meanwhile; the process may die between two commits.
* Any hook or command looks whether a supervisor runs by taking its lock for a
  moment, and starts one if it gets it. A stop is a file that names a pid.
* A reader compares what it found with the disk, queues repairs at top priority
  and polls the queue until they are gone or its time is.

### What is hard

`hazards` in `PROJECT.json` lists each at its line. In short: statements of
different processes interleaved on one table; claims that nothing runs (crash, lost
closing write, lost claim) and jobs whose claim is taken away while they run; what
is peeked is not what is dequeued; connections to a file that is no longer there;
supervisors that start, stop, die and recycle around one lock that mere questions
take too; notifications lost between kernel, watcher and loop; three reads of a file
that changes; rows stamped after the file was read, and in two time zones; two files
normalised to one slug, two directories with one relative path; volumes that are not
there; a crash between the book and its tracking row, or inside a reconcile; page
tranches of a book written over meanwhile; readers who take a job's absence for its
success; and what must eventually happen: requests answered, stranded claims
reclaimed, changes found, indexes settled.

### What makes each component correct

Every property is stated with its comment in its module. Queue:
`NoRequestForgotten`, `LiveClaimHeld`, `AttemptsBounded`, `DedupKeepsTheWork`,
`SweepSparesLiveJobs`, `StrandedClaimReclaimed`, `RequestAnswered`. Supervisor:
`BooksBalance`, `NothingJoinsExclusive`, `NoRowRunTwice`, `ClaimsFollowTheFile`,
`LanesBounded`, `QueuedWorkRuns`. Lifecycle: `ImplementsSingleIndexer`,
`LiveJobsKeepRows`, `NoEnrolmentLost`, `StopReachesItsTarget`, `WorkDone`. Schedule:
`ChangeInHand`, `WatchedMeansWatched`, `ChangesFound`. Index: `ImplementsCatalogue`,
`FreshIsFindable`, `OneBookPerFile`, `IndexSettles`, `FreshMeansUpToDate`. Sources:
`DroppedForCause`, `SourcesSettle`, `ChurnStops`. Enrichment: `PagesReadOnce`,
`VectorOfItsPassage`, `EnrichmentSettles`. Passages, Answers, Selection:
`PassagesHoldTheFile`, `PromisesKept` (`ModuleCodeKept`, `EveryRow`), `AnswersEarned`,
`NeverPassedOffAsCurrent`, `IndexFollowsTheRules`.

## 2. Modules

```
JobQueue  (the table, one operator per SQL statement)
  |-- WorkQueue  (producers, supervisor, operator; statement by statement)
  |     |-- MCWorkQueue            -- WorkQueueProofs
  |-- Supervisor (several projects, files replaced under their connections)
        |-- MCSupervisor           -- SupervisorProofs
Lifecycle (processes around one lock)  ==implements==>  SingleIndexer
  |-- MCLifecycle                  -- LifecycleProofs
Schedule   (watcher, notifications, schedule of one source)
  |-- MCSchedule                   -- SourcesProofs (with Sources)
Index      (ingest, remove, scan, reconcile over one directory)  ==implements==>  Catalogue
  |-- MCIndex                      -- IndexProofs
Sources    (several directories and corpora, volumes)     -- SourcesProofs
Enrichment (OCR and embedding of one book)                -- EnrichmentProofs
  |-- Filing                       (the two, which share no state)
        |-- MCFiling
Passages, Answers, Selection (three that share no state)
  |-- Reading                      -- PassagesProofs (lemmas), ReadingProofs over it
        |-- MCReading
```

A module named MC... gives constants their small sets for TLC; one named
...Proofs holds what TLAPS proves. Definitions named `Mutant_...` are mistakes a
maintainer could make; no action uses them. `PROJECT.json` pairs each with the
property that notices it. Within the limits of a state machine the names are the
code's.

**JobQueue** is `work_queue` as a value: a function from ids to rows, and each
statement of class `Queue` as an operator from table to table. A (type, payload)
pair is one element of `Work`; the queue only compares them. The age test of
`reap_zombies` is modelled by what it does (`Older`): two texts in different
formats are compared, so a claim is older only when its *day* is.

**WorkQueue** interleaves those statements as separate processes commit them.
Between two statements of `reap_zombies` (`reap[r].step`) or of `retry_failed`
(`retry`) anybody may commit. `claimed` is the job between the supervisor's
dequeue and its submit, `live` is `_inflight`. Faults are the ones the code
handles: a crash (`crash`), a closing write that fails three times
(`lostClose`), a pool that refuses a job (`submit`), a dequeue that raises after
its commit (`lostClaim`). Four history variables say what the code does not keep:
`owed` (works asked for and not run to an end since), `fresh` (jobs started after
the last request for their work), `stolen` (rows reaped under a job in hand) and
`forfeited` (the works of those, and of claims dropped in favour of a row in hand).

**Supervisor** has the loop, the opener's pool and the world. `db[p]` is the
sequence of files a project's path has named; a slot holds the index of the one it
is connected to. Peek (`Pick`) and dequeue (`Take`) are two steps, so the head may
change between them; reaping and closing, which WorkQueue splits, are one. Faults:
the file is replaced, becomes malformed, is reported malformed and is not, the
connection turns read-only (`stale`), opening fails, the pool refuses.

**Lifecycle** has the processes of a machine. A process is its pid, and pids are
used again; `lock` is the flock, which the kernel gives back when its holder
dies, `stamp` the pid that outlives its writer in the file, `stopFile` the pid a
request names. `sup[p].pc` follows a supervisor from `spawned` through the lock,
clearing of leftovers and the stamp to its loop, and out of it through the drain.
`actor` are the hooks of the projects, an operator and the helper that a recycling
supervisor leaves behind. Opens run on a pool and may outlive their supervisor:
their boot reap is then by a process without the lock (`robbed`). `aged` says
that the request on disk was there before the lock was taken. **SingleIndexer** is
what all this is for: one process at a time works, it leaves with nothing in hand,
and what a dead one had in hand is stranded, not lost. `ImplementsSingleIndexer`
is its `Spec` under the mapping written in Lifecycle (`INSTANCE ... WITH`): the
indexer is the supervisor that holds the lock; a project's work is in hand when
that process runs it, stranded when its row says running and nobody does.

**Schedule** has one source with a root and a subdirectory, the watcher's thread
(list a directory, then watch it, then descend), the kernel's queue, what the
watcher leaves for the loop (`noted`) and `_SourceSchedule` (`sched`). Times are
counted from now and aged by `Tick`. It starts on any tree, its ignore file in
force or not. `blind` is history: what changed where no watch was, and what the
code hears of and forgets (section 3, exemptions).

**Index** cuts each handler where another job, the user or a crash can come in:
identity and hash, parse, write of the book, tracking row; look, delete book,
delete row; list, diff, each move, offer; purge, each stray book mended, ingests
asked for. A book's chunks are one chunk that has its text and the slug it was
written under. One tick is the one-second margin of `freshness.py`. Rows are stamped
in local time, those of moved files in UTC (`move_file`), `UTCAhead` ticks later;
`freshness.py` reads both as local. A move is one transaction and one step. A
reconcile commits after each book (`ReconcilePurge`, `ReconcileMend`) and asks for
the files it attached again only at the end (`ReconcileQueue`); `Mending` is those it
has yet to ask for. `excused` is history: the paths that a race or a gap named at
that place in the module has left behind (two runs of one path, a slug promised to
two files, a file that changed during its ingest, a crash between the two
commits of a removal, between a book and its row or inside a reconcile, a file gone
by the time its row is written, chunks purged as fossils, a rename over a tracked
file or onto a path that an untracked book still names, an edit that the stamp of
the row lies ahead of, `Unnoticed`). A
clean run of the path, alone, from one content (`CleanRun`), takes it off again.
**Catalogue** is what the index is to whoever searches it: under each path some
texts are found. A job looks at files, and what it goes by later is what it saw
(`seen`); a text comes to be found under a path only when a job that saw it there
records it, and goes only when a job saw the file gone, or another text in it, or
in the tidying of what no row vouches for, which happens when no job is at work and
spares every path told to be up to date; a file that moves takes along exactly
what was found of it; no step disturbs another path's texts. `ImplementsCatalogue`
is its `Spec` under the mapping in Index: what is found is the texts of the books that
name the path; what is seen is collected from the jobs at each step, a removal
counting as a look that found no file. Two files with one slug, whose jobs race
for it, are what makes this hard: the writer of one must not take the other's
book along.

**Sources** takes ingests as single steps and looks at what Index has one of:
several directories, two of them in one corpus or one content in two corpora,
rows that carry the directory they came from or none, volumes that are up, bare,
gone or in error, ignore rules, a configuration that changes, and the retiring
of what it no longer declares.

**Enrichment** follows one PDF: the ingest and the jobs it queues, OCR by tranches
of pages that delete a range and write it again, embedding batches of passage
ids, scans and reconciles that notice what is missing, the rebuild of every
embedding, time-outs and crashes. `lapses` is history: what this book is known to
miss until it is indexed whole again.

**Passages** has each parser as a function from a document (a sequence of lines
that have a part and a length) to passages with their text, the lines they cite and
the headings they stand under. A text is a sequence of units, each a pair of the line
and the place in it that it comes from, or white space, so a piece that is lost, or
given the wrong lines or heading, shows. A note is a line the format treats apart: a
comment, a field no mapping names, text of a chapter outside its paragraphs, and in a
database the mark of a table named like one of FTS5's own. A Python file that does
not parse (`python_error`) and JSON that has a mapping (`mapped`) are formats of their
own; JSON that does not parse and databases that do not open have no passages. Where
the code loops with carried state the model folds.
**Answers** is one reader with one question: catch-up, search,
check, repair, wait, answer, against an indexer that runs jobs, fails and dies.
**Selection** is which files belong: the scan's walk, the hook's, the removal's
and the watcher's rules, each with its own part of them. **Reading** composes
the three: in a behaviour one of them moves. MCReading gives it small sets. **Filing**
does the same for Sources and Enrichment, and gives the one that moves the fairness of
its own specification.

## 3. Runs

| run | bounds | what it shows |
|---|---|---|
| `queue_safety` | 2 works, 3 rows, 2 faults of any kind, 1 operator command, clock stopped | the safety properties of the queue, statement by statement. Three rows are a running row, its pending twin and another work: what dedup and the ranking can tell apart; two faults are what it takes to exhaust `MaxAttempts = 2` |
| `queue_time` | 1 work, 2 rows, times over two days, 2 faults, fair | the sweep spares live jobs, stranded claims are reclaimed, requests answered. The clock passes the reap age and a day's end |
| `supervisor_one_project` | 1 project with a scan and an ingest, 1 lane and 1 reserved, 1 fault of four kinds, 1 change of the registry, fair | slot books, exclusivity, one run per row, closing writes in the right file, queued work runs |
| `supervisor_lanes` | 2 projects with an ingest and an OCR job each, 2 rows per file, 2 lanes and 1 reserved, 1 OCR at a time, one corruption or false report of one; a VIEW leaves out files nobody is connected to | the cap on background work, the reserve for `P_USER` and the cap on background OCR, although a dequeue may return another row than the one peeked at |
| `lifecycle` | 2 pids, 2 projects' hooks, the operator, the helper; four budgets of commands, crashes, signals and recyclings, fair | the refinement of SingleIndexer, and the four properties beside it. Two pids are a supervisor and its successor, and a pid that is used again; two hooks race for lock and registry |
| `schedule` | 1 source, 1 subdirectory, any ignore rules; five budgets of up to 2 changes of the disk, faults, and moves of root, registry and configuration; intervals of 1 to 3 ticks that keep the code's order, fair | no notification is dropped between threads, a source taken to be watched is, every change is found |
| `index_safety` | 2 files normalised to one slug, 2 contents and an empty one, 2 lanes, 3 changes of the disk, 1 crash, UTC a tick ahead of local time | the refinement of Catalogue; freshness never lies about an unexcused path; rows do not share books. Three changes are create, create, edit/rename/delete: with two lanes, the races of section 2 |
| `index_settles` | the same files, 2 contents and one that will not parse, 1 lane, 2 changes, 1 crash, UTC a tick behind, fair | the index comes to say what the files say |
| `filing` | sources: 2 corpora, 2 directories, 2 paths, 2 contents; eight set-ups of what is declared and may change, 1 or 2 changes each, fair. Enrichment: 1 file, five kinds of PDF of 1 or 2 pages, one page per tranche, 2 lanes, 2 models; five budgets of up to 3 writes with a hook, crash, time-out or rebuild, fair | rows are dropped for a cause, the index settles on what is declared, the tables then stay as they are; a page is stored once, an embedding is of its passage, the book ends complete and embedded |
| `reading` | every document of up to 4 lines of eight kinds, in 25 formats; 2 files, 3 contents and four budgets of events around one question; 5 paths and every rule set of two lines | passages hold the file and are rightly cited, answers are earned, the index follows the rules |
| `failed_repair` | the answers of `reading` | violated: a stale file whose repair failed is served unmarked (section 5) |
| `promises` | the passages of `reading` | violated: the statements of a Python module are in no passage (section 5) |

Clocks, ids, faults and edits are capped by guards (`MaxTime`, `MaxId`,
`MaxFaults`, `MaxEdits`, `MaxOperator`, the `Budgets`, `Setups` and `Starts`), each named in
its module; the caps stop producers and faults, never the code's own steps, so
the liveness properties are about a system that comes to rest. For this reason
most runs do not look for deadlock: with the bounds used up and nothing queued the
system does stop. In Schedule time goes on for ever, and deadlock is checked.
Budgets that exclude combinations of events keep a run small; each event occurs in
some budget together with those it can interfere with. Symmetry is used for works,
projects and lanes, and in `index_safety` for the two paths and the two contents of one
size, in runs without liveness.

### Fairness

* The supervisor's loop visits all its steps every turn, so each step that is
  enabled again and again is taken (`SF`); a step that only the loop can disable
  has weak fairness. Jobs end (`Close`, `Finish`), as handlers do unless they hang.
  A dead supervisor is started again (`WF_vars(Start)` in WorkQueue; in Lifecycle
  not assumed but brought about by the hooks, which are fair).
* Opening is on a pool of its own (`WF_vars(Open(p))`).
* Lifecycle: a question holds the lock for an instant. It may turn away a
  supervisor that starts, not every one for ever: the last conjunct of `Fairness`.
* Schedule: the loop turns, time passes, the watcher's thread runs, a scan that
  began ends; the scan is dispatched when other work lets it (`SF`).
* Index, Sources, Enrichment: scans and reconciles come round
  (`_enqueue_periodic`), a job that began goes on, and what waits is served: the
  queue is ordered, and an exclusive head is not overtaken, so neither kind starves
  the other (`SF` for the exclusive ones, `ReconcilePurge` among them). A reconcile that
  began goes on to its end (`WF` of `ReconcileMend \/ ReconcileQueue`).
* Nothing is assumed of users, faults, or, outside Schedule, of a clock that ticks.

### Exemptions and why they are in the properties

An exemption names a behaviour of the code in which the property is false. Most
are told in section 5.

* `stolen`, `forfeited` (queue): `reap_zombies` takes a kept row held too long,
  `rtfm queue reap` reaps everything when it saw no supervisor a moment ago, and the
  ranking (`PARTITION BY type, payload`) ranks kept rows with zombies. A job then
  runs twice, or a request is answered by a run that began before it.
  `SweepSparesLiveJobs` excepts the operator's reap, for the same look-then-act gap.
* `GivenUp` (supervisor): a slot whose reopening failed is parked until a restart,
  one whose first open failed until the registry changes.
* `robbed` (lifecycle): rows reaped by an open that outlived its supervisor.
  `StopReachesItsTarget` excepts a request replaced or deleted by another command,
  and one written between the read and the unlink of another's.
* `blind` (schedule): a scan that failed, was lost or was refused while another was
  under way or waited for; a scan nobody asked for, which puts off the look that
  was due; events left out by rules that are out of date, or dropped with the
  watches; notifications taken for a project off the list. Nothing then stands for
  the change until the daily look, which `ChangesFound` says comes.
* `excused` (index), `lapses` (enrichment): section 2. A crash inside a reconcile
  leaves rows of no hash and no size that are told up to date over old books; the
  paths are excused, and `IndexSettles` says that the next scan, which skips no row
  without a size, has them read again. `FreshMeansUpToDate` is the same property
  with nothing excused, and false (section 5).
* `Mistaken`, `Missed`, `Renamed` (sources, of `DroppedForCause`) and `Twice`,
  `TwoNames`, `Unclaimed`, `Tossed` (of its liveness): each is a predicate on the
  state, with its reason beside it.
* `LeftOut`, the last lines of `RightlyCited` and of `RightlyTitled` (passages),
  `Stuck` (selection), `misled` (answers): likewise. Two of the things `LeftOut`
  names the docs promise; `promises` checks what they say.
  `misled` says that what was waited for last had begun before the question, or was
  dropped for its twin; an answer that was misled once no longer counts as having
  `looked`.

## 4. Proofs

All for every set of works, projects and processes, every bound and combination of
faults, from the modules' own assumptions on their constants alone, unless said
otherwise.

Both modules over JobQueue begin with lemmas on the table: each statement keeps a
table well formed, what it leaves and deletes, that a delete in favour of a twin
leaves one.

`WorkQueueProofs`:

* `TypeCorrect`: `Spec => []TypeOK`. One lemma per table operator, one case per
  action.
* `LiveClaimsHeld`: `Spec => []LiveClaimHeld`. The property is not inductive: the
  job that was dequeued and not yet submitted could also be in the pool, and
  handing it back would take the row from itself. The invariant is
  `ClaimInv == TypeOK /\ LiveClaimHeld /\ ClaimedApart`, where `ClaimedApart` says
  that the claimed job's id is in nobody else's hands unless it was stolen. Most
  steps go through one lemma (`HeldStep`): no new job, and the rows of the jobs in
  hand are untouched. `Dequeue` needs that a pending row is in nobody's hands;
  `Close` that two jobs in hand under one id are one job.

* `RequestsKept`: `Spec => []NoRequestForgotten`. Not inductive either: a run that
  began before the last request may close the very row that stands for it. The
  invariant `RequestInv` says instead (`OwedStands`) that some unfinished row of
  the work is in the hands of no such run; with `ClaimInv`, what jobs and stolen
  ids are known to be of (`JobsKnown`, `StolenKnown`), and a bound on attempts
  (`Attempted`). When a duplicate is deleted, the row that replaces it is the first
  of the ranking (`FirstExists`, from the well-foundedness of `<` on the naturals),
  which needs the bound, as the ranking goes down in attempts.
* `DedupLosesNothing`: `Spec => DedupKeepsTheWork`, from the same lemmas about what
  each DELETE leaves (`TwinStays`, `FirstStays`, `FailedFirstStays`).
* `ReapNeverCollides`, `RetryNeverCollides`: run in one go, the statements of
  `reap_zombies` and of `retry_failed` never meet a rejection of the unique index.
  Supervisor, which takes a reap as one step, relies on the first.

* `SweepSpares`: `Spec => SweepSparesLiveJobs`. From `ClaimInv` and `SweepKnows`:
  from the first statement of the supervisor's reap to the last its list is exactly
  its pool, since it claims and closes nothing in between. A row taken from under a
  live job is then in the list, so overdue by the day (`EarlierDay`), or the
  operator's reap took it.
* `AttemptsAreBounded`: `Spec => []AttemptsBounded`. Not inductive: a row may be sent
  back to the queue with all its attempts gone when it is claimed and lost between
  two statements of an operator's command. `AttemptInv` therefore counts only the
  commands that have run to their end (`Granted`), leaves every waiting row an
  attempt below that (`AttemptLeft`), and says that after the first statement of the
  supervisor's reap no claim outside its list is exhausted (`Unexhausted`).

`SupervisorProofs`:

* `Invariance`: `Spec => []IInv` with `IInv == TypeInv /\ SlotInv /\ PickInv /\ RowInv /\
  JobInv /\ OneExclusive /\ BooksBalance /\ LanesBounded`. `SlotInv`: only a project
  being served has jobs or the exclusive flag, so an opener at work or a slot
  dropped from the list takes no job with it. `PickInv`: what the peek established
  and the dequeue relies on; all that can touch the picked project in between is
  an insertion, and an insertion can only bring a more urgent head. `RowInv`: rows
  keep the priority they were queued at; background OCR has the last there is, so
  an insertion does not bring it to the head. `JobInv`: the
  row of a job counts at least the attempt of its claim, hence a new claim is
  never equal to a job in flight, and the set of jobs grows when the counter does.
  Steps are first described by what they do to the files (`Grown`: files only
  gain ids and attempts), the slots (`CalmSlots`) and the picked project, and
  these three carry the parts of the invariant.
* `TypeCorrect`, `BooksBalanced`, `LanesKept`, `ExclusiveAlone` follow.
* `ClaimsFollow`, `RowsRunOnce`: `ClaimsFollowTheFile` and `NoRowRunTwice`, under
  the further assumption that nothing turns corrupt or is reported so
  (`_recover_slot` swaps a connection under running jobs). `ClaimInv` adds that the
  row of a job is not pending and, if running, too young for the sweep, which
  keeps the ids in flight.

`LifecycleProofs`:

* `IInv == TypeOK /\ LockInv /\ SlotInv /\ RowInv /\ EnrolInv /\ AgedInv`: who past
  the lock is its holder; opens, slots and jobs are of those who serve; a job's row
  says running; the copy an enrolment writes back has all of the list; a request
  older than the lock's holder is gone before the holder can be addressed.
* `LiveJobsKept`, `EnrolmentsSurvive`, `StopsReach` follow from it.
* `Implementation`: `Spec => ImplementsSingleIndexer`. Initial states map to
  initial states; each action maps to a step of SingleIndexer or to a stutter, one
  lemma per kind of action.

`SourcesProofs` is about two specifications, Schedule and Sources, that share no
state; since it extends both, the second has names of its own (`SourcesSpec`,
`SourcesTypeOK`). Of Schedule:

* `WatchKept`: `Spec => []WatchedMeansWatched`. The property says nothing while
  requests wait; `AskedOrWatched` adds that the last of them is then to watch,
  since the requests are served in order and an unwatch is only asked for when
  the schedule goes. `RootFirst` rules out a subdirectory without its root, so
  that a watch refused is a failure noted.
* `ChangesKept`: `Spec => []ChangeInHand`. That the kernel's queue holds something is
  not enough: a read may leave all of it out. `HandInv` therefore asks, of each
  change that is not blind, that it is past the queue (`OnItsWay`) or that the queue
  has an event a read would hear (`InQueue`); with `WatcherInv`, an untracked source
  has no watches and no events, and an idle thread has told what it heard. Steps
  of the disk go through one lemma on `Touched`, those that leave the queue alone
  through `Carried`.
* `TypeCorrect`: `Spec => []TypeOK`, one lemma per kind of step.

`IndexProofs`:

* `TypeCorrect`: `Spec => []TypeOK`. With the types goes what the steps rely on
  (`Base`): finitely many books, so that an allocation finds a free slug; a scan
  or a move alone; each kind of job at the steps it has.
* `FreshFindable`: `Spec => []FreshIsFindable`. A reader compares sizes and times
  and never opens the book, so what it is told rests on what a row *vouches* for
  (`Vouched`), and this is far from what the property says. `IndexInv == Base /\
  RowsVouch /\ SlugsApart`: for every row that no race excuses and no job is about
  to write (`Untorn`), the slug is nobody else's, not even of an ingest in hand
  (`Mine`); the book says what the file said when hashed (`Holds`); a file whose
  size and mtime do not give it away (`Noticed`) says so still (`Seen`); a row that
  reconcile wrote without a hash is followed by an ingest, or about to be (`Awaited`,
  `Mending`). Stamps may lie ahead of the clock, by UTC, so an edit is not seen for
  being later than the row, but for being `Noticed` or excused. A step of a job
  leaves the other paths' rows (`OtherPath`, or `SlugTaken` when a slug changes
  hands) and restores its own (`OwnPath`); moves and the crash have a lemma each,
  and the three steps of a reconcile one that says what any of them leaves
  (`Reconciling`): a crash among them excuses what is `Mending`. TLC refuted the first attempts
  with larger bounds than the run's, which is how the last three gaps of the
  index in section 5 were found.
* `BooksApart`: `Spec => []OneBookPerFile`, from `Mine`.
* `Implementation`: `Spec => ImplementsCatalogue`. Initial states map to initial
  states; each action to a step of Catalogue, one lemma per kind. That a step leaves
  the texts of other paths alone is not in what rows vouch for: a file with a book
  and no row yet (its job is between its two commits, or died there) has texts too,
  which a job of another path, or a reconcile that gives stray books to the files
  they name, could take. `IndexInv` therefore has `SlugsApart` besides: no slug is
  two paths', whether by a row, a book or an ingest in hand (`Claims`), unless one
  of the two is excused. It is kept since a slug that is given to a second path
  excuses those that had a claim to it (`TakersClaim`). `OnlyCleanRuns`: a path
  stops being excused in one action only, which found its texts right.

Of Sources, in `SourcesProofs`:

* `SourcesTypeCorrect`: `SourcesSpec => []SourcesTypeOK`, among it that no job waits
  twice: the queue's unique index.
* `Recorded`: the directory of a row and of the scan in hand is one that is recorded
  for the corpus. It carries the next.
* `RowsDroppedForCause`: `SourcesSpec => DroppedForCause`. A look at a volume that is
  up or in error finds the file or fails (`LookFinds`), so the scan's offer and the
  removal's last look, which go over the recorded directories, miss none; each action
  that may drop a row has a lemma. The exemptions are what is left over of these
  lemmas, and replace coarser ones that TLC refuted with larger bounds.

`EnrichmentProofs`:

* `TypeCorrect`, with the arithmetic of batches and tranches: numbering a set of ids
  by how many are below (`Numbered`) and splitting a range of pages.
* `EmbeddedAsFiled`: `Spec => []VectorOfItsPassage`. What a batch or a rebuild has
  read must still be so when the model answers: `EmbeddingsDue` says that an id
  it waits for has the passage it was read with, or none, as an id is not given
  again while somebody refers to it.
* `EachPageOnce`: `Backend = "tesseract" => (Spec => []PagesReadOnce)`. The property is
  inductive with the types: a tranche deletes the range it fills, and reads pages
  of that range only (`ReadWithin`). The last is false of marker (section 5), hence the
  hypothesis.

`PassagesProofs` and `ReadingProofs`, the second going on from the first:

* `EarnedTogether`: `AnswersAssumption => (ReadingSpec => []AnswersEarned)`, from
  `Earned`, the same of Answers alone. The property speaks of the answer and says
  nothing while the reader waits, so it is far from inductive. `AnswersInv` is
  `World` (types, one scan at a time, files are steady only under a mounted
  volume), `Reader` (what is set in which phase) and `Waits`, one conjunct per
  phase, all made of three predicates on a file: `Sighted` (no running ingest
  holds an older sight of it), `Current` (in the index as on disk) and `Awaited` (one
  of the jobs waited for is to ingest it). A pending scan promises nothing yet; a
  running one saw the steady files; a finished one has left each `Current` or with a
  job (`ScanInHand`), and the reader then waits for these (`Settling`), until it has
  `Looked`. The attempt refuted an earlier form of the property, in which a repair
  forgot that the scan before it had been misled: with three edits and two scans of
  the clock, more than the run has, the reader settles for a scan older than the
  question. That wait now no longer counts as having looked, and an empty answer is
  earned whether or not a later repair was misled.
* `RulesFollowed`: `SelectionAssumption => (ReadingSpec => []IndexFollowsTheRules)`,
  from `Followed`, the same of Selection alone. About one state: what the rules leave
  out as a directory they leave out as a path below it (`UnderBelow`,
  `IgnoredBelow`), so the walk, which prunes, and the checks of one path agree but
  for `Stuck`. About a behaviour: while nothing happens after a scan, each difference
  has its job in the queue and no job makes a new one (`JobsDo`). The proof needed a
  case the run does not have: a file that is called as an excluded directory
  (section 5).
* `PassagesHold`: `PassagesAssumption => (ReadingSpec => []PassagesHoldTheFile)`,
  for every document of every length that fits its format (`Fits`), in all 25
  formats. `FileRead` says that a file read has passages that are `Whole`: each line
  is `Held` or known to be left out, each passage is `Fine`, cited and filed as it
  should be. There is one lemma for each way to cut (`CsvWhole`, `HtmlWhole`,
  `TextWhole`, `PythonWhole` and so on), and all rest on the same few facts. The
  units of a text (`UnitsOf`) are what counts: gluing, stripping, splitting at an
  end of sentence, a blank line or a length, merging short paragraphs and batching
  rows give texts that have, together, the units they were given, in the spans they
  came from (`OfLines`, `Located`). From that a line is `Covered`, and a passage
  that has a unit of a line cites it. A loop of the code is a fold of the model, and
  its invariant is a set that holds the accumulator at each step, with the units
  out, in the buffer and still to come. The library's induction theorems take an
  operator, so steps are counted up by a least counterexample instead (`Steps`, from
  the well-foundedness of `<`); that a fold, or the recursive cut of long texts, is
  the function its definition means needs an existence proof first (`FoldExists`,
  `CutsUpTo`, `CutLongIs`). The hypothesis puts the sizes in the order of the code's
  constants, and makes a line blank when it has no length.

The constants of these modules are assumed what the code makes of them: paths,
contents and ids are finite sets, marks for nothing (`NoHash`, `NoRow`, `NoFile`)
are not values.

Every safety invariant and every action property that a passing run checks is thus
stated by a theorem, three of them under a hypothesis told above (`PagesReadOnce`,
`ClaimsFollowTheFile`, `NoRowRunTwice`), and so are the two refinements. Only
model-checked: the liveness properties, as fairness and `ENABLED` are beyond the prover.
No module declares a RECURSIVE operator. `NeverPassedOffAsCurrent`,
`FreshMeansUpToDate`, `ModuleCodeKept` and `EveryRow` are false (section 5).

## 5. What the code does that it does not say

Two of these a run shows as a violation:

* `failed_repair`: `wait_for` counts pending and running rows, so a repair that
  *failed* counts as done, the stale mark is dropped and the old passages are served
  as they are; `cli.py:155` says "never passed off as current".
* `promises`: imports, constants and statements of a Python file with a function,
  a class or a comment are in no passage (`python.py:82`); `python.py:3` says they are
  "grouped into an "module" chunk", `python.py:139` "so nothing is silently skipped".
  Of databases `PromisesKept` is false too, as TLC finds with `Formats` reduced to
  `"sqlite"`: tables whose names end in `_data`, `_content`, `_config` and the like are
  taken for FTS5's own (`sqlite_parser.py:71`), where `sqlite_parser.py:7` says "data
  chunks covering **every row**".

The others are exemptions of properties, found when TLC refuted the property without
them.

Queue and supervisor

* A kept claim older than three hours is not reaped on the same day: `cutoff_sql`
  is compared as text, and `2026-07-28T09:00` sorts after `2026-07-28 20:00`
  (`queue.py:536`). `OverdueClaimIsReaped` in WorkQueue states what one would expect.
* A reader whose request is a duplicate waits for the first row the index gives
  for that work (`freshness.py:274`), which may be the running one; a reap drops
  the row of a pair that it does not keep, and the wait takes that for done.
* `_recover_slot` swaps the file of a busy project: the job's closing write then
  names a row id of another database.
* A `P_USER` scan inserted between the peek and the dequeue starts beside a
  running ingest; OCR asked for at `P_USER` in the same gap passes the OCR cap.
* The identity of a database is read after the connection is made
  (`supervisor.py:547`): a replacement in between is never noticed.
* A work asked for at `P_USER` while its background row is pending keeps the old
  priority.

Processes

* To see whether a supervisor runs, its lock is taken for a moment: a supervisor
  starting just then is turned away, and nobody serves until the next hook.
* A stop request given while jobs drain before a recycling is read by nobody. One
  written between the read and the unlink of another is deleted unread.
* An open that outlives its supervisor reaps the claims of the next one.

Watching and schedule

* The rules of a source are read when it is watched. When the ignore file is edited
  between that and the watch on the root, or its event is lost in an overflow, which
  does not have the tree watched again (`watch.py:307`), what the old rules leave
  out is not heard of until the daily look.
* A scan due to a change clears the change before it is queued. If the insertion is
  refused while an earlier scan, which may have listed the tree already, is still
  waited for, the end of that one puts the next look off by a day.
* A scan the schedule did not ask for, being a command's or older than the schedule,
  puts off the look that was due (`_scan_finished`).

Index, sources, selection

* `move_file` keeps the chunk ids of the old slug, reconcile deletes them as
  fossils, and the scan finds the hash unchanged: the book stays empty.
* A crash between the writing of a book and that of its row, or a file gone in
  between (`stat` raises, `handlers.py:518`), leaves the row of what the book held
  before: if the file is then put back as it was, older than the row, it is told
  up to date and its old text cannot be found. A rename onto a path that an
  untracked book still names leaves that path two books.
* An ingest hashes and parses first and stamps the row afterwards (`handlers.py:513`):
  an edit in between, of the same size and a second or more before the row, leaves a
  row that agrees with the file and a book that does not. `check_file` then answers
  "``None`` when the index is up to date for that file" (`freshness.py:97`), and scans
  skip it. `FreshMeansUpToDate` states it, and TLC refutes it with one file, one lane,
  two edits and no fault. A file that vanishes between hash and
  parse has a healthy hash remembered as unparsable.
* A reconcile writes a row of no hash for each book it attaches again, and asks for the
  files only at the end (`reconcile.py:187`, `reconcile.py:197`): killed in between, it
  leaves rows that are told up to date over old books until the next scan.
* `move_file` stamps UTC where every other writer stamps local time, and
  `freshness.py` reads local time (`library.py:2592`). West of Greenwich an edit of the
  same size in the hours after a move is not noticed, by readers or scans.
* A file emptied after it was indexed keeps its passages.
* Two directories of a corpus with one relative path take its row from each other
  at every scan; an ingest that finds nothing drops the row whichever directory it
  is of; an empty mount point is a deletion of everything.
* A file, not a directory, called `.claude/worktrees` is listed by scans and never
  heard of by the watcher, whose `ignores` is to say "True for a path whose change
  the scan would not act on" (`watch.py:131`): the walk tests directories, the
  watcher every path.
* The edit hook asks for files that scans leave out; a pattern of the source's own
  never removes what was indexed before it.

Books and answers

* A PDF whose last pages have no text layer while an earlier one has is not read
  further by OCR (`CutShort`); a tranche that fails is not asked for again.
* With `ocr_backend` set to `marker`, a scan is split into tranches all the same;
  each reads the whole document, files it as page 1, and deletes only its own pages
  first. From the second tranche on the document is filed again, where
  `handle_ocr` says "so a retry never duplicates" (`handlers.py:646`).
* Formats leave text out: short paragraphs, headings with nothing under them,
  comments of some markup formats, a LaTeX preamble too short to stand alone, what
  stands in a `div` or a table cell of an e-book chapter that also has paragraphs,
  the fields of JSON that its mapping does not name; and cite what follows an
  over-long line wrongly (`LeftOut`, `RightlyCited`).
* In a Légifrance code the stack of section titles is cut to the depth of the element,
  which is more than the number of sections: the first section stays on the path of
  the articles of those after it (`xml_legifrance.py:213`).
* A reader that finds its repair already running may be answered by a job that
  read the disk before the edit.
* `cli.py:1721` reads `seen_scans.json`, which nothing writes.

## 6. Simplifications

* WorkQueue: `finished_at` is left out; which done rows `clear_done` keeps is left
  open (any may go). `_close`'s retries are one step with two outcomes.
* Supervisor: it has no clock (claims age in WorkQueue), so between projects whose
  heads are equally urgent either may be picked. The two reads of `_Slot.open`
  (connect, then stat) are one step; the loop's order within a turn is not kept,
  except that nothing of its own thread comes between peek and dequeue.
* Lifecycle: one row of work per project stands for its queue; waiting with a
  time-out may end at any moment; a pid may be used again at once.
* Schedule: one subdirectory, which goes by being deleted, one kind of write; the
  root is renamed or removed, not unmounted (the watcher then goes on with no
  watch, and tells nobody); inotify itself is external.
* Index: hashes are perfect; UTC is a constant number of ticks from local time;
  `handle_scan`'s two batches are queued in one step; `LoseSlug` may strike once per job, as the
  handler retries once, and a second loss, which fails the job, is left out.
  `index_settles` has one lane: with two, the paths are excused so often that the
  run says less, and takes longer.
* Sources: an ingest or a removal is one step, books follow their rows.
* Enrichment: one passage per page; a claim and the job's first read are one step,
  the row and the book are written in one step.
* Passages: a line is a part and a length; what external libraries extract is given;
  a mapping is which fields it names, each a passage at most. Answers: one reader,
  one question, the queue's order left open. Selection: a pattern is a name.

## 7. Not modelled

Ranking and rendering of searches, citations, the graph and the coverage reports:
they read and keep nothing. The audit thread and the state snapshot for `worker
status`: caches of counts. The throttle: it delays jobs and decides nothing about
them. Installing hooks, discovery of project roots, schema migrations and the
one-off repairs: run once, alone. The command-line sync that does without a queue,
links between chunks, file versions and exports: single-threaded, or covered by
the same statements elsewhere. The audio, image and MIDI parsers: their text is
what an external tool says.

## 8. Plan

Written, in this order: JobQueue, WorkQueue, Supervisor, Index, Lifecycle and
SingleIndexer, Schedule, Sources, Enrichment, Answers, Selection, Passages, Reading,
Catalogue. Next:

1. The command-line sync beside the supervisor's jobs, with links between chunks.
2. The throttle with stale holders; the opening of a slot in its two reads.
