------------------------------ MODULE Schedule ------------------------------
(***************************************************************************)
(* When a source is looked at: the tree watcher of rtfm/core/watch.py, the *)
(* notifications it leaves for the supervisor, and the schedule of         *)
(* _SourceSchedule in rtfm/core/supervisor.py, for one source of one       *)
(* project.                                                                *)
(*                                                                         *)
(* The source is a root with one subdirectory, which an ignore file may    *)
(* leave out.  The watcher is a thread of its own: it walks the tree a     *)
(* directory at a time, listing a directory before it watches it, and what *)
(* happens in a directory that is not watched is told to nobody.           *)
(*                                                                         *)
(* Times are counted from now: the clock is the step Tick, which ages      *)
(* every one of them.                                                      *)
(***************************************************************************)
EXTENDS Naturals, Sequences

CONSTANTS
    BaseInterval,    \* how often a source on a clock is looked at, at most ...
    POLL_MAX,        \* ... and at least, after looks that found nothing
    SAFETY_SCAN,     \* how often one that is watched is looked at all the same
    CHANGE_SETTLE,   \* how long a reported change waits for the next one ...
    CHANGE_SPACING,  \* ... and for the last scan
    SCAN_LOST,       \* how long a scan is waited for
    None,
    Budgets          \* bounds: changes of the disk, faults, other events

Budget == [changes: Nat, faults: Nat, moves: Nat, local: BOOLEAN]

ASSUME ScheduleAssumption ==
    /\ {BaseInterval, POLL_MAX, SAFETY_SCAN, CHANGE_SETTLE, CHANGE_SPACING,
        SCAN_LOST} \subseteq Nat \ {0}
    /\ BaseInterval <= POLL_MAX /\ POLL_MAX <= SAFETY_SCAN
    /\ None \notin Nat
    /\ Budgets \subseteq Budget

VARIABLES
    dirs,       \* the directories there are
    ignored,    \* the ignore file leaves the subdirectory out
    stale,      \* those changed since a scan last listed them
    blind,      \* history: those whose change nobody heard of, or forgot
    watcher,    \* the watcher's thread
    events,     \* the kernel's queue
    requests,   \* the supervisor's requests to the watcher
    noted,      \* _changes and _watch_failures; history: a failure was dropped
    slot,       \* the project's slot: admitted, on the list
    sched,      \* the source's schedule, or None
    queue,      \* the scan's rows and the rest of the project's work
    declared,   \* the configuration lists the source
    budget

onDisk == <<dirs, ignored, stale, blind>>
watching == <<watcher, events>>
vars == <<onDisk, watching, requests, noted, slot, sched, queue, declared, budget>>

Dirs == {"root", "sub"}
EventKinds == {"root", "sub", "mkdir", "rmdir", "ignore", "self", "overflow"}
\* wds: the directories watched.  seen: what the listing of the root gave.
Asleep == [tracked |-> FALSE, rules |-> FALSE, wds |-> {}, pc |-> "idle",
           seen |-> {}, hit |-> FALSE]
Quiet == [change |-> FALSE, failure |-> FALSE, dropped |-> FALSE]
Intervals == {SAFETY_SCAN} \cup 1..POLL_MAX

TypeOK ==
    /\ dirs \subseteq Dirs /\ ignored \in BOOLEAN
    /\ stale \subseteq Dirs /\ blind \subseteq Dirs
    /\ watcher \in [tracked: BOOLEAN, rules: BOOLEAN, wds: SUBSET Dirs,
                    pc: {"idle", "list", "add", "descend", "tell"},
                    seen: SUBSET Dirs, hit: BOOLEAN]
    /\ events \subseteq EventKinds
    /\ requests \in Seq({"watch", "unwatch"})
    /\ noted \in [change: BOOLEAN, failure: BOOLEAN, dropped: BOOLEAN]
    /\ slot \in [open: BOOLEAN, wanted: BOOLEAN, first: 0..BaseInterval]
    /\ sched = None \/ sched \in
          [watched: BOOLEAN, interval: Intervals, due: 0..SAFETY_SCAN,
           queued: {None} \cup 0..(SCAN_LOST + 1),
           changed: {None} \cup 0..CHANGE_SETTLE, spacing: 0..CHANGE_SPACING]
    /\ queue \in [pending: BOOLEAN, scan: {"none", "begun", "listed"},
                  found: {None, 0, 1}, backlog: {"none", "some", "much"}, busy: BOOLEAN]
    /\ declared \in BOOLEAN
    /\ budget \in Budget

Init ==
    /\ dirs \in {{"root"}, Dirs} /\ ignored \in BOOLEAN
    /\ stale = dirs /\ blind = {}
    /\ watcher = Asleep /\ events = {} /\ requests = <<>>
    /\ noted = Quiet
    /\ slot = [open |-> FALSE, wanted |-> TRUE, first |-> 0]
    /\ sched = None
    /\ queue = [pending |-> FALSE, scan |-> "none", found |-> None,
                backlog |-> "none", busy |-> FALSE]
    /\ declared = TRUE
    /\ budget \in Budgets

Spend(what) ==
    /\ budget[what] > 0
    /\ budget' = [budget EXCEPT ![what] = @ - 1]

-----------------------------------------------------------------------------
(* The disk changes, and the kernel tells the watches there are. *)

\* The directory whose watch tells of each kind of event.
Teller(kind) == IF kind = "sub" THEN "sub" ELSE "root"

\* What a change leaves: directories to be listed again, and an event where
\* there is a watch.  The kernel's queue, one for all sources, may be full, and
\* then all there is is the overflow; where there is no watch nobody is told.
Touched(ds, kinds) ==
    LET told == {k \in kinds : Teller(k) \in watcher.wds}
    IN  /\ stale' = (stale \cap dirs') \cup ds
        /\ blind' = (blind \cap dirs') \cup IF told = {} THEN ds ELSE {}
        /\ \/ events' = events \cup told
           \/ told # {} /\ events' = events \cup {"overflow"}

Write(d) ==
    /\ Spend("changes") /\ d \in dirs
    /\ dirs' = dirs
    /\ Touched({d}, {d})
    /\ UNCHANGED <<ignored, watcher, requests, noted, slot, sched, queue,
                   declared>>

MakeSub ==
    /\ Spend("changes") /\ "root" \in dirs /\ "sub" \notin dirs
    /\ dirs' = Dirs
    /\ Touched({"sub"}, {"mkdir"})
    /\ UNCHANGED <<ignored, watcher, requests, noted, slot, sched, queue,
                   declared>>

\* A directory that goes takes its watch with it (IN_IGNORED).
RemoveSub ==
    /\ Spend("changes") /\ "sub" \in dirs
    /\ dirs' = {"root"}
    /\ Touched(IF ignored THEN {} ELSE {"root"}, {"rmdir", "sub"})
    /\ watcher' = [watcher EXCEPT !.wds = @ \ {"sub"}]
    /\ UNCHANGED <<ignored, requests, noted, slot, sched, queue, declared>>

\* The ignore file is at the root; the scan takes out, or back in, what it
\* says.
EditIgnore ==
    /\ Spend("changes") /\ "root" \in dirs
    /\ ignored' = ~ignored /\ dirs' = dirs
    /\ Touched(dirs, {"ignore"})
    /\ UNCHANGED <<watcher, requests, noted, slot, sched, queue, declared>>

\* The root goes, renamed or removed, and comes back.  (An unmount says nothing:
\* the watcher goes on as if it watched, and it is not modelled.)
RemoveRoot ==
    /\ Spend("moves") /\ "root" \in dirs
    /\ dirs' = {}
    /\ Touched({}, {"self"})
    /\ watcher' = [watcher EXCEPT !.wds = {}]
    /\ UNCHANGED <<ignored, requests, noted, slot, sched, queue, declared>>

RestoreRoot ==
    /\ dirs = {}
    /\ dirs' = Dirs
    /\ Touched(Dirs, {})
    /\ UNCHANGED <<ignored, watcher, requests, noted, slot, sched, queue,
                   declared, budget>>

-----------------------------------------------------------------------------
(* The watcher's thread. *)

Untracked(w) == [w EXCEPT !.tracked = FALSE, !.wds = {}, !.pc = "idle"]

\* Where the thread goes when it has no more to watch: it says what it heard.
AtEnd(w) == [w EXCEPT !.pc = IF w.hit THEN "tell" ELSE "idle"]

\* _watch: what was watched is dropped, the rules are read, the walk begins.
\* A root that is no directory is a failure.
Watched(w) ==
    IF "root" \in dirs
    THEN [w EXCEPT !.tracked = TRUE, !.wds = {}, !.rules = ignored, !.pc = "list"]
    ELSE AtEnd(Untracked(w))

NoteFailure(failed) == noted' = [noted EXCEPT !.failure = @ \/ failed]

\* Requests are served in order.  The watches removed take with them the
\* events not read yet.
ServeRequest ==
    /\ watcher.pc = "idle" /\ requests # <<>>
    /\ requests' = Tail(requests)
    /\ watcher' = IF Head(requests) = "watch" THEN Watched(watcher)
                                              ELSE Untracked(watcher)
    /\ NoteFailure(Head(requests) = "watch" /\ dirs = {})
    /\ events' = {}
    /\ blind' = IF events = {} THEN blind ELSE stale
    /\ UNCHANGED <<dirs, ignored, stale, slot, sched, queue, declared, budget>>

\* os.walk lists a directory before it gives it to be watched ...
WalkList ==
    /\ watcher.pc = "list"
    /\ watcher' = [watcher EXCEPT !.seen = dirs, !.pc = "add"]
    /\ UNCHANGED <<onDisk, events, requests, noted, slot, sched, queue, declared,
                   budget>>

WalkAdd ==
    /\ watcher.pc = "add"
    /\ LET w == [watcher EXCEPT !.wds = @ \cup (dirs \cap {"root"})]
       IN  watcher' = IF "sub" \in w.seen /\ ~w.rules
                      THEN [w EXCEPT !.pc = "descend"] ELSE AtEnd(w)
    /\ UNCHANGED <<onDisk, events, requests, noted, slot, sched, queue, declared,
                   budget>>

\* ... and goes down to the directories it listed and the rules leave in.
Descend ==
    /\ watcher.pc = "descend"
    /\ watcher' = AtEnd([watcher EXCEPT !.wds = @ \cup (dirs \cap {"sub"})])
    /\ UNCHANGED <<onDisk, events, requests, noted, slot, sched, queue, declared,
                   budget>>

\* The kernel's budget of watches is spent.
BudgetSpent ==
    /\ watcher.pc \in {"add", "descend"} /\ Spend("faults")
    /\ watcher' = AtEnd(Untracked(watcher))
    /\ NoteFailure(TRUE)
    /\ events' = {}
    /\ blind' = IF events = {} THEN blind ELSE stale
    /\ UNCHANGED <<dirs, ignored, stale, requests, slot, sched, queue, declared>>

\* What nobody learns of from events the rules leave out.  Rules read before the
\* ignore file changed, when its event was lost, leave out what the scan takes.
Unheard(hit) ==
    CASE hit -> {}
      [] ~hit /\ watcher.rules = ignored -> stale \cap {"sub"}
      [] ~hit /\ watcher.rules # ignored -> stale

Mutant_ReadEvents ==             \* an overflow is nobody's event
    /\ watcher.pc = "idle" /\ events # {}
    /\ LET heard == (IF watcher.rules THEN events \ {"sub", "mkdir", "rmdir"}
                                      ELSE events) \ {"overflow"}
           w == [watcher EXCEPT !.hit = watcher.tracked /\ heard # {}]
           again == watcher.tracked /\ heard \cap {"ignore", "self"} # {}
       IN  /\ watcher' = IF again THEN Watched(w)
                         ELSE IF "mkdir" \in heard THEN [w EXCEPT !.pc = "descend"]
                         ELSE AtEnd(w)
           /\ NoteFailure(again /\ dirs = {})
           /\ blind' = blind \cup Unheard(w.hit)
    /\ events' = {}
    /\ UNCHANGED <<dirs, ignored, stale, requests, slot, sched, queue, declared,
                   budget>>

\* One read takes every event.  A change the rules leave out is not one, should
\* they be out of date; the ignore file or the root itself has the tree watched
\* again; a new directory is walked.
ReadEvents ==
    /\ watcher.pc = "idle" /\ events # {}
    /\ LET heard == IF watcher.rules THEN events \ {"sub", "mkdir", "rmdir"}
                                     ELSE events
           w == [watcher EXCEPT !.hit = watcher.tracked /\ heard # {}]
           again == watcher.tracked /\ heard \cap {"ignore", "self"} # {}
       IN  /\ watcher' = IF again THEN Watched(w)
                         ELSE IF "mkdir" \in heard THEN [w EXCEPT !.pc = "descend"]
                         ELSE AtEnd(w)
           /\ NoteFailure(again /\ dirs = {})
           /\ blind' = blind \cup Unheard(w.hit)
    /\ events' = {}
    /\ UNCHANGED <<dirs, ignored, stale, requests, slot, sched, queue, declared,
                   budget>>

TellChange ==
    /\ watcher.pc = "tell"
    /\ watcher' = [watcher EXCEPT !.pc = "idle", !.hit = FALSE]
    /\ noted' = [noted EXCEPT !.change = TRUE]
    /\ UNCHANGED <<onDisk, events, requests, slot, sched, queue, declared, budget>>

-----------------------------------------------------------------------------
(* The supervisor: enqueue-periodic, once per turn of its loop. *)

Active == queue.busy \/ queue.scan # "none"

\* _refresh_sources: a source that is new is first looked at when its slot
\* says, and watched if the machine can.
NewSource == [watched |-> budget.local,
              interval |-> IF budget.local THEN SAFETY_SCAN ELSE BaseInterval,
              due |-> slot.first, queued |-> None, changed |-> None,
              spacing |-> CHANGE_SPACING]

Refreshed(s) == IF ~declared THEN None ELSE IF s = None THEN NewSource ELSE s

Requests(s) ==
    CASE ~declared /\ s # None -> Append(requests, "unwatch")
      [] declared /\ s = None /\ budget.local -> Append(requests, "watch")
      [] OTHER -> requests

Mutant_Demoted(s) == s           \* what cannot be watched is not told

\* A source that cannot be watched goes back on the clock.
Demoted(s) ==
    IF noted.failure /\ s.watched
    THEN [s EXCEPT !.watched = FALSE, !.interval = BaseInterval, !.due = 0] ELSE s

Told(s) == IF noted.change THEN [s EXCEPT !.changed = 0] ELSE s

Mutant_Unlost(s) == s            \* a scan is waited for as long as it takes

Unlost(s) == IF s.queued # None /\ s.queued > SCAN_LOST
             THEN [s EXCEPT !.queued = None] ELSE s

\* A change goes ahead of the clock once it has settled, two in a row spaced.
ChangeDue(s) == s.changed # None /\ s.changed >= CHANGE_SETTLE
                /\ s.spacing >= CHANGE_SPACING
ClockDue(s) == ~ChangeDue(s) /\ s.queued = None /\ s.due = 0

Begun(s) == IF ChangeDue(s) THEN [s EXCEPT !.changed = None, !.spacing = 0] ELSE s

\* The scan asked for: queued unless one is pending already, or refused by the
\* database, to be tried again; a scan under way, or one still waited for, puts
\* that off.
Asked(s) ==
    \/ /\ sched' = [Begun(s) EXCEPT !.queued = 0]
       /\ queue' = [queue EXCEPT !.pending = TRUE]
       /\ UNCHANGED <<blind, budget>>
    \/ /\ Spend("faults")
       /\ sched' = [Begun(s) EXCEPT !.due = BaseInterval]
       /\ blind' = IF queue.scan = "none" /\ s.queued = None THEN blind ELSE stale
       /\ UNCHANGED queue

\* _enqueue_due_scans: with too much waiting, the clock is put off.
DueScan(s) ==
    \/ ChangeDue(s) /\ Asked(s)
    \/ ClockDue(s) /\ queue.backlog # "much" /\ Asked(s)
    \/ /\ ClockDue(s) /\ queue.backlog = "much"
       /\ sched' = [s EXCEPT !.due = BaseInterval]
       /\ UNCHANGED <<queue, blind, budget>>
    \/ /\ ~ChangeDue(s) /\ ~ClockDue(s)
       /\ sched' = s
       /\ UNCHANGED <<queue, blind, budget>>

\* The notifications are taken first; those for a project that is off the list
\* or not open are dropped; a project off the list is there while it is busy.
EnqueuePeriodic ==
    /\ \/ /\ slot.open /\ slot.wanted
          /\ noted' = [Quiet EXCEPT !.dropped = noted.dropped]
          /\ requests' = Requests(sched)
          /\ LET s == Refreshed(sched)
             IN  IF s = None THEN sched' = None /\ UNCHANGED <<queue, blind, budget>>
                             ELSE DueScan(Unlost(Told(Demoted(s))))
       \/ /\ slot.open => ~slot.wanted /\ Active
          /\ noted' = [Quiet EXCEPT !.dropped = noted.dropped \/ noted.failure]
          /\ blind' = IF noted.change THEN stale ELSE blind
          /\ UNCHANGED <<requests, sched, queue, budget>>
    /\ UNCHANGED <<dirs, ignored, stale, watching, slot, declared>>

\* _collect_opened staggers the first looks.
Admit ==
    /\ ~slot.open /\ slot.wanted
    /\ \E first \in {0, BaseInterval} :
          slot' = [slot EXCEPT !.open = TRUE, !.first = first]
    /\ UNCHANGED <<onDisk, watching, requests, noted, sched, queue, declared, budget>>

DropUnwanted ==
    /\ slot.open /\ ~slot.wanted /\ ~Active
    /\ slot' = [slot EXCEPT !.open = FALSE]
    /\ requests' = IF sched = None THEN requests ELSE Append(requests, "unwatch")
    /\ sched' = None /\ noted' = [noted EXCEPT !.dropped = FALSE]
    /\ UNCHANGED <<onDisk, watching, queue, declared, budget>>

ScanEverythingNow ==
    IF sched = None THEN None ELSE [sched EXCEPT !.due = 0, !.queued = None]

\* The database was replaced: what was queued into the old file is gone.
Reopen ==
    /\ slot.open /\ ~Active /\ Spend("moves")
    /\ queue' = [queue EXCEPT !.pending = FALSE]
    /\ sched' = ScanEverythingNow
    /\ slot' = [slot EXCEPT !.first = 0]
    /\ UNCHANGED <<onDisk, watching, requests, noted, declared>>

-----------------------------------------------------------------------------
(* The scan, and what else the project has to do. *)

Dispatch ==
    /\ slot.open /\ slot.wanted
    /\ queue.pending /\ ~Active
    /\ queue' = [queue EXCEPT !.pending = FALSE, !.scan = "begun"]
    /\ UNCHANGED <<onDisk, watching, requests, noted, slot, sched, declared, budget>>

\* handle_scan lists the tree and says what it found; a root that is not there
\* is skipped.
List ==
    /\ queue.scan = "begun"
    /\ queue' = [queue EXCEPT !.scan = "listed", !.found =
                    IF dirs = {} THEN None ELSE IF stale = {} THEN 0 ELSE 1]
    /\ stale' = IF dirs = {} THEN stale ELSE {}
    /\ blind' = IF dirs = {} THEN blind ELSE {}
    /\ UNCHANGED <<dirs, ignored, watching, requests, noted, slot, sched,
                   declared, budget>>

\* A source on a clock slows down while its scans find nothing.
NextInterval(s, found) ==
    IF s.watched \/ found = None THEN s.interval
    ELSE IF found > 0 THEN BaseInterval
    ELSE IF 2 * s.interval < POLL_MAX THEN 2 * s.interval ELSE POLL_MAX

Looked(s, found) ==
    IF s = None THEN None
    ELSE [s EXCEPT !.queued = None, !.interval = NextInterval(s, found),
                   !.due = NextInterval(s, found)]

\* A scan the schedule did not ask for, being older than it or somebody else's,
\* puts off the look that was due all the same.
Unasked == sched # None /\ sched.queued = None

ScanEnds ==
    /\ queue.scan = "listed"
    /\ queue' = [queue EXCEPT !.scan = "none", !.found = None]
    /\ sched' = Looked(sched, queue.found)
    /\ blind' = IF Unasked THEN stale ELSE blind
    /\ UNCHANGED <<dirs, ignored, stale, watching, requests, noted, slot, declared,
                   budget>>

\* It raises, before or after it has listed: what it had to look at is not
\* asked for again.
ScanFails ==
    /\ queue.scan # "none" /\ Spend("faults")
    /\ queue' = [queue EXCEPT !.scan = "none", !.found = None]
    /\ sched' = Looked(sched, None)
    /\ blind' = IF queue.scan = "begun" \/ Unasked THEN stale ELSE blind
    /\ UNCHANGED <<dirs, ignored, stale, watching, requests, noted, slot, declared>>

\* Its claim is lost, and the row is closed without it: it never reports back.
LoseScan ==
    /\ queue.pending /\ Spend("faults")
    /\ queue' = [queue EXCEPT !.pending = FALSE]
    /\ blind' = stale
    /\ UNCHANGED <<dirs, ignored, stale, watching, requests, noted, slot, sched,
                   declared>>

\* A reader or a command queues the scan itself.
UserScan ==
    /\ Spend("moves")
    /\ queue' = [queue EXCEPT !.pending = TRUE]
    /\ UNCHANGED <<onDisk, watching, requests, noted, slot, sched, declared>>

Produce ==
    /\ Spend("moves")
    /\ \E much \in {"some", "much"} : queue' = [queue EXCEPT !.backlog = much]
    /\ UNCHANGED <<onDisk, watching, requests, noted, slot, sched, declared>>

WorkBegins ==
    /\ slot.open /\ slot.wanted
    /\ queue.backlog # "none" /\ ~Active
    /\ queue' = [queue EXCEPT !.busy = TRUE]
    /\ UNCHANGED <<onDisk, watching, requests, noted, slot, sched, declared, budget>>

WorkEnds ==
    /\ queue.busy
    /\ queue' = [queue EXCEPT !.busy = FALSE, !.backlog = "none"]
    /\ UNCHANGED <<onDisk, watching, requests, noted, slot, sched, declared, budget>>

-----------------------------------------------------------------------------
(* Outside. *)

EditConfig ==
    /\ Spend("moves")
    /\ declared' = ~declared
    /\ UNCHANGED <<onDisk, watching, requests, noted, slot, sched, queue>>

EditRegistry ==
    /\ Spend("moves")
    /\ slot' = [slot EXCEPT !.wanted = ~@]
    /\ UNCHANGED <<onDisk, watching, requests, noted, sched, queue, declared>>

\* The supervisor dies and another takes over: the watches and the schedule go
\* with it, a claimed scan goes back in the queue at the next boot.
Restart ==
    /\ Spend("moves")
    /\ watcher' = Asleep /\ events' = {} /\ requests' = <<>>
    /\ noted' = Quiet
    /\ slot' = [slot EXCEPT !.open = FALSE]
    /\ sched' = None
    /\ queue' = [queue EXCEPT !.scan = "none", !.found = None, !.busy = FALSE,
                              !.pending = @ \/ (queue.scan # "none")]
    /\ UNCHANGED <<onDisk, declared>>

Less(n) == IF n = 0 THEN 0 ELSE n - 1
Mutant_More(n, cap) ==           \* nothing stops the clocks
    IF n = None THEN None ELSE n + 1

More(n, cap) == IF n = None THEN None ELSE IF n = cap THEN cap ELSE n + 1

Tick ==
    /\ slot' = [slot EXCEPT !.first = Less(@)]
    /\ sched' = IF sched = None THEN None
                ELSE [sched EXCEPT !.due = Less(@),
                                   !.queued = More(@, SCAN_LOST + 1),
                                   !.changed = More(@, CHANGE_SETTLE),
                                   !.spacing = More(@, CHANGE_SPACING)]
    /\ UNCHANGED <<onDisk, watching, requests, noted, queue, declared, budget>>

-----------------------------------------------------------------------------
Disk == \/ \E d \in Dirs : Write(d)
        \/ MakeSub \/ RemoveSub \/ EditIgnore \/ RemoveRoot \/ RestoreRoot
Walk == WalkList \/ WalkAdd \/ Descend
Watcher == ServeRequest \/ Walk \/ ReadEvents \/ TellChange
Slots == Admit \/ DropUnwanted
Scan == List \/ ScanEnds
Work == WorkBegins \/ WorkEnds
Faults == BudgetSpent \/ ScanFails \/ LoseScan
Outside == UserScan \/ Produce \/ EditConfig \/ EditRegistry \/ Restart

Next == Disk \/ Watcher \/ EnqueuePeriodic \/ Slots \/ Reopen \/ Dispatch
        \/ Scan \/ Work \/ Faults \/ Outside \/ Tick

Spec == Init /\ [][Next]_vars

\* The loop turns and time passes; the watcher's thread runs; a scan under way
\* ends; other work ends, and with none new the scan is dispatched.
FairSpec ==
    /\ Spec
    /\ WF_vars(EnqueuePeriodic) /\ WF_vars(Tick) /\ WF_vars(Watcher)
    /\ WF_vars(Slots) /\ WF_vars(Scan) /\ WF_vars(WorkEnds)
    /\ SF_vars(Dispatch) /\ SF_vars(WorkBegins)

-----------------------------------------------------------------------------
(* Properties *)

\* What a scan would find now and has not.
ToFind == IF ignored THEN stale \ {"sub"} ELSE stale

\* A change on its way: heard of by the kernel, the watcher or the supervisor,
\* or ahead of a scan that has not listed yet, or of a look that comes soon.
Announced == events # {} \/ watcher.hit \/ noted.change
OnSchedule(s) ==
    \/ s.changed # None
    \/ ~s.watched
    \/ s.queued = None /\ s.due <= BaseInterval
Expected == sched = None \/ OnSchedule(sched)
ScanToCome == queue.pending \/ queue.scan = "begun"

\* A change made where the watcher was looking is never dropped between the
\* threads: from the kernel's queue to the scan's listing something stands for
\* it, whatever files, slots, configuration and registry do meanwhile
\* (_take_notifications, _enqueue_due_scans).  What drops it is in blind: a scan
\* that failed or was refused, one nobody asked for that puts off the look, rules
\* out of date, and notifications taken for a project off the list.
ChangeInHand == ToFind \subseteq blind \/ Announced \/ Expected \/ ScanToCome

\* A source the supervisor takes to be watched is watched, or the failure to is
\* on its way to the schedule: otherwise it would be looked at once a day
\* (_on_watch_failed).  Failures taken for a project off the list are dropped.
WatchedMeansWatched ==
    sched # None /\ sched.watched /\ requests = <<>> =>
        watcher.tracked \/ noted.failure \/ noted.dropped

\* The watcher is not needed for anything to be found: what changed unseen is
\* found by the daily look, and a scan that never reported back is not waited
\* for for ever (SAFETY_SCAN_SECONDS, SCAN_LOST_AFTER_SECONDS).
Reachable == declared /\ slot.wanted /\ dirs # {}
ChangesFound == ToFind # {} ~> ToFind = {} \/ ~Reachable

\* Every directory the scan would enter is watched once the watcher has nothing
\* left to do and lost no event ("a source is watched directory by directory").
WatcherSettled ==
    watcher.tracked /\ watcher.pc = "idle" /\ events = {} /\ requests = <<>>
EveryDirectoryWatched ==
    WatcherSettled => (IF ignored THEN dirs \ {"sub"} ELSE dirs) \subseteq watcher.wds
=============================================================================
