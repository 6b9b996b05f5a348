----------------------------- MODULE Lifecycle -----------------------------
(***************************************************************************)
(* How the one supervisor of a machine comes and goes: the lock and the    *)
(* stop request of rtfm/core/supervisor.py, the commands of cli_worker.py, *)
(* and the list of projects of rtfm/core/registry.py.                      *)
(*                                                                         *)
(* A process is its pid, and pids are used again.  The lock is flock: the  *)
(* kernel gives it back when its holder dies.  Asking whether a supervisor *)
(* runs means taking that lock for a moment, so a question can turn away a *)
(* supervisor that is starting.  The pid stamped in the lock file outlives *)
(* its writer.                                                             *)
(*                                                                         *)
(* One row of work per project stands for its queue.  The hook of a        *)
(* project is named by the project; beside the hooks there is an operator  *)
(* (or the version check of the command line, which runs restart-all) and  *)
(* the helper a recycling supervisor leaves behind.                        *)
(***************************************************************************)
EXTENDS Naturals, FiniteSets

CONSTANTS
    Pids, Projects,
    operator, helper,
    Nobody,          \* no lock holder, no stamp, no request
    Budgets          \* bounds: what a behaviour may meet, see Budget

Actors == Projects \cup {operator, helper}

\* The projects that have hooks, the commands an operator gives, and the
\* crashes, signals and recyclings there are.
Budget == [projects: SUBSET Projects, ops: Nat, faults: Nat]

ASSUME LifecycleAssumption ==
    /\ operator # helper
    /\ {operator, helper} \cap Projects = {}
    /\ Pids \cap Actors = {}
    /\ Nobody \notin Pids \cup Actors
    /\ Budgets \subseteq Budget

VARIABLES
    lock,       \* who holds supervisor.lock: a supervisor, or someone asking
    stamp,      \* the pid written in it
    stopFile,   \* supervisor.stop: the pid it names
    sup,        \* per pid: a supervisor
    actor,      \* per actor: where it is in its command
    list,       \* the projects of workers.json
    regLock,    \* who holds workers.lock
    row,        \* per project: its work
    robbed,     \* history: rows reaped under a job by a process without the lock
    aged,       \* history: the request on disk is older than the lock's holder
    budget      \* what is left of this behaviour's budget

files == <<stamp, stopFile, aged>>
registry == <<list, regLock>>
work == <<row, robbed>>
vars == <<lock, files, sup, actor, registry, work, budget>>

SupSteps == {"dead", "spawned", "entered", "cleared", "loop", "asking",
             "drain", "released"}
SupType == [pc: SupSteps, raw: Pids \cup {Nobody}, unread: BOOLEAN, reading: BOOLEAN,
            wanted: SUBSET Projects, opening: SUBSET Projects,
            slots: SUBSET Projects, jobs: SUBSET Projects, respawn: BOOLEAN]
NoSup == [pc |-> "dead", raw |-> Nobody, unread |-> TRUE, reading |-> FALSE,
          wanted |-> {}, opening |-> {}, slots |-> {}, jobs |-> {},
          respawn |-> FALSE]
ActorSteps == {"idle", "enrol", "enrolling", "probe", "holding", "absent",
               "found", "waiting", "clear"}
ActorType == [pc: ActorSteps, op: {"ensure", "stop", "restart"},
              target: Pids \cup {Nobody}, copy: SUBSET Projects]
Idle == [pc |-> "idle", op |-> "ensure", target |-> Nobody, copy |-> {}]

Alive(p) == p \in Pids /\ sup[p].pc # "dead"
Serving(p) == sup[p].pc \in {"loop", "asking"}
\* Past the point where a request on disk can be anybody else's.
Addressable(p) == lock = p /\ stamp = p

TypeOK ==
    /\ lock \in Pids \cup Actors \cup {Nobody}
    /\ {stamp, stopFile} \subseteq Pids \cup {Nobody}
    /\ sup \in [Pids -> SupType]
    /\ actor \in [Actors -> ActorType]
    /\ list \subseteq Projects
    /\ regLock \in Projects \cup {Nobody}
    /\ row \in [Projects -> {"pending", "running", "done"}]
    /\ robbed \subseteq Projects
    /\ aged \in BOOLEAN
    /\ budget \in Budget

Init ==
    /\ lock = Nobody /\ stamp = Nobody /\ stopFile = Nobody /\ aged = FALSE
    /\ sup = [p \in Pids |-> NoSup]
    /\ actor = [a \in Actors |-> Idle]
    /\ list = {} /\ regLock = Nobody
    /\ budget \in Budgets
    /\ row = [j \in Projects |-> IF j \in budget.projects THEN "pending" ELSE "done"]
    /\ robbed = {}

-----------------------------------------------------------------------------
(* The supervisor takes the lock. *)

\* The lock is someone else's, be it for a moment: SupervisorLockHeld, and the
\* process ends without a word.
TurnedAway(p) ==
    /\ sup[p].pc = "spawned" /\ lock # Nobody
    /\ sup' = [sup EXCEPT ![p] = NoSup]
    /\ UNCHANGED <<lock, files, actor, registry, work, budget>>

TakeLock(p) ==
    /\ sup[p].pc = "spawned" /\ lock = Nobody
    /\ lock' = p
    /\ sup' = [sup EXCEPT ![p].pc = "entered"]
    /\ aged' = (stopFile # Nobody)
    /\ UNCHANGED <<stamp, stopFile, actor, registry, work, budget>>

Mutant_ClearLeftovers(p) ==      \* what is there is left there
    /\ sup[p].pc = "entered"
    /\ sup' = [sup EXCEPT ![p].pc = "cleared"]
    /\ UNCHANGED <<lock, files, actor, registry, work, budget>>

\* What was aimed at the previous holder goes before this one is addressable.
ClearLeftovers(p) ==
    /\ sup[p].pc = "entered"
    /\ stopFile' = Nobody /\ aged' = FALSE
    /\ sup' = [sup EXCEPT ![p].pc = "cleared"]
    /\ UNCHANGED <<lock, stamp, actor, registry, work, budget>>

StampPid(p) ==
    /\ sup[p].pc = "cleared"
    /\ stamp' = p
    /\ sup' = [sup EXCEPT ![p].pc = "loop"]
    /\ UNCHANGED <<lock, stopFile, aged, actor, registry, work, budget>>

-----------------------------------------------------------------------------
(* Its loop. *)

\* The mtime of the list is read before the list.
LookAtRegistry(p) ==
    /\ sup[p].pc = "loop" /\ ~sup[p].reading
    /\ sup[p].unread \/ sup[p].slots \cup sup[p].opening = {}
    /\ sup' = [sup EXCEPT ![p].unread = FALSE, ![p].reading = TRUE]
    /\ UNCHANGED <<lock, files, actor, registry, work, budget>>

Mutant_ReadRegistry(p) ==        \* the slots it has are opened again
    /\ sup[p].pc = "loop" /\ sup[p].reading
    /\ sup' = [sup EXCEPT ![p].reading = FALSE, ![p].wanted = list,
                          ![p].opening = @ \cup list]
    /\ UNCHANGED <<lock, files, actor, registry, work, budget>>

ReadRegistry(p) ==
    /\ sup[p].pc = "loop" /\ sup[p].reading
    /\ sup' = [sup EXCEPT ![p].reading = FALSE, ![p].wanted = list,
                          ![p].opening = @ \cup (list \ sup[p].slots)]
    /\ UNCHANGED <<lock, files, actor, registry, work, budget>>

Mutant_Opened(p, j) ==           \* no boot reap
    /\ sup[p].pc \in {"loop", "asking", "drain", "released"}
    /\ j \in sup[p].opening
    /\ sup' = [sup EXCEPT ![p].opening = @ \ {j},
                          ![p].slots = IF Serving(p) THEN @ \cup {j} ELSE @]
    /\ UNCHANGED <<lock, files, actor, registry, work, budget>>

\* _Slot.open ends on a thread of its own: every running row of the project
\* goes back in the queue, whoever runs it.  In the loop the slot is admitted.
Opened(p, j) ==
    /\ sup[p].pc \in {"loop", "asking", "drain", "released"}
    /\ j \in sup[p].opening
    /\ row' = [row EXCEPT ![j] = IF @ = "running" THEN "pending" ELSE @]
    /\ robbed' = IF lock # p /\ \E q \in Pids : j \in sup[q].jobs
                 THEN robbed \cup {j} ELSE robbed
    /\ sup' = [sup EXCEPT ![p].opening = @ \ {j},
                          ![p].slots = IF Serving(p) THEN @ \cup {j} ELSE @]
    /\ UNCHANGED <<lock, files, actor, registry, budget>>

Dispatch(p, j) ==
    /\ sup[p].pc = "loop" /\ j \in sup[p].slots /\ row[j] = "pending"
    /\ row' = [row EXCEPT ![j] = "running"]
    /\ sup' = [sup EXCEPT ![p].jobs = @ \cup {j}]
    /\ UNCHANGED <<lock, files, actor, registry, robbed, budget>>

\* A job ends and its row is closed, in the loop or while draining.
JobEnds(p, j) ==
    /\ sup[p].pc \in {"loop", "asking", "drain"} /\ j \in sup[p].jobs
    /\ row' = [row EXCEPT ![j] = "done"]
    /\ robbed' = robbed \ {j}
    /\ sup' = [sup EXCEPT ![p].jobs = @ \ {j}]
    /\ UNCHANGED <<lock, files, actor, registry, budget>>

\* A process on its way out: opens not begun are cancelled, the others go on.
Leaving(s, respawn, going) ==
    [s EXCEPT !.pc = "drain", !.respawn = respawn, !.opening = going,
              !.raw = Nobody, !.reading = FALSE]

\* stop_requested reads the file ...
ReadStop(p) ==
    /\ sup[p].pc = "loop" /\ stopFile # Nobody
    /\ sup' = [sup EXCEPT ![p].pc = "asking", ![p].raw = stopFile]
    /\ UNCHANGED <<lock, files, actor, registry, work, budget>>

\* ... and, if it was for this process, or for one that is gone, deletes it.
ObeyStop(p) ==
    /\ sup[p].pc = "asking" /\ sup[p].raw = p
    /\ stopFile' = Nobody /\ aged' = FALSE
    /\ \E going \in SUBSET sup[p].opening :
          sup' = [sup EXCEPT ![p] = Leaving(@, FALSE, going)]
    /\ UNCHANGED <<lock, stamp, actor, registry, work, budget>>

IgnoreStop(p) ==
    /\ sup[p].pc = "asking" /\ sup[p].raw # p
    /\ stopFile' = IF Alive(sup[p].raw) THEN stopFile ELSE Nobody
    /\ aged' = (aged /\ stopFile' # Nobody)
    /\ sup' = [sup EXCEPT ![p].pc = "loop", ![p].raw = Nobody]
    /\ UNCHANGED <<lock, stamp, actor, registry, work, budget>>

\* A new version or the memory ceiling; a signal stops it without respawning.
Recycle(p) ==
    /\ sup[p].pc = "loop" /\ budget.faults > 0
    /\ budget' = [budget EXCEPT !.faults = @ - 1]
    /\ \E going \in SUBSET sup[p].opening, respawn \in BOOLEAN :
          sup' = [sup EXCEPT ![p] = Leaving(@, respawn, going)]
    /\ UNCHANGED <<lock, files, actor, registry, work>>

HelperCalled == [actor EXCEPT ![helper] =
                    IF @.pc = "idle" THEN [Idle EXCEPT !.pc = "probe"] ELSE @]

\* The process as it leaves the lock: it lives on while an open does.
Afterlife(s) == IF s.opening = {} THEN NoSup
                ELSE [NoSup EXCEPT !.pc = "released", !.opening = s.opening]

Mutant_Release(p) ==             \* the pool is shut down with wait=False
    /\ sup[p].pc = "drain"
    /\ lock' = Nobody
    /\ actor' = IF sup[p].respawn THEN HelperCalled ELSE actor
    /\ sup' = [sup EXCEPT ![p] =
                  IF sup[p].jobs = {} THEN Afterlife(@) ELSE @]
    /\ UNCHANGED <<files, registry, work, budget>>

\* _shutdown, after the jobs in flight have ended, and the lock is given back.
Release(p) ==
    /\ sup[p].pc = "drain" /\ sup[p].jobs = {}
    /\ lock' = Nobody
    /\ actor' = IF sup[p].respawn THEN HelperCalled ELSE actor
    /\ sup' = [sup EXCEPT ![p] = Afterlife(@)]
    /\ UNCHANGED <<files, registry, work, budget>>

\* The interpreter waits for the opener's threads.
Exit(p) ==
    /\ sup[p].pc = "released" /\ sup[p].opening = {}
    /\ sup' = [sup EXCEPT ![p] = NoSup]
    /\ UNCHANGED <<lock, files, actor, registry, work, budget>>

\* Death gives the lock back; rows stay as they are.
Die(p) ==
    /\ sup' = [sup EXCEPT ![p] = NoSup]
    /\ lock' = IF lock = p THEN Nobody ELSE lock

Crash(p) ==
    /\ Alive(p) /\ budget.faults > 0
    /\ budget' = [budget EXCEPT !.faults = @ - 1]
    /\ Die(p)
    /\ UNCHANGED <<files, actor, registry, work>>

-----------------------------------------------------------------------------
(* Asking whether one runs, and starting one. *)

Goto(a, pc) == actor' = [actor EXCEPT ![a].pc = pc]

\* ensure_worker_running: enrol the project, then ensure a supervisor.
Hook(j) ==
    /\ actor[j].pc = "idle" /\ j \in budget.projects
    /\ Goto(j, IF j \in list THEN "probe" ELSE "enrol")
    /\ UNCHANGED <<lock, files, sup, registry, work, budget>>

Mutant_EnrolLock(j) ==           \* the list is changed without the lock
    /\ actor[j].pc = "enrol"
    /\ actor' = [actor EXCEPT ![j].pc = "enrolling", ![j].copy = list]
    /\ UNCHANGED <<lock, files, sup, registry, work, budget>>

EnrolLock(j) ==
    /\ actor[j].pc = "enrol" /\ regLock = Nobody
    /\ regLock' = j
    /\ actor' = [actor EXCEPT ![j].pc = "enrolling", ![j].copy = list]
    /\ UNCHANGED <<lock, files, sup, list, work, budget>>

\* The lock was not to be had in time: the next hook tries again.
EnrolGiveUp(j) ==
    /\ actor[j].pc = "enrol" /\ regLock # Nobody
    /\ Goto(j, "probe")
    /\ UNCHANGED <<lock, files, sup, registry, work, budget>>

EnrolSave(j) ==
    /\ actor[j].pc = "enrolling"
    /\ list' = actor[j].copy \cup {j}
    /\ regLock' = Nobody
    /\ sup' = [p \in Pids |-> [sup[p] EXCEPT !.unread = TRUE]]
    /\ actor' = [actor EXCEPT ![j].pc = "probe", ![j].copy = {}]
    /\ UNCHANGED <<lock, files, work, budget>>

\* _lock_holder_pid: nobody holds the lock if it can be taken ...
ProbeTakes(a) ==
    /\ actor[a].pc = "probe" /\ lock = Nobody
    /\ lock' = a
    /\ Goto(a, "holding")
    /\ UNCHANGED <<files, sup, registry, work, budget>>

ProbeGivesBack(a) ==
    /\ actor[a].pc = "holding"
    /\ lock' = Nobody
    /\ Goto(a, "absent")
    /\ UNCHANGED <<files, sup, registry, work, budget>>

Mutant_ProbeMeetsHolder(a) ==    \* whoever holds it is the supervisor
    /\ actor[a].pc = "probe" /\ lock # Nobody
    /\ actor' = [actor EXCEPT ![a].pc = "found", ![a].target = lock]
    /\ UNCHANGED <<lock, files, sup, registry, work, budget>>

\* ... and if it cannot, the stamp says who, provided that process lives.
ProbeMeetsHolder(a) ==
    /\ actor[a].pc = "probe" /\ lock # Nobody
    /\ actor' = [actor EXCEPT ![a].pc = IF Alive(stamp) THEN "found" ELSE "absent",
                              ![a].target = IF Alive(stamp) THEN stamp ELSE Nobody]
    /\ UNCHANGED <<lock, files, sup, registry, work, budget>>

Spawn(a) ==
    /\ actor[a].pc = "absent" /\ actor[a].op = "ensure"
    /\ \E p \in Pids :
          /\ sup[p].pc = "dead"
          /\ sup' = [sup EXCEPT ![p] = [NoSup EXCEPT !.pc = "spawned"]]
    /\ actor' = [actor EXCEPT ![a] = Idle]
    /\ UNCHANGED <<lock, files, registry, work, budget>>

NothingToDo(a) ==
    /\ \/ actor[a].pc = "found" /\ actor[a].op = "ensure"
       \/ actor[a].pc = "absent" /\ actor[a].op = "stop"
    /\ actor' = [actor EXCEPT ![a] = Idle]
    /\ UNCHANGED <<lock, files, sup, registry, work, budget>>

-----------------------------------------------------------------------------
(* worker stop and worker restart-all. *)

Command(op) ==
    /\ actor[operator].pc = "idle" /\ budget.ops > 0
    /\ budget' = [budget EXCEPT !.ops = @ - 1]
    /\ actor' = [actor EXCEPT ![operator] = [Idle EXCEPT !.pc = "probe", !.op = op]]
    /\ UNCHANGED <<lock, files, sup, registry, work>>

RequestStop(a) ==
    /\ actor[a].pc = "found" /\ actor[a].op \in {"stop", "restart"}
    /\ stopFile' = actor[a].target /\ aged' = FALSE
    /\ Goto(a, "waiting")
    /\ UNCHANGED <<lock, stamp, sup, registry, work, budget>>

\* The process went within the time allowed.
SeenGone(a) ==
    /\ actor[a].pc = "waiting" /\ ~Alive(actor[a].target)
    /\ Goto(a, "clear")
    /\ UNCHANGED <<lock, files, sup, registry, work, budget>>

\* It did not: stop leaves it to finish, restart-all kills it.
StopWaitedEnough(a) ==
    /\ actor[a].pc = "waiting" /\ actor[a].op = "stop" /\ Alive(actor[a].target)
    /\ actor' = [actor EXCEPT ![a] = Idle]
    /\ UNCHANGED <<lock, files, sup, registry, work, budget>>

HardKill(a) ==
    /\ actor[a].pc = "waiting" /\ actor[a].op = "restart" /\ Alive(actor[a].target)
    /\ Die(actor[a].target)
    /\ Goto(a, "clear")
    /\ UNCHANGED <<files, registry, work, budget>>

RestartFindsNone(a) ==
    /\ actor[a].pc = "absent" /\ actor[a].op = "restart"
    /\ Goto(a, "clear")
    /\ UNCHANGED <<lock, files, sup, registry, work, budget>>

\* Whatever request is there is deleted, and restart-all goes on to start one.
ClearRequest(a) ==
    /\ actor[a].pc = "clear"
    /\ stopFile' = Nobody /\ aged' = FALSE
    /\ actor' = [actor EXCEPT ![a] =
                    IF @.op = "restart" THEN [Idle EXCEPT !.pc = "probe"] ELSE Idle]
    /\ UNCHANGED <<lock, stamp, sup, registry, work, budget>>

-----------------------------------------------------------------------------
ReadList(p) == LookAtRegistry(p) \/ ReadRegistry(p)
Loop(p) ==
    \/ ReadList(p)
    \/ ReadStop(p) \/ ObeyStop(p) \/ IgnoreStop(p)
    \/ \E j \in Projects : Dispatch(p, j)
Opener(p) == \E j \in Projects : Opened(p, j)
Pool(p) == \E j \in Projects : JobEnds(p, j)
Coming(p) == TakeLock(p) \/ ClearLeftovers(p) \/ StampPid(p)
Going(p) == Release(p) \/ Exit(p)
Enrol(j) == Hook(j) \/ EnrolLock(j) \/ EnrolGiveUp(j) \/ EnrolSave(j)
Probe(a) == ProbeTakes(a) \/ ProbeGivesBack(a) \/ ProbeMeetsHolder(a)
Conclude(a) == Spawn(a) \/ NothingToDo(a)
Restart(a) ==
    \/ RequestStop(a) \/ SeenGone(a) \/ StopWaitedEnough(a) \/ HardKill(a)
    \/ RestartFindsNone(a) \/ ClearRequest(a)

Next ==
    \/ \E p \in Pids : \/ Coming(p) \/ TurnedAway(p) \/ Loop(p) \/ Opener(p)
                       \/ Pool(p) \/ Going(p) \/ Recycle(p) \/ Crash(p)
    \/ \E j \in Projects : Enrol(j)
    \/ \E a \in Actors : Probe(a) \/ Conclude(a) \/ Restart(a)
    \/ \E op \in {"stop", "restart"} : Command(op)

Spec == Init /\ [][Next]_vars

\* A supervisor that is up visits every step of its loop; jobs and opens end;
\* whoever began a command goes on with it.  A question holds the lock for an
\* instant, and an enrolment the list: they may turn away a supervisor that
\* starts or another enrolment, not every one for ever.
Fairness ==
    /\ \A p \in Pids :
          /\ SF_vars(TakeLock(p))
          /\ WF_vars(Coming(p) \/ TurnedAway(p) \/ Going(p) \/ ObeyStop(p) \/ IgnoreStop(p))
          /\ SF_vars(ReadList(p)) /\ SF_vars(ReadStop(p))
          /\ SF_vars(\E j \in Projects : Dispatch(p, j))
          /\ WF_vars(Pool(p)) /\ WF_vars(Opener(p))
    /\ \A j \in Projects : WF_vars(Enrol(j)) /\ SF_vars(EnrolLock(j))
    /\ \A a \in Actors : WF_vars(Probe(a) \/ Conclude(a) \/ Restart(a))
    /\ []<><<\E p \in Pids : TurnedAway(p) /\ lock \in Actors>>_vars
          => []<><<\E p \in Pids : TakeLock(p)>>_vars

FairSpec == Spec /\ Fairness

-----------------------------------------------------------------------------
(* Properties *)

InHand == UNION {sup[p].jobs : p \in Pids}
StateOf(j) ==
    CASE j \in InHand                             -> "inHand"
      [] j \notin InHand /\ row[j] = "running"    -> "stranded"
      [] j \notin InHand /\ row[j] = "pending"    -> "waiting"
      [] j \notin InHand /\ row[j] = "done"       -> "done"
Abstract == INSTANCE SingleIndexer WITH
                indexer <- IF lock \in Pids THEN lock ELSE Nobody,
                state <- [j \in Projects |-> StateOf(j)]

\* However supervisors come, go, are killed and recycle, they keep the promise
\* of SingleIndexer: the lock is not given back while a job that writes a
\* library.db is under way (_shutdown, "killing them mid-write is exactly what
\* corrupts a DB"), and what a killed one was doing is done again, not lost.
ImplementsSingleIndexer == Abstract!Spec

\* A job in flight keeps its row, across stops, kills, restarts and boots,
\* unless an open that outlived its supervisor reaped it.
LiveJobsKeepRows ==
    \A p \in Pids : \A j \in sup[p].jobs : row[j] = "running" \/ j \in robbed

\* Enrolments that overlap all stay on the list (registry.lock).
NoEnrolmentLost == [][list \subseteq list']_vars

StopStays(p) ==
    Addressable(p) /\ Serving(p) /\ stopFile = p /\ stopFile' # p =>
        \/ sup'[p].pc = "drain"
        \/ actor' # actor
        \/ sup[p].pc = "asking" /\ ~Alive(sup[p].raw)

\* A stop request reaches the supervisor it was made for: none acts on one made
\* before it took the lock, and one made for a supervisor that can be addressed
\* is on disk until it stops, unless a command deletes or replaces it or the
\* supervisor had just read one for a process that is gone.
StopReachesItsTarget ==
    [][\A p \in Pids : (ObeyStop(p) => ~aged) /\ StopStays(p)]_vars

\* Whatever stops, crashes and restarts there were, the work of a project whose
\* hooks go on is done: it is enrolled, and some supervisor comes up, reads
\* the list, opens the project, takes back what a dead one left and runs it.
WorkDone == \A j \in Projects : <>(row[j] = "done")
=============================================================================
