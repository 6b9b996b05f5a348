------------------------------ MODULE Answers -------------------------------
(***************************************************************************)
(* A question asked of an index that lags behind the disk                  *)
(* (rtfm/core/freshness.py; rtfm_search and rtfm_expand of rtfm/mcp.py;    *)
(* cmd_search of rtfm/cli.py).  The reader never writes to the index: it   *)
(* compares what it found with the disk, queues repairs at top priority    *)
(* and waits for the indexer, within a budget of time that may run out at  *)
(* any poll.  Meanwhile files change, the edit hook and the clock queue    *)
(* work, jobs fail, the volume goes away, the indexer dies.                *)
(*                                                                         *)
(* One reader, one question.  The order of the queue is left open.         *)
(***************************************************************************)
EXTENDS Integers, Sequences, FiniteSets, FiniteSetsExt, SequencesExt, Functions

CONSTANTS
    Files,
    Contents,
    Absent,          \* no such file; not indexed
    Matches,         \* the contents the query matches
    Broken,          \* the contents no parser can read
    NotRead,         \* a job that has not looked at the disk
    Setups           \* how often each event may happen: a bound

EventKinds == {"edit", "hook", "clock", "mount", "crash"}
Kinds == {"scan", "ingest", "remove"}
Statuses == {"pending", "running", "done", "failed"}
Work == {<<"scan", Absent>>} \cup {"ingest", "remove"} \X Files
Scan == <<"scan", Absent>>

\* What the constants are.
AnswersAssumption ==
    /\ IsFiniteSet(Files)
    /\ Matches \cup Broken \subseteq Contents /\ Absent \notin Contents \cup Files
    /\ Setups \subseteq [EventKinds -> Nat]

VARIABLES
    disk,        \* what each file holds
    mounted,     \* whether the source directory can be read
    index,       \* what each file held when it was indexed
    known,       \* ingest_failures: contents that could not be parsed
    queue,       \* work_queue; an id is a place in it
    up,          \* whether an indexer runs
    configured,  \* whether config.json names the sources
    reader,      \* the reader, its question and its answer
    steady,      \* history: files that did not change since the question
    budget

world == <<disk, mounted>>
vars == <<disk, mounted, index, known, queue, up, configured, reader, steady, budget>>

\* What a directory that cannot be read looks like: no file is there.
Seen == [f \in Files |-> IF mounted THEN disk[f] ELSE Absent]
\* What a job reads.
Views == [tree : [Files -> Contents \cup {Absent}], mounted : BOOLEAN] \cup {NotRead}

\* looked, history: the answer waited for a scan begun after the question and
\* for all it found.  misled, history: what was waited for last was running
\* before that, or was dropped for its twin.
NoAnswer == [pc |-> "idle", op |-> "search", visiting |-> FALSE, ids |-> {},
             looked |-> FALSE, repaired |-> {}, misled |-> FALSE,
             entries |-> <<>>, marks |-> {}]
-----------------------------------------------------------------------------
(* The queue. *)

Row(work) == [work |-> work, status |-> "pending", saw |-> NotRead]
Live(q) == {i \in DOMAIN q : q[i].status \in {"pending", "running"}}
Running(q) == {i \in DOMAIN q : q[i].status = "running"}

Queued(q, work) == \E i \in DOMAIN q : q[i].work = work /\ q[i].status = "pending"

enqueue(q, work) == IF Queued(q, work) THEN q ELSE Append(q, Row(work))
enqueue_many(q, works) ==
    LET new == SetToSeq({work \in works : ~Queued(q, work)})
    IN  q \o [n \in DOMAIN new |-> Row(new[n])]

\* The id to wait for: of a job just queued, or of the first row for the
\* same work still in the queue, the one that already runs included.
IdOf(q, work) ==
    IF Queued(q, work) THEN Min({i \in Live(q) : q[i].work = work}) ELSE Len(q) + 1

requeue(q, stale) == enqueue_many(q, {<<"ingest", f>> : f \in stale})
\* The rows appended are in the order of the works: each is found by its work.
RequeueIds(q, stale) ==
    LET after == requeue(q, stale)
    IN  {IF IdOf(q, <<"ingest", f>>) \in DOMAIN q THEN IdOf(q, <<"ingest", f>>)
         ELSE CHOOSE i \in DOMAIN after \ DOMAIN q : after[i].work = <<"ingest", f>> :
             f \in stale}

pending_content_jobs(q) == {i \in Live(q) : q[i].work # Scan}
-----------------------------------------------------------------------------
(* The reader. *)

Found == [f \in {g \in Files : index[g] \in Matches} |-> index[f]]
Answered(r) == [r EXCEPT !.pc = "answered", !.ids = {}]

\* A search, or the expansion of one file.
Ask(op, visiting) ==
    /\ reader.pc = "idle"
    /\ \E shown \in IF op = "search" THEN {Found}
                    ELSE {[g \in {f} |-> index[g]] : f \in {g \in Files : index[g] # Absent}} :
          reader' = [NoAnswer EXCEPT !.pc = IF shown = <<>> THEN "empty" ELSE "verify",
                                     !.op = op, !.visiting = visiting, !.entries = shown]
    /\ steady' = IF mounted THEN Files ELSE {}
    /\ UNCHANGED <<disk, mounted, index, known, queue, up, configured, budget>>

\* _catch_up_before_empty_answer: a visitor, or a reader without indexer,
\* answers at once; otherwise what is queued is waited for, or a scan is.
CatchUp ==
    /\ reader.pc = "empty"
    /\ LET ids == pending_content_jobs(queue) IN
       \/ /\ reader.visiting \/ ~up \/ (ids = {} /\ ~configured)
          /\ reader' = Answered(reader)
          /\ UNCHANGED queue
       \/ /\ ~reader.visiting /\ up /\ ids # {}
          /\ reader' = [reader EXCEPT !.pc = "draining", !.ids = ids]
          /\ UNCHANGED queue
       \/ /\ ~reader.visiting /\ up /\ ids = {} /\ configured
          /\ LET id == IdOf(queue, Scan)
             IN  reader' = [reader EXCEPT !.pc = "scanning", !.ids = {id},
                                          !.misled = id \in Running(queue)]
          /\ queue' = enqueue(queue, Scan)
    /\ UNCHANGED <<disk, mounted, index, known, up, configured, steady, budget>>

Mutant_WaitOver == \A i \in reader.ids : queue[i].status # "pending"   \* running is enough
\* wait_for: no awaited row is pending or running any more.
WaitOver == reader.ids \cap Live(queue) = {}
\* The query is run again: nothing once more, or sources to verify.
Requeried(r) ==
    IF Found = <<>> THEN Answered([r EXCEPT !.entries = <<>>])
    ELSE [r EXCEPT !.pc = "verify", !.ids = {}, !.entries = Found]

Drained ==
    /\ reader.pc = "draining" /\ WaitOver
    /\ reader' = Requeried(reader)
    /\ UNCHANGED <<disk, mounted, index, known, queue, up, configured, steady, budget>>

GiveUp ==
    /\ reader.pc \in {"draining", "scanning"} /\ ~WaitOver
    /\ reader' = Answered(reader)
    /\ UNCHANGED <<disk, mounted, index, known, queue, up, configured, steady, budget>>

Scanned ==
    /\ reader.pc = "scanning" /\ WaitOver
    /\ LET found == pending_content_jobs(queue)
       IN  reader' = IF found = {} THEN Requeried([reader EXCEPT !.looked = ~reader.misled])
                     ELSE [reader EXCEPT !.pc = "settling", !.ids = found]
    /\ UNCHANGED <<disk, mounted, index, known, queue, up, configured, steady, budget>>

\* Out of time or not, the query is run again.
Settled ==
    /\ reader.pc = "settling"
    /\ reader' = Requeried([reader EXCEPT !.looked = WaitOver /\ ~reader.misled])
    /\ UNCHANGED <<disk, mounted, index, known, queue, up, configured, steady, budget>>

Verdict(f) ==
    CASE Seen[f] = Absent /\ index[f] # Absent          -> "gone"
      [] Seen[f] # Absent /\ index[f] = Absent          -> "new"
      [] Seen[f] # Absent /\ index[f] \notin {Absent, Seen[f]} -> "stale"
      [] OTHER                                          -> "fresh"
deleted_source_is_certain == mounted

\* _verify_freshness, _expand_freshness, _repair_stale_sources
Verify ==
    /\ reader.pc = "verify"
    /\ LET shown == DOMAIN reader.entries
           marked == {f \in shown : Verdict(f) # "fresh"}
           stale == {f \in marked : Verdict(f) = "stale"}
           withheld == {f \in marked : /\ Verdict(f) = "gone" /\ deleted_source_is_certain
                                       /\ reader.op = "search"}
           asked == enqueue_many(queue, {<<"remove", f>> : f \in withheld})
           kept == [reader EXCEPT !.entries = Restrict(reader.entries, shown \ withheld),
                                  !.marks = marked \ withheld]
       IN  IF reader.visiting
           THEN /\ reader' = Answered([reader EXCEPT !.marks = marked])
                /\ UNCHANGED queue
           ELSE /\ queue' = requeue(asked, stale)
                /\ reader' =
                     IF stale = {} \/ ~up THEN Answered(kept)
                     ELSE [kept EXCEPT
                             !.pc = "repairing", !.ids = RequeueIds(asked, stale),
                             !.repaired = stale,
                             !.misled = \E i \in Running(asked) :
                                            asked[i].work \in {"ingest"} \X stale]
    /\ UNCHANGED <<disk, mounted, index, known, up, configured, steady, budget>>

\* Every awaited job has left the queue, done or failed: the query is run
\* again, or the sections read again, and nothing is marked.
Repaired ==
    /\ reader.pc = "repairing" /\ WaitOver
    /\ LET shown == IF reader.op = "search" THEN Found
                    ELSE [f \in {g \in DOMAIN reader.entries : index[g] # Absent} |-> index[f]]
       IN  reader' = Answered([reader EXCEPT !.entries = shown, !.marks = {}])
    /\ UNCHANGED <<disk, mounted, index, known, queue, up, configured, steady, budget>>

RepairLate ==
    /\ reader.pc = "repairing" /\ ~WaitOver
    /\ reader' = Answered([reader EXCEPT !.repaired = {}])
    /\ UNCHANGED <<disk, mounted, index, known, queue, up, configured, steady, budget>>
-----------------------------------------------------------------------------
(* The indexer.  A job looks at the disk when it is claimed and writes when *)
(* it ends; a scan runs alone.                                              *)

Claim(i) ==
    /\ up /\ queue[i].status = "pending"
    /\ IF queue[i].work = Scan THEN Running(queue) = {}
       ELSE \A j \in Running(queue) : queue[j].work # Scan
    /\ queue' = [queue EXCEPT ![i].status = "running",
                              ![i].saw = [tree |-> Seen, mounted |-> mounted]]
    /\ UNCHANGED <<disk, mounted, index, known, up, configured, reader, steady, budget>>

Closed(q, i, status) == [q EXCEPT ![i].status = status, ![i].saw = NotRead]
Ends(i, kind) == up /\ queue[i].status = "running" /\ queue[i].work[1] = kind

handle_scan(i) ==
    /\ Ends(i, "scan")
    /\ LET saw == queue[i].saw
           changed == {f \in Files : /\ saw.tree[f] \notin {Absent, index[f]}
                                     /\ <<f, saw.tree[f]>> \notin known}
           missing == {f \in Files : /\ index[f] # Absent /\ saw.tree[f] = Absent
                                     /\ mounted /\ disk[f] = Absent}
           found == {<<"remove", f>> : f \in missing} \cup {<<"ingest", f>> : f \in changed}
       IN  queue' = enqueue_many(Closed(queue, i, "done"),
                                 IF saw.mounted THEN found ELSE {})
    /\ UNCHANGED <<disk, mounted, index, known, up, configured, reader, steady, budget>>

handle_ingest(i) ==
    /\ Ends(i, "ingest")
    /\ LET f == queue[i].work[2]
           text == queue[i].saw.tree[f]
       IN  \/ /\ text \notin Broken \cup {Absent}
              /\ index' = [index EXCEPT ![f] = text]
              /\ known' = {k \in known : k[1] # f}
              /\ queue' = Closed(queue, i, "done")
           \/ /\ text = Absent /\ mounted       \* vanished before we read it
              /\ index' = [index EXCEPT ![f] = Absent]
              /\ queue' = Closed(queue, i, "done")
              /\ UNCHANGED known
           \/ /\ text = Absent /\ ~mounted
              /\ queue' = Closed(queue, i, "failed")
              /\ UNCHANGED <<index, known>>
           \/ /\ text \in Broken /\ text = Seen[f]
              /\ known' = known \cup {<<f, text>>}
              /\ queue' = Closed(queue, i, "failed")
              /\ UNCHANGED index
           \/ /\ text \in Broken /\ Seen[f] \notin {Absent, text}  \* still being written
              /\ queue' = enqueue(Closed(queue, i, "done"), queue[i].work)
              /\ UNCHANGED <<index, known>>
           \/ /\ text \in Broken /\ Seen[f] = Absent
              /\ known' = known \cup {<<f, text>>}
              /\ queue' = Closed(queue, i, "failed")
              /\ UNCHANGED index
    /\ UNCHANGED <<disk, mounted, up, configured, reader, steady, budget>>

handle_remove(i) ==
    /\ Ends(i, "remove")
    /\ LET f == queue[i].work[2]
       IN  index' = IF Seen[f] # Absent THEN index ELSE [index EXCEPT ![f] = Absent]
    /\ queue' = Closed(queue, i, "done")
    /\ UNCHANGED <<disk, mounted, known, up, configured, reader, steady, budget>>
-----------------------------------------------------------------------------
(* The rest of the world. *)

Happens(e) == budget[e] > 0 /\ budget' = [budget EXCEPT ![e] = @ - 1]

Edit(f, c) ==
    /\ Happens("edit") /\ mounted /\ disk[f] # c
    /\ disk' = [disk EXCEPT ![f] = c]
    /\ steady' = steady \ {f}
    /\ UNCHANGED <<mounted, index, known, queue, up, configured, reader>>

\* The edit hook queues the file; a watch, the clock or a hook queues a scan.
Hook(f) ==
    /\ Happens("hook")
    /\ queue' = enqueue(queue, <<"ingest", f>>)
    /\ UNCHANGED <<disk, mounted, index, known, up, configured, reader, steady>>

Clock ==
    /\ Happens("clock")
    /\ queue' = enqueue(queue, Scan)
    /\ UNCHANGED <<disk, mounted, index, known, up, configured, reader, steady>>

Mount ==
    /\ Happens("mount")
    /\ mounted' = ~mounted /\ steady' = {}
    /\ UNCHANGED <<disk, index, known, queue, up, configured, reader>>

\* The indexer dies; another one takes its rows back when it starts.
Crash ==
    /\ Happens("crash") /\ up
    /\ up' = FALSE
    /\ UNCHANGED <<disk, mounted, index, known, queue, configured, reader, steady>>

\* A row that has a pending twin is deleted.
Start ==
    /\ ~up
    /\ up' = TRUE
    /\ queue' = [i \in DOMAIN queue |->
                   IF i \notin Running(queue) THEN queue[i]
                   ELSE IF \E j \in DOMAIN queue : /\ queue[j].work = queue[i].work
                                                   /\ \/ queue[j].status = "pending"
                                                      \/ j \in Running(queue) /\ j < i
                        THEN [queue[i] EXCEPT !.status = "done", !.saw = NotRead]
                        ELSE Row(queue[i].work)]
    /\ reader' = [reader EXCEPT !.misled = @ \/ \E i \in reader.ids \cap Running(queue) :
                                                   queue'[i].status = "done"]
    /\ UNCHANGED <<disk, mounted, index, known, configured, steady, budget>>
-----------------------------------------------------------------------------
Init ==
    /\ disk \in [Files -> (Contents \ Broken) \cup {Absent}]
    /\ mounted = TRUE
    /\ index = disk
    /\ known = {}
    /\ queue = <<>>
    /\ up \in BOOLEAN
    /\ configured \in BOOLEAN
    /\ reader = NoAnswer
    /\ steady = Files
    /\ budget \in Setups

Next ==
    \/ \E op \in {"search", "expand"}, visiting \in BOOLEAN : Ask(op, visiting)
    \/ CatchUp \/ Drained \/ GiveUp \/ Scanned \/ Settled
    \/ Verify \/ Repaired \/ RepairLate
    \/ \E i \in DOMAIN queue : Claim(i) \/ handle_scan(i) \/ handle_ingest(i) \/ handle_remove(i)
    \/ \E f \in Files, c \in Contents \cup {Absent} : Edit(f, c)
    \/ \E f \in Files : Hook(f)
    \/ Clock \/ Mount \/ Crash \/ Start

Spec == Init /\ [][Next]_vars
-----------------------------------------------------------------------------
(* Properties. *)

Unreadable(f) == <<f, disk[f]>> \in known

\* Nothing is said to match only if nothing does: a file that has held since
\* the question a text the query matches, and that can be parsed, is not missed
\* by an answer that waited for a scan and for all it found.
EmptyAnswerEarned ==
    reader.looked /\ reader.entries = <<>> =>
        \A f \in steady : disk[f] \in Matches => Unreadable(f)

\* What was repaired and can be parsed is served as it is on disk.
RepairedIsCurrent ==
    \A f \in reader.repaired \cap steady \cap DOMAIN reader.entries :
        reader.entries[f] = disk[f] \/ Unreadable(f)

\* An answer keeps what rtfm_search and rtfm_expand waited for: whatever the
\* jobs, the hooks and the volume did meanwhile, it misses no match and serves
\* nothing old unmarked.  Known to fail, and left out: the scan, or the repair,
\* that was waited for ran before the question, or was dropped for its twin at
\* a restart.
AnswersEarned ==
    reader.pc = "answered" =>
        EmptyAnswerEarned /\ (~reader.misled => RepairedIsCurrent)

\* "out of date is either fixed on the spot or said out loud, never passed off
\* as current" (rtfm/cli.py): a file that was found out of date and has not
\* changed since is served as it is on disk, or marked.
NeverPassedOffAsCurrent ==
    reader.pc = "answered" =>
        \A f \in reader.repaired \cap steady \cap DOMAIN reader.entries :
            f \in reader.marks \/ reader.entries[f] = disk[f]
=============================================================================
