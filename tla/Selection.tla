----------------------------- MODULE Selection ------------------------------
(***************************************************************************)
(* Which files of a source belong in its index.  The scan decides it while *)
(* it walks, never entering an excluded directory; the edit hook decides   *)
(* for one path, by part of the rules; the removal decides again when it   *)
(* runs, for one path; the watcher decides which changes matter            *)
(* (rtfm/core/sync.py, rtfm/core/handlers.py, rtfm/core/watch.py,          *)
(* rtfm/plugin/hook_runtime.py).  The rules change while jobs wait in the  *)
(* queue.                                                                  *)
(*                                                                         *)
(* A path is the sequence of its names.  A pattern is a name, which leaves *)
(* out, or takes back, what has it as a component.                         *)
(***************************************************************************)
EXTENDS Integers, Sequences, SequencesExt, FiniteSets

CONSTANTS
    Paths,                   \* the paths files may have
    DEFAULT_EXCLUDE_DIRS,    \* names no scan enters
    EXCLUDE_SUBPATHS,        \* sequences of names no scan enters
    TRANSIENT,               \* names that end in a transient suffix
    Extensions,              \* the types of files
    suffix,                  \* name -> its type
    RuleSets,                \* the rules a source may have: a bound
    Events                   \* how often each thing happens: a bound

Names == UNION {{f[i] : i \in DOMAIN f} : f \in Paths}
\* A line of an ignore file.
IgnoreLines == [name : Names, leaveOut : BOOLEAN]

\* What the constants are.
SelectionAssumption ==
    /\ Paths \subseteq Seq(Names) \ {<<>>}
    /\ \A sub \in EXCLUDE_SUBPATHS : Len(sub) \in Nat \ {0}
    /\ suffix \in [{Last(f) : f \in Paths} -> Extensions]
    /\ \A r \in RuleSets : /\ r.rtfm \in Seq(IgnoreLines)
                           /\ \A dir \in DOMAIN r.git : r.git[dir] \in Seq(IgnoreLines)
    /\ Events \in [{"edit", "disk", "rules"} -> Nat]

VARIABLES
    rules,       \* the ignore files, and the source's entry in config.json
    disk,        \* the files on disk
    tracked,     \* indexed_files
    queue,       \* ingest and remove rows
    scanned,     \* history: nothing happened since the last scan
    budget

vars == <<rules, disk, tracked, queue, scanned, budget>>

-----------------------------------------------------------------------------
(* Paths. *)

Dirs(f) == {SubSeq(f, 1, n) : n \in 1 .. Len(f) - 1}
Components(rel) == {rel[i] : i \in DOMAIN rel}

under_excluded_subpath(rel) ==
    \E sub \in EXCLUDE_SUBPATHS, i \in 0 .. Len(rel) :
        /\ i + Len(sub) <= Len(rel)
        /\ SubSeq(rel, i + 1, i + Len(sub)) = sub

is_excluded_by_rule(rel) ==
    \/ Components(rel) \cap DEFAULT_EXCLUDE_DIRS # {}
    \/ under_excluded_subpath(rel)
    \/ Last(rel) \in TRANSIENT
-----------------------------------------------------------------------------
(* Ignore files.  The last line that matches a path has the verdict on it;  *)
(* .rtfmignore is read at the root, .gitignore in every directory.          *)

Matching(lines, rel) == {i \in DOMAIN lines : lines[i].name \in Components(rel)}
Has(lines, rel) == Matching(lines, rel) # {}
Verdict(lines, rel) ==
    lines[CHOOSE i \in Matching(lines, rel) :
              \A j \in Matching(lines, rel) : j <= i].leaveOut

\* The verdict of the deepest .gitignore that has one.
Below(rel, depth) == SubSeq(rel, depth + 1, Len(rel))
Gitignore(rel, depth) ==
    LET dir == SubSeq(rel, 1, depth)
    IN  IF dir \in DOMAIN rules.git THEN rules.git[dir] ELSE <<>>
decide(rel) ==
    LET speaking == {depth \in 0 .. Len(rel) - 1 :
                        Has(Gitignore(rel, depth), Below(rel, depth))}
    IN  \E depth \in speaking :
            /\ \A other \in speaking : other <= depth
            /\ Verdict(Gitignore(rel, depth), Below(rel, depth))

LeftByRtfm(rel) == Has(rules.rtfm, rel) /\ Verdict(rules.rtfm, rel)

\* IgnoreRules.ignored that does not look at the directories above.
Mutant_ignored(rel) ==
    \/ LeftByRtfm(rel)
    \/ rules.honor_gitignore /\ decide(rel)

\* IgnoreRules.ignored
ignored(rel) ==
    \/ LeftByRtfm(rel)
    \/ rules.honor_gitignore /\ \E n \in 1 .. Len(rel) : decide(SubSeq(rel, 1, n))
-----------------------------------------------------------------------------
(* The source's own patterns: a type, or a name of the path. *)

matches_pattern(rel, pattern) ==
    \/ pattern \in Extensions /\ suffix[Last(rel)] = pattern
    \/ pattern \in Components(rel)
\* _source_admits, and the type gate and exclusions of scan_directory.
Admits(rel) ==
    /\ \A p \in rules.exclude : ~matches_pattern(rel, p)
    /\ \/ rules.extensions = {} /\ rules.include = {}
       \/ suffix[Last(rel)] \in rules.extensions
       \/ \E p \in rules.include : matches_pattern(rel, p)

\* _walk: the directories entered.
Entered(dir) ==
    /\ Last(dir) \notin DEFAULT_EXCLUDE_DIRS
    /\ ~under_excluded_subpath(dir)
    /\ ~ignored(dir)
scan_directory ==
    {f \in disk :
        /\ \A dir \in Dirs(f) : Entered(dir)
        /\ Last(f) \notin DEFAULT_EXCLUDE_DIRS \cup TRANSIENT
        /\ Admits(f) /\ ~ignored(f)}

\* _Source.ignores of the watcher, which descends as the scan does.
ignores(rel, isDir) ==
    \/ Components(rel) \cap DEFAULT_EXCLUDE_DIRS # {}
    \/ under_excluded_subpath(rel)
    \/ ~isDir /\ Last(rel) \in TRANSIENT
    \/ ignored(rel)
Heard(f) == ~ignores(f, FALSE) /\ \A dir \in Dirs(f) : ~ignores(dir, TRUE)

\* compute_diff, quick_diff
Added == scan_directory \ tracked
Removed == tracked \ scan_directory
-----------------------------------------------------------------------------
(* Operations. *)

Ingest(f) == [type |-> "ingest", file |-> f, ignored_under |-> FALSE]
Drop(f) == [type |-> "remove", file |-> f, ignored_under |-> ignored(f)]

\* confirm_removals: absent, or left out by a rule.
Confirmed == {f \in Removed : is_excluded_by_rule(f) \/ ignored(f) \/ f \notin disk}
handle_scan ==
    /\ queue' = queue \cup {Drop(f) : f \in Confirmed} \cup {Ingest(f) : f \in Added}
    /\ scanned' = (queue = {})
    /\ UNCHANGED <<rules, disk, tracked, budget>>

handle_ingest(f) ==
    /\ Ingest(f) \in queue /\ queue' = queue \ {Ingest(f)}
    /\ tracked' = IF f \in disk THEN tracked \cup {f} ELSE tracked \ {f}
    /\ UNCHANGED <<rules, disk, scanned, budget>>

handle_remove(row) ==
    /\ row.type = "remove" /\ queue' = queue \ {row}
    /\ LET byRule == is_excluded_by_rule(row.file)
           byIgnore == row.ignored_under /\ ignored(row.file)
       IN  tracked' = IF byRule \/ byIgnore \/ row.file \notin disk
                      THEN tracked \ {row.file} ELSE tracked
    /\ UNCHANGED <<rules, disk, scanned, budget>>

Happens(e) ==
    /\ budget[e] > 0 /\ budget' = [budget EXCEPT ![e] = @ - 1]
    /\ scanned' = FALSE

\* on_file_edited: the source's own patterns, and nothing else.
on_file_edited(f) ==
    /\ Happens("edit")
    /\ disk' = disk \cup {f}
    /\ queue' = IF Admits(f) THEN queue \cup {Ingest(f)} ELSE queue
    /\ UNCHANGED <<rules, tracked>>

ChangeDisk(f) ==
    /\ Happens("disk")
    /\ disk' = IF f \in disk THEN disk \ {f} ELSE disk \cup {f}
    /\ UNCHANGED <<rules, tracked, queue>>

ChangeRules(r) ==
    /\ Happens("rules") /\ r # rules
    /\ rules' = r
    /\ UNCHANGED <<disk, tracked, queue>>
-----------------------------------------------------------------------------
Init ==
    /\ rules \in RuleSets
    /\ disk = Paths
    /\ tracked = {}
    /\ queue = {}
    /\ scanned = FALSE
    /\ budget = Events

Next ==
    \/ handle_scan
    \/ \E f \in Paths : handle_ingest(f) \/ on_file_edited(f) \/ ChangeDisk(f)
    \/ \E row \in queue : handle_remove(row)
    \/ \E r \in RuleSets : ChangeRules(r)

Spec == Init /\ [][Next]_vars
-----------------------------------------------------------------------------
(* Properties. *)

\* Known to stay in the index: a file the source's own patterns leave out, and
\* one a line of .rtfmignore takes back inside a directory another leaves out.
\* They are on disk, no rule of the removal names them, no scan lists them.
Stuck(f) ==
    /\ f \in disk /\ ~is_excluded_by_rule(f) /\ ~ignored(f)
    /\ ~Admits(f) \/ \E dir \in Dirs(f) : LeftByRtfm(dir)

\* Once a scan is done and its jobs have run, the index holds what the rules
\* say and nothing else, whatever the edit hook queued and the rules were
\* before; and no change to a file the scan lists is deaf to the watcher.  The
\* walk, the per-path checks and the removal's last look, each with its own
\* version of the rules, could each leave a file in for ever, or out.  (A file
\* that is called as an excluded directory is listed and never heard of.)
IndexFollowsTheRules ==
    /\ scanned /\ queue = {} =>
          scan_directory \subseteq tracked /\ \A f \in Removed : Stuck(f)
    /\ \A f \in scan_directory : under_excluded_subpath(f) \/ Heard(f)
=============================================================================
