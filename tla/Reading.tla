------------------------------ MODULE Reading -------------------------------
(***************************************************************************)
(* What a reader can get: which files are read (Selection), how one is cut *)
(* (Passages), how a question is answered (Answers).  The three share no   *)
(* state, and in a behaviour one of them moves.                            *)
(***************************************************************************)
EXTENDS Answers

CONSTANTS
    Parts,                   \* the modules that may move
    Idle,                    \* the document of Passages that does not
    TARGET_CHUNK_CHARS, MIN_CHUNK_CHARS, MAX_CHUNK_CHARS, SHORT,  \* of Passages
    Formats, Lines, MaxLines,
    Paths, DEFAULT_EXCLUDE_DIRS, EXCLUDE_SUBPATHS, TRANSIENT,     \* of Selection
    Extensions, suffix, RuleSets, Events

VARIABLES
    part,                           \* the module that moves
    reading,                        \* Passages
    rules, tracked, scanned,        \* Selection
    tree, jobs, happenings          \* disk, queue and budget of Selection

Cut == INSTANCE Passages
Chosen == INSTANCE Selection WITH disk <- tree, queue <- jobs, budget <- happenings

ofSelection == <<rules, tree, tracked, jobs, scanned, happenings>>

\* A module that does not move.
NoDocument == reading = Idle
NoQuestion ==
    /\ disk = [f \in Files |-> Absent] /\ mounted = TRUE /\ index = disk /\ known = {}
    /\ queue = <<>> /\ up = TRUE /\ configured = TRUE /\ reader = NoAnswer
    /\ steady = Files /\ budget = CHOOSE b \in Setups : TRUE
NoTree ==
    /\ rules = CHOOSE r \in RuleSets : TRUE
    /\ tree = {} /\ tracked = {} /\ jobs = {} /\ scanned = FALSE
    /\ happenings = Events

ReadingInit ==
    /\ part \in Parts
    /\ \/ part = "passages" /\ Cut!Init /\ NoQuestion /\ NoTree
       \/ part = "answers" /\ Init /\ NoDocument /\ NoTree
       \/ part = "selection" /\ Chosen!Init /\ NoDocument /\ NoQuestion

ReadingNext ==
    /\ UNCHANGED part
    /\ \/ part = "passages" /\ Cut!Next /\ UNCHANGED <<vars, ofSelection>>
       \/ part = "answers" /\ Next /\ UNCHANGED <<reading, ofSelection>>
       \/ part = "selection" /\ Chosen!Next /\ UNCHANGED <<reading, vars>>

ReadingSpec == ReadingInit /\ [][ReadingNext]_<<part, reading, vars, ofSelection>>
-----------------------------------------------------------------------------
\* The properties of Passages and Selection, stated and explained there, beside
\* those of Answers: what a file holds can be found where it stands.
PassagesHoldTheFile == part = "passages" => Cut!PassagesHoldTheFile
\* What the parsers of Python and of databases say they keep, and do not.
PromisesKept == part = "passages" => Cut!PromisesKept
\* The scan, the hook, the removal and the watcher agree on the files.
IndexFollowsTheRules == part = "selection" => Chosen!IndexFollowsTheRules
=============================================================================
