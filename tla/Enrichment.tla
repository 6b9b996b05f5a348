---------------------------- MODULE Enrichment ----------------------------
(***************************************************************************)
(* What is added to a book after its file was parsed: the pages of a       *)
(* scanned PDF, read by OCR one range at a time, and an embedding per      *)
(* passage.  Both are jobs of the queue that name what they work on by     *)
(* page numbers and passage ids, while the file may be written over, the   *)
(* book indexed again, and an operator may rebuild every embedding         *)
(* (handle_ingest, handle_ocr, handle_embed of rtfm/core/handlers.py,      *)
(* rtfm/core/library.py, rtfm/core/reconcile.py, rtfm/parsers/pdf.py).     *)
(*                                                                         *)
(* One PDF file, and one passage per page.  A job is claimed and makes its *)
(* first read in one step; the table of files and the book are written in  *)
(* one step, what lies between them being the subject of Index.            *)
(***************************************************************************)
EXTENDS Integers, FiniteSets, FiniteSetsExt

CONSTANTS
    Contents,        \* what the file may hold
    PageCount,       \* content -> its number of pages
    TextPages,       \* content -> the pages that have a text layer
    Sparse,          \* contents below SCAN_CHARS_PER_PAGE
    Models,          \* embedding models
    DEFAULT_MODEL,
    Ids,             \* passage ids
    Lanes,
    Backend,         \* ocr_backend of config.json
    PAGES_PER_OCR_JOB,
    OCR_MAX_CONCURRENT,
    EMBED_BATCH_SIZE,
    None,
    Setups           \* what may be written to the file, and how often each
                     \* event may happen: bounds

Pages == Nat \ {0}
Events == {"write", "hook", "crash", "timeout", "force"}

ASSUME EnrichmentAssumption ==
    /\ PageCount \in [Contents -> Nat \ {0}]
    /\ TextPages \in [Contents -> SUBSET Pages]
    /\ \A c \in Contents : TextPages[c] \subseteq 1 .. PageCount[c]
    /\ {c \in Contents : TextPages[c] = {}} \subseteq Sparse /\ Sparse \subseteq Contents
    /\ DEFAULT_MODEL \in Models /\ Ids \subseteq Nat /\ IsFiniteSet(Ids)
    /\ Backend \in {"tesseract", "marker"}
    /\ {PAGES_PER_OCR_JOB, OCR_MAX_CONCURRENT, EMBED_BATCH_SIZE} \subseteq Nat \ {0}
    /\ None \notin Contents
    /\ Setups \subseteq [contents : SUBSET (Contents \cup {None}), budget : [Events -> Nat]]

VARIABLES
    file,        \* the content on disk
    tracked,     \* the hash in indexed_files
    passages,    \* table chunks: id -> passage
    vectors,     \* table chunk_embeddings: chunk id -> model and what was embedded
    queue,       \* pending rows of work_queue; page_end NULL is 0
    failed,      \* OCR rows that failed
    running,     \* lane -> the job in it, what it has read
    ocrOn,       \* ocr_fallback of config.json
    rebuild,     \* rtfm embed --force, while it runs
    lapses,      \* history: what the book misses, until it is indexed whole
    writable,    \* what may be written to the file
    budget

vars == <<writable, file, tracked, passages, vectors, queue, failed, running, ocrOn,
          rebuild, lapses, budget>>

Passage == [page : Pages, of : Contents, by : {"text", "ocr"}]
Vector == [model : Models, of : Passage]
OcrJob == {"ocr"} \X Pages \X Nat
EmbedJob == {"embed"} \X ((SUBSET Ids) \ {{}})
Job == {<<"ingest">>, <<"remove">>} \cup OcrJob \cup EmbedJob
Lapse == {"off", "late", "remnant", "recreated"}
Idle == [pc |-> "idle"]
Running ==
    {Idle}
    \cup [pc : {"index"}, job : {<<"ingest">>}, of : Contents]
    \cup [pc : {"follow"}, job : {<<"ingest">>} \cup OcrJob, of : Contents, last : Nat]
    \cup [pc : {"append"}, job : OcrJob, of : Contents, last : Nat]
    \cup [pc : {"write"}, job : EmbedJob, model : Models, todo : SUBSET (Ids \X Passage)]
Rebuild == {None} \cup [model : Models, left : SUBSET (Ids \X Passage)]

TypeOK ==
    /\ {file, tracked} \subseteq Contents \cup {None}
    /\ passages \in [Ids -> Passage \cup {None}]
    /\ vectors \in [Ids -> Vector \cup {None}]
    /\ queue \subseteq Job /\ failed \subseteq OcrJob
    /\ running \in [Lanes -> Running]
    /\ ocrOn \in BOOLEAN
    /\ rebuild \in Rebuild
    /\ lapses \subseteq Lapse
    /\ writable \subseteq Contents \cup {None}
    /\ budget \in [Events -> Nat]

Init ==
    /\ file = None /\ tracked = None
    /\ passages = [i \in Ids |-> None] /\ vectors = [i \in Ids |-> None]
    /\ queue = {} /\ failed = {} /\ running = [l \in Lanes |-> Idle]
    /\ ocrOn \in BOOLEAN /\ rebuild = None /\ lapses = {}
    /\ \E s \in Setups : writable = s.contents /\ budget = s.budget

Spend(event) == budget[event] > 0 /\ budget' = [budget EXCEPT ![event] = @ - 1]

-----------------------------------------------------------------------------
(* The tables. *)

Live == {i \in Ids : passages[i] # None}

\* The first ids of a set, as many as asked for, and a set cut into batches
\* in the order of the ids.
Before(i, S) == Cardinality({j \in S : j < i})
Lowest(n, S) == {i \in S : Before(i, S) < n}
BatchOf(i, S) == Before(i, S) \div EMBED_BATCH_SIZE
Batches(S) == {{j \in S : BatchOf(j, S) = BatchOf(i, S)} : i \in S}

\* AUTOINCREMENT never gives an id twice.  An id nothing refers to any more
\* may stand for one that was never given.
Referenced ==
    Live \cup (UNION {job[2] : job \in {q \in queue : q[1] = "embed"}})
    \cup (UNION {running[l].job[2] : l \in
                    {k \in Lanes : running[k] # Idle /\ running[k].job[1] = "embed"}})
    \cup (IF rebuild = None THEN {} ELSE {x[1] : x \in rebuild.left})
Mutant_Unused(kept) == Ids \ kept       \* INTEGER PRIMARY KEY without AUTOINCREMENT
Unused(kept) == Ids \ Referenced

\* The rows of the kept ids and of pages newly read from a content: each page
\* takes the next id.
Stored(kept, pages, of, by) ==
    LET new == Lowest(Cardinality(pages), Unused(kept))
        PageOf(i) == CHOOSE p \in pages : Before(p, pages) = Before(i, new)
    IN  [i \in Ids |-> IF i \in kept THEN passages[i]
                      ELSE IF i \in new THEN [page |-> PageOf(i), of |-> of, by |-> by]
                      ELSE None]

\* ON DELETE CASCADE.
Cascade(kept) == [i \in Ids |-> IF i \in kept THEN vectors[i] ELSE None]

\* The model most embeddings are of; a tie is broken the same way each time.
Used == {vectors[i].model : i \in {j \in Ids : vectors[j] # None}}
Uses(m) == Cardinality({i \in Ids : vectors[i] # None /\ vectors[i].model = m})
ActiveModel ==
    IF Used = {} THEN DEFAULT_MODEL
    ELSE CHOOSE m \in Used : \A n \in Used : Uses(m) >= Uses(n)

Mutant_Without(ids, model) == {i \in ids \cap Live : vectors[i] = None}
Without(ids, model) ==
    {i \in ids \cap Live : vectors[i] = None \/ vectors[i].model # model}

Mutant_EmbedJobs(ids) == {<<"embed", ids>>}
EmbedJobs(ids) == {<<"embed", b>> : b \in Batches(ids)}
-----------------------------------------------------------------------------
(* The user, the reader's hook and the operator. *)

Write(c) ==
    /\ file # c /\ Spend("write") /\ file' = c
    /\ UNCHANGED <<writable, tracked, passages, vectors, queue, failed, running,
                   ocrOn, rebuild, lapses>>

\* A hook or a reader asks for the file at once, beside whatever runs.
Hook ==
    /\ file \notin {None, tracked} /\ <<"ingest">> \notin queue
    /\ Spend("hook")
    /\ queue' = queue \cup {<<"ingest">>}
    /\ UNCHANGED <<writable, file, tracked, passages, vectors, failed, running, ocrOn,
                   rebuild, lapses>>

\* rtfm sync --ocr: the switch is persisted.  The known scans it would queue
\* are listed in seen_scans.json, which nothing writes.
SwitchOcrOn ==
    /\ ~ocrOn /\ ocrOn' = TRUE
    /\ UNCHANGED <<writable, file, tracked, passages, vectors, queue, failed, running,
                   rebuild, lapses, budget>>

\* rtfm embed --force --embed-model m.  A change of model deletes every
\* embedding, in one transaction with the first batch.
Rebuilt(model, batch, old) ==
    [i \in Ids |-> IF \E x \in batch : x[1] = i
                   THEN [model |-> model, of |-> (CHOOSE x \in batch : x[1] = i)[2]]
                   ELSE old[i]]
NextBatch(todo) == {x \in todo : \A y \in todo : x[1] <= y[1]}
ForceStart(m) ==
    LET todo == {<<i, passages[i]>> : i \in Live}
        wipe == Used # {} /\ ActiveModel # m
    IN  /\ rebuild = None /\ todo # {} /\ Spend("force")
        /\ IF wipe
           THEN /\ vectors' = Rebuilt(m, NextBatch(todo), [i \in Ids |-> None])
                /\ rebuild' = [model |-> m, left |-> todo \ NextBatch(todo)]
           ELSE /\ rebuild' = [model |-> m, left |-> todo]
                /\ UNCHANGED vectors
        /\ UNCHANGED <<writable, file, tracked, passages, queue, failed, running, ocrOn, lapses>>

\* The foreign key refuses an embedding of a passage that is gone, and the
\* command ends there.
ForceBatch ==
    /\ rebuild # None /\ rebuild.left # {}
    /\ LET batch == NextBatch(rebuild.left)
       IN  IF {x[1] : x \in batch} \subseteq Live
           THEN /\ vectors' = Rebuilt(rebuild.model, batch, vectors)
                /\ rebuild' = [rebuild EXCEPT !.left = @ \ batch]
           ELSE rebuild' = None /\ UNCHANGED vectors
    /\ UNCHANGED <<writable, file, tracked, passages, queue, failed, running, ocrOn,
                   lapses, budget>>
ForceEnd ==
    /\ rebuild # None /\ rebuild.left = {} /\ rebuild' = None
    /\ UNCHANGED <<writable, file, tracked, passages, vectors, queue, failed, running,
                   ocrOn, lapses, budget>>
-----------------------------------------------------------------------------
(* The jobs that run alone: the scan and the reconcile of the project. *)

Resting == \A l \in Lanes : running[l] = Idle

Scan ==
    /\ Resting /\ file # tracked
    /\ queue' = queue \cup {IF file = None THEN <<"remove">> ELSE <<"ingest">>}
    /\ UNCHANGED <<writable, file, tracked, passages, vectors, failed, running, ocrOn,
                   rebuild, lapses, budget>>

\* Whatever has no embedding of the active model is queued again.  A reconcile
\* goes after the documents and before the rest.
Reconcile ==
    /\ Resting /\ queue \cap {<<"ingest">>, <<"remove">>} = {}
    /\ queue' = queue \cup EmbedJobs(Without(Ids, ActiveModel))
    /\ UNCHANGED <<writable, file, tracked, passages, vectors, failed, running, ocrOn,
                   rebuild, lapses, budget>>
-----------------------------------------------------------------------------
(* Document jobs, several at a time. *)

\* The head of the queue: documents, then embeddings, then OCR, of which the
\* machine runs one.
Rank(job) == CASE job[1] \in {"ingest", "remove"} -> 10
               [] job[1] = "embed" -> 50
               [] job[1] = "ocr" -> 60
OcrRunning == {k \in Lanes : running[k] # Idle /\ running[k].job[1] = "ocr"}
Claim(l, job) ==
    /\ running[l] = Idle /\ job \in queue
    /\ \A other \in queue : Rank(job) <= Rank(other)
    /\ job[1] = "ocr" => Cardinality(OcrRunning) < OCR_MAX_CONCURRENT
Ends(l) == running' = [running EXCEPT ![l] = Idle]

\* remove_file: the book, its passages, their embeddings and the row.
Forgotten ==
    /\ tracked' = None /\ lapses' = {}
    /\ passages' = [i \in Ids |-> None] /\ vectors' = [i \in Ids |-> None]

Remove(l) ==
    /\ Claim(l, <<"remove">>) /\ queue' = queue \ {<<"remove">>}
    /\ IF file # None THEN UNCHANGED <<tracked, lapses, passages, vectors>> ELSE Forgotten
    /\ UNCHANGED <<writable, file, failed, running, ocrOn, rebuild, budget>>

\* A file that vanished since it was offered takes its row with it.
IngestRead(l) ==
    /\ Claim(l, <<"ingest">>) /\ queue' = queue \ {<<"ingest">>}
    /\ IF file = None
       THEN Forgotten /\ UNCHANGED running
       ELSE /\ running' = [running EXCEPT ![l] =
                              [pc |-> "index", job |-> <<"ingest">>, of |-> file]]
            /\ UNCHANGED <<tracked, lapses, passages, vectors>>
    /\ UNCHANGED <<writable, file, failed, ocrOn, rebuild, budget>>

\* The book is replaced when the parser found text, and left as it is when
\* not; the file is tracked in both cases.
IngestIndex(l) ==
    LET c == running[l].of
    IN  /\ running[l].pc = "index"
        /\ tracked' = c
        /\ IF TextPages[c] # {}
           THEN /\ passages' = Stored({}, TextPages[c], c, "text")
                /\ vectors' = Cascade({})
                /\ lapses' = {}
           ELSE /\ UNCHANGED <<passages, vectors>>
                /\ lapses' = (lapses \ {"off"}) \cup
                      (IF \E i \in Live : passages[i].of # c THEN {"remnant"} ELSE {})
        /\ running' = [running EXCEPT ![l] =
                          [pc |-> "follow", job |-> @.job, of |-> c, last |-> 0]]
        /\ UNCHANGED <<writable, file, queue, failed, ocrOn, rebuild, budget>>

\* _pdf_is_scan, and the page count the parser reports: the last page that
\* has text, or nothing when none has.
IsScan(c) == c \in Sparse
ParsedCount(c) == IF TextPages[c] = {} THEN 0 ELSE Max(TextPages[c])

\* enqueue_ocr_jobs: ranges that cover the pages from 1 to the last.
Tranches(n) ==
    {<<"ocr", s, Min({s + PAGES_PER_OCR_JOB - 1, n})>> :
        s \in {p \in 1 .. n : (p - 1) % PAGES_PER_OCR_JOB = 0}}

IngestFollow(l) ==
    LET c == running[l].of
    IN  /\ running[l].pc = "follow" /\ running[l].job[1] = "ingest"
        /\ IF IsScan(c) /\ ocrOn
           THEN /\ queue' = queue \cup
                      IF ParsedCount(c) = 0 THEN {<<"ocr", 1, 0>>}
                      ELSE Tranches(ParsedCount(c))
                /\ UNCHANGED lapses
           ELSE /\ queue' = queue \cup EmbedJobs(Live)
                /\ lapses' = lapses \cup (IF IsScan(c) THEN {"off"} ELSE {})
        /\ Ends(l)
        /\ UNCHANGED <<writable, file, tracked, passages, vectors, failed, ocrOn, rebuild, budget>>
-----------------------------------------------------------------------------
(* OCR of a range of pages. *)

OcrRows == {job \in queue : job[1] = "ocr"}

\* A row without a page range counts the pages first, and is split when there
\* are too many of them for one job.
Splits(job, c) == /\ Backend # "marker" /\ job[2] = 1 /\ job[3] = 0
                  /\ PageCount[c] > PAGES_PER_OCR_JOB
LastOf(job, c) == IF Backend # "marker" /\ job[2] = 1 /\ job[3] = 0
                  THEN PageCount[c] ELSE job[3]

OcrRead(l, job) ==
    /\ Claim(l, job)
    /\ CASE file = None ->                            \* FileNotFoundError
              /\ queue' = queue \ {job} /\ failed' = failed \cup {job}
              /\ UNCHANGED running
         [] file # None /\ Splits(job, file) ->
              /\ queue' = (queue \ {job}) \cup Tranches(PageCount[file])
              /\ UNCHANGED <<failed, running>>
         [] OTHER ->
              /\ queue' = queue \ {job} /\ UNCHANGED failed
              /\ running' = [running EXCEPT ![l] =
                    [pc |-> "append", job |-> job, of |-> file, last |-> LastOf(job, file)]]
    /\ UNCHANGED <<writable, file, tracked, passages, vectors, ocrOn, rebuild, lapses, budget>>

OcrTimesOut(l) ==
    /\ running[l].pc = "append" /\ Spend("timeout")
    /\ failed' = failed \cup {running[l].job}
    /\ Ends(l)
    /\ UNCHANGED <<writable, file, tracked, passages, vectors, queue, ocrOn, rebuild, lapses>>

\* What each backend gives back: marker knows no range, and labels the text of
\* the whole document page 1.
OcrPages(c) == IF Backend = "marker" THEN {1} ELSE 1 .. PageCount[c]
PagesRead(lo, last, c) ==
    {p \in OcrPages(c) : Backend = "marker" \/ (lo <= p /\ (last = 0 \/ p <= last))}

\* append_ocr_chunks: the range is deleted and what was read is inserted.
Mutant_OutOfRange(lo, hi) == Live        \* a retry appends again
OutOfRange(lo, hi) == {i \in Live : passages[i].page \notin lo .. hi}

\* A book whose row is gone is given one again, with the hash of the file as
\* it is by now.
OcrAppend(l) ==
    LET job == running[l].job
        c == running[l].of
        lo == job[2]
        read == PagesRead(lo, running[l].last, c)
        hi == IF running[l].last # 0 THEN running[l].last
              ELSE IF read = {} THEN lo ELSE Max(read)
        kept == OutOfRange(lo, hi)
        fails == tracked = None /\ file = None
    IN  /\ running[l].pc = "append"
        /\ IF fails
           THEN /\ failed' = failed \cup {job} /\ Ends(l)
                /\ UNCHANGED <<tracked, passages, vectors, lapses>>
           ELSE /\ tracked' = IF tracked = None THEN file ELSE tracked
                /\ passages' = Stored(kept, read, c, "ocr")
                /\ vectors' = Cascade(kept)
                /\ lapses' = lapses \cup (IF tracked = None THEN {"recreated"} ELSE {})
                                    \cup (IF tracked \notin {None, c} THEN {"late"} ELSE {})
                /\ running' = [running EXCEPT ![l] =
                                  [pc |-> "follow", job |-> job, of |-> c, last |-> hi]]
                /\ UNCHANGED failed
        /\ UNCHANGED <<writable, file, queue, ocrOn, rebuild, budget>>

OcrFollow(l) ==
    LET new == {i \in Live : passages[i].page \in running[l].job[2] .. running[l].last}
    IN  /\ running[l].pc = "follow" /\ running[l].job[1] = "ocr"
        /\ queue' = queue \cup EmbedJobs(new)
        /\ Ends(l)
        /\ UNCHANGED <<writable, file, tracked, passages, vectors, failed, ocrOn, rebuild,
                       lapses, budget>>
-----------------------------------------------------------------------------
(* Embeddings. *)

EmbedRows == {job \in queue : job[1] = "embed"}

\* What has no embedding of the active model is read and handed to the model;
\* what is there when it answers is written.
EmbedRead(l, job) ==
    LET model == ActiveModel
        todo == Without(job[2], model)
    IN  /\ Claim(l, job) /\ queue' = queue \ {job}
        /\ running' = IF todo = {} THEN running
                      ELSE [running EXCEPT ![l] =
                              [pc |-> "write", job |-> job, model |-> model,
                               todo |-> {<<i, passages[i]>> : i \in todo}]]
        /\ UNCHANGED <<writable, file, tracked, passages, vectors, failed, ocrOn, rebuild,
                       lapses, budget>>

StillLive(todo) == {x \in todo : passages[x[1]] # None}
EmbedWrite(l) ==
    /\ running[l].pc = "write"
    /\ vectors' = Rebuilt(running[l].model, StillLive(running[l].todo), vectors)
    /\ Ends(l)
    /\ UNCHANGED <<writable, file, tracked, passages, queue, failed, ocrOn, rebuild, lapses, budget>>
-----------------------------------------------------------------------------
(* The supervisor dies and is started again: its claims go back to the      *)
(* queue, and so do the scans that were read whole and timed out.           *)

InHand == {running[l].job : l \in {k \in Lanes : running[k] # Idle}}
Unsplit == {job \in failed : job[3] = 0}
Restart ==
    /\ Spend("crash")
    /\ queue' = queue \cup InHand \cup Unsplit
    /\ failed' = failed \ Unsplit
    /\ running' = [l \in Lanes |-> Idle]
    /\ UNCHANGED <<writable, file, tracked, passages, vectors, ocrOn, rebuild, lapses>>

World == (\E c \in writable : Write(c)) \/ Hook \/ SwitchOcrOn
Operator == (\E m \in Models : ForceStart(m)) \/ ForceBatch \/ ForceEnd
Lane(l) ==
    \/ Remove(l)
    \/ IngestRead(l) \/ IngestIndex(l) \/ IngestFollow(l)
    \/ (\E job \in OcrRows : OcrRead(l, job)) \/ OcrAppend(l) \/ OcrFollow(l)
    \/ (\E job \in EmbedRows : EmbedRead(l, job)) \/ EmbedWrite(l)
Alone == Scan \/ Reconcile
Next ==
    \/ World \/ Operator \/ Alone \/ Restart
    \/ \E l \in Lanes : Lane(l) \/ OcrTimesOut(l)

Spec == Init /\ [][Next]_vars

\* Every job claimed ends and the lanes take what is queued; scans and
\* reconciles come round by the clock, and the dispatcher lets them in; a
\* command that was started goes on.
Fairness ==
    /\ WF_vars(\E l \in Lanes : Lane(l))
    /\ SF_vars(Scan) /\ SF_vars(Reconcile)
    /\ WF_vars(ForceBatch \/ ForceEnd)
FairSpec == Spec /\ Fairness
-----------------------------------------------------------------------------
(* What is promised of the passages and their embeddings. *)

\* "The page range delete is idempotent": whatever is read again, in whatever
\* order, a page of the book comes from one reading.
PagesReadOnce ==
    \A i, j \in Live : passages[i].page = passages[j].page => i = j

\* An embedding is of the very passage it is filed under: none is left over
\* from a passage deleted while the model was running, and none is lost
\* track of.
VectorOfItsPassage ==
    \A i \in Ids : vectors[i] # None => vectors[i].of = passages[i]

\* The book holds what the file says: of a scan every page, of any other PDF
\* the pages that have text.
BookComplete ==
    LET pages == IF IsScan(file) /\ ocrOn THEN OcrPages(file) ELSE TextPages[file]
    IN  /\ \A i \in Live : passages[i].of = file
        /\ pages \subseteq {passages[i].page : i \in Live}
FullyEmbedded ==
    \E m \in Models : \A i \in Live : vectors[i] # None /\ vectors[i].model = m

\* A scan whose last pages have no text layer while an earlier one has.
CutShort(c) == IsScan(c) /\ 0 < ParsedCount(c) /\ ParsedCount(c) < PageCount[c]
\* What keeps a book from being complete.
Excused == lapses # {} \/ failed # {} \/ (file # None /\ CutShort(file))

\* In the end the book holds what the file says, and every passage has an
\* embedding of one and the same model.
EnrichmentSettles ==
    <>[](/\ tracked = file
         /\ FullyEmbedded
         /\ file # None => BookComplete \/ Excused)
=============================================================================
