-------------------------- MODULE EnrichmentProofs --------------------------
(***************************************************************************)
(* What holds of Enrichment for any contents, ids, lanes, models and sizes *)
(* of job: the types of its state, that an embedding is of the passage it  *)
(* is filed under, and that OCR by ranges stores no page twice.            *)
(***************************************************************************)
EXTENDS Enrichment, FiniteSetTheorems, TLAPS

-----------------------------------------------------------------------------
(* Numbers in order. *)

LEMMA BeforeType ==
    ASSUME NEW S \in SUBSET Nat, NEW i \in Nat
    PROVE  IsFiniteSet({j \in S : j < i}) /\ Before(i, S) \in Nat
  <1> DEFINE T == {j \in S : j < i}
  <1>1. T \in SUBSET Nat /\ \A j \in T : j <= i
    <2>1. ASSUME NEW j \in T PROVE j \in Nat /\ j <= i
      <3>1. j \in Nat /\ j < i
        OBVIOUS
      <3>2. QED
        BY <3>1
    <2>2. QED
      BY <2>1
  <1>2. IsFiniteSet(T)
    BY <1>1, FS_BoundedSetOfNaturals
  <1>3. QED
    BY <1>2, FS_CardinalityType DEF Before

LEMMA BeforeGrows ==
    ASSUME NEW S \in SUBSET Nat, NEW i \in S, NEW j \in Nat, i < j
    PROVE  Before(i, S) < Before(j, S)
  <1> DEFINE T == {k \in S : k < i}
             U == {k \in S : k < j}
  <1>1. IsFiniteSet(T) /\ IsFiniteSet(U) /\ Before(i, S) \in Nat /\ Before(j, S) \in Nat
    BY BeforeType
  <1>2. IsFiniteSet(T \cup {i}) /\ Cardinality(T \cup {i}) = Cardinality(T) + 1
    <2>1. i \notin T
      OBVIOUS
    <2>2. QED
      BY <1>1, <2>1, FS_AddElement
  <1>3. T \cup {i} \in SUBSET U
    <2>1. \A k \in S : k < i => k < j
      OBVIOUS
    <2>2. QED
      BY <2>1
  <1>4. Cardinality(T \cup {i}) <= Cardinality(U)
    BY <1>1, <1>3, FS_Subset
  <1>5. Before(i, S) = Cardinality(T) /\ Before(j, S) = Cardinality(U)
    BY DEF Before
  <1> HIDE DEF T, U
  <1>6. QED
    BY <1>1, <1>2, <1>4, <1>5

LEMMA BeforeApart ==
    ASSUME NEW S \in SUBSET Nat, NEW i \in S, NEW j \in S, Before(i, S) = Before(j, S)
    PROVE  i = j
  <1>1. i \in Nat /\ j \in Nat /\ Before(i, S) \in Nat
    BY BeforeType
  <1>2. ~(i < j) /\ ~(j < i)
    BY <1>1, BeforeGrows
  <1>3. QED
    BY <1>1, <1>2

LEMMA BeforeBound ==
    ASSUME NEW S \in SUBSET Nat, IsFiniteSet(S), NEW i \in S
    PROVE  Before(i, S) \in 0 .. Cardinality(S) - 1
  <1> DEFINE T == {k \in S : k < i}
  <1>1. Before(i, S) \in Nat /\ Cardinality(S) \in Nat
    BY BeforeType, FS_CardinalityType
  <1>2. IsFiniteSet(S \ {i}) /\ Cardinality(S \ {i}) = Cardinality(S) - 1
    BY FS_RemoveElement
  <1>3. T \in SUBSET (S \ {i})
    OBVIOUS
  <1>4. Cardinality(T) <= Cardinality(S \ {i})
    BY <1>2, <1>3, FS_Subset
  <1>5. Before(i, S) = Cardinality(T)
    BY DEF Before
  <1> HIDE DEF T
  <1>6. QED
    BY <1>1, <1>2, <1>4, <1>5

\* Counting a finite set from below goes through every number under its size.
LEMMA Numbered ==
    ASSUME NEW S \in SUBSET Nat, IsFiniteSet(S), NEW n \in 0 .. Cardinality(S) - 1
    PROVE  \E i \in S : Before(i, S) = n
  <1> DEFINE c == Cardinality(S)
             f == [i \in S |-> Before(i, S)]
  <1>1. c \in Nat
    BY FS_CardinalityType
  <1>2. IsFiniteSet(0 .. c - 1) /\ Cardinality(0 .. c - 1) = c
    <2>1. c - 1 \in Int /\ 0 \in Int
      BY <1>1
    <2>2. /\ IsFiniteSet(0 .. c - 1)
          /\ Cardinality(0 .. c - 1) = IF 0 > c - 1 THEN 0 ELSE c - 1 - 0 + 1
      BY <2>1, FS_Interval
    <2>3. QED
      BY <1>1, <2>2
  <1>3. f \in [S -> 0 .. c - 1]
    BY BeforeBound
  <1>4. \A i, j \in S : f[i] = f[j] => i = j
    BY BeforeApart
  <1>5. f \in Injection(S, 0 .. c - 1)
    BY <1>3, <1>4 DEF Injection, IsInjective
  <1> HIDE DEF f
  <1>6. f \in Surjection(S, 0 .. c - 1)
    BY <1>2, <1>5, FS_Injection
  <1>7. PICK i \in S : f[i] = n
    BY <1>6 DEF Surjection
  <1>8. QED
    BY <1>7 DEF f

\* As many as asked for, or fewer.
LEMMA LowestFew ==
    ASSUME NEW S \in SUBSET Nat, NEW n \in Nat
    PROVE  /\ Lowest(n, S) \in SUBSET S /\ IsFiniteSet(Lowest(n, S))
           /\ Cardinality(Lowest(n, S)) <= n
  <1> DEFINE L == Lowest(n, S)
             f == [i \in L |-> Before(i, S)]
  <1>1. L \in SUBSET S /\ \A i \in L : Before(i, S) < n /\ Before(i, S) \in Nat
    BY BeforeType DEF Lowest
  <1>2. f \in [L -> 0 .. n - 1]
    BY <1>1
  <1>3. \A i, j \in L : f[i] = f[j] => i = j
    BY <1>1, BeforeApart
  <1>4. f \in Injection(L, 0 .. n - 1)
    BY <1>2, <1>3 DEF Injection, IsInjective
  <1> HIDE DEF f, L
  <1>5. IsFiniteSet(0 .. n - 1) /\ Cardinality(0 .. n - 1) <= n
    <2>1. n - 1 \in Int /\ 0 \in Int
      OBVIOUS
    <2>2. /\ IsFiniteSet(0 .. n - 1)
          /\ Cardinality(0 .. n - 1) = IF 0 > n - 1 THEN 0 ELSE n - 1 - 0 + 1
      BY <2>1, FS_Interval
    <2>3. QED
      BY <2>2
  <1>6. IsFiniteSet(L) /\ Cardinality(L) <= Cardinality(0 .. n - 1)
    BY <1>4, <1>5, FS_Injection
  <1>7. Cardinality(L) \in Nat /\ Cardinality(0 .. n - 1) \in Nat
    BY <1>5, <1>6, FS_CardinalityType
  <1>8. QED
    BY <1>1, <1>5, <1>6, <1>7 DEF L

LEMMA Greatest ==
    ASSUME NEW S \in SUBSET Nat, IsFiniteSet(S), S # {}
    PROVE  Max(S) \in S /\ \A i \in S : i <= Max(S)
  <1> DEFINE c == Cardinality(S)
  <1>1. c \in Nat /\ c - 1 \in 0 .. c - 1
    <2>1. c \in Nat
      BY FS_CardinalityType
    <2>2. PICK x \in S : TRUE
      OBVIOUS
    <2>3. Before(x, S) \in 0 .. c - 1
      BY BeforeBound
    <2>4. QED
      BY <2>1, <2>3
  <1>2. PICK m \in S : Before(m, S) = c - 1
    BY <1>1, Numbered
  <1>3. ASSUME NEW i \in S PROVE m >= i
    <2>1. SUFFICES ASSUME m < i PROVE FALSE
      OBVIOUS
    <2>2. Before(m, S) < Before(i, S)
      BY <2>1, BeforeGrows
    <2>3. Before(i, S) \in 0 .. c - 1
      BY BeforeBound
    <2>4. QED
      BY <1>1, <1>2, <2>2, <2>3
  <1>4. Max(S) \in S /\ \A i \in S : Max(S) >= i
    BY <1>3 DEF Max
  <1>5. QED
    BY <1>4
-----------------------------------------------------------------------------
(* Types. *)

\* The parts of the type invariant under names of their own.
LEMMA Types ==
    TypeOK <=>
        /\ file \in Contents \cup {None} /\ tracked \in Contents \cup {None}
        /\ passages \in [Ids -> Passage \cup {None}]
        /\ vectors \in [Ids -> Vector \cup {None}]
        /\ queue \in SUBSET Job /\ failed \in SUBSET OcrJob
        /\ running \in [Lanes -> Running]
        /\ ocrOn \in BOOLEAN /\ rebuild \in Rebuild /\ lapses \in SUBSET Lapse
        /\ writable \in SUBSET (Contents \cup {None}) /\ budget \in [Events -> Nat]
  BY Zenon DEF TypeOK

LEMMA TypesNext ==
    TypeOK' <=>
        /\ file' \in Contents \cup {None} /\ tracked' \in Contents \cup {None}
        /\ passages' \in [Ids -> Passage \cup {None}]
        /\ vectors' \in [Ids -> Vector \cup {None}]
        /\ queue' \in SUBSET Job /\ failed' \in SUBSET OcrJob
        /\ running' \in [Lanes -> Running]
        /\ ocrOn' \in BOOLEAN /\ rebuild' \in Rebuild /\ lapses' \in SUBSET Lapse
        /\ writable' \in SUBSET (Contents \cup {None}) /\ budget' \in [Events -> Nat]
  BY Zenon DEF TypeOK

LEMMA InitTypes == Init => TypeOK
  <1>1. SUFFICES ASSUME Init PROVE TypeOK
    OBVIOUS
  <1>2. PICK s \in Setups : writable = s.contents /\ budget = s.budget
    BY <1>1 DEF Init
  <1>3. writable \in SUBSET (Contents \cup {None}) /\ budget \in [Events -> Nat]
    BY <1>2, EnrichmentAssumption
  <1>4. running \in [Lanes -> Running]
    BY <1>1 DEF Init, Running
  <1>5. rebuild \in Rebuild
    BY <1>1 DEF Init, Rebuild
  <1>6. /\ passages \in [Ids -> Passage \cup {None}]
        /\ vectors \in [Ids -> Vector \cup {None}]
    BY <1>1 DEF Init
  <1>7. QED
    BY <1>1, <1>3, <1>4, <1>5, <1>6, Types DEF Init

LEMMA SpendType ==
    ASSUME TypeOK, NEW e \in Events, Spend(e)
    PROVE  budget' \in [Events -> Nat]
  <1>1. budget \in [Events -> Nat]
    BY Types
  <1>2. QED
    BY <1>1 DEF Spend

LEMMA LiveType ==
    ASSUME TypeOK
    PROVE  /\ Live \in SUBSET Ids /\ IsFiniteSet(Live)
           /\ \A i \in Live : passages[i] \in Passage
  <1>1. Live \in SUBSET Ids /\ \A i \in Live : passages[i] \in Passage
    BY Types DEF Live
  <1>2. QED
    BY <1>1, EnrichmentAssumption, FS_Subset

\* A row of the queue, in a lane or failed, by its kind.
LEMMA JobKinds ==
    ASSUME NEW job \in Job
    PROVE  /\ job[1] \in {"ingest", "remove", "embed", "ocr"}
           /\ job[1] = "ocr" => job \in OcrJob
           /\ job[1] = "embed" => job \in EmbedJob /\ job[2] \in SUBSET Ids /\ job[2] # {}
  <1>1. CASE job = <<"ingest">> \/ job = <<"remove">>
    BY <1>1
  <1>2. CASE job \in OcrJob
    <2>1. job[1] = "ocr"
      BY <1>2 DEF OcrJob
    <2>2. QED
      BY <1>2, <2>1
  <1>3. CASE job \in EmbedJob
    <2>1. job[1] = "embed" /\ job[2] \in SUBSET Ids /\ job[2] # {}
      BY <1>3 DEF EmbedJob
    <2>2. QED
      BY <1>3, <2>1
  <1>4. QED
    BY <1>1, <1>2, <1>3 DEF Job

\* The batches of a set of passages: embedding jobs.
LEMMA EmbedJobsType ==
    ASSUME NEW S \in SUBSET Ids
    PROVE  EmbedJobs(S) \in SUBSET Job
  <1>1. ASSUME NEW b \in Batches(S) PROVE b \in (SUBSET Ids) \ {{}}
    <2>1. PICK i \in S : b = {j \in S : BatchOf(j, S) = BatchOf(i, S)}
      BY <1>1 DEF Batches
    <2>2. QED
      BY <2>1
  <1>2. QED
    BY <1>1 DEF EmbedJobs, Job, EmbedJob

LEMMA EmbedJobOf ==
    ASSUME NEW S \in SUBSET Ids, NEW job \in EmbedJobs(S)
    PROVE  job[2] \in SUBSET S
  <1>1. PICK b \in Batches(S) : job = <<"embed", b>>
    BY DEF EmbedJobs
  <1>2. b \in SUBSET S
    BY DEF Batches
  <1>3. QED
    BY <1>1, <1>2

LEMMA Smaller ==
    ASSUME NEW a \in Nat, NEW b \in Nat
    PROVE  Min({a, b}) \in Nat
  <1>1. CASE a <= b
    <2>1. a \in {a, b} /\ \A y \in {a, b} : a <= y
      BY <1>1
    <2>2. Min({a, b}) \in {a, b}
      BY <2>1 DEF Min
    <2>3. QED
      BY <2>2
  <1>2. CASE b <= a
    <2>1. b \in {a, b} /\ \A y \in {a, b} : b <= y
      BY <1>2
    <2>2. Min({a, b}) \in {a, b}
      BY <2>1 DEF Min
    <2>3. QED
      BY <2>2
  <1>3. QED
    BY <1>1, <1>2

LEMMA TranchesType ==
    ASSUME NEW n \in Nat
    PROVE  Tranches(n) \in SUBSET OcrJob
  <1>1. ASSUME NEW s \in 1 .. n
        PROVE  <<"ocr", s, Min({s + PAGES_PER_OCR_JOB - 1, n})>> \in OcrJob
    <2>1. s \in Pages /\ s + PAGES_PER_OCR_JOB - 1 \in Nat
      BY EnrichmentAssumption DEF Pages
    <2>2. QED
      BY <2>1, Smaller DEF OcrJob
  <1>2. QED
    BY <1>1 DEF Tranches

\* The last page with text, and none when no page has any.
LEMMA ParsedCountType ==
    ASSUME NEW c \in Contents
    PROVE  /\ ParsedCount(c) \in 0 .. PageCount[c] /\ PageCount[c] \in Nat \ {0}
           /\ TextPages[c] \in SUBSET Pages /\ IsFiniteSet(TextPages[c])
  <1>1. /\ PageCount[c] \in Nat \ {0} /\ TextPages[c] \in SUBSET Pages
        /\ TextPages[c] \in SUBSET (1 .. PageCount[c])
    BY EnrichmentAssumption
  <1>2. IsFiniteSet(TextPages[c])
    <2>1. IsFiniteSet(1 .. PageCount[c])
      BY <1>1, FS_Interval
    <2>2. QED
      BY <1>1, <2>1, FS_Subset
  <1>3. CASE TextPages[c] = {}
    BY <1>1, <1>2, <1>3 DEF ParsedCount
  <1>4. CASE TextPages[c] # {}
    <2>1. TextPages[c] \in SUBSET Nat
      BY <1>1 DEF Pages
    <2>2. Max(TextPages[c]) \in TextPages[c]
      BY <1>2, <1>4, <2>1, Greatest
    <2>3. QED
      BY <1>1, <1>2, <1>4, <2>2 DEF ParsedCount
  <1>5. QED
    BY <1>3, <1>4

\* What a lane holds, by how far its job is.
LEMMA Held ==
    ASSUME TypeOK, NEW l \in Lanes
    PROVE  /\ running[l] \in Running
           /\ running[l].pc = "index" =>
                /\ running[l].job = <<"ingest">> /\ running[l].of \in Contents
           /\ running[l].pc = "follow" =>
                /\ running[l].job \in {<<"ingest">>} \cup OcrJob /\ running[l].of \in Contents
                /\ running[l].last \in Nat
           /\ running[l].pc = "append" =>
                /\ running[l].job \in OcrJob /\ running[l].of \in Contents
                /\ running[l].last \in Nat
           /\ running[l].pc = "write" =>
                /\ running[l].job \in EmbedJob /\ running[l].model \in Models
                /\ running[l].todo \in SUBSET (Ids \X Passage)
           /\ running[l] # Idle => running[l].job \in Job
  <1>1. running[l] \in Running
    BY Types
  <1>2. CASE running[l] \in {Idle}
    BY <1>1, <1>2 DEF Idle
  <1>3. CASE running[l] \in [pc : {"index"}, job : {<<"ingest">>}, of : Contents]
    BY <1>1, <1>3 DEF Job
  <1>4. CASE running[l] \in [pc : {"follow"}, job : {<<"ingest">>} \cup OcrJob,
                             of : Contents, last : Nat]
    BY <1>1, <1>4 DEF Job
  <1>5. CASE running[l] \in [pc : {"append"}, job : OcrJob, of : Contents, last : Nat]
    BY <1>1, <1>5 DEF Job
  <1>6. CASE running[l] \in [pc : {"write"}, job : EmbedJob, model : Models,
                             todo : SUBSET (Ids \X Passage)]
    BY <1>1, <1>6 DEF Job
  <1>7. QED
    BY <1>1, <1>2, <1>3, <1>4, <1>5, <1>6 DEF Running

LEMMA EndsType ==
    ASSUME TypeOK, NEW l \in Lanes, Ends(l)
    PROVE  running' \in [Lanes -> Running]
  BY Types DEF Ends, Running

LEMMA ForgottenTypes ==
    ASSUME Forgotten
    PROVE  /\ tracked' \in Contents \cup {None} /\ lapses' \in SUBSET Lapse
           /\ passages' \in [Ids -> Passage \cup {None}]
           /\ vectors' \in [Ids -> Vector \cup {None}]
  BY DEF Forgotten

LEMMA CascadeType ==
    ASSUME TypeOK, NEW kept
    PROVE  Cascade(kept) \in [Ids -> Vector \cup {None}]
  BY Types DEF Cascade

LEMMA RebuiltType ==
    ASSUME NEW model \in Models, NEW batch \in SUBSET (Ids \X Passage),
           NEW old \in [Ids -> Vector \cup {None}]
    PROVE  Rebuilt(model, batch, old) \in [Ids -> Vector \cup {None}]
  <1>1. ASSUME NEW i \in Ids, NEW y \in batch, y[1] = i
        PROVE  [model |-> model, of |-> (CHOOSE x \in batch : x[1] = i)[2]] \in Vector
    <2>1. (CHOOSE x \in batch : x[1] = i) \in batch
      BY <1>1
    <2>2. (CHOOSE x \in batch : x[1] = i)[2] \in Passage
      BY <2>1
    <2>3. QED
      BY <2>2 DEF Vector
  <1>2. QED
    BY <1>1 DEF Rebuilt

LEMMA ActiveModelType ==
    ASSUME TypeOK
    PROVE  ActiveModel \in Models
  <1>1. CASE Used = {}
    BY <1>1, EnrichmentAssumption DEF ActiveModel
  <1>2. CASE Used # {}
    <2> DEFINE W == {j \in Ids : vectors[j] # None}
               C == {Uses(m) : m \in Used}
    <2>1. vectors \in [Ids -> Vector \cup {None}]
      BY Types
    <2>2. Used \in SUBSET Models
      BY <2>1 DEF Used, Vector
    <2>3. IsFiniteSet(W)
      BY EnrichmentAssumption, FS_Subset
    <2>4. IsFiniteSet(Used)
      <3> DEFINE g == [i \in W |-> vectors[i].model]
      <3>1. g \in Surjection(W, Used)
        BY DEF Surjection, Used
      <3>2. QED
        BY <2>3, <3>1, FS_Surjection
    <2>5. \A m \in Used : Uses(m) \in Nat
      <3>1. ASSUME NEW m \in Used
            PROVE  IsFiniteSet({i \in Ids : vectors[i] # None /\ vectors[i].model = m})
        BY EnrichmentAssumption, FS_Subset
      <3>2. QED
        BY <3>1, FS_CardinalityType DEF Uses
    <2>6. IsFiniteSet(C) /\ C \in SUBSET Nat /\ C # {}
      <3> DEFINE h == [m \in Used |-> Uses(m)]
      <3>1. h \in Surjection(Used, C)
        BY DEF Surjection
      <3>2. QED
        BY <1>2, <2>4, <2>5, <3>1, FS_Surjection
    <2>7. Max(C) \in C /\ \A n \in C : n <= Max(C)
      BY <2>6, Greatest
    <2>8. PICK m \in Used : Max(C) = Uses(m)
      BY <2>7
    <2>9. \A n \in Used : Uses(m) >= Uses(n)
      BY <2>5, <2>7, <2>8
    <2>10. (CHOOSE x \in Used : \A n \in Used : Uses(x) >= Uses(n)) \in Used
      BY <2>9
    <2>11. QED
      BY <1>2, <2>2, <2>10 DEF ActiveModel
  <1>3. QED
    BY <1>1, <1>2
-----------------------------------------------------------------------------
(* The table of passages. *)

\* A table that keeps the rows asked for and gives each page at most one new
\* row, under an id that nothing refers to.
Refill(table, kept, pages) ==
    /\ table \in [Ids -> Passage \cup {None}]
    /\ \A i \in kept : table[i] = passages[i]
    /\ \A i \in Referenced \ kept : i \in Ids => table[i] = None
    /\ \A i \in Ids \ kept : table[i] # None => table[i].page \in pages
    /\ \A i, j \in Ids \ kept :
         /\ table[i] # None
         /\ table[j] # None
         /\ table[i].page = table[j].page
         => i = j

LEMMA StoredRows ==
    ASSUME TypeOK, NEW kept \in SUBSET Live, NEW pages \in SUBSET Pages, IsFiniteSet(pages),
           NEW of \in Contents, NEW by \in {"text", "ocr"}
    PROVE  Refill(Stored(kept, pages, of, by), kept, pages)
  <1> DEFINE free == Unused(kept)
             new == Lowest(Cardinality(pages), free)
             PageOf(i) == CHOOSE p \in pages : Before(p, pages) = Before(i, new)
             s == Stored(kept, pages, of, by)
  <1>1. /\ passages \in [Ids -> Passage \cup {None}] /\ pages \in SUBSET Nat
        /\ Ids \in SUBSET Nat
    BY Types, EnrichmentAssumption DEF Pages
  <1>2. free \in SUBSET Ids /\ free \cap Referenced = {}
    BY DEF Unused
  <1>3. /\ new \in SUBSET free /\ IsFiniteSet(new) /\ Cardinality(pages) \in Nat
        /\ Cardinality(new) \in Nat /\ Cardinality(new) <= Cardinality(pages)
    BY <1>1, <1>2, LowestFew, FS_CardinalityType
  <1>4. kept \in SUBSET Referenced
    BY DEF Referenced
  <1>5. s = [i \in Ids |-> IF i \in kept THEN passages[i]
                          ELSE IF i \in new THEN [page |-> PageOf(i), of |-> of, by |-> by]
                          ELSE None]
    BY DEF Stored
  <1> HIDE DEF free, new, s
  <1>6. ASSUME NEW i \in new
        PROVE  PageOf(i) \in pages /\ Before(PageOf(i), pages) = Before(i, new)
    <2>1. new \in SUBSET Nat
      BY <1>1, <1>2, <1>3
    <2>2. Before(i, new) \in 0 .. Cardinality(new) - 1
      BY <1>3, <2>1, BeforeBound
    <2>3. Before(i, new) \in 0 .. Cardinality(pages) - 1
      BY <1>3, <2>2
    <2>4. \E p \in pages : Before(p, pages) = Before(i, new)
      BY <1>1, <2>3, Numbered
    <2>5. QED
      BY <2>4
  <1>7. ASSUME NEW i \in new, NEW j \in new, PageOf(i) = PageOf(j)
        PROVE  i = j
    <2>1. Before(i, new) = Before(j, new)
      BY <1>6, <1>7
    <2>2. new \in SUBSET Nat
      BY <1>1, <1>2, <1>3
    <2>3. QED
      BY <2>1, <2>2, BeforeApart
  <1>8. \A i \in new : PageOf(i) \in pages
    BY <1>6
  <1> HIDE DEF PageOf
  <1>9. \A i \in new : [page |-> PageOf(i), of |-> of, by |-> by] \in Passage
    BY <1>8 DEF Passage
  <1>10. s \in [Ids -> Passage \cup {None}]
    BY <1>1, <1>5, <1>9
  <1>11. /\ \A i \in kept : s[i] = passages[i]
         /\ \A i \in Ids \ kept : i \notin new => s[i] = None
         /\ \A i \in new : i \in Ids /\ i \notin kept
         /\ \A i \in new : s[i].page = PageOf(i)
    <2>1. new \in SUBSET Ids /\ new \cap kept = {} /\ kept \in SUBSET Ids
      BY <1>2, <1>3, <1>4 DEF Live
    <2>2. QED
      BY <1>5, <2>1
  <1>12. new \cap Referenced = {}
    BY <1>2, <1>3
  <1>13. \A i \in Ids \ kept : s[i] # None => i \in new
    BY <1>11
  <1>14. \A i, j \in Ids \ kept :
           /\ s[i] # None
           /\ s[j] # None
           /\ s[i].page = s[j].page
           => i = j
    BY <1>7, <1>11, <1>13
  <1>15. QED
    BY <1>8, <1>10, <1>11, <1>12, <1>13, <1>14 DEF s, Refill
-----------------------------------------------------------------------------
(* The types, step by step. *)

LEMMA TodoType ==
    ASSUME TypeOK, NEW S \in SUBSET Live
    PROVE  {<<i, passages[i]>> : i \in S} \in SUBSET (Ids \X Passage)
  BY LiveType

LEMMA WorldTypes == TypeOK /\ World => TypeOK'
  <1> SUFFICES ASSUME TypeOK, World PROVE TypeOK'
    OBVIOUS
  <1>1. ASSUME NEW c \in writable, Write(c) PROVE TypeOK'
    <2>1. budget' \in [Events -> Nat]
      BY <1>1, SpendType DEF Write, Events
    <2>2. file' \in Contents \cup {None}
      BY <1>1, Types DEF Write
    <2>3. UNCHANGED <<writable, tracked, passages, vectors, queue, failed, running, ocrOn,
                      rebuild, lapses>>
      BY <1>1 DEF Write
    <2>4. QED
      BY <2>1, <2>2, <2>3, Types, TypesNext
  <1>2. CASE Hook
    <2>1. budget' \in [Events -> Nat]
      BY <1>2, SpendType DEF Hook, Events
    <2>2. queue' \in SUBSET Job
      BY <1>2, Types DEF Hook, Job
    <2>3. UNCHANGED <<writable, file, tracked, passages, vectors, failed, running, ocrOn,
                      rebuild, lapses>>
      BY <1>2 DEF Hook
    <2>4. QED
      BY <2>1, <2>2, <2>3, Types, TypesNext
  <1>3. CASE SwitchOcrOn
    BY <1>3, Types, TypesNext DEF SwitchOcrOn
  <1>4. QED
    BY <1>1, <1>2, <1>3 DEF World

LEMMA OperatorTypes == TypeOK /\ Operator => TypeOK'
  <1> SUFFICES ASSUME TypeOK, Operator PROVE TypeOK'
    OBVIOUS
  <1>1. ASSUME NEW m \in Models, ForceStart(m) PROVE TypeOK'
    <2> DEFINE todo == {<<i, passages[i]>> : i \in Live}
    <2>1. todo \in SUBSET (Ids \X Passage)
      BY TodoType
    <2>2. budget' \in [Events -> Nat]
      BY <1>1, SpendType DEF ForceStart, Events
    <2>3. /\ NextBatch(todo) \in SUBSET (Ids \X Passage)
          /\ [i \in Ids |-> None] \in [Ids -> Vector \cup {None}]
      BY <2>1 DEF NextBatch
    <2>4. vectors' \in [Ids -> Vector \cup {None}]
      <3>1. Rebuilt(m, NextBatch(todo), [i \in Ids |-> None]) \in [Ids -> Vector \cup {None}]
        BY <2>3, RebuiltType
      <3>2. \/ vectors' = Rebuilt(m, NextBatch(todo), [i \in Ids |-> None])
            \/ vectors' = vectors
        BY <1>1 DEF ForceStart
      <3>3. QED
        BY <3>1, <3>2, Types
    <2>5. rebuild' \in Rebuild
      <3>1. \/ rebuild' = [model |-> m, left |-> todo \ NextBatch(todo)]
            \/ rebuild' = [model |-> m, left |-> todo]
        BY <1>1 DEF ForceStart
      <3> HIDE DEF todo
      <3>2. QED
        BY <2>1, <3>1 DEF Rebuild
    <2>6. UNCHANGED <<writable, file, tracked, passages, queue, failed, running, ocrOn, lapses>>
      BY <1>1 DEF ForceStart
    <2>7. QED
      BY <2>2, <2>4, <2>5, <2>6, Types, TypesNext
  <1>2. CASE ForceBatch
    <2>1. rebuild \in Rebuild /\ rebuild # None
      BY <1>2, Types DEF ForceBatch
    <2>2. rebuild.model \in Models /\ rebuild.left \in SUBSET (Ids \X Passage)
      BY <2>1 DEF Rebuild
    <2>3. NextBatch(rebuild.left) \in SUBSET (Ids \X Passage)
      BY <2>2 DEF NextBatch
    <2>4. vectors' \in [Ids -> Vector \cup {None}]
      <3>1. Rebuilt(rebuild.model, NextBatch(rebuild.left), vectors) \in [Ids -> Vector \cup {None}]
        BY <2>2, <2>3, RebuiltType, Types
      <3>2. \/ vectors' = Rebuilt(rebuild.model, NextBatch(rebuild.left), vectors)
            \/ vectors' = vectors
        BY <1>2 DEF ForceBatch
      <3>3. QED
        BY <3>1, <3>2, Types
    <2>5. rebuild' \in Rebuild
      <3>1. \/ rebuild' = [rebuild EXCEPT !.left = @ \ NextBatch(rebuild.left)]
            \/ rebuild' = None
        BY <1>2 DEF ForceBatch
      <3>2. QED
        BY <2>1, <2>2, <3>1 DEF Rebuild
    <2>6. UNCHANGED <<writable, file, tracked, passages, queue, failed, running, ocrOn,
                      lapses, budget>>
      BY <1>2 DEF ForceBatch
    <2>7. QED
      BY <2>4, <2>5, <2>6, Types, TypesNext
  <1>3. CASE ForceEnd
    <2>1. rebuild' \in Rebuild
      BY <1>3 DEF ForceEnd, Rebuild
    <2>2. QED
      BY <1>3, <2>1, Types, TypesNext DEF ForceEnd
  <1>4. QED
    BY <1>1, <1>2, <1>3 DEF Operator

LEMMA AloneTypes == TypeOK /\ Alone => TypeOK'
  <1> SUFFICES ASSUME TypeOK, Alone PROVE TypeOK'
    OBVIOUS
  <1>1. CASE Scan
    <2>1. queue' \in SUBSET Job
      BY <1>1, Types DEF Scan, Job
    <2>2. QED
      BY <1>1, <2>1, Types, TypesNext DEF Scan
  <1>2. CASE Reconcile
    <2>1. Without(Ids, ActiveModel) \in SUBSET Ids
      BY DEF Without
    <2>2. queue' \in SUBSET Job
      BY <1>2, <2>1, Types, EmbedJobsType DEF Reconcile
    <2>3. QED
      BY <1>2, <2>2, Types, TypesNext DEF Reconcile
  <1>3. QED
    BY <1>1, <1>2 DEF Alone

LEMMA RestartTypes == TypeOK /\ Restart => TypeOK'
  <1> SUFFICES ASSUME TypeOK, Restart PROVE TypeOK'
    OBVIOUS
  <1>1. budget' \in [Events -> Nat]
    BY SpendType DEF Restart, Events
  <1>2. InHand \in SUBSET Job
    BY Held DEF InHand
  <1>3. queue' \in SUBSET Job /\ failed' \in SUBSET OcrJob
    BY <1>2, Types DEF Restart, Unsplit, Job
  <1>4. running' \in [Lanes -> Running]
    BY DEF Restart, Running
  <1>5. UNCHANGED <<writable, file, tracked, passages, vectors, ocrOn, rebuild, lapses>>
    BY DEF Restart
  <1>6. QED
    BY <1>1, <1>3, <1>4, <1>5, Types, TypesNext

LEMMA IngestTypes ==
    ASSUME TypeOK, NEW l \in Lanes, Remove(l) \/ IngestRead(l) \/ IngestIndex(l) \/ IngestFollow(l)
    PROVE  TypeOK'
  <1>1. CASE Remove(l)
    <2>1. /\ tracked' \in Contents \cup {None} /\ lapses' \in SUBSET Lapse
          /\ passages' \in [Ids -> Passage \cup {None}]
          /\ vectors' \in [Ids -> Vector \cup {None}]
      BY <1>1, Types, ForgottenTypes DEF Remove
    <2>2. queue' \in SUBSET Job
      BY <1>1, Types DEF Remove
    <2>3. UNCHANGED <<writable, file, failed, running, ocrOn, rebuild, budget>>
      BY <1>1 DEF Remove
    <2>4. QED
      BY <2>1, <2>2, <2>3, Types, TypesNext
  <1>2. CASE IngestRead(l)
    <2>1. queue' \in SUBSET Job
      BY <1>2, Types DEF IngestRead
    <2>2. /\ tracked' \in Contents \cup {None} /\ lapses' \in SUBSET Lapse
          /\ passages' \in [Ids -> Passage \cup {None}]
          /\ vectors' \in [Ids -> Vector \cup {None}]
      BY <1>2, Types, ForgottenTypes DEF IngestRead
    <2>3. running' \in [Lanes -> Running]
      <3>1. CASE file = None
        BY <1>2, <3>1, Types DEF IngestRead
      <3>2. CASE file # None
        <4> DEFINE r == [pc |-> "index", job |-> <<"ingest">>, of |-> file]
        <4>1. running' = [running EXCEPT ![l] = r]
          BY <1>2, <3>2 DEF IngestRead
        <4>2. r \in Running
          BY <3>2, Types DEF Running
        <4> HIDE DEF r
        <4>3. QED
          BY <4>1, <4>2, Types
      <3>3. QED
        BY <3>1, <3>2
    <2>4. UNCHANGED <<writable, file, failed, ocrOn, rebuild, budget>>
      BY <1>2 DEF IngestRead
    <2>5. QED
      BY <2>1, <2>2, <2>3, <2>4, Types, TypesNext
  <1>3. CASE IngestIndex(l)
    <2> DEFINE c == running[l].of
    <2>1. c \in Contents /\ running[l].job = <<"ingest">>
      BY <1>3, Held DEF IngestIndex
    <2>2. TextPages[c] \in SUBSET Pages /\ IsFiniteSet(TextPages[c])
      BY <2>1, ParsedCountType
    <2>3. tracked' \in Contents \cup {None} /\ lapses' \in SUBSET Lapse
      BY <1>3, <2>1, Types DEF IngestIndex, Lapse
    <2>4. passages' \in [Ids -> Passage \cup {None}] /\ vectors' \in [Ids -> Vector \cup {None}]
      <3>1. {} \in SUBSET Live
        OBVIOUS
      <3>2. Stored({}, TextPages[c], c, "text") \in [Ids -> Passage \cup {None}]
        BY <2>1, <2>2, <3>1, StoredRows DEF Refill
      <3>3. Cascade({}) \in [Ids -> Vector \cup {None}]
        BY CascadeType
      <3>4. CASE TextPages[c] # {}
        BY <1>3, <3>2, <3>3, <3>4 DEF IngestIndex
      <3>5. CASE TextPages[c] = {}
        BY <1>3, <3>5, Types DEF IngestIndex
      <3>6. QED
        BY <3>4, <3>5
    <2>5. running' \in [Lanes -> Running]
      <3> DEFINE r == [pc |-> "follow", job |-> running[l].job, of |-> c, last |-> 0]
      <3>1. running' = [running EXCEPT ![l] = r]
        BY <1>3 DEF IngestIndex
      <3>2. r \in Running
        BY <2>1 DEF Running
      <3> HIDE DEF r
      <3>3. QED
        BY <3>1, <3>2, Types
    <2>6. UNCHANGED <<writable, file, queue, failed, ocrOn, rebuild, budget>>
      BY <1>3 DEF IngestIndex
    <2>7. QED
      BY <2>3, <2>4, <2>5, <2>6, Types, TypesNext
  <1>4. CASE IngestFollow(l)
    <2> DEFINE c == running[l].of
    <2>1. c \in Contents
      BY <1>4, Held DEF IngestFollow
    <2>2. ParsedCount(c) \in Nat
      BY <2>1, ParsedCountType
    <2>3. /\ Tranches(ParsedCount(c)) \in SUBSET Job /\ EmbedJobs(Live) \in SUBSET Job
          /\ {<<"ocr", 1, 0>>} \in SUBSET Job
      BY <2>2, TranchesType, EmbedJobsType, LiveType DEF Job, OcrJob, Pages
    <2>4. queue' \in SUBSET Job /\ lapses' \in SUBSET Lapse
      <3> HIDE DEF c
      <3>1. /\ \/ queue' = queue \cup Tranches(ParsedCount(c))
               \/ queue' = queue \cup {<<"ocr", 1, 0>>}
               \/ queue' = queue \cup EmbedJobs(Live)
            /\ \/ lapses' = lapses
               \/ lapses' = lapses \cup {"off"}
               \/ lapses' = lapses \cup {}
        BY <1>4 DEF IngestFollow, c
      <3>2. QED
        BY <2>3, <3>1, Types DEF Lapse
    <2>5. running' \in [Lanes -> Running]
      BY <1>4, EndsType DEF IngestFollow
    <2>6. UNCHANGED <<writable, file, tracked, passages, vectors, failed, ocrOn, rebuild, budget>>
      BY <1>4 DEF IngestFollow
    <2>7. QED
      BY <2>4, <2>5, <2>6, Types, TypesNext
  <1>5. QED
    BY <1>1, <1>2, <1>3, <1>4

\* What OCR gives back of a range is a finite set of pages, whose last is the
\* end of the range when none was asked for.
LEMMA PagesReadType ==
    ASSUME NEW lo \in Pages, NEW last \in Nat, NEW c \in Contents
    PROVE  /\ PagesRead(lo, last, c) \in SUBSET Pages /\ IsFiniteSet(PagesRead(lo, last, c))
           /\ PagesRead(lo, last, c) # {} => Max(PagesRead(lo, last, c)) \in Pages
           /\ \A p \in PagesRead(lo, last, c) : p <= Max(PagesRead(lo, last, c))
  <1> DEFINE read == PagesRead(lo, last, c)
  <1>1. OcrPages(c) \in SUBSET Pages /\ IsFiniteSet(OcrPages(c))
    <2>1. PageCount[c] \in Nat
      BY EnrichmentAssumption
    <2>2. 1 .. PageCount[c] \in SUBSET Pages /\ IsFiniteSet(1 .. PageCount[c])
      BY <2>1, FS_Interval DEF Pages
    <2>3. {1} \in SUBSET Pages /\ IsFiniteSet({1})
      <3>1. IsFiniteSet({1})
        BY FS_Singleton
      <3>2. QED
        BY <3>1 DEF Pages
    <2>4. QED
      BY <2>2, <2>3 DEF OcrPages
  <1>2. read \in SUBSET OcrPages(c)
    BY DEF PagesRead
  <1>3. read \in SUBSET Pages /\ IsFiniteSet(read)
    BY <1>1, <1>2, FS_Subset
  <1> HIDE DEF read
  <1>4. read # {} => Max(read) \in read /\ \A p \in read : p <= Max(read)
    <2>1. read \in SUBSET Nat
      BY <1>3 DEF Pages
    <2>2. QED
      BY <1>3, <2>1, Greatest
  <1>5. QED
    BY <1>3, <1>4 DEF read

\* The end of the range that a finished reading files.
Bound(lo, last, c) ==
    IF last # 0 THEN last
    ELSE IF PagesRead(lo, last, c) = {} THEN lo ELSE Max(PagesRead(lo, last, c))

LEMMA BoundType ==
    ASSUME NEW lo \in Pages, NEW last \in Nat, NEW c \in Contents
    PROVE  Bound(lo, last, c) \in Nat
  BY PagesReadType DEF Bound, Pages

\* An OCR job that files what it read.
LEMMA Filed ==
    ASSUME TypeOK, NEW l \in Lanes, OcrAppend(l)
    PROVE  LET job == running[l].job
               c == running[l].of
               read == PagesRead(job[2], running[l].last, c)
               hi == Bound(job[2], running[l].last, c)
               kept == OutOfRange(job[2], hi)
           IN  /\ job \in OcrJob /\ job[2] \in Pages /\ c \in Contents
               /\ running[l].pc = "append" /\ running[l].last \in Nat /\ hi \in Nat
               /\ kept \in SUBSET Live /\ read \in SUBSET Pages /\ IsFiniteSet(read)
               /\ \/ /\ failed' = failed \cup {job} /\ Ends(l)
                     /\ UNCHANGED <<tracked, passages, vectors, lapses>>
                  \/ /\ tracked' \in {tracked, file}
                     /\ passages' = Stored(kept, read, c, "ocr") /\ vectors' = Cascade(kept)
                     /\ lapses' \in SUBSET (lapses \cup {"recreated", "late"})
                     /\ running' = [running EXCEPT ![l] =
                                       [pc |-> "follow", job |-> job, of |-> c, last |-> hi]]
                     /\ UNCHANGED failed
               /\ UNCHANGED <<writable, file, queue, ocrOn, rebuild, budget>>
  <1> DEFINE job == running[l].job
             c == running[l].of
             last == running[l].last
             read == PagesRead(job[2], last, c)
             hi == Bound(job[2], last, c)
             kept == OutOfRange(job[2], hi)
  <1>1. /\ job \in OcrJob /\ c \in Contents /\ running[l].pc = "append" /\ last \in Nat
    BY Held DEF OcrAppend
  <1>2. job[2] \in Pages
    BY <1>1 DEF OcrJob
  <1>3. hi \in Nat /\ read \in SUBSET Pages /\ IsFiniteSet(read)
    BY <1>1, <1>2, PagesReadType, BoundType
  <1>4. kept \in SUBSET Live
    BY DEF OutOfRange
  <1>5. /\ \/ /\ failed' = failed \cup {job} /\ Ends(l)
              /\ UNCHANGED <<tracked, passages, vectors, lapses>>
           \/ /\ tracked' \in {tracked, file}
              /\ passages' = Stored(kept, read, c, "ocr") /\ vectors' = Cascade(kept)
              /\ lapses' \in SUBSET (lapses \cup {"recreated", "late"})
              /\ running' = [running EXCEPT ![l] =
                                [pc |-> "follow", job |-> job, of |-> c, last |-> hi]]
              /\ UNCHANGED failed
        /\ UNCHANGED <<writable, file, queue, ocrOn, rebuild, budget>>
    <2>1. CASE tracked = None /\ file = None
      BY <2>1 DEF OcrAppend
    <2>2. CASE ~(tracked = None /\ file = None)
      <3>1. lapses' \in SUBSET (lapses \cup {"recreated", "late"})
        BY <2>2 DEF OcrAppend
      <3>2. /\ tracked' \in {tracked, file}
            /\ UNCHANGED <<writable, file, queue, ocrOn, rebuild, budget, failed>>
        BY <2>2 DEF OcrAppend
      <3>3. /\ passages' = Stored(kept, read, c, "ocr") /\ vectors' = Cascade(kept)
            /\ running' = [running EXCEPT ![l] =
                              [pc |-> "follow", job |-> job, of |-> c, last |-> hi]]
        BY <2>2, Zenon DEF OcrAppend, Bound
      <3>4. QED
        BY <3>1, <3>2, <3>3
    <2>3. QED
      BY <2>1, <2>2
  <1>6. QED
    BY <1>1, <1>2, <1>3, <1>4, <1>5

LEMMA OcrTypes ==
    ASSUME TypeOK, NEW l \in Lanes,
           \/ \E job \in OcrRows : OcrRead(l, job)
           \/ OcrAppend(l) \/ OcrFollow(l) \/ OcrTimesOut(l)
    PROVE  TypeOK'
  <1>1. ASSUME NEW job \in OcrRows, OcrRead(l, job) PROVE TypeOK'
    <2>1. job \in OcrJob
      BY Types, JobKinds DEF OcrRows
    <2>2. UNCHANGED <<writable, file, tracked, passages, vectors, ocrOn, rebuild, lapses, budget>>
      BY <1>1 DEF OcrRead
    <2>3. CASE file = None
      <3>1. queue' = queue \ {job} /\ failed' = failed \cup {job} /\ running' = running
        BY <1>1, <2>3 DEF OcrRead
      <3>2. queue' \in SUBSET Job /\ failed' \in SUBSET OcrJob
        BY <2>1, <3>1, Types
      <3>3. QED
        BY <2>2, <3>1, <3>2, Types, TypesNext
    <2>4. CASE file # None /\ Splits(job, file)
      <3>1. /\ queue' = (queue \ {job}) \cup Tranches(PageCount[file])
            /\ UNCHANGED <<failed, running>>
        BY <1>1, <2>4 DEF OcrRead
      <3>2. PageCount[file] \in Nat
        BY <2>4, Types, EnrichmentAssumption
      <3>3. queue' \in SUBSET Job
        BY <3>1, <3>2, Types, TranchesType DEF Job
      <3>4. QED
        BY <2>2, <3>1, <3>3, Types, TypesNext
    <2>5. CASE file # None /\ ~Splits(job, file)
      <3> DEFINE r == [pc |-> "append", job |-> job, of |-> file, last |-> LastOf(job, file)]
      <3>1. queue' = queue \ {job} /\ failed' = failed /\ running' = [running EXCEPT ![l] = r]
        BY <1>1, <2>5 DEF OcrRead
      <3>2. file \in Contents
        BY <2>5, Types
      <3>3. LastOf(job, file) \in Nat
        BY <2>1, <3>2, EnrichmentAssumption DEF LastOf, OcrJob
      <3>4. r \in Running
        BY <2>1, <3>2, <3>3 DEF Running
      <3> HIDE DEF r
      <3>5. running' \in [Lanes -> Running] /\ queue' \in SUBSET Job
        BY <3>1, <3>4, Types
      <3>6. QED
        BY <2>2, <3>1, <3>5, Types, TypesNext
    <2>6. QED
      BY <2>3, <2>4, <2>5
  <1>2. CASE OcrAppend(l)
    <2> DEFINE job == running[l].job
               c == running[l].of
               read == PagesRead(job[2], running[l].last, c)
               hi == Bound(job[2], running[l].last, c)
               kept == OutOfRange(job[2], hi)
    <2>1. /\ job \in OcrJob /\ job[2] \in Pages /\ c \in Contents /\ hi \in Nat
          /\ kept \in SUBSET Live /\ read \in SUBSET Pages /\ IsFiniteSet(read)
          /\ \/ /\ failed' = failed \cup {job} /\ Ends(l)
                /\ UNCHANGED <<tracked, passages, vectors, lapses>>
             \/ /\ tracked' \in {tracked, file}
                /\ passages' = Stored(kept, read, c, "ocr") /\ vectors' = Cascade(kept)
                /\ lapses' \in SUBSET (lapses \cup {"recreated", "late"})
                /\ running' = [running EXCEPT ![l] =
                                  [pc |-> "follow", job |-> job, of |-> c, last |-> hi]]
                /\ UNCHANGED failed
          /\ UNCHANGED <<writable, file, queue, ocrOn, rebuild, budget>>
      BY <1>2, Filed, Zenon
    <2>2. Stored(kept, read, c, "ocr") \in [Ids -> Passage \cup {None}]
      BY <2>1, StoredRows DEF Refill
    <2>3. Cascade(kept) \in [Ids -> Vector \cup {None}]
      BY CascadeType
    <2> DEFINE r == [pc |-> "follow", job |-> job, of |-> c, last |-> hi]
    <2>4. r \in Running
      BY <2>1 DEF Running
    <2> HIDE DEF job, c, read, hi, kept, r
    <2>5. running' \in [Lanes -> Running] /\ failed' \in SUBSET OcrJob
      <3>1. CASE failed' = failed \cup {job} /\ Ends(l)
        BY <2>1, <3>1, EndsType, Types
      <3>2. CASE running' = [running EXCEPT ![l] = r] /\ failed' = failed
        BY <2>4, <3>2, Types
      <3>3. QED
        BY <2>1, <3>1, <3>2 DEF r
    <2>6. /\ tracked' \in Contents \cup {None} /\ lapses' \in SUBSET Lapse
          /\ passages' \in [Ids -> Passage \cup {None}]
          /\ vectors' \in [Ids -> Vector \cup {None}]
      <3>1. CASE UNCHANGED <<tracked, passages, vectors, lapses>>
        BY <3>1, Types
      <3>2. CASE /\ tracked' \in {tracked, file}
                 /\ passages' = Stored(kept, read, c, "ocr") /\ vectors' = Cascade(kept)
                 /\ lapses' \in SUBSET (lapses \cup {"recreated", "late"})
        BY <2>2, <2>3, <3>2, Types DEF Lapse
      <3>3. QED
        BY <2>1, <3>1, <3>2
    <2>7. UNCHANGED <<writable, file, queue, ocrOn, rebuild, budget>>
      BY <2>1
    <2>8. QED
      BY <2>5, <2>6, <2>7, Types, TypesNext
  <1>3. CASE OcrFollow(l)
    <2>1. running' \in [Lanes -> Running]
      BY <1>3, EndsType DEF OcrFollow
    <2>2. queue' \in SUBSET Job
      <3> DEFINE new == {i \in Live : passages[i].page \in running[l].job[2] .. running[l].last}
      <3>1. new \in SUBSET Ids
        BY DEF Live
      <3>2. queue' = queue \cup EmbedJobs(new)
        BY <1>3 DEF OcrFollow
      <3> HIDE DEF new
      <3>3. QED
        BY <3>1, <3>2, EmbedJobsType, Types
    <2>3. UNCHANGED <<writable, file, tracked, passages, vectors, failed, ocrOn, rebuild,
                      lapses, budget>>
      BY <1>3 DEF OcrFollow
    <2>4. QED
      BY <2>1, <2>2, <2>3, Types, TypesNext
  <1>4. CASE OcrTimesOut(l)
    <2>1. running' \in [Lanes -> Running]
      BY <1>4, EndsType DEF OcrTimesOut
    <2>2. budget' \in [Events -> Nat]
      BY <1>4, SpendType DEF OcrTimesOut, Events
    <2>3. failed' \in SUBSET OcrJob
      BY <1>4, Held, Types DEF OcrTimesOut
    <2>4. UNCHANGED <<writable, file, tracked, passages, vectors, queue, ocrOn, rebuild, lapses>>
      BY <1>4 DEF OcrTimesOut
    <2>5. QED
      BY <2>1, <2>2, <2>3, <2>4, Types, TypesNext
  <1>5. QED
    BY <1>1, <1>2, <1>3, <1>4

LEMMA EmbedTypes ==
    ASSUME TypeOK, NEW l \in Lanes,
           (\E job \in EmbedRows : EmbedRead(l, job)) \/ EmbedWrite(l)
    PROVE  TypeOK'
  <1>1. ASSUME NEW job \in EmbedRows, EmbedRead(l, job) PROVE TypeOK'
    <2> DEFINE todo == Without(job[2], ActiveModel)
               pairs == {<<i, passages[i]>> : i \in todo}
               r == [pc |-> "write", job |-> job, model |-> ActiveModel, todo |-> pairs]
    <2>1. job \in EmbedJob
      BY Types, JobKinds DEF EmbedRows
    <2>2. todo \in SUBSET Live
      BY DEF Without
    <2>3. pairs \in SUBSET (Ids \X Passage)
      BY <2>2, TodoType
    <2>4. running' = running \/ running' = [running EXCEPT ![l] = r]
      BY <1>1 DEF EmbedRead
    <2> HIDE DEF pairs
    <2>5. r \in Running
      BY <2>1, <2>3, ActiveModelType DEF Running
    <2> HIDE DEF r
    <2>6. running' \in [Lanes -> Running]
      BY <2>4, <2>5, Types
    <2>7. queue' \in SUBSET Job
      BY <1>1, Types DEF EmbedRead
    <2>8. UNCHANGED <<writable, file, tracked, passages, vectors, failed, ocrOn, rebuild,
                      lapses, budget>>
      BY <1>1 DEF EmbedRead
    <2>9. QED
      BY <2>6, <2>7, <2>8, Types, TypesNext
  <1>2. CASE EmbedWrite(l)
    <2>1. running[l].model \in Models /\ running[l].todo \in SUBSET (Ids \X Passage)
      BY <1>2, Held DEF EmbedWrite
    <2>2. StillLive(running[l].todo) \in SUBSET (Ids \X Passage)
      BY <2>1 DEF StillLive
    <2>3. vectors' \in [Ids -> Vector \cup {None}]
      BY <1>2, <2>1, <2>2, RebuiltType, Types DEF EmbedWrite
    <2>4. running' \in [Lanes -> Running]
      BY <1>2, EndsType DEF EmbedWrite
    <2>5. UNCHANGED <<writable, file, tracked, passages, queue, failed, ocrOn, rebuild, lapses,
                      budget>>
      BY <1>2 DEF EmbedWrite
    <2>6. QED
      BY <2>3, <2>4, <2>5, Types, TypesNext
  <1>3. QED
    BY <1>1, <1>2

LEMMA LaneTypes ==
    ASSUME TypeOK, NEW l \in Lanes, Lane(l) \/ OcrTimesOut(l)
    PROVE  TypeOK'
  BY IngestTypes, OcrTypes, EmbedTypes DEF Lane

LEMMA StepTypes == TypeOK /\ [Next]_vars => TypeOK'
  <1> SUFFICES ASSUME TypeOK, [Next]_vars PROVE TypeOK'
    OBVIOUS
  <1>1. CASE UNCHANGED vars
    BY <1>1, Types, TypesNext DEF vars
  <1>2. CASE Next
    BY <1>2, WorldTypes, OperatorTypes, AloneTypes, RestartTypes, LaneTypes DEF Next
  <1>3. QED
    BY <1>1, <1>2

\* Whatever a lane, the queue or the tables hold is of its kind, for any file
\* contents and any size of job (the rows of work_queue and the state of
\* handle_ingest, handle_ocr and handle_embed between two of their steps).
THEOREM TypeCorrect == Spec => []TypeOK
  <1>1. QED
    BY InitTypes, StepTypes, PTL DEF Spec
-----------------------------------------------------------------------------
(* What a step does to the two tables. *)

Emptied == /\ passages' = [i \in Ids |-> None] /\ vectors' = [i \in Ids |-> None]
Refilled ==
    \E kept \in SUBSET Live, pages \in SUBSET Pages, of \in Contents, by \in {"text", "ocr"} :
        /\ IsFiniteSet(pages)
        /\ passages' = Stored(kept, pages, of, by) /\ vectors' = Cascade(kept)
Embeds ==
    \/ \E m \in Models : ForceStart(m)
    \/ ForceBatch
    \/ \E l \in Lanes : EmbedWrite(l)

LEMMA TablesChange ==
    ASSUME TypeOK, [Next]_vars
    PROVE  UNCHANGED <<passages, vectors>> \/ Emptied \/ Refilled \/ Embeds
  <1>1. CASE UNCHANGED vars
    BY <1>1 DEF vars
  <1>2. CASE World
    BY <1>2 DEF World, Write, Hook, SwitchOcrOn
  <1>3. CASE Operator
    BY <1>3 DEF Operator, Embeds, ForceEnd
  <1>4. CASE Alone \/ Restart
    BY <1>4 DEF Alone, Scan, Reconcile, Restart
  <1>5. ASSUME NEW l \in Lanes, Remove(l) \/ IngestRead(l)
        PROVE  UNCHANGED <<passages, vectors>> \/ Emptied
    BY <1>5 DEF Remove, IngestRead, Forgotten, Emptied
  <1>6. ASSUME NEW l \in Lanes, IngestIndex(l)
        PROVE  UNCHANGED <<passages, vectors>> \/ Refilled
    <2> DEFINE c == running[l].of
    <2>1. c \in Contents
      BY <1>6, Held DEF IngestIndex
    <2>2. TextPages[c] \in SUBSET Pages /\ IsFiniteSet(TextPages[c])
      BY <2>1, ParsedCountType
    <2>3. CASE TextPages[c] = {}
      BY <1>6, <2>3 DEF IngestIndex
    <2>4. CASE TextPages[c] # {}
      <3>1. passages' = Stored({}, TextPages[c], c, "text") /\ vectors' = Cascade({})
        BY <1>6, <2>4 DEF IngestIndex
      <3>2. {} \in SUBSET Live
        OBVIOUS
      <3> HIDE DEF c
      <3>3. QED
        BY <2>1, <2>2, <3>1, <3>2 DEF Refilled
    <2>5. QED
      BY <2>3, <2>4
  <1>7. ASSUME NEW l \in Lanes, OcrAppend(l)
        PROVE  UNCHANGED <<passages, vectors>> \/ Refilled
    <2> DEFINE job == running[l].job
               c == running[l].of
               read == PagesRead(job[2], running[l].last, c)
               hi == Bound(job[2], running[l].last, c)
               kept == OutOfRange(job[2], hi)
    <2>1. /\ c \in Contents
          /\ kept \in SUBSET Live /\ read \in SUBSET Pages /\ IsFiniteSet(read)
          /\ \/ UNCHANGED <<passages, vectors>>
             \/ passages' = Stored(kept, read, c, "ocr") /\ vectors' = Cascade(kept)
      BY <1>7, Filed
    <2> HIDE DEF job, c, read, hi, kept
    <2>2. QED
      BY <2>1 DEF Refilled
  <1>8. ASSUME NEW l \in Lanes,
               \/ IngestFollow(l) \/ OcrFollow(l) \/ OcrTimesOut(l)
               \/ \E job \in OcrRows : OcrRead(l, job)
               \/ \E job \in EmbedRows : EmbedRead(l, job)
        PROVE  UNCHANGED <<passages, vectors>>
    BY <1>8 DEF IngestFollow, OcrFollow, OcrTimesOut, OcrRead, EmbedRead
  <1>9. ASSUME NEW l \in Lanes, EmbedWrite(l)
        PROVE  Embeds
    BY <1>9 DEF Embeds
  <1>10. QED
    BY <1>1, <1>2, <1>3, <1>4, <1>5, <1>6, <1>7, <1>8, <1>9 DEF Next, Lane

LEMMA EmbedsKeepPassages ==
    ASSUME Embeds PROVE UNCHANGED passages
  BY DEF Embeds, ForceStart, ForceBatch, EmbedWrite

\* A passage that something refers to stays as it is or is deleted.
LEMMA ReferencedFades ==
    ASSUME TypeOK, [Next]_vars, NEW i \in Ids, i \in Referenced
    PROVE  passages'[i] \in {None, passages[i]}
  <1>1. CASE Refilled
    <2>1. PICK kept \in SUBSET Live, pages \in SUBSET Pages, of \in Contents,
               by \in {"text", "ocr"} :
                 IsFiniteSet(pages) /\ passages' = Stored(kept, pages, of, by)
      BY <1>1 DEF Refilled
    <2>2. Refill(passages', kept, pages)
      BY <2>1, StoredRows
    <2>3. QED
      BY <2>2 DEF Refill
  <1>2. QED
    BY <1>1, TablesChange, EmbedsKeepPassages DEF Emptied

-----------------------------------------------------------------------------
(* An embedding is of the passage it is filed under. *)

\* What is still to be embedded was read from rows that are as they were or
\* gone, one entry for each: the ids are not given again while they wait.
Due(todo, table) ==
    /\ \A x \in todo : table[x[1]] \in {None, x[2]}
    /\ \A x, y \in todo : x[1] = y[1] => x = y
EmbeddingsDue ==
    /\ \A l \in Lanes : running[l].pc = "write" =>
         /\ Due(running[l].todo, passages)
         /\ \A x \in running[l].todo : x[1] \in running[l].job[2]
    /\ rebuild # None => Due(rebuild.left, passages)
EmbeddingInv == TypeOK /\ EmbeddingsDue /\ VectorOfItsPassage

LEMMA InitEmbeddings == Init => EmbeddingInv
  <1> SUFFICES ASSUME Init PROVE EmbeddingInv
    OBVIOUS
  <1>1. \A l \in Lanes : running[l].pc # "write"
    BY DEF Init, Idle
  <1>2. \A i \in Ids : vectors[i] = None
    BY DEF Init
  <1>3. rebuild = None
    BY DEF Init
  <1>4. QED
    BY <1>1, <1>2, <1>3, InitTypes DEF EmbeddingInv, EmbeddingsDue, VectorOfItsPassage

\* What is due is referred to.
LEMMA DueReferenced ==
    ASSUME EmbeddingInv
    PROVE  /\ \A l \in Lanes : running[l].pc = "write" =>
                \A x \in running[l].todo : x[1] \in Ids /\ x[1] \in Referenced
           /\ rebuild # None => \A x \in rebuild.left : x[1] \in Ids /\ x[1] \in Referenced
  <1>1. ASSUME NEW l \in Lanes, running[l].pc = "write", NEW x \in running[l].todo
        PROVE  x[1] \in Ids /\ x[1] \in Referenced
    <2>1. running[l].job \in EmbedJob /\ running[l].todo \in SUBSET (Ids \X Passage)
      BY <1>1, Held DEF EmbeddingInv
    <2>2. running[l].job[1] = "embed" /\ running[l] # Idle
      BY <1>1, <2>1 DEF EmbedJob, Idle
    <2>3. x[1] \in running[l].job[2]
      BY <1>1 DEF EmbeddingInv, EmbeddingsDue
    <2>4. QED
      BY <2>1, <2>2, <2>3 DEF Referenced
  <1>2. ASSUME rebuild # None, NEW x \in rebuild.left
        PROVE  x[1] \in Ids /\ x[1] \in Referenced
    <2>1. rebuild \in Rebuild
      BY Types DEF EmbeddingInv
    <2>2. rebuild.left \in SUBSET (Ids \X Passage)
      BY <1>2, <2>1 DEF Rebuild
    <2>3. x[1] \in {y[1] : y \in rebuild.left}
      BY <1>2
    <2>4. QED
      BY <1>2, <2>2, <2>3 DEF Referenced
  <1>3. QED
    BY <1>1, <1>2

LEMMA DueStays ==
    ASSUME EmbeddingInv, [Next]_vars, NEW todo, Due(todo, passages),
           \A x \in todo : x[1] \in Ids /\ x[1] \in Referenced
    PROVE  Due(todo, passages')
  <1>1. \A x \in todo : passages'[x[1]] \in {None, passages[x[1]]}
    BY ReferencedFades DEF EmbeddingInv
  <1>2. QED
    BY <1>1 DEF Due

\* The rows just read are due.
LEMMA DueRead ==
    ASSUME NEW table, NEW S
    PROVE  Due({<<i, table[i]>> : i \in S}, table)
  BY DEF Due

\* A subset of what is due is due.
LEMMA DueFewer ==
    ASSUME NEW todo, NEW table, Due(todo, table), NEW left \in SUBSET todo
    PROVE  Due(left, table)
  BY DEF Due

\* A lane waits for the model with what it had, or with rows just read.
ReadBy(l) ==
    /\ UNCHANGED passages
    /\ \E job \in EmbedRows :
         /\ running'[l].job = job
         /\ running'[l].todo = {<<i, passages[i]>> : i \in Without(job[2], ActiveModel)}

LEMMA LaneWaits ==
    ASSUME TypeOK, [Next]_vars, NEW l \in Lanes, running'[l].pc = "write"
    PROVE  running'[l] = running[l] \/ ReadBy(l)
  <1>1. running \in [Lanes -> Running]
    BY Types
  <1>2. CASE UNCHANGED running
    BY <1>2
  <1>3. CASE Restart
    BY <1>3 DEF Restart, Idle
  <1>4. ASSUME NEW k \in Lanes, IngestRead(k) \/ IngestIndex(k) \/ OcrAppend(k)
        PROVE  running'[l] = running[l]
    <2>1. CASE UNCHANGED running
      BY <2>1
    <2>2. ASSUME NEW r, r.pc # "write", running' = [running EXCEPT ![k] = r]
          PROVE  running'[l] = running[l]
      BY <1>1, <2>2
    <2>3. CASE IngestRead(k)
      <3>1. \/ UNCHANGED running
            \/ running' = [running EXCEPT ![k] =
                              [pc |-> "index", job |-> <<"ingest">>, of |-> file]]
        BY <2>3 DEF IngestRead
      <3>2. QED
        BY <2>2, <3>1
    <2>4. CASE IngestIndex(k)
      <3>1. running' = [running EXCEPT ![k] =
                [pc |-> "follow", job |-> running[k].job, of |-> running[k].of, last |-> 0]]
        BY <2>4 DEF IngestIndex
      <3>2. QED
        BY <2>2, <3>1
    <2>5. CASE OcrAppend(k)
      <3>1. \/ Ends(k)
            \/ running' = [running EXCEPT ![k] =
                  [pc |-> "follow", job |-> running[k].job, of |-> running[k].of,
                   last |-> Bound(running[k].job[2], running[k].last, running[k].of)]]
        BY <2>5, Filed
      <3>2. CASE Ends(k)
        BY <2>2, <3>2 DEF Ends, Idle
      <3>3. QED
        BY <2>2, <3>1, <3>2
    <2>6. QED
      BY <1>4, <2>3, <2>4, <2>5
  <1>5. ASSUME NEW k \in Lanes, Ends(k)
        PROVE  running'[l] = running[l]
    BY <1>1, <1>5 DEF Ends, Idle
  <1>6. ASSUME NEW k \in Lanes, NEW job \in OcrRows, OcrRead(k, job)
        PROVE  running'[l] = running[l]
    <2>1. \/ UNCHANGED running
          \/ running' = [running EXCEPT ![k] =
                [pc |-> "append", job |-> job, of |-> file, last |-> LastOf(job, file)]]
      BY <1>6 DEF OcrRead
    <2>2. QED
      BY <1>1, <2>1
  <1>7. ASSUME NEW k \in Lanes, NEW job \in EmbedRows, EmbedRead(k, job)
        PROVE  running'[l] = running[l] \/ ReadBy(l)
    <2> DEFINE pairs == {<<i, passages[i]>> : i \in Without(job[2], ActiveModel)}
               r == [pc |-> "write", job |-> job, model |-> ActiveModel, todo |-> pairs]
    <2>1. UNCHANGED running \/ running' = [running EXCEPT ![k] = r]
      BY <1>7 DEF EmbedRead
    <2>2. UNCHANGED passages
      BY <1>7 DEF EmbedRead
    <2> HIDE DEF pairs
    <2>3. r.job = job /\ r.todo = pairs
      OBVIOUS
    <2> HIDE DEF r
    <2>4. running'[l] = running[l] \/ running'[l] = r
      BY <1>1, <2>1
    <2>5. QED
      BY <2>2, <2>3, <2>4 DEF ReadBy, pairs
  <1>8. CASE World \/ Operator \/ Alone
    BY <1>8, <1>2 DEF World, Write, Hook, SwitchOcrOn, Operator, ForceStart, ForceBatch,
                      ForceEnd, Alone, Scan, Reconcile
  <1>9. ASSUME NEW k \in Lanes, Lane(k) \/ OcrTimesOut(k)
        PROVE  running'[l] = running[l] \/ ReadBy(l)
    <2>1. CASE Remove(k)
      BY <1>2, <2>1 DEF Remove
    <2>2. CASE IngestFollow(k) \/ OcrFollow(k) \/ EmbedWrite(k) \/ OcrTimesOut(k)
      BY <1>5, <2>2 DEF IngestFollow, OcrFollow, EmbedWrite, OcrTimesOut
    <2>3. QED
      BY <1>4, <1>6, <1>7, <1>9, <2>1, <2>2 DEF Lane
  <1>10. QED
    BY <1>2, <1>3, <1>8, <1>9 DEF Next, vars

\* The rebuild goes on with less of what it had, or starts from rows just read.
LEMMA RebuildGoesOn ==
    ASSUME TypeOK, [Next]_vars, rebuild' # None
    PROVE  \/ rebuild # None /\ rebuild'.left \in SUBSET rebuild.left
           \/ /\ UNCHANGED passages
              /\ rebuild'.left \in SUBSET {<<i, passages[i]>> : i \in Live}
  <1>1. CASE UNCHANGED rebuild
    BY <1>1
  <1>2. ASSUME NEW m \in Models, ForceStart(m)
        PROVE  /\ UNCHANGED passages
               /\ rebuild'.left \in SUBSET {<<i, passages[i]>> : i \in Live}
    <2> DEFINE todo == {<<i, passages[i]>> : i \in Live}
    <2>1. \/ rebuild' = [model |-> m, left |-> todo \ NextBatch(todo)]
          \/ rebuild' = [model |-> m, left |-> todo]
      BY <1>2 DEF ForceStart
    <2>2. UNCHANGED passages
      BY <1>2 DEF ForceStart
    <2> HIDE DEF todo
    <2>3. rebuild'.left \in SUBSET todo
      BY <2>1
    <2>4. QED
      BY <2>2, <2>3 DEF todo
  <1>3. CASE ForceBatch
    <2>1. rebuild \in Rebuild /\ rebuild # None
      BY <1>3, Types DEF ForceBatch
    <2>2. rebuild \in [model : Models, left : SUBSET (Ids \X Passage)]
      BY <2>1 DEF Rebuild
    <2>3. rebuild' = [rebuild EXCEPT !.left = @ \ NextBatch(rebuild.left)]
      BY <1>3 DEF ForceBatch
    <2>4. rebuild'.left = rebuild.left \ NextBatch(rebuild.left)
      BY <2>2, <2>3
    <2>5. QED
      BY <2>1, <2>4
  <1>4. CASE ForceEnd
    BY <1>4 DEF ForceEnd
  <1>5. ASSUME NEW k \in Lanes, Lane(k) \/ OcrTimesOut(k)
        PROVE  UNCHANGED rebuild
    BY <1>5 DEF Lane, Remove, IngestRead, IngestIndex, IngestFollow, OcrRead, OcrAppend,
                OcrFollow, EmbedRead, EmbedWrite, OcrTimesOut
  <1>6. CASE World \/ Alone \/ Restart
    BY <1>1, <1>6 DEF World, Write, Hook, SwitchOcrOn, Alone, Scan, Reconcile, Restart
  <1>7. QED
    BY <1>1, <1>2, <1>3, <1>4, <1>5, <1>6 DEF Next, Operator, vars

LEMMA StepDue == EmbeddingInv /\ [Next]_vars => EmbeddingsDue'
  <1> SUFFICES ASSUME EmbeddingInv, [Next]_vars PROVE EmbeddingsDue'
    OBVIOUS
  <1>1. ASSUME NEW l \in Lanes, running'[l].pc = "write"
        PROVE  /\ Due(running'[l].todo, passages')
               /\ \A x \in running'[l].todo : x[1] \in running'[l].job[2]
    <2>1. CASE running'[l] = running[l]
      <3>1. /\ Due(running[l].todo, passages)
            /\ \A x \in running[l].todo : x[1] \in running[l].job[2]
        BY <1>1, <2>1 DEF EmbeddingInv, EmbeddingsDue
      <3>2. \A x \in running[l].todo : x[1] \in Ids /\ x[1] \in Referenced
        BY <1>1, <2>1, DueReferenced
      <3>3. Due(running[l].todo, passages')
        BY <3>1, <3>2, DueStays
      <3>4. QED
        BY <2>1, <3>1, <3>3
    <2>2. CASE ReadBy(l)
      <3>1. PICK job \in EmbedRows :
              /\ running'[l].job = job
              /\ running'[l].todo = {<<i, passages[i]>> : i \in Without(job[2], ActiveModel)}
        BY <2>2 DEF ReadBy
      <3>2. \A x \in running'[l].todo : x[1] \in job[2]
        BY <3>1 DEF Without
      <3>3. Due(running'[l].todo, passages')
        BY <2>2, <3>1, DueRead DEF ReadBy
      <3>4. QED
        BY <3>1, <3>2, <3>3
    <2>3. QED
      BY <1>1, <2>1, <2>2, LaneWaits DEF EmbeddingInv
  <1>2. ASSUME rebuild' # None
        PROVE  Due(rebuild'.left, passages')
    <2>1. CASE rebuild # None /\ rebuild'.left \in SUBSET rebuild.left
      <3>1. Due(rebuild.left, passages) /\ \A x \in rebuild.left : x[1] \in Ids /\ x[1] \in Referenced
        BY <2>1, DueReferenced DEF EmbeddingInv, EmbeddingsDue
      <3>2. Due(rebuild.left, passages')
        BY <3>1, DueStays
      <3>3. QED
        BY <2>1, <3>2, DueFewer
    <2>2. CASE /\ UNCHANGED passages
               /\ rebuild'.left \in SUBSET {<<i, passages[i]>> : i \in Live}
      BY <2>2, DueRead, DueFewer
    <2>3. QED
      BY <1>2, <2>1, <2>2, RebuildGoesOn DEF EmbeddingInv
  <1>3. QED
    BY <1>1, <1>2 DEF EmbeddingsDue

\* Writing what is due of the passages that are still there.
LEMMA RebuiltMatches ==
    ASSUME NEW model, NEW batch, NEW old, Due(batch, passages),
           \A x \in batch : passages[x[1]] # None,
           \A i \in Ids : old[i] # None => old[i].of = passages[i]
    PROVE  \A i \in Ids : Rebuilt(model, batch, old)[i] # None =>
                            Rebuilt(model, batch, old)[i].of = passages[i]
  <1> SUFFICES ASSUME NEW i \in Ids, Rebuilt(model, batch, old)[i] # None
               PROVE  Rebuilt(model, batch, old)[i].of = passages[i]
    OBVIOUS
  <1>1. CASE \E x \in batch : x[1] = i
    <2> DEFINE y == CHOOSE x \in batch : x[1] = i
    <2>1. y \in batch /\ y[1] = i
      BY <1>1
    <2>2. Rebuilt(model, batch, old)[i] = [model |-> model, of |-> y[2]]
      BY <1>1 DEF Rebuilt
    <2> HIDE DEF y
    <2>3. passages[i] = y[2]
      BY <2>1 DEF Due
    <2>4. QED
      BY <2>2, <2>3
  <1>2. CASE ~\E x \in batch : x[1] = i
    BY <1>2 DEF Rebuilt
  <1>3. QED
    BY <1>1, <1>2

LEMMA EmbedsMatch ==
    ASSUME EmbeddingInv, Embeds
    PROVE  VectorOfItsPassage'
  <1>1. UNCHANGED passages
    BY EmbedsKeepPassages
  <1>2. \A i \in Ids : vectors[i] # None => vectors[i].of = passages[i]
    BY DEF EmbeddingInv, VectorOfItsPassage
  <1>3. SUFFICES \A i \in Ids : vectors'[i] # None => vectors'[i].of = passages[i]
    BY <1>1 DEF VectorOfItsPassage
  <1>4. ASSUME NEW m \in Models, ForceStart(m)
        PROVE  \A i \in Ids : vectors'[i] # None => vectors'[i].of = passages[i]
    <2> DEFINE todo == {<<i, passages[i]>> : i \in Live}
               none == [i \in Ids |-> None]
    <2>1. vectors' = Rebuilt(m, NextBatch(todo), none) \/ vectors' = vectors
      BY <1>4 DEF ForceStart
    <2>2. Due(todo, passages) /\ \A x \in todo : passages[x[1]] # None
      <3>1. Due(todo, passages)
        BY DueRead
      <3>2. \A x \in todo : passages[x[1]] # None
        BY DEF Live
      <3>3. QED
        BY <3>1, <3>2
    <2>3. \A i \in Ids : none[i] = None
      OBVIOUS
    <2> HIDE DEF todo, none
    <2>4. NextBatch(todo) \in SUBSET todo
      BY DEF NextBatch
    <2>5. Due(NextBatch(todo), passages) /\ \A x \in NextBatch(todo) : passages[x[1]] # None
      BY <2>2, <2>4, DueFewer
    <2>6. \A i \in Ids : none[i] # None => none[i].of = passages[i]
      BY <2>3
    <2>7. \A i \in Ids : Rebuilt(m, NextBatch(todo), none)[i] # None =>
                           Rebuilt(m, NextBatch(todo), none)[i].of = passages[i]
      BY <2>5, <2>6, RebuiltMatches
    <2>8. QED
      BY <1>2, <2>1, <2>7
  <1>5. CASE ForceBatch
    <2> DEFINE batch == NextBatch(rebuild.left)
    <2>1. rebuild # None /\ batch \in SUBSET rebuild.left
      BY <1>5 DEF ForceBatch, NextBatch
    <2>2. Due(batch, passages)
      BY <2>1, DueFewer DEF EmbeddingInv, EmbeddingsDue
    <2>3. CASE {x[1] : x \in batch} \subseteq Live
      <3>1. vectors' = Rebuilt(rebuild.model, batch, vectors)
        BY <1>5, <2>3 DEF ForceBatch
      <3>2. \A x \in batch : passages[x[1]] # None
        BY <2>3 DEF Live
      <3> HIDE DEF batch
      <3>3. QED
        BY <1>2, <2>2, <3>1, <3>2, RebuiltMatches
    <2>4. CASE ~({x[1] : x \in batch} \subseteq Live)
      BY <1>2, <1>5, <2>4 DEF ForceBatch
    <2>5. QED
      BY <2>3, <2>4
  <1>6. ASSUME NEW l \in Lanes, EmbedWrite(l)
        PROVE  \A i \in Ids : vectors'[i] # None => vectors'[i].of = passages[i]
    <2> DEFINE batch == StillLive(running[l].todo)
    <2>1. batch \in SUBSET running[l].todo /\ \A x \in batch : passages[x[1]] # None
      BY DEF StillLive
    <2>2. Due(batch, passages)
      BY <1>6, <2>1, DueFewer DEF EmbeddingInv, EmbeddingsDue, EmbedWrite
    <2>3. vectors' = Rebuilt(running[l].model, batch, vectors)
      BY <1>6 DEF EmbedWrite
    <2> HIDE DEF batch
    <2>4. QED
      BY <1>2, <2>1, <2>2, <2>3, RebuiltMatches
  <1>7. QED
    BY <1>4, <1>5, <1>6 DEF Embeds

LEMMA StepVectors == EmbeddingInv /\ [Next]_vars => VectorOfItsPassage'
  <1> SUFFICES ASSUME EmbeddingInv, [Next]_vars PROVE VectorOfItsPassage'
    OBVIOUS
  <1>1. CASE UNCHANGED <<passages, vectors>>
    BY <1>1 DEF EmbeddingInv, VectorOfItsPassage
  <1>2. CASE Emptied
    <2>1. \A i \in Ids : vectors'[i] = None
      BY <1>2 DEF Emptied
    <2>2. QED
      BY <2>1 DEF VectorOfItsPassage
  <1>3. CASE Refilled
    <2>1. PICK kept \in SUBSET Live, pages \in SUBSET Pages, of \in Contents,
               by \in {"text", "ocr"} :
                 /\ IsFiniteSet(pages) /\ passages' = Stored(kept, pages, of, by)
                 /\ vectors' = Cascade(kept)
      BY <1>3 DEF Refilled
    <2>2. Refill(passages', kept, pages)
      BY <2>1, StoredRows DEF EmbeddingInv
    <2>3. \A i \in kept : passages'[i] = passages[i]
      BY <2>2 DEF Refill
    <2>4. \A i \in Ids : vectors'[i] # None => i \in kept /\ vectors'[i] = vectors[i]
      BY <2>1 DEF Cascade
    <2>5. QED
      BY <2>3, <2>4 DEF EmbeddingInv, VectorOfItsPassage
  <1>4. QED
    BY <1>1, <1>2, <1>3, EmbedsMatch, TablesChange DEF EmbeddingInv

\* Whatever is deleted, read again or rebuilt while a model computes, an
\* embedding is of the passage it is filed under (handle_embed writes what is
\* there when the model answers, the foreign key of chunk_embeddings takes the
\* embeddings of a deleted passage, and AUTOINCREMENT gives no id twice).
THEOREM EmbeddedAsFiled == Spec => []VectorOfItsPassage
  <1>1. EmbeddingInv /\ [Next]_vars => EmbeddingInv'
    BY StepTypes, StepDue, StepVectors DEF EmbeddingInv
  <1>2. EmbeddingInv => VectorOfItsPassage
    BY DEF EmbeddingInv
  <1>3. QED
    BY InitEmbeddings, <1>1, <1>2, PTL DEF Spec

-----------------------------------------------------------------------------
(* A page of the book comes from one reading. *)

\* What tesseract reads of a range lies in the range that is deleted.
LEMMA ReadWithin ==
    ASSUME Backend = "tesseract", NEW lo \in Pages, NEW last \in Nat, NEW c \in Contents,
           NEW p \in PagesRead(lo, last, c)
    PROVE  p \in lo .. Bound(lo, last, c)
  <1>1. /\ PagesRead(lo, last, c) \in SUBSET Pages
        /\ PagesRead(lo, last, c) # {} => Max(PagesRead(lo, last, c)) \in Pages
        /\ \A q \in PagesRead(lo, last, c) : q <= Max(PagesRead(lo, last, c))
    BY PagesReadType
  <1>2. lo <= p /\ (last = 0 \/ p <= last)
    BY DEF PagesRead
  <1>3. p \in Nat /\ p <= Bound(lo, last, c) /\ Bound(lo, last, c) \in Nat
    <2>1. p \in Nat /\ PagesRead(lo, last, c) # {}
      BY <1>1 DEF Pages
    <2>2. CASE last # 0
      BY <1>2, <2>1, <2>2 DEF Bound
    <2>3. CASE last = 0
      <3>1. Bound(lo, last, c) = Max(PagesRead(lo, last, c))
        BY <2>1, <2>3 DEF Bound
      <3>2. QED
        BY <1>1, <2>1, <3>1 DEF Pages
    <2>4. QED
      BY <2>2, <2>3
  <1>4. QED
    BY <1>2, <1>3 DEF Pages

\* Rows kept of other pages than those stored anew.
LEMMA RefilledOnce ==
    ASSUME TypeOK, PagesReadOnce, NEW kept \in SUBSET Live, NEW pages \in SUBSET Pages,
           Refill(passages', kept, pages), \A i \in kept : passages[i].page \notin pages
    PROVE  PagesReadOnce'
  <1> SUFFICES ASSUME NEW i \in Live', NEW j \in Live', passages'[i].page = passages'[j].page
               PROVE  i = j
    BY DEF PagesReadOnce
  <1>1. i \in Ids /\ j \in Ids /\ passages'[i] # None /\ passages'[j] # None
    BY DEF Live
  <1>2. \A k \in kept : passages'[k] = passages[k] /\ k \in Live
    BY DEF Refill
  <1>3. \A k \in Ids \ kept : passages'[k] # None => passages'[k].page \in pages
    BY DEF Refill
  <1>4. CASE i \in kept /\ j \in kept
    BY <1>2, <1>4 DEF PagesReadOnce
  <1>5. CASE i \in kept /\ j \notin kept
    BY <1>1, <1>2, <1>3, <1>5
  <1>6. CASE i \notin kept /\ j \in kept
    BY <1>1, <1>2, <1>3, <1>6
  <1>7. CASE i \notin kept /\ j \notin kept
    BY <1>1, <1>7 DEF Refill
  <1>8. QED
    BY <1>4, <1>5, <1>6, <1>7

LEMMA StepPages ==
    ASSUME Backend = "tesseract", TypeOK, PagesReadOnce, [Next]_vars
    PROVE  PagesReadOnce'
  <1>1. CASE UNCHANGED passages
    BY <1>1 DEF PagesReadOnce, Live
  <1>2. CASE passages' = [i \in Ids |-> None]
    BY <1>2 DEF PagesReadOnce, Live
  <1>3. ASSUME NEW l \in Lanes, IngestIndex(l)
        PROVE  PagesReadOnce'
    <2> DEFINE c == running[l].of
    <2>1. c \in Contents
      BY <1>3, Held DEF IngestIndex
    <2>2. TextPages[c] \in SUBSET Pages /\ IsFiniteSet(TextPages[c])
      BY <2>1, ParsedCountType
    <2>3. CASE TextPages[c] = {}
      BY <1>1, <1>3, <2>3 DEF IngestIndex
    <2>4. CASE TextPages[c] # {}
      <3>1. passages' = Stored({}, TextPages[c], c, "text") /\ {} \in SUBSET Live
        BY <1>3, <2>4 DEF IngestIndex
      <3> HIDE DEF c
      <3>2. Refill(passages', {}, TextPages[c])
        BY <2>1, <2>2, <3>1, StoredRows
      <3>3. QED
        BY <2>2, <3>1, <3>2, RefilledOnce
    <2>5. QED
      BY <2>3, <2>4
  <1>4. ASSUME NEW l \in Lanes, OcrAppend(l)
        PROVE  PagesReadOnce'
    <2> DEFINE job == running[l].job
               c == running[l].of
               last == running[l].last
               read == PagesRead(job[2], last, c)
               hi == Bound(job[2], last, c)
               kept == OutOfRange(job[2], hi)
    <2>1. /\ job[2] \in Pages /\ c \in Contents /\ last \in Nat
          /\ kept \in SUBSET Live /\ read \in SUBSET Pages /\ IsFiniteSet(read)
          /\ UNCHANGED passages \/ passages' = Stored(kept, read, c, "ocr")
      BY <1>4, Filed
    <2>2. \A p \in read : p \in job[2] .. hi
      BY <2>1, ReadWithin
    <2>3. \A i \in kept : passages[i].page \notin job[2] .. hi
      BY DEF OutOfRange
    <2> HIDE DEF job, c, last, read, hi, kept
    <2>4. CASE passages' = Stored(kept, read, c, "ocr")
      <3>1. Refill(passages', kept, read)
        BY <2>1, <2>4, StoredRows
      <3>2. QED
        BY <2>1, <2>2, <2>3, <3>1, RefilledOnce
    <2>5. QED
      BY <1>1, <2>1, <2>4
  <1>5. CASE World \/ Operator \/ Alone \/ Restart
    BY <1>1, <1>5 DEF World, Write, Hook, SwitchOcrOn, Operator, ForceStart, ForceBatch,
                      ForceEnd, Alone, Scan, Reconcile, Restart
  <1>6. ASSUME NEW l \in Lanes, Lane(l) \/ OcrTimesOut(l)
        PROVE  PagesReadOnce'
    <2>1. CASE Remove(l) \/ IngestRead(l)
      BY <1>1, <1>2, <2>1 DEF Remove, IngestRead, Forgotten
    <2>2. ASSUME \/ IngestFollow(l) \/ OcrFollow(l) \/ OcrTimesOut(l) \/ EmbedWrite(l)
                 \/ \E job \in OcrRows : OcrRead(l, job)
                 \/ \E job \in EmbedRows : EmbedRead(l, job)
          PROVE  UNCHANGED passages
      BY <2>2 DEF IngestFollow, OcrFollow, OcrTimesOut, OcrRead, EmbedRead, EmbedWrite
    <2>3. QED
      BY <1>1, <1>3, <1>4, <1>6, <2>1, <2>2 DEF Lane
  <1>7. QED
    BY <1>1, <1>5, <1>6 DEF Next, vars

\* However ranges are split, retried or read again after a crash, tesseract
\* leaves one passage per page (append_ocr_chunks deletes the range it is about
\* to fill).  With marker, which reads the whole file for each range, it does not.
THEOREM EachPageOnce == Backend = "tesseract" => (Spec => []PagesReadOnce)
  <1>1. SUFFICES ASSUME Backend = "tesseract" PROVE Spec => []PagesReadOnce
    OBVIOUS
  <1>2. Init => TypeOK /\ PagesReadOnce
    <2>1. Init => Live = {}
      BY DEF Init, Live
    <2>2. QED
      BY <2>1, InitTypes DEF PagesReadOnce
  <1>3. (TypeOK /\ PagesReadOnce) /\ [Next]_vars => (TypeOK /\ PagesReadOnce)'
    BY <1>1, StepTypes, StepPages
  <1>4. QED
    BY <1>2, <1>3, PTL DEF Spec
=============================================================================
