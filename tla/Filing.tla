------------------------------- MODULE Filing -------------------------------
(***************************************************************************)
(* What is filed of the files: Sources says which have a row, Enrichment   *)
(* what is added to the book of one of them, the text of its scanned pages *)
(* and the embeddings.  The two share no state, and in a behaviour one of  *)
(* them moves.                                                             *)
(***************************************************************************)
EXTENDS Sources, Enrichment

VARIABLE part    \* the module that moves

\* A module that does not move: nothing on disk, nothing indexed.
NoSources ==
    /\ setup = CHOOSE s \in Starts : TRUE
    /\ disk = [r \in Roots |-> [p \in Paths |-> NoFile]]
    /\ place = [r \in Roots |-> "up"]
    /\ leftOut = [r \in Roots |-> {}]
    /\ configured = setup.declared /\ recorded = configured
    /\ rows = [k \in Corpora \X Paths |-> NoRow]
    /\ pending = <<>> /\ scan = NoScan
NoBook ==
    /\ file = None /\ tracked = None
    /\ passages = [i \in Ids |-> None] /\ vectors = passages
    /\ queue = {} /\ failed = {} /\ running = [l \in Lanes |-> Idle]
    /\ ocrOn = TRUE /\ rebuild = None /\ lapses = {} /\ writable = {}
    /\ budget = (CHOOSE s \in Setups : TRUE).budget

FilingInit ==
    \/ part = "sources" /\ SourcesInit /\ NoBook
    \/ part = "enrichment" /\ Init /\ NoSources

FilingNext ==
    /\ UNCHANGED part
    /\ \/ part = "sources" /\ SourcesNext /\ UNCHANGED vars
       \/ part = "enrichment" /\ Next /\ UNCHANGED sourceVars

\* The fairness of each, for the one that moves.
FilingFairness ==
    LET served == part = "sources"
        filed == part = "enrichment"
    IN  /\ \A c \in Corpora, r \in Roots : WF_sourceVars(served /\ AskScan(<<c, r>>))
        /\ WF_sourceVars(served /\ ServeQueue)
        /\ SF_sourceVars(served /\ Retire)
        /\ WF_vars(filed /\ \E l \in Lanes : Lane(l))
        /\ SF_vars(filed /\ Scan) /\ SF_vars(filed /\ Reconcile)
        /\ WF_vars(filed /\ (ForceBatch \/ ForceEnd))

FilingSpec ==
    FilingInit /\ [][FilingNext]_<<part, sourceVars, vars>> /\ FilingFairness
=============================================================================
