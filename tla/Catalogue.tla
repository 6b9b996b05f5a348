----------------------------- MODULE Catalogue ------------------------------
(***************************************************************************)
(* What the index of a directory is to whoever searches it, however the    *)
(* files, the jobs and the crashes interleave (handlers.py, library.py and *)
(* reconcile.py of rtfm/core): what is found under a path was read in the  *)
(* file there by a job; it goes when a job saw the file gone, or read it   *)
(* anew, or when no row vouches for it; a file that has moved takes along  *)
(* exactly what was found of it; a path told to be up to date is found by  *)
(* what its file says.                                                     *)
(*                                                                         *)
(* Paths that a known race or gap has left behind are excused, until a job *)
(* has put them right.                                                     *)
(***************************************************************************)
CONSTANTS
    Paths, Contents,
    Blank,       \* contents no parser makes a chunk of
    Nothing      \* no file

VARIABLES
    file,        \* path -> its content, or Nothing
    found,       \* path -> the texts a search finds there
    seen,        \* what the jobs at work go by: <<path, what its file held>>
    told,        \* the paths of which a reader is told they are up to date
    excused

vars == <<file, found, seen, told, excused>>

Said(c) == {c} \ (Blank \cup {Nothing})
Right(p) == found[p] = Said(file[p])

Init ==
    /\ file = [p \in Paths |-> Nothing] /\ found = [p \in Paths |-> {}]
    /\ seen = {} /\ told = {} /\ excused = {}

\* The paths of which a step must keep the promise.
Bound == Paths \ (excused \cup excused')
Keeps(P) == \A p \in Bound \cap P : found'[p] = found[p]

\* The user: a file is written or goes, or takes another name.
Change ==
    /\ \E p, q \in Paths, c \in Contents \cup {Nothing} :
          \/ file' = [file EXCEPT ![p] = c]
          \/ file' = [file EXCEPT ![q] = file[p], ![p] = Nothing]
    /\ UNCHANGED <<found, seen>>

\* A job looks at files, or has done with them.
Look ==
    /\ seen' \subseteq seen \cup {<<p, file[p]>> : p \in Paths}
    /\ UNCHANGED <<file, found>>

\* A job records what it has read: it is found then, and nothing else is that
\* was not before.
Record(p) ==
    /\ \E c \in Contents \cup {Nothing} :
          /\ <<p, c>> \in seen
          /\ p \in Bound => Said(c) \subseteq found'[p] /\ found'[p] \subseteq found[p] \cup Said(c)
    /\ Keeps(Paths \ {p})
    /\ seen' \subseteq seen /\ UNCHANGED file

\* A job that saw a file gone, and its content elsewhere, has it follow.
Move(p, q) ==
    /\ \E c \in Contents :
          /\ {<<p, Nothing>>, <<q, c>>} \subseteq seen
          /\ p \in Bound => found[p] = Said(c) /\ found'[p] = {}
          /\ q \in Bound => found[p] = Said(c) /\ found'[q] = Said(c)
    /\ Keeps(Paths \ {p, q})
    /\ seen' \subseteq seen /\ UNCHANGED file

\* What no row vouches for is dropped.
Tidy ==
    /\ \A p \in Bound : found'[p] \subseteq found[p]
    /\ Keeps(told)
    /\ seen = {} /\ UNCHANGED <<file, seen>>

Step == Change \/ Look \/ (\E p \in Paths : Record(p) \/ \E q \in Paths : Move(p, q)) \/ Tidy

\* Told to be up to date, or no longer excused: right, then.
Honest == \A p \in (told' \ excused') \cup (excused \ excused') : Right(p)'

Next == Step /\ Honest

Spec == Init /\ [][Next]_vars
=============================================================================
