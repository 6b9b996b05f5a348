----------------------------- MODULE MCReading ------------------------------
(* Reading with small sets, for TLC. *)
EXTENDS Reading, TLC

CONSTANTS f1, f2, v, w, bad

-----------------------------------------------------------------------------
(* Passages: lines that fill a passage in part, or overflow it. *)

MCLines == [kind : {"head", "text", "last"}, len : {2, 7}]
    \cup {[kind |-> "note", len |-> 1], [kind |-> "blank", len |-> 0]}
-----------------------------------------------------------------------------
(* Answers: two files, of which the second makes the scan queue two jobs. *)

Happening(e, h, c, m, x) == [edit |-> e, hook |-> h, clock |-> c, mount |-> m, crash |-> x]
MCSetups == {Happening(2, 0, 1, 0, 0), Happening(1, 1, 1, 0, 0),
             Happening(1, 1, 0, 2, 0), Happening(1, 1, 0, 0, 1)}
-----------------------------------------------------------------------------
(* Selection: a file in a directory, one below it, one in an excluded       *)
(* directory, a transient one, one in an excluded path.                     *)

MCPaths == {<<"d", "f">>, <<"d", "e", "f">>, <<"x", "g">>, <<"d", "t">>, <<"c", "w", "g">>}
Line(n, b) == [name |-> n, leaveOut |-> b]
OneLine == {<<>>} \cup {<<Line(n, b)>> : n \in {"d", "f"}, b \in BOOLEAN}
TwoLines == {k \o l : k \in OneLine, l \in OneLine}
Rules(git, honor, rtfm, ext, inc, exc) ==
    [git : git, honor_gitignore : honor, rtfm : rtfm, extensions : ext, include : inc, exclude : exc]
MCRules ==
    LET nested == {(<<>> :> k) @@ (<<"d">> :> l) :
                      k \in OneLine, l \in {<<>>, <<Line("f", FALSE)>>, <<Line("e", TRUE)>>}}
    IN  Rules(nested, {TRUE}, {<<>>}, {{}}, {{}}, {{}})
        \cup Rules({<<>> :> <<Line("d", TRUE)>>}, BOOLEAN, TwoLines, {{}}, {{}}, {{}})
        \cup Rules({<<>> :> <<>>}, {TRUE}, {<<>>}, {{}, {".f"}}, {{}, {".g"}, {"e"}},
                   {{}, {"d"}, {".g"}})
MCSubpaths == {<<"c", "w">>}
MCSuffix == [n \in {"f", "g", "t"} |-> IF n = "g" THEN ".g" ELSE ".f"]
MCEvents == [edit |-> 1, disk |-> 1, rules |-> 1]
-----------------------------------------------------------------------------
ASSUME ReadingAssumption ==
    Cut!PassagesAssumption /\ AnswersAssumption /\ Chosen!SelectionAssumption
=============================================================================
