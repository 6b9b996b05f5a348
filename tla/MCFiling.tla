------------------------------ MODULE MCFiling ------------------------------
(* Filing with small sets, for TLC. *)
EXTENDS Filing, TLC

CONSTANTS born, cover, stamped, image, slip, l1, l2, d, m

\* A born-digital document, a scan with a few characters on its cover, one with
\* a stamp on its last page, one that is nothing but images, and one such of a
\* single page.
MCPages == [c \in Contents |-> IF c = slip THEN 1 ELSE 2]
MCText == [c \in Contents |-> CASE c = born -> {1, 2} [] c = cover -> {1} [] c = stamped -> {2} [] OTHER -> {}]
MCBudget(w, h, c, t, f) ==
    [write |-> w, hook |-> h, crash |-> c, timeout |-> t, force |-> f]
MCSetups ==
    {[contents |-> {born, image},       budget |-> MCBudget(2, 1, 0, 0, 0)],
     [contents |-> {born, image, None}, budget |-> MCBudget(3, 0, 0, 0, 0)],
     [contents |-> {born, cover, slip}, budget |-> MCBudget(2, 0, 0, 0, 0)],
     [contents |-> {stamped, image},    budget |-> MCBudget(2, 0, 1, 1, 0)],
     [contents |-> {born, image},       budget |-> MCBudget(2, 0, 0, 0, 1)]}
-----------------------------------------------------------------------------
CONSTANTS a, b, r1, r2, p1, p2, v, w

Changes(wr, mv, mt, ig, cf) ==
    [write |-> wr, move |-> mv, mount |-> mt, ignore |-> ig, config |-> cf]
Files(rp, rq, sp, sq) ==
    (r1 :> (p1 :> rp @@ p2 :> rq)) @@ (r2 :> (p1 :> sp @@ p2 :> sq))
Start(srcs, f, cf, mt, ch) ==
    [declared |-> srcs, disk |-> f, config |-> cf, mount |-> mt, changes |-> ch]

Siblings == {<<a, r1>>, <<a, r2>>}
Strangers == {<<a, r1>>, <<b, r2>>}
All == {"bare", "gone", "error"}

MCStarts ==
  { \* two directories of one corpus
    Start(Siblings, Files(v, NoFile, NoFile, w), {}, All, Changes(1, 0, 1, 0, 0)),
    Start(Siblings, Files(v, NoFile, NoFile, w), {}, All, Changes(0, 1, 1, 0, 0)),
    Start(Siblings, Files(v, NoFile, NoFile, v), {}, {}, Changes(1, 1, 0, 0, 0)),
    Start(Siblings, Files(v, NoFile, NoFile, w), {}, {}, Changes(1, 0, 0, 1, 0)),
    \* one content in two corpora
    Start(Strangers, Files(v, NoFile, v, NoFile), {}, All, Changes(0, 1, 1, 0, 0)),
    Start(Strangers, Files(v, NoFile, NoFile, NoFile), {}, {"error"}, Changes(1, 1, 1, 0, 0)),
    \* a source is retired, a corpus renamed, one directory given two names
    Start(Strangers, Files(v, NoFile, NoFile, w),
          {{<<b, r2>>}, {<<b, r1>>, <<b, r2>>}, {<<a, r1>>, <<b, r1>>}}, {}, Changes(0, 0, 0, 0, 2)),
    Start(Strangers, Files(v, NoFile, NoFile, w), {{<<b, r1>>, <<b, r2>>}}, {},
          Changes(1, 0, 0, 0, 1)) }
=============================================================================
