---------------------------- MODULE PassagesProofs ---------------------------
(***************************************************************************)
(* What a cut of a file keeps, for any sizes and any file: lemmas about    *)
(* the operators of Passages.  A text holds units, each of a line and a    *)
(* place; what joins, strips, splits, merges or batches texts holds what   *)
(* they held.  ReadingProofs goes through the other parsers with them, and *)
(* concludes.                                                              *)
(*                                                                         *)
(* Folds and recursive functions are reasoned about through a least        *)
(* counterexample (Steps, FoldExists): the induction theorems of the       *)
(* library take an operator, which no prover here can instantiate.         *)
(***************************************************************************)
EXTENDS Reading, FunctionTheorems, FiniteSetTheorems, SequenceTheorems,
        WellFoundedInduction, TLAPS

-----------------------------------------------------------------------------
(* Induction, by least counterexample, and what a fold returns. *)

\* A set of numbers has a least one.
LEMMA Least ==
    ASSUME NEW S, S \subseteq Nat, S # {}
    PROVE  \E m \in S : \A n \in S : m <= n
  <1>1. PICK R : IsWellFoundedOn(R, Nat) /\ \A i, j \in Nat : i < j => <<i, j>> \in R
    <2>1. \A i, j \in Nat : i < j => <<i, j>> \in OpToRel(<, Nat)
      BY DEF OpToRel
    <2>2. QED
      BY <2>1, NatLessThanWellFounded
  <1>2. IsWellFoundedOn(R, Nat)
    BY <1>1
  <1>3. PICK m \in S : \A n \in S : ~(<<n, m>> \in R)
    BY <1>2, WFMin, ZenonT(40)
  <1>4. \A n \in S : ~(n < m)
    BY <1>1, <1>3
  <1>5. QED
    BY <1>4

\* What holds at 0, and at a number if it did before it, holds up to n.
LEMMA Steps ==
    ASSUME NEW n \in Nat, NEW G, 0 \in G, \A i \in 1 .. n : i - 1 \in G => i \in G
    PROVE  \A i \in 0 .. n : i \in G
  <1> DEFINE bad == {i \in 0 .. n : i \notin G}
  <1>1. SUFFICES ASSUME bad # {} PROVE FALSE
    OBVIOUS
  <1>2. PICK m \in bad : \A i \in bad : m <= i
    <2>1. bad \subseteq Nat /\ bad # {}
      BY <1>1
    <2> HIDE DEF bad
    <2>2. QED
      BY <2>1, Least
  <1>3. m - 1 \in 0 .. n /\ m - 1 \notin bad
    BY <1>2
  <1>4. QED
    BY <1>2, <1>3

\* The greatest of a set of numbers that is bounded.
LEMMA TopIn ==
    ASSUME NEW n \in Nat, NEW x, x \subseteq 0 .. n, x # {}
    PROVE  /\ Cut!Max(x) \in x /\ \A i \in x : i <= Cut!Max(x)
           /\ \A i \in x : (\A j \in x : j <= i) => Cut!Max(x) = i
  <1>0. \A k \in x : k \in Nat
    OBVIOUS
  <1> DEFINE rise == {k \in Nat : \A i \in x : i <= k}
  <1>1. rise \subseteq Nat /\ n \in rise
    OBVIOUS
  <1>2. PICK m \in rise : \A k \in rise : m <= k
    BY <1>1, Least
  <1>3. m \in x
    <2>1. SUFFICES ASSUME m \notin x PROVE FALSE
      OBVIOUS
    <2>2. PICK i \in x : TRUE
      OBVIOUS
    <2>3. m - 1 \in rise
      BY <1>2, <2>1, <2>2
    <2>4. QED
      BY <1>2, <2>3
  <1>4. \E i \in x : \A j \in x : i >= j
    BY <1>2, <1>3
  <1>5. Cut!Max(x) \in x /\ \A j \in x : Cut!Max(x) >= j
    BY <1>4 DEF Cut!Max
  <1>6. ASSUME NEW i \in x, \A j \in x : j <= i PROVE Cut!Max(x) = i
    <2> HIDE DEF rise
    <2>1. i \in Nat /\ Cut!Max(x) \in Nat
      BY <1>0, <1>5
    <2>2. Cut!Max(x) >= i /\ Cut!Max(x) <= i
      BY <1>5, <1>6
    <2>3. QED
      BY <2>1, <2>2
  <1>7. QED
    BY <1>5, <1>6

\* The same from 1, as DOMAIN has it.
LEMMA TopOf ==
    ASSUME NEW n \in Nat, NEW x, x \subseteq 1 .. n, x # {}
    PROVE  /\ Cut!Max(x) \in x /\ \A i \in x : i <= Cut!Max(x)
           /\ \A i \in x : (\A j \in x : j <= i) => Cut!Max(x) = i
  <1>1. x \subseteq 0 .. n
    OBVIOUS
  <1>2. QED
    BY <1>1, TopIn

\* The least of a set of numbers.
LEMMA BottomOf ==
    ASSUME NEW x, x \subseteq Nat, x # {}
    PROVE  /\ Cut!Min(x) \in x /\ \A i \in x : Cut!Min(x) <= i
           /\ \A i \in x : (\A j \in x : i <= j) => Cut!Min(x) = i
  <1>1. \E i \in x : \A j \in x : i <= j
    BY Least
  <1>2. Cut!Min(x) \in x /\ \A j \in x : Cut!Min(x) <= j
    BY <1>1 DEF Cut!Min
  <1>3. ASSUME NEW i \in x, \A j \in x : i <= j PROVE Cut!Min(x) = i
    <2>1. i \in Nat /\ Cut!Min(x) \in Nat /\ i <= Cut!Min(x) /\ Cut!Min(x) <= i
      BY <1>2, <1>3
    <2>2. QED
      BY <2>1
  <1>4. QED
    BY <1>2, <1>3

\* What goes through a fold from left to right: f has the step of each member.
Folds(it, n, Acc, base, f) ==
    /\ it \in [SUBSET (1 .. n) -> Acc]
    /\ \A x \in SUBSET (1 .. n) :
          it[x] = IF x = {} THEN base ELSE f[it[x \ {Cut!Max(x)}]][Cut!Max(x)]

\* There is a function of the steps of a fold over 1 .. n.
LEMMA FoldExists ==
    ASSUME NEW n \in Nat, NEW Acc, NEW base \in Acc, NEW f \in [Acc -> [1 .. n -> Acc]]
    PROVE  \E it : Folds(it, n, Acc, base, f)
  <1> DEFINE Solves(it, m) ==
                \A x \in SUBSET (1 .. m) :
                   it[x] = IF x = {} THEN base ELSE f[it[x \ {Cut!Max(x)}]][Cut!Max(x)]
             good == {m \in 0 .. n : \E it \in [SUBSET (1 .. m) -> Acc] : Solves(it, m)}
  <1>1. 0 \in good
    <2> DEFINE it == [x \in SUBSET (1 .. 0) |-> base]
    <2>1. it \in [SUBSET (1 .. 0) -> Acc] /\ 1 .. 0 = {}
      OBVIOUS
    <2>2. Solves(it, 0)
      BY <2>1
    <2>3. \E i \in [SUBSET (1 .. 0) -> Acc] : Solves(i, 0)
      <3> HIDE DEF Solves, it
      <3>1. QED
        BY <2>1, <2>2
    <2>4. 0 \in 0 .. n
      OBVIOUS
    <2> HIDE DEF Solves, it
    <2>5. QED
      BY <2>3, <2>4
  <1>2. ASSUME NEW m \in 1 .. n, m - 1 \in good PROVE m \in good
    <2>1. PICK old \in [SUBSET (1 .. m - 1) -> Acc] : Solves(old, m - 1)
      BY <1>2
    <2> DEFINE it == [x \in SUBSET (1 .. m) |->
                        IF m \in x THEN f[old[x \ {m}]][m] ELSE old[x]]
    <2>2. ASSUME NEW x \in SUBSET (1 .. m)
          PROVE  /\ m \in x => x \ {m} \in SUBSET (1 .. m - 1) /\ Cut!Max(x) = m
                 /\ m \notin x => x \in SUBSET (1 .. m - 1)
      <3>1. CASE m \in x
        <4>1. x \subseteq 1 .. n /\ x # {} /\ m \in x /\ \A i \in x : i <= m
          BY <3>1
        <4>2. Cut!Max(x) = m
          <5> HIDE DEF it
          <5>1. QED
            BY <4>1, TopOf
        <4>3. QED
          BY <3>1, <4>2
      <3>2. CASE m \notin x
        BY <3>2
      <3>3. QED
        BY <3>1, <3>2
    <2>3. it \in [SUBSET (1 .. m) -> Acc]
      <3>1. ASSUME NEW x \in SUBSET (1 .. m) PROVE it[x] \in Acc
        <4>1. CASE m \in x
          <5>1. old[x \ {m}] \in Acc
            BY <2>1, <2>2, <4>1
          <5>2. QED
            BY <4>1, <5>1
        <4>2. CASE m \notin x
          BY <2>1, <2>2, <4>2
        <4>3. QED
          BY <4>1, <4>2
      <3>2. QED
        BY <3>1
    <2>4. Solves(it, m)
      <3>1. SUFFICES ASSUME NEW x \in SUBSET (1 .. m)
                     PROVE  it[x] = IF x = {} THEN base
                                    ELSE f[it[x \ {Cut!Max(x)}]][Cut!Max(x)]
        OBVIOUS
      <3>2. CASE m \in x
        <4>1. x \ {m} \in SUBSET (1 .. m) /\ m \notin x \ {m}
          OBVIOUS
        <4>2. it[x \ {m}] = old[x \ {m}] /\ it[x] = f[old[x \ {m}]][m]
          BY <3>2, <4>1
        <4>3. QED
          BY <2>2, <3>2, <4>2
      <3>3. CASE m \notin x
        <4>1. x \in SUBSET (1 .. m - 1) /\ it[x] = old[x]
          BY <2>2, <3>3
        <4>2. old[x] = IF x = {} THEN base ELSE f[old[x \ {Cut!Max(x)}]][Cut!Max(x)]
          BY <2>1, <4>1
        <4>3. it[x \ {Cut!Max(x)}] = old[x \ {Cut!Max(x)}]
          BY <3>3
        <4>4. QED
          BY <4>1, <4>2, <4>3
      <3>4. QED
        BY <3>2, <3>3
    <2>5. \E i \in [SUBSET (1 .. m) -> Acc] : Solves(i, m)
      <3> HIDE DEF Solves, it
      <3>1. QED
        BY <2>3, <2>4
    <2>6. m \in 0 .. n
      OBVIOUS
    <2> HIDE DEF Solves, it
    <2>7. QED
      BY <2>5, <2>6
  <1>3. n \in good
    <2>1. n \in 0 .. n
      OBVIOUS
    <2>2. \A i \in 0 .. n : i \in good
      BY <1>1, <1>2, Steps
    <2>3. QED
      BY <2>1, <2>2
  <1>4. QED
    BY <1>3 DEF Folds

-----------------------------------------------------------------------------
(* Texts. *)

Unit == Nat \X Nat
Text == Seq(Unit)
UnitsOf(t) == {t[i] : i \in Cut!Solid(t)}

\* What MapThenFoldSet takes away, one after the other, of 1 .. n.
LEMMA Initials ==
    ASSUME NEW n \in Nat
    PROVE  /\ 1 .. 0 = {} /\ 1 .. n \in SUBSET (1 .. n)
           /\ \A i \in 1 .. n : /\ 1 .. i \in SUBSET (1 .. n) /\ 1 .. i # {}
                                /\ Cut!Max(1 .. i) = i /\ (1 .. i) \ {i} = 1 .. i - 1
  <1>1. ASSUME NEW i \in 1 .. n PROVE Cut!Max(1 .. i) = i
    <2>1. 1 .. i \subseteq 1 .. n /\ 1 .. i # {} /\ i \in 1 .. i /\ \A j \in 1 .. i : j <= i
      OBVIOUS
    <2>2. QED
      BY <2>1, TopOf
  <1>2. QED
    BY <1>1

\* Texts are glued one after the other, white space between them.
LEMMA GlueFold ==
    ASSUME NEW ts \in Seq(Text), ts # <<>>
    PROVE  \E h : /\ h[0] = ts[1] /\ h[Len(ts) - 1] = Cut!Glue(ts)
                  /\ \A i \in 1 .. Len(ts) - 1 : h[i] = h[i - 1] \o <<Cut!White>> \o ts[i + 1]
  <1> DEFINE s == Tail(ts)
             n == Len(s)
             base == Head(ts)
             Step(a, b) == a \o <<Cut!White>> \o b
             f == [a \in Text |-> [i \in 1 .. n |-> Step(a, s[i])]]
             Run(it) == it = [x \in SUBSET (1 .. n) |->
                                IF x = {} THEN base
                                ELSE Step(it[x \ {Cut!Max(x)}], s[Cut!Max(x)])]
             run == CHOOSE it : Run(it)
  <1>1. /\ base \in Text /\ base = ts[1] /\ s \in Seq(Text) /\ n \in Nat /\ n = Len(ts) - 1
        /\ DOMAIN s = 1 .. n /\ \A i \in 1 .. n : s[i] = ts[i + 1] /\ s[i] \in Text
    BY HeadTailProperties, LenProperties, ElementOfSeq
  <1>2. <<Cut!White>> \in Text
    BY DEF Text, Unit, Cut!White
  <1>3. \A a, b \in Text : Step(a, b) \in Text
    BY <1>2, ConcatProperties DEF Text
  <1> HIDE DEF s, n, base, Step
  <1>4. f \in [Text -> [1 .. n -> Text]]
    BY <1>1, <1>3
  <1>5. PICK it : Folds(it, n, Text, base, f)
    <2> HIDE DEF f
    <2>1. QED
      BY <1>1, <1>4, FoldExists
  <1>6. Run(it)
    <2>1. ASSUME NEW x \in SUBSET (1 .. n), x # {}
          PROVE  f[it[x \ {Cut!Max(x)}]][Cut!Max(x)] = Step(it[x \ {Cut!Max(x)}], s[Cut!Max(x)])
      <3>1. Cut!Max(x) \in 1 .. n
        BY <1>1, <2>1, TopOf
      <3>2. it[x \ {Cut!Max(x)}] \in Text
        BY <1>5 DEF Folds
      <3>3. QED
        BY <3>1, <3>2
    <2>2. QED
      BY <1>5, <2>1 DEF Folds
  <1>7. Run(run)
    BY <1>6
  <1>8. Cut!Glue(ts) = run[1 .. n]
    BY <1>1, Zenon DEF Cut!Glue, Cut!FoldLeft, Cut!MapThenFoldSet, s, n, base, Step
  <1>9. \A x \in SUBSET (1 .. n) :
            run[x] = IF x = {} THEN base ELSE Step(run[x \ {Cut!Max(x)}], s[Cut!Max(x)])
    <2> HIDE DEF run
    <2>1. QED
      BY <1>7
  <1> HIDE DEF run, f, Run
  <1>10. run[{}] = base /\ \A i \in 1 .. n : run[1 .. i] = Step(run[1 .. i - 1], s[i])
    <2>1. ASSUME NEW i \in 1 .. n PROVE run[1 .. i] = Step(run[1 .. i - 1], s[i])
      <3>1. /\ 1 .. i \in SUBSET (1 .. n) /\ 1 .. i # {}
            /\ Cut!Max(1 .. i) = i /\ (1 .. i) \ {i} = 1 .. i - 1
        BY <1>1, Initials
      <3>2. run[1 .. i] = Step(run[(1 .. i) \ {Cut!Max(1 .. i)}], s[Cut!Max(1 .. i)])
        BY <1>9, <3>1
      <3>3. QED
        BY <3>1, <3>2
    <2>2. QED
      BY <1>9, <2>1
  <1>11. QED
    <2> DEFINE h == [i \in 0 .. n |-> run[1 .. i]]
    <2>1. /\ h[0] = base /\ h[n] = run[1 .. n]
          /\ \A i \in 1 .. n : h[i] = run[1 .. i] /\ h[i - 1] = run[1 .. i - 1]
      BY <1>1, <1>10, Initials
    <2> HIDE DEF h
    <2>2. \A i \in 1 .. n : h[i] = h[i - 1] \o <<Cut!White>> \o ts[i + 1]
      BY <1>1, <1>10, <2>1 DEF Step
    <2>3. h[Len(ts) - 1] = Cut!Glue(ts) /\ h[0] = ts[1]
      BY <1>1, <1>8, <2>1
    <2>4. QED
      BY <1>1, <2>2, <2>3

\* A text is a sequence of units, and its units are those that are not white.
LEMMA UnitsAre ==
    ASSUME NEW t \in Text
    PROVE  /\ Len(t) \in Nat /\ DOMAIN t = 1 .. Len(t) /\ \A i \in 1 .. Len(t) : t[i] \in Unit
           /\ UnitsOf(t) \subseteq Unit \ {Cut!White}
           /\ Cut!Solid(t) = {i \in 1 .. Len(t) : t[i] # Cut!White}
           /\ \A u : u \in UnitsOf(t) <=> u # Cut!White /\ \E i \in 1 .. Len(t) : t[i] = u
  <1>1. Len(t) \in Nat /\ DOMAIN t = 1 .. Len(t) /\ \A i \in 1 .. Len(t) : t[i] \in Unit
    BY DEF Text
  <1>2. Cut!Solid(t) = {i \in 1 .. Len(t) : t[i] # Cut!White}
    BY <1>1 DEF Cut!Solid
  <1>3. \A u : u \in UnitsOf(t) <=> u # Cut!White /\ \E i \in 1 .. Len(t) : t[i] = u
    BY <1>2 DEF UnitsOf
  <1>4. UnitsOf(t) \subseteq Unit \ {Cut!White}
    BY <1>1, <1>3
  <1>5. QED
    BY <1>1, <1>2, <1>3, <1>4

\* A text put after another.
LEMMA UnitsConcat ==
    ASSUME NEW a \in Text, NEW b \in Text
    PROVE  /\ a \o b \in Text /\ Len(a \o b) = Len(a) + Len(b)
           /\ UnitsOf(a \o b) = UnitsOf(a) \cup UnitsOf(b)
  <1>1. /\ a \o b \in Text /\ Len(a \o b) = Len(a) + Len(b)
        /\ \A i \in 1 .. Len(a) + Len(b) :
              (a \o b)[i] = IF i <= Len(a) THEN a[i] ELSE b[i - Len(a)]
    BY ConcatProperties DEF Text
  <1>2. ASSUME NEW u, u # Cut!White
        PROVE  (\E i \in 1 .. Len(a \o b) : (a \o b)[i] = u) <=>
                  (\E i \in 1 .. Len(a) : a[i] = u) \/ (\E i \in 1 .. Len(b) : b[i] = u)
    <2>1. Len(a) \in Nat /\ Len(b) \in Nat
      BY UnitsAre
    <2>2. ASSUME NEW i \in 1 .. Len(a) PROVE i \in 1 .. Len(a \o b) /\ (a \o b)[i] = a[i]
      BY <1>1, <2>1
    <2>3. ASSUME NEW i \in 1 .. Len(b)
          PROVE  i + Len(a) \in 1 .. Len(a \o b) /\ (a \o b)[i + Len(a)] = b[i]
      BY <1>1, <2>1
    <2>4. ASSUME NEW i \in 1 .. Len(a \o b)
          PROVE  \/ i \in 1 .. Len(a) /\ (a \o b)[i] = a[i]
                 \/ i - Len(a) \in 1 .. Len(b) /\ (a \o b)[i] = b[i - Len(a)]
      BY <1>1, <2>1
    <2>5. QED
      BY <2>2, <2>3, <2>4
  <1>3. ASSUME NEW u PROVE u \in UnitsOf(a \o b) <=> u \in UnitsOf(a) \/ u \in UnitsOf(b)
    BY <1>1, <1>2, UnitsAre
  <1>4. QED
    BY <1>1, <1>3

\* Nothing, and white space, hold no unit.
LEMMA UnitsWhite ==
    /\ <<>> \in Text /\ Len(<<>>) = 0 /\ UnitsOf(<<>>) = {}
    /\ <<Cut!White>> \in Text /\ Len(<<Cut!White>>) = 1 /\ UnitsOf(<<Cut!White>>) = {}
  <1>1. <<>> \in Text /\ <<Cut!White>> \in Text
    BY DEF Text, Unit, Cut!White
  <1>2. Len(<<>>) = 0 /\ Len(<<Cut!White>>) = 1 /\ <<Cut!White>>[1] = Cut!White
    OBVIOUS
  <1>3. \A u : u \notin UnitsOf(<<>>)
    BY <1>1, <1>2, UnitsAre
  <1>4. \A u : u \notin UnitsOf(<<Cut!White>>)
    BY <1>1, <1>2, UnitsAre
  <1>5. QED
    BY <1>1, <1>2, <1>3, <1>4

\* A part of a text holds the units of its places.
LEMMA UnitsSub ==
    ASSUME NEW t \in Text, NEW a \in Nat \ {0}, NEW b \in Nat, b <= Len(t)
    PROVE  /\ SubSeq(t, a, b) \in Text
           /\ Len(SubSeq(t, a, b)) = IF a <= b THEN b - a + 1 ELSE 0
           /\ \A u : u \in UnitsOf(SubSeq(t, a, b)) <=>
                        u # Cut!White /\ \E i \in a .. b : t[i] = u
  <1>1. \A i \in a .. b : i \in 1 .. Len(t) /\ t[i] \in Unit
    BY UnitsAre
  <1>2. /\ SubSeq(t, a, b) \in Text
        /\ Len(SubSeq(t, a, b)) = IF a <= b THEN b - a + 1 ELSE 0
        /\ \A i \in 1 .. b - a + 1 : SubSeq(t, a, b)[i] = t[a + i - 1]
    BY <1>1, SubSeqProperties DEF Text
  <1>3. ASSUME NEW u
        PROVE  (\E i \in 1 .. Len(SubSeq(t, a, b)) : SubSeq(t, a, b)[i] = u) <=>
                  \E i \in a .. b : t[i] = u
    <2>1. ASSUME NEW i \in 1 .. Len(SubSeq(t, a, b))
          PROVE  a + i - 1 \in a .. b /\ SubSeq(t, a, b)[i] = t[a + i - 1]
      BY <1>2
    <2>2. ASSUME NEW i \in a .. b
          PROVE  i - a + 1 \in 1 .. Len(SubSeq(t, a, b)) /\ SubSeq(t, a, b)[i - a + 1] = t[i]
      BY <1>2
    <2>3. QED
      BY <2>1, <2>2
  <1>4. QED
    BY <1>2, <1>3, UnitsAre

\* Cut in two, a text keeps its units.
LEMMA UnitsSplit ==
    ASSUME NEW t \in Text, NEW k \in 0 .. Len(t)
    PROVE  /\ SubSeq(t, 1, k) \in Text /\ SubSeq(t, k + 1, Len(t)) \in Text
           /\ UnitsOf(SubSeq(t, 1, k)) \cup UnitsOf(SubSeq(t, k + 1, Len(t))) = UnitsOf(t)
  <1>1. Len(t) \in Nat /\ k \in Nat /\ k + 1 \in Nat \ {0} /\ 1 \in Nat \ {0} /\ k <= Len(t)
    BY UnitsAre
  <1>2. ASSUME NEW u
        PROVE  u \in UnitsOf(t) <=>
                  u \in UnitsOf(SubSeq(t, 1, k)) \/ u \in UnitsOf(SubSeq(t, k + 1, Len(t)))
    <2>1. \A i : i \in 1 .. Len(t) <=> i \in 1 .. k \/ i \in k + 1 .. Len(t)
      BY <1>1
    <2>2. u \in UnitsOf(SubSeq(t, 1, k)) <=> u # Cut!White /\ \E i \in 1 .. k : t[i] = u
      BY <1>1, UnitsSub
    <2>3. u \in UnitsOf(SubSeq(t, k + 1, Len(t))) <=>
             u # Cut!White /\ \E i \in k + 1 .. Len(t) : t[i] = u
      BY <1>1, UnitsSub
    <2>4. u \in UnitsOf(t) <=> u # Cut!White /\ \E i \in 1 .. Len(t) : t[i] = u
      BY UnitsAre
    <2>5. QED
      BY <2>1, <2>2, <2>3, <2>4
  <1>3. QED
    BY <1>1, <1>2, UnitsSub

\* Stripped of white space at its ends, a text keeps its units.
LEMMA UnitsStrip ==
    ASSUME NEW t \in Text
    PROVE  /\ Cut!Strip(t) \in Text /\ UnitsOf(Cut!Strip(t)) = UnitsOf(t)
           /\ Cut!RStrip(t) \in Text /\ UnitsOf(Cut!RStrip(t)) = UnitsOf(t)
           /\ Cut!LStrip(t) \in Text /\ UnitsOf(Cut!LStrip(t)) = UnitsOf(t)
           /\ Len(Cut!LStrip(t)) <= Len(t)
           /\ Cut!Blank(t) <=> UnitsOf(t) = {}
           /\ Cut!Strip(t) = <<>> <=> UnitsOf(t) = {}
  <1>1. Cut!Blank(t) <=> UnitsOf(t) = {}
    BY DEF Cut!Blank, UnitsOf
  <1>2. CASE Cut!Blank(t)
    <2>1. Cut!Strip(t) = <<>> /\ Cut!RStrip(t) = <<>> /\ Cut!LStrip(t) = <<>>
      BY <1>2 DEF Cut!Strip, Cut!RStrip, Cut!LStrip
    <2>2. UnitsOf(t) = {} /\ Len(t) \in Nat
      BY <1>1, <1>2, UnitsAre
    <2>3. QED
      BY <1>1, <2>1, <2>2, UnitsWhite
  <1>3. CASE ~Cut!Blank(t)
    <2> DEFINE a == Cut!Min(Cut!Solid(t))
               b == Cut!Max(Cut!Solid(t))
    <2>1. Cut!Solid(t) \subseteq 1 .. Len(t) /\ Cut!Solid(t) \subseteq Nat /\ Cut!Solid(t) # {}
      BY <1>3, UnitsAre DEF Cut!Blank
    <2>2. Len(t) \in Nat
      BY UnitsAre
    <2>3. /\ a \in Cut!Solid(t) /\ b \in Cut!Solid(t)
          /\ \A i \in Cut!Solid(t) : a <= i /\ i <= b
      BY <2>1, <2>2, BottomOf, TopOf
    <2> HIDE DEF a, b
    <2>4. a \in 1 .. Len(t) /\ b \in 1 .. Len(t) /\ a <= b
      BY <2>1, <2>3
    <2>5. ASSUME NEW u, NEW m \in {1, a}, NEW n \in {b, Len(t)}
          PROVE  /\ SubSeq(t, m, n) \in Text /\ Len(SubSeq(t, m, n)) = n - m + 1
                 /\ u \in UnitsOf(SubSeq(t, m, n)) <=> u \in UnitsOf(t)
      <3>1. /\ m \in Nat \ {0} /\ n \in Nat /\ n <= Len(t) /\ m <= n
        BY <2>2, <2>4
      <3>2. \A i \in 1 .. Len(t) : t[i] # Cut!White => i \in m .. n
        <4>1. ASSUME NEW i \in 1 .. Len(t), t[i] # Cut!White PROVE i \in m .. n
          <5>1. i \in Cut!Solid(t)
            BY <4>1, UnitsAre
          <5>2. a <= i /\ i <= b
            BY <2>3, <5>1
          <5>3. QED
            BY <2>2, <2>4, <5>2
        <4>2. QED
          BY <4>1
      <3>3. \A i \in m .. n : i \in 1 .. Len(t)
        BY <2>2, <3>1
      <3>4. u \in UnitsOf(SubSeq(t, m, n)) <=> u # Cut!White /\ \E i \in m .. n : t[i] = u
        BY <3>1, UnitsSub
      <3>5. u \in UnitsOf(t) <=> u # Cut!White /\ \E i \in 1 .. Len(t) : t[i] = u
        BY UnitsAre
      <3>6. QED
        BY <3>1, <3>2, <3>3, <3>4, <3>5, UnitsSub
    <2>6. /\ Cut!Strip(t) = SubSeq(t, a, b) /\ Cut!RStrip(t) = SubSeq(t, 1, b)
          /\ Cut!LStrip(t) = SubSeq(t, a, Len(t))
      BY <1>3 DEF Cut!Strip, Cut!RStrip, Cut!LStrip, a, b
    <2>7. Cut!Strip(t) # <<>>
      <3>1. Len(SubSeq(t, a, b)) = b - a + 1
        BY <2>5
      <3>2. Len(SubSeq(t, a, b)) # 0
        BY <2>2, <2>4, <3>1
      <3>3. QED
        BY <2>6, <3>2, UnitsWhite
    <2>8. Len(Cut!LStrip(t)) <= Len(t)
      BY <2>2, <2>4, <2>5, <2>6
    <2>9. QED
      BY <1>1, <1>3, <2>5, <2>6, <2>7, <2>8
  <1>4. QED
    BY <1>2, <1>3

\* A text with no white space at its ends.
Firm(t) == t \in Text /\ Len(t) # 0 /\ t[1] # Cut!White /\ t[Len(t)] # Cut!White

\* A firm text is not empty.
LEMMA FirmUnits ==
    ASSUME NEW t, Firm(t)
    PROVE  /\ t \in Text /\ UnitsOf(t) # {} /\ t # <<>> /\ Len(t) \in Nat \ {0}
           /\ t[1] \in UnitsOf(t) /\ t[Len(t)] \in UnitsOf(t)
  <1>1. t \in Text /\ Len(t) \in Nat /\ 1 \in 1 .. Len(t) /\ Len(t) \in 1 .. Len(t)
    BY UnitsAre DEF Firm
  <1>2. t[1] \in UnitsOf(t) /\ t[Len(t)] \in UnitsOf(t)
    BY <1>1, UnitsAre DEF Firm
  <1>3. QED
    BY <1>1, <1>2, UnitsWhite DEF Firm

\* What stripping leaves of a text that is not white, is firm on the side stripped.
LEMMA FirmStrip ==
    ASSUME NEW t \in Text, UnitsOf(t) # {}
    PROVE  /\ Firm(Cut!Strip(t))
           /\ Len(Cut!LStrip(t)) # 0 /\ Cut!LStrip(t)[1] # Cut!White
  <1> DEFINE a == Cut!Min(Cut!Solid(t))
             b == Cut!Max(Cut!Solid(t))
  <1>1. ~Cut!Blank(t)
    BY UnitsStrip
  <1>2. Cut!Solid(t) \subseteq 1 .. Len(t) /\ Cut!Solid(t) \subseteq Nat /\ Cut!Solid(t) # {}
    BY <1>1, UnitsAre DEF Cut!Blank
  <1>3. Len(t) \in Nat /\ \A i \in 1 .. Len(t) : t[i] \in Unit
    BY UnitsAre
  <1>4. a \in Cut!Solid(t) /\ b \in Cut!Solid(t) /\ \A i \in Cut!Solid(t) : a <= i /\ i <= b
    BY <1>2, <1>3, BottomOf, TopOf
  <1>5. Cut!Strip(t) = SubSeq(t, a, b) /\ Cut!LStrip(t) = SubSeq(t, a, Len(t))
    BY <1>1 DEF Cut!Strip, Cut!LStrip
  <1> HIDE DEF a, b
  <1>6. /\ a \in 1 .. Len(t) /\ b \in 1 .. Len(t) /\ a <= b
        /\ t[a] # Cut!White /\ t[b] # Cut!White
    BY <1>2, <1>4, UnitsAre
  <1>7. ASSUME NEW n \in 1 .. Len(t), a <= n
        PROVE  /\ Len(SubSeq(t, a, n)) = n - a + 1 /\ SubSeq(t, a, n)[1] = t[a]
               /\ SubSeq(t, a, n)[n - a + 1] = t[n] /\ SubSeq(t, a, n) \in Text
    <2>1. \A i \in a .. n : t[i] \in Unit
      BY <1>3, <1>6
    <2>2. /\ Len(SubSeq(t, a, n)) = n - a + 1 /\ SubSeq(t, a, n) \in Text
          /\ \A i \in 1 .. n - a + 1 : SubSeq(t, a, n)[i] = t[a + i - 1]
      BY <1>3, <1>6, <1>7, <2>1, SubSeqProperties DEF Text
    <2>3. 1 \in 1 .. n - a + 1 /\ n - a + 1 \in 1 .. n - a + 1
      BY <1>3, <1>6, <1>7
    <2>4. a + 1 - 1 = a /\ a + (n - a + 1) - 1 = n
      BY <1>3, <1>6, <1>7
    <2>5. QED
      BY <2>2, <2>3, <2>4
  <1>8. Firm(Cut!Strip(t))
    <2>1. b - a + 1 # 0
      BY <1>3, <1>6
    <2>2. QED
      BY <1>5, <1>6, <1>7, <2>1 DEF Firm
  <1>9. Len(Cut!LStrip(t)) # 0 /\ Cut!LStrip(t)[1] # Cut!White
    <2>1. Len(t) - a + 1 # 0 /\ Len(t) \in 1 .. Len(t) /\ a <= Len(t)
      BY <1>3, <1>6
    <2>2. QED
      BY <1>5, <1>6, <1>7, <2>1
  <1>10. QED
    BY <1>8, <1>9

\* Texts glued keep their units, and stay firm; glued to an empty one, nothing.
LEMMA GlueUnits ==
    ASSUME NEW ts \in Seq(Text)
    PROVE  /\ Cut!Glue(ts) \in Text
           /\ \A u : u \in UnitsOf(Cut!Glue(ts)) <=> \E i \in 1 .. Len(ts) : u \in UnitsOf(ts[i])
           /\ ts # <<>> /\ (\A i \in 1 .. Len(ts) : Firm(ts[i])) => Firm(Cut!Glue(ts))
  <1>1. CASE ts = <<>>
    <2>1. Cut!Glue(ts) = <<>> /\ Len(ts) = 0
      BY <1>1 DEF Cut!Glue
    <2>2. QED
      BY <1>1, <2>1, UnitsWhite
  <1>2. CASE ts # <<>>
    <2>1. PICK h : /\ h[0] = ts[1] /\ h[Len(ts) - 1] = Cut!Glue(ts)
                   /\ \A i \in 1 .. Len(ts) - 1 :
                         h[i] = h[i - 1] \o <<Cut!White>> \o ts[i + 1]
      BY <1>2, GlueFold
    <2>2. Len(ts) \in Nat \ {0} /\ \A i \in 1 .. Len(ts) : ts[i] \in Text
      BY <1>2
    <2> DEFINE firm == \A i \in 1 .. Len(ts) : Firm(ts[i])
               Good(i) == /\ h[i] \in Text
                          /\ \A u : u \in UnitsOf(h[i]) <=>
                                       \E k \in 1 .. i + 1 : u \in UnitsOf(ts[k])
                          /\ firm => Firm(h[i])
               G == {i \in 0 .. Len(ts) - 1 : Good(i)}
    <2>3. 0 \in G
      <3>1. 0 \in 0 .. Len(ts) - 1 /\ 1 .. 0 + 1 = {1} /\ 1 \in 1 .. Len(ts)
        BY <2>2
      <3>2. QED
        BY <2>1, <2>2, <3>1
    <2>4. ASSUME NEW i \in 1 .. Len(ts) - 1, i - 1 \in G PROVE i \in G
      <3>1. i \in 0 .. Len(ts) - 1 /\ i + 1 \in 1 .. Len(ts) /\ i - 1 + 1 = i
        BY <2>2
      <3>2. Good(i - 1) /\ ts[i + 1] \in Text
        BY <2>2, <2>4, <3>1
      <3> DEFINE x == h[i - 1] \o <<Cut!White>>
                 y == ts[i + 1]
      <3>3. x \in Text /\ Len(x) = Len(h[i - 1]) + 1 /\ UnitsOf(x) = UnitsOf(h[i - 1])
        <4>1. h[i - 1] \in Text /\ <<Cut!White>> \in Text
          BY <3>2, UnitsWhite
        <4>2. /\ x \in Text /\ Len(x) = Len(h[i - 1]) + Len(<<Cut!White>>)
              /\ UnitsOf(x) = UnitsOf(h[i - 1]) \cup UnitsOf(<<Cut!White>>)
          <5> HIDE DEF Good
          <5>1. QED
            BY <4>1, UnitsConcat
        <4>3. QED
          BY <4>2, UnitsWhite
      <3>4. h[i] = x \o y /\ y \in Text
        BY <2>1, <3>2
      <3>5. h[i] \in Text /\ UnitsOf(h[i]) = UnitsOf(h[i - 1]) \cup UnitsOf(y)
        BY <3>3, <3>4, UnitsConcat
      <3>6. \A k : k \in 1 .. i + 1 <=> k \in 1 .. i \/ k = i + 1
        BY <2>2
      <3>7. ASSUME firm PROVE Firm(h[i])
        <4>1. Firm(h[i - 1]) /\ Firm(y)
          BY <3>1, <3>2, <3>7
        <4>2. /\ Len(h[i]) = Len(h[i - 1]) + 1 + Len(y)
              /\ h[i][1] = h[i - 1][1] /\ h[i][Len(h[i])] = y[Len(y)]
          <5> HIDE DEF x, y
          <5>1. Len(h[i - 1]) \in Nat \ {0} /\ Len(y) \in Nat \ {0}
            BY <4>1, FirmUnits
          <5>2. /\ x \in Seq(Unit) /\ y \in Seq(Unit) /\ Len(x) = Len(h[i - 1]) + 1
                /\ h[i] = x \o y /\ Len(h[i]) = Len(x) + Len(y)
            BY <3>3, <3>4, UnitsConcat DEF Text
          <5>3. x[1] = h[i - 1][1]
            <6>1. h[i - 1] \in Seq(Unit) /\ <<Cut!White>> \in Seq(Unit) /\ Len(<<Cut!White>>) = 1
              BY <3>2, UnitsWhite DEF Text
            <6>2. 1 \in 1 .. Len(h[i - 1]) + 1 /\ 1 <= Len(h[i - 1])
              BY <5>1
            <6>3. QED
              BY <6>1, <6>2, ConcatProperties DEF x
          <5>4. /\ 1 \in 1 .. Len(x) + Len(y) /\ 1 <= Len(x)
                /\ Len(x) + Len(y) \in 1 .. Len(x) + Len(y) /\ ~(Len(x) + Len(y) <= Len(x))
                /\ Len(x) + Len(y) - Len(x) = Len(y)
            <6>1. \A k, m \in Nat \ {0} :
                     /\ 1 \in 1 .. k + m /\ 1 <= k /\ k + m \in 1 .. k + m
                     /\ ~(k + m <= k) /\ k + m - k = m
              OBVIOUS
            <6>2. Len(x) \in Nat \ {0} /\ Len(y) \in Nat \ {0}
              BY <5>1, <5>2
            <6>3. QED
              BY <6>1, <6>2
          <5>5. h[i][1] = x[1] /\ h[i][Len(x) + Len(y)] = y[Len(y)]
            BY <5>2, <5>4, ConcatProperties
          <5>6. QED
            BY <5>2, <5>3, <5>5
        <4>3. Len(h[i]) # 0
          <5>1. Len(h[i - 1]) \in Nat \ {0} /\ Len(y) \in Nat \ {0}
            BY <4>1, FirmUnits
          <5>2. \A k, m \in Nat \ {0} : k + 1 + m # 0
            OBVIOUS
          <5>3. Len(h[i - 1]) + 1 + Len(y) # 0
            BY <5>1, <5>2
          <5>4. QED
            BY <4>2, <5>3
        <4>4. QED
          BY <3>5, <4>1, <4>2, <4>3 DEF Firm
      <3>8. QED
        <4> HIDE DEF firm, x
        <4>1. \A u : u \in UnitsOf(h[i]) <=> \E k \in 1 .. i + 1 : u \in UnitsOf(ts[k])
          BY <3>1, <3>2, <3>5, <3>6
        <4>2. QED
          BY <3>1, <3>5, <3>7, <4>1
    <2>5. Len(ts) - 1 \in G
      <3>1. Len(ts) - 1 \in Nat /\ Len(ts) - 1 \in 0 .. Len(ts) - 1
        BY <2>2
      <3> HIDE DEF G
      <3>2. \A i \in 0 .. Len(ts) - 1 : i \in G
        BY <2>3, <2>4, <3>1, Steps
      <3>3. QED
        BY <3>1, <3>2
    <2>6. Good(Len(ts) - 1) /\ Len(ts) - 1 + 1 = Len(ts)
      BY <2>2, <2>5
    <2>7. QED
      BY <2>1, <2>6
  <1>3. QED
    BY <1>1, <1>2

\* The places of a sequence made of two.
LEMMA Joins ==
    ASSUME NEW X, NEW a \in Seq(X), NEW b \in Seq(X)
    PROVE  /\ Len(a \o b) = Len(a) + Len(b) /\ a \o b \in Seq(X)
           /\ Len(a) \in Nat /\ Len(b) \in Nat /\ Len(a \o b) \in Nat
           /\ \A k \in 1 .. Len(a) : k \in 1 .. Len(a \o b) /\ (a \o b)[k] = a[k]
           /\ \A k \in 1 .. Len(b) :
                 k + Len(a) \in 1 .. Len(a \o b) /\ (a \o b)[k + Len(a)] = b[k]
           /\ \A k \in 1 .. Len(a \o b) :
                 \/ k \in 1 .. Len(a) /\ (a \o b)[k] = a[k]
                 \/ k - Len(a) \in 1 .. Len(b) /\ (a \o b)[k] = b[k - Len(a)]
  <1>1. /\ Len(a \o b) = Len(a) + Len(b) /\ a \o b \in Seq(X)
        /\ \A k \in 1 .. Len(a) + Len(b) :
              (a \o b)[k] = IF k <= Len(a) THEN a[k] ELSE b[k - Len(a)]
    BY ConcatProperties
  <1>2. Len(a) \in Nat /\ Len(b) \in Nat
    OBVIOUS
  <1>3. ASSUME NEW k \in 1 .. Len(b)
        PROVE  k + Len(a) \in 1 .. Len(a) + Len(b) /\ ~(k + Len(a) <= Len(a)) /\ k + Len(a) - Len(a) = k
    BY <1>2
  <1>4. QED
    BY <1>1, <1>2, <1>3
-----------------------------------------------------------------------------
(* Numbers in order. *)

\* The Cardinality of the instance is the library's.
LEMMA SameCardinality == \A S : Cut!Cardinality(S) = Cardinality(S)
  BY Zenon DEF Cut!Cardinality, Cardinality

\* Sets of places are finite.
LEMMA FinitePart ==
    ASSUME NEW n \in Nat
    PROVE  \A T \in SUBSET (1 .. n) : IsFiniteSet(T) /\ Cardinality(T) \in Nat
  <1>1. IsFiniteSet(1 .. n)
    BY FS_Interval
  <1>2. ASSUME NEW T \in SUBSET (1 .. n) PROVE IsFiniteSet(T)
    BY <1>1, FS_Subset
  <1>3. QED
    BY <1>2, FS_CardinalityType

\* How many of S are below x.
Below(S, x) == Cardinality({y \in S : y < x})

\* The places below one are fewer than those below a later one.
LEMMA BelowIs ==
    ASSUME NEW n \in Nat, NEW S \in SUBSET (1 .. n)
    PROVE  /\ Cardinality(S) \in Nat
           /\ \A x \in Nat : Below(S, x) \in Nat /\ Below(S, x) <= Cardinality(S)
           /\ \A x \in S, y \in Nat : x < y => Below(S, x) < Below(S, y)
           /\ \A x \in S : Below(S, x) < Cardinality(S)
  <1>0. \A x \in S : x \in Nat
    OBVIOUS
  <1>1. \A T \in SUBSET (1 .. n) : IsFiniteSet(T) /\ Cardinality(T) \in Nat
    BY FinitePart
  <1>2. \A x : {y \in S : y < x} \in SUBSET (1 .. n) /\ {y \in S : y < x} \subseteq S
    OBVIOUS
  <1>3. \A x \in Nat : Below(S, x) \in Nat /\ Below(S, x) <= Cardinality(S)
    BY <1>1, <1>2, FS_Subset DEF Below
  <1>4. ASSUME NEW x \in S, NEW T \in SUBSET S, x \in T, \A z \in S : z < x => z \in T
        PROVE  Below(S, x) < Cardinality(T)
    <2> DEFINE low == {z \in S : z < x}
    <2>0. \A z : z \in low => z \in T /\ z # x
      <3>1. ~(x < x)
        BY <1>0
      <3>2. QED
        BY <1>4, <3>1
    <2>1. low \subseteq T \ {x} /\ T \ {x} \in SUBSET (1 .. n)
      <3> HIDE DEF low
      <3>1. QED
        BY <2>0
    <2>2. IsFiniteSet(T) /\ Cardinality(T) \in Nat
      BY <1>1
    <2>3. Cardinality(T \ {x}) = Cardinality(T) - 1 /\ IsFiniteSet(T \ {x})
      BY <1>4, <2>2, FS_RemoveElement
    <2>4. Cardinality(low) <= Cardinality(T \ {x}) /\ Cardinality(low) \in Nat
      BY <1>1, <2>1, <2>3, FS_Subset
    <2>5. Below(S, x) = Cardinality(low)
      BY DEF Below
    <2> HIDE DEF low
    <2>6. QED
      BY <2>2, <2>3, <2>4, <2>5
  <1>5. ASSUME NEW x \in S, NEW y \in Nat, x < y PROVE Below(S, x) < Below(S, y)
    <2> DEFINE T == {z \in S : z < y}
    <2>1. T \in SUBSET S /\ x \in T /\ \A z \in S : z < x => z \in T
      BY <1>5
    <2>2. Below(S, y) = Cardinality(T)
      BY DEF Below
    <2> HIDE DEF T
    <2>3. QED
      BY <1>4, <2>1, <2>2
  <1>6. \A x \in S : Below(S, x) < Cardinality(S)
    BY <1>4
  <1>7. QED
    BY <1>1, <1>3, <1>5, <1>6

\* Each number below the size is how many are below one of them.
LEMMA EachRank ==
    ASSUME NEW n \in Nat, NEW S \in SUBSET (1 .. n), NEW i \in 1 .. Cardinality(S)
    PROVE  \E x \in S : Below(S, x) = i - 1
  <1> DEFINE T(m) == {y \in S : y < m + 1}
             G == {m \in 0 .. n : \A k \in 1 .. Cardinality(T(m)) : \E x \in S : Below(S, x) = k - 1}
  <1>0. \A x \in S : x \in Nat /\ 0 < x /\ x <= n
    OBVIOUS
  <1>1. ASSUME NEW m
               PROVE T(m) \in SUBSET (1 .. n) /\ IsFiniteSet(T(m)) /\ Cardinality(T(m)) \in Nat
    <2>1. T(m) \in SUBSET (1 .. n)
      OBVIOUS
    <2> HIDE DEF T
    <2>2. QED
      BY <2>1, FinitePart
  <1>2. 0 \in G
    <2>1. T(0) = {} /\ 0 \in 0 .. n
      <3>1. \A x \in S : ~(x < 0 + 1)
        BY <1>0
      <3>2. \A x : x \notin T(0)
        BY <3>1
      <3> HIDE DEF T
      <3>3. QED
        BY <3>2
    <2>2. Cardinality(T(0)) = 0
      BY <2>1, FS_EmptySet
    <2> HIDE DEF T
    <2>3. QED
      BY <2>1, <2>2
  <1>3. ASSUME NEW m \in 1 .. n, m - 1 \in G PROVE m \in G
    <2>1. \A k \in 1 .. Cardinality(T(m - 1)) : \E x \in S : Below(S, x) = k - 1
      BY <1>3
    <2>2. CASE m \in S
      <3>1. T(m) = T(m - 1) \cup {m} /\ m \notin T(m - 1)
        <4>1. \A x \in S : x < m + 1 <=> x < m - 1 + 1 \/ x = m
          BY <1>0
        <4>2. ~(m < m - 1 + 1)
          OBVIOUS
        <4>3. \A x : x \in T(m) <=> x \in T(m - 1) \/ x = m
          BY <2>2, <4>1
        <4>4. m \notin T(m - 1)
          BY <4>2
        <4> HIDE DEF T
        <4>5. QED
          BY <4>3, <4>4
      <3>2. Cardinality(T(m)) = Cardinality(T(m - 1)) + 1
        <4> HIDE DEF T
        <4>1. QED
          BY <1>1, <3>1, FS_AddElement
      <3>3. Below(S, m) = Cardinality(T(m - 1))
        <4>1. T(m - 1) = {y \in S : y < m}
          BY <2>2
        <4>2. QED
          BY <4>1 DEF Below
      <3> HIDE DEF T
      <3>4. Cardinality(T(m - 1)) \in Nat
        BY <1>1
      <3>5. ASSUME NEW k \in 1 .. Cardinality(T(m)) PROVE \E x \in S : Below(S, x) = k - 1
        <4>1. CASE k \in 1 .. Cardinality(T(m - 1))
          BY <2>1, <4>1
        <4>2. CASE k = Cardinality(T(m - 1)) + 1
          <5>1. Below(S, m) = k - 1
            BY <3>3, <3>4, <4>2
          <5>2. QED
            BY <2>2, <5>1
        <4>3. QED
          BY <3>2, <3>4, <4>1, <4>2
      <3>6. QED
        BY <3>5
    <2>3. CASE m \notin S
      <3>1. T(m) = T(m - 1)
        <4>1. \A x \in S : x < m + 1 <=> x < m - 1 + 1
          BY <1>0, <2>3
        <4>2. \A x : x \in T(m) <=> x \in T(m - 1)
          BY <4>1
        <4> HIDE DEF T
        <4>3. QED
          BY <4>2
      <3> HIDE DEF T
      <3>2. QED
        BY <2>1, <3>1
    <2>4. QED
      BY <2>2, <2>3
  <1>4. n \in G
    <2> HIDE DEF G
    <2>1. \A m \in 0 .. n : m \in G
      BY <1>2, <1>3, Steps
    <2>2. QED
      BY <2>1
  <1>5. T(n) = S
    <2>1. \A x \in S : x < n + 1
      BY <1>0
    <2>2. QED
      BY <2>1
  <1> HIDE DEF T
  <1>6. QED
    BY <1>4, <1>5

\* Ascending gives every element of a set, once, in order.
LEMMA InOrder ==
    ASSUME NEW n \in Nat, NEW S, S \subseteq 1 .. n
    PROVE  /\ Cut!Ascending(S) \in Seq(S) /\ Cut!Ascending(S) \in Seq(Nat)
           /\ Len(Cut!Ascending(S)) = Cardinality(S) /\ Cardinality(S) \in Nat
           /\ DOMAIN Cut!Ascending(S) = 1 .. Len(Cut!Ascending(S))
           /\ \A i \in 1 .. Len(Cut!Ascending(S)) :
                 Cut!Ascending(S)[i] \in S /\ Below(S, Cut!Ascending(S)[i]) = i - 1
           /\ \A x \in S : \E i \in 1 .. Len(Cut!Ascending(S)) : Cut!Ascending(S)[i] = x
           /\ \A i, j \in 1 .. Len(Cut!Ascending(S)) :
                 i < j => Cut!Ascending(S)[i] < Cut!Ascending(S)[j]
           /\ S = {} <=> Cut!Ascending(S) = <<>>
  <1> DEFINE c == Cardinality(S)
             rise == Cut!Ascending(S)
  <1>1. c \in Nat /\ \A x \in S : Below(S, x) \in Nat /\ Below(S, x) < c
    BY BelowIs
  <1>2. rise = [i \in 1 .. c |-> CHOOSE x \in S : Below(S, x) = i - 1]
    <2>1. \A x : Cut!Cardinality({y \in S : y < x}) = Below(S, x)
      BY SameCardinality DEF Below
    <2>2. c = Cut!Cardinality(S)
      BY SameCardinality
    <2>3. QED
      BY <2>1, <2>2 DEF Cut!Ascending
  <1> HIDE DEF rise, c
  <1>0. \A x \in S : x \in Nat
    OBVIOUS
  <1>3. ASSUME NEW i \in 1 .. c PROVE rise[i] \in S /\ Below(S, rise[i]) = i - 1
    <2>1. \E x \in S : Below(S, x) = i - 1
      BY EachRank DEF c
    <2>2. rise[i] = CHOOSE x \in S : Below(S, x) = i - 1
      BY <1>2
    <2>3. QED
      BY <2>1, <2>2
  <1>4. \A x, y \in S : Below(S, x) = Below(S, y) => x = y
    <2>1. SUFFICES ASSUME NEW x \in S, NEW y \in S, Below(S, x) = Below(S, y), x # y PROVE FALSE
      OBVIOUS
    <2>2. x \in Nat /\ y \in Nat /\ (x < y \/ y < x)
      BY <2>1
    <2>3. Below(S, x) < Below(S, y) \/ Below(S, y) < Below(S, x)
      BY <2>2, BelowIs
    <2>4. QED
      BY <1>1, <2>1, <2>3
  <1>5. \A x \in S : \E i \in 1 .. c : rise[i] = x
    <2>1. ASSUME NEW x \in S PROVE \E i \in 1 .. c : rise[i] = x
      <3>1. Below(S, x) + 1 \in 1 .. c
        BY <1>1
      <3>2. rise[Below(S, x) + 1] \in S /\ Below(S, rise[Below(S, x) + 1]) = Below(S, x)
        BY <1>1, <1>3, <3>1
      <3>3. QED
        BY <1>4, <3>1, <3>2
    <2>2. QED
      BY <2>1
  <1>6. ASSUME NEW i \in 1 .. c, NEW j \in 1 .. c, i < j PROVE rise[i] < rise[j]
    <2>1. /\ rise[i] \in S /\ rise[j] \in S /\ rise[i] \in Nat /\ rise[j] \in Nat
          /\ Below(S, rise[i]) = i - 1 /\ Below(S, rise[j]) = j - 1
      BY <1>0, <1>3
    <2>2. ~(rise[j] < rise[i])
      <3>1. SUFFICES ASSUME rise[j] < rise[i] PROVE FALSE
        OBVIOUS
      <3>2. Below(S, rise[j]) < Below(S, rise[i])
        BY <2>1, <3>1, BelowIs
      <3>3. QED
        BY <1>1, <1>6, <2>1, <3>2
    <2>3. rise[i] # rise[j]
      <3>1. i - 1 # j - 1
        BY <1>1, <1>6
      <3>2. QED
        BY <2>1, <3>1
    <2>4. QED
      BY <2>1, <2>2, <2>3
  <1>7. rise \in Seq(S) /\ Len(rise) = c /\ DOMAIN rise = 1 .. c /\ rise \in Seq(Nat)
    <2>1. rise \in [1 .. c -> S]
      BY <1>2, <1>3
    <2>2. rise \in Seq(S) /\ Len(rise) = c /\ DOMAIN rise = 1 .. c
      BY <1>1, <2>1
    <2>3. rise \in [1 .. c -> Nat]
      BY <1>0, <2>1
    <2>4. rise \in Seq(Nat)
      BY <1>1, <2>3
    <2>5. QED
      BY <2>2, <2>4
  <1>8. S = {} <=> rise = <<>>
    BY <1>1, <1>3, <1>5, <1>7
  <1>9. QED
    <2>1. \A i, j \in 1 .. Len(rise) : i < j => rise[i] < rise[j]
      BY <1>6, <1>7
    <2>2. \A i \in 1 .. Len(rise) : rise[i] \in S /\ Below(S, rise[i]) = i - 1
      BY <1>3, <1>7
    <2>3. \A x \in S : \E i \in 1 .. Len(rise) : rise[i] = x
      BY <1>5, <1>7
    <2>4. QED
      BY <1>1, <1>7, <1>8, <2>1, <2>2, <2>3 DEF rise, c

-----------------------------------------------------------------------------
(* Sequences picked from, and sequences put one after the other. *)

\* What Keep returns, S being the places kept.
Picked(s, S) == [k \in DOMAIN Cut!Ascending(S) |-> s[Cut!Ascending(S)[k]]]

\* What is picked of a sequence is what stands at the places kept.
LEMMA PickedIs ==
    ASSUME NEW X, NEW s \in Seq(X), NEW S, S \subseteq 1 .. Len(s)
    PROVE  /\ Picked(s, S) \in Seq(X)
           /\ \A k \in 1 .. Len(Picked(s, S)) : \E i \in S : Picked(s, S)[k] = s[i]
           /\ \A i \in S : \E k \in 1 .. Len(Picked(s, S)) : Picked(s, S)[k] = s[i]
           /\ Picked(s, S) = <<>> <=> S = {}
  <1> DEFINE rise == Cut!Ascending(S)
             p == Picked(s, S)
  <1>1. Len(s) \in Nat /\ \A i \in 1 .. Len(s) : s[i] \in X
    OBVIOUS
  <1>2. /\ Len(rise) \in Nat /\ DOMAIN rise = 1 .. Len(rise) /\ \A k \in 1 .. Len(rise) : rise[k] \in S
        /\ \A i \in S : \E k \in 1 .. Len(rise) : rise[k] = i
    <2>1. /\ Len(rise) = Cardinality(S) /\ Cardinality(S) \in Nat /\ DOMAIN rise = 1 .. Len(rise)
          /\ \A k \in 1 .. Len(rise) : rise[k] \in S /\ Below(S, rise[k]) = k - 1
          /\ \A i \in S : \E k \in 1 .. Len(rise) : rise[k] = i
      BY <1>1, InOrder
    <2>2. QED
      BY <2>1
  <1>3. p = [k \in 1 .. Len(rise) |-> s[rise[k]]]
    BY <1>2 DEF Picked
  <1> HIDE DEF rise, p
  <1>4. p \in Seq(X) /\ Len(p) = Len(rise)
    <2>1. \A k \in 1 .. Len(rise) : s[rise[k]] \in X
      BY <1>1, <1>2
    <2>2. p \in [1 .. Len(rise) -> X]
      BY <1>3, <2>1
    <2>3. QED
      BY <1>2, <2>2
  <1>5. \A k \in 1 .. Len(p) : rise[k] \in S /\ p[k] = s[rise[k]]
    BY <1>2, <1>3, <1>4
  <1>6. \A i \in S : \E k \in 1 .. Len(p) : p[k] = s[i]
    BY <1>2, <1>4, <1>5
  <1>7. p = <<>> <=> S = {}
    <2>1. p = <<>> <=> Len(p) = 0
      BY <1>4
    <2>2. Len(p) \in Nat
      BY <1>4
    <2>3. Len(p) # 0 => 1 \in 1 .. Len(p)
      BY <2>2
    <2>4. Len(p) = 0 => S = {}
      <3>1. Len(p) = 0 => 1 .. Len(p) = {}
        OBVIOUS
      <3>2. QED
        BY <1>6, <3>1
    <2>5. Len(p) # 0 => S # {}
      BY <1>5, <2>3
    <2>6. QED
      BY <2>1, <2>4, <2>5
  <1>8. QED
    BY <1>4, <1>5, <1>6, <1>7 DEF p

\* Sequences are put one after the other by a fold.
LEMMA Flattened ==
    ASSUME NEW X, NEW ss \in Seq(Seq(X))
    PROVE  \E h : /\ h[0] = <<>> /\ h[Len(ss)] = Cut!FlattenSeq(ss)
                  /\ \A i \in 1 .. Len(ss) : h[i] = h[i - 1] \o ss[i]
                  /\ \A i \in 0 .. Len(ss) : h[i] \in Seq(X)
  <1> DEFINE n == Len(ss)
             g == [a \in Seq(X) |-> [i \in 1 .. n |-> a \o ss[i]]]
             Flat(f) == f = [i \in 1 .. n |-> IF i = 1 THEN ss[i] ELSE f[i - 1] \o ss[i]]
             flat == CHOOSE f : Flat(f)
  <1>1. n \in Nat /\ \A i \in 1 .. n : ss[i] \in Seq(X)
    OBVIOUS
  <1>2. CASE ss = <<>>
    <2>1. Len(ss) = 0 /\ Cut!FlattenSeq(ss) = <<>>
      BY <1>2 DEF Cut!FlattenSeq
    <2> DEFINE h == [i \in {0} |-> <<>>]
    <2>2. h[0] = <<>> /\ 1 .. 0 = {} /\ 0 .. 0 = {0}
      OBVIOUS
    <2>3. h[0] \in Seq(X)
      BY <2>2
    <2> HIDE DEF h
    <2>4. QED
      BY <2>1, <2>2, <2>3
  <1>3. CASE ss # <<>>
    <2>0. n # 0
      BY <1>1, <1>3
    <2> HIDE DEF n
    <2>1. g \in [Seq(X) -> [1 .. n -> Seq(X)]]
      <3>1. \A a \in Seq(X), i \in 1 .. n : a \o ss[i] \in Seq(X)
        BY <1>1, ConcatProperties
      <3>2. QED
        BY <3>1
    <2>2. <<>> \in Seq(X)
      OBVIOUS
    <2>3. PICK it : Folds(it, n, Seq(X), <<>>, g)
      <3> HIDE DEF g
      <3>1. QED
        BY <1>1, <2>1, <2>2, FoldExists
    <2> DEFINE h == [i \in 0 .. n |-> it[1 .. i]]
    <2>4. h[0] = <<>> /\ \A i \in 0 .. n : h[i] \in Seq(X)
      <3>1. {} \in SUBSET (1 .. n) /\ 1 .. 0 = {} /\ \A i \in 0 .. n : 1 .. i \in SUBSET (1 .. n)
        BY <1>1
      <3>2. it[{}] = <<>> /\ \A x \in SUBSET (1 .. n) : it[x] \in Seq(X)
        <4> HIDE DEF g
        <4>1. QED
          BY <3>1, <2>3 DEF Folds
      <3>3. QED
        BY <1>1, <3>1, <3>2
    <2>5. \A i \in 1 .. n : h[i] = h[i - 1] \o ss[i]
      <3>1. ASSUME NEW i \in 1 .. n PROVE h[i] = h[i - 1] \o ss[i]
        <4>1. /\ 1 .. i \in SUBSET (1 .. n) /\ 1 .. i # {}
              /\ Cut!Max(1 .. i) = i /\ (1 .. i) \ {i} = 1 .. i - 1
          BY <1>1, Initials
        <4>2. it[1 .. i] = g[it[1 .. i - 1]][i]
          <5> HIDE DEF g
          <5>1. QED
            BY <2>3, <4>1 DEF Folds
        <4>3. i \in 0 .. n /\ i - 1 \in 0 .. n
          BY <1>1
        <4>4. h[i] = it[1 .. i] /\ h[i - 1] = it[1 .. i - 1] /\ h[i - 1] \in Seq(X)
          BY <2>4, <4>3
        <4>5. QED
          BY <4>2, <4>4
      <3>2. QED
        BY <3>1
    <2> HIDE DEF h, g
    <2>14. h[1] = ss[1]
      <3>1. 1 \in 1 .. n /\ 1 - 1 = 0
        BY <1>1, <2>0
      <3>2. h[1] = h[0] \o ss[1] /\ ss[1] \in Seq(X)
        BY <1>1, <2>5, <3>1
      <3>3. <<>> \o ss[1] = ss[1]
        BY <3>2, ConcatEmptySeq
      <3>4. QED
        BY <2>4, <3>2, <3>3
    <2>6. Flat([i \in 1 .. n |-> h[i]])
      <3> DEFINE f == [i \in 1 .. n |-> h[i]]
      <3>1. ASSUME NEW i \in 1 .. n PROVE f[i] = IF i = 1 THEN ss[i] ELSE f[i - 1] \o ss[i]
        <4>1. CASE i = 1
          <5>1. h[1] = ss[1]
            BY <2>14, <4>1
          <5>2. QED
            BY <4>1, <5>1
        <4>2. CASE i # 1
          <5>1. i - 1 \in 1 .. n
            BY <1>1, <4>2
          <5>2. QED
            BY <2>5, <4>2, <5>1
        <4>3. QED
          BY <4>1, <4>2
      <3>2. f = [i \in 1 .. n |-> f[i]]
        OBVIOUS
      <3> HIDE DEF f
      <3>3. [i \in 1 .. n |-> f[i]] = [i \in 1 .. n |-> IF i = 1 THEN ss[i] ELSE f[i - 1] \o ss[i]]
        BY <3>1
      <3>4. Flat(f)
        BY <3>2, <3>3
      <3>5. QED
        BY <3>4 DEF f
    <2>7. Flat(flat)
      <3> HIDE DEF Flat
      <3>1. QED
        BY <2>6
    <2>8. Cut!FlattenSeq(ss) = flat[n]
      BY <2>0, Zenon DEF Cut!FlattenSeq, n
    <2>9. \A i \in 1 .. n : flat[i] = IF i = 1 THEN ss[i] ELSE flat[i - 1] \o ss[i]
      <3> HIDE DEF flat
      <3>1. QED
        BY <2>7
    <2> HIDE DEF flat, Flat
    <2>10. \A i \in 0 .. n : i = 0 \/ flat[i] = h[i]
      <3> DEFINE G == {i \in 0 .. n : i = 0 \/ flat[i] = h[i]}
      <3>1. 0 \in G
        BY <1>1
      <3>2. ASSUME NEW i \in 1 .. n, i - 1 \in G PROVE i \in G
        <4>1. CASE i = 1
          <5>1. h[1] = ss[1]
            BY <2>14, <4>1
          <5>2. QED
            BY <2>9, <4>1, <5>1
        <4>2. CASE i # 1
          <5>1. flat[i - 1] = h[i - 1]
            BY <3>2, <4>2
          <5>2. flat[i] = flat[i - 1] \o ss[i]
            BY <2>9, <4>2
          <5>3. h[i] = h[i - 1] \o ss[i]
            BY <2>5
          <5>4. i \in 0 .. n
            BY <1>1
          <5>5. QED
            BY <5>1, <5>2, <5>3, <5>4
        <4>3. QED
          BY <4>1, <4>2
      <3> HIDE DEF G
      <3>3. \A i \in 0 .. n : i \in G
        BY <1>1, <3>1, <3>2, Steps
      <3>4. QED
        BY <3>3 DEF G
    <2>11. flat[n] = h[n]
      BY <1>1, <2>0, <2>10
    <2>12. h[n] = Cut!FlattenSeq(ss)
      BY <2>8, <2>11
    <2>13. QED
      BY <2>4, <2>5, <2>12 DEF n
  <1>4. QED
    BY <1>2, <1>3

Among(x, s) == \E r \in 1 .. Len(s) : s[r] = x

\* What is in a sequence of sequences is in one of them.
LEMMA AmongFlat ==
    ASSUME NEW X, NEW ss \in Seq(Seq(X)), NEW flat, flat = Cut!FlattenSeq(ss)
    PROVE  /\ flat \in Seq(X)
           /\ \A i \in 1 .. Len(ss) : \A j \in 1 .. Len(ss[i]) : Among(ss[i][j], flat)
           /\ \A k \in 1 .. Len(flat) : \E i \in 1 .. Len(ss) : Among(flat[k], ss[i])
  <1>1. PICK h : /\ h[0] = <<>> /\ h[Len(ss)] = Cut!FlattenSeq(ss)
                 /\ \A i \in 1 .. Len(ss) : h[i] = h[i - 1] \o ss[i]
                 /\ \A i \in 0 .. Len(ss) : h[i] \in Seq(X)
    BY Flattened
  <1>2. Len(ss) \in Nat /\ \A i \in 1 .. Len(ss) : ss[i] \in Seq(X) /\ Len(ss[i]) \in Nat
    OBVIOUS
  <1> DEFINE From(m) == \A k \in 1 .. Len(h[m]) : \E i \in 1 .. m : \E j \in 1 .. Len(ss[i]) :
                           h[m][k] = ss[i][j]
             To(m) == \A i \in 1 .. m : \A j \in 1 .. Len(ss[i]) :
                         \E k \in 1 .. Len(h[m]) : h[m][k] = ss[i][j]
             G == {m \in 0 .. Len(ss) : From(m) /\ To(m)}
  <1>3. 0 \in G
    <2>1. Len(h[0]) = 0 /\ 1 .. 0 = {} /\ 0 \in 0 .. Len(ss)
      BY <1>1, <1>2
    <2>2. QED
      BY <2>1
  <1>4. ASSUME NEW m \in 1 .. Len(ss), m - 1 \in G PROVE m \in G
    <2> HIDE DEF From, To
    <2>1. From(m - 1) /\ To(m - 1) /\ m - 1 \in 0 .. Len(ss) /\ m \in 0 .. Len(ss)
      BY <1>2, <1>4
    <2> DEFINE a == h[m - 1]
               b == ss[m]
    <2>2. h[m] = a \o b /\ a \in Seq(X) /\ b \in Seq(X)
      BY <1>1, <1>2, <2>1
    <2> HIDE DEF a, b
    <2>3. /\ Len(h[m]) = Len(a) + Len(b)
          /\ \A k \in 1 .. Len(a) : k \in 1 .. Len(h[m]) /\ h[m][k] = a[k]
          /\ \A k \in 1 .. Len(b) : k + Len(a) \in 1 .. Len(h[m]) /\ h[m][k + Len(a)] = b[k]
          /\ \A k \in 1 .. Len(h[m]) : \/ k \in 1 .. Len(a) /\ h[m][k] = a[k]
                                       \/ k - Len(a) \in 1 .. Len(b) /\ h[m][k] = b[k - Len(a)]
      <3>1. a \in Seq(X) /\ b \in Seq(X)
        BY <2>2
      <3>2. /\ Len(a \o b) = Len(a) + Len(b)
            /\ \A k \in 1 .. Len(a) : k \in 1 .. Len(a \o b) /\ (a \o b)[k] = a[k]
            /\ \A k \in 1 .. Len(b) : k + Len(a) \in 1 .. Len(a \o b) /\ (a \o b)[k + Len(a)] = b[k]
            /\ \A k \in 1 .. Len(a \o b) :
                  \/ k \in 1 .. Len(a) /\ (a \o b)[k] = a[k]
                  \/ k - Len(a) \in 1 .. Len(b) /\ (a \o b)[k] = b[k - Len(a)]
        BY <3>1, Joins, SMTT(60)
      <3>3. QED
        BY <2>2, <3>2, Zenon
    <2>4. \A i : i \in 1 .. m <=> i \in 1 .. m - 1 \/ i = m
      BY <1>2
    <2>5. From(m)
      <3>1. ASSUME NEW k \in 1 .. Len(h[m])
            PROVE  \E i \in 1 .. m : \E j \in 1 .. Len(ss[i]) : h[m][k] = ss[i][j]
        <4>1. CASE k \in 1 .. Len(a) /\ h[m][k] = a[k]
          <5>1. PICK i \in 1 .. m - 1 : \E j \in 1 .. Len(ss[i]) : a[k] = ss[i][j]
            BY <2>1, <4>1 DEF a, From
          <5>2. QED
            BY <2>4, <4>1, <5>1
        <4>2. CASE k - Len(a) \in 1 .. Len(b) /\ h[m][k] = b[k - Len(a)]
          BY <2>4, <4>2 DEF b
        <4>3. QED
          BY <2>3, <4>1, <4>2
      <3>2. QED
        BY <3>1 DEF From
    <2>6. To(m)
      <3>1. ASSUME NEW i \in 1 .. m, NEW j \in 1 .. Len(ss[i])
            PROVE  \E k \in 1 .. Len(h[m]) : h[m][k] = ss[i][j]
        <4>1. CASE i \in 1 .. m - 1
          <5>1. PICK k \in 1 .. Len(a) : a[k] = ss[i][j]
            BY <2>1, <4>1 DEF a, To
          <5>2. QED
            BY <2>3, <5>1
        <4>2. CASE i = m
          BY <2>3, <4>2 DEF b
        <4>3. QED
          BY <2>4, <4>1, <4>2
      <3>2. QED
        BY <3>1 DEF To
    <2>7. QED
      BY <2>1, <2>5, <2>6
  <1>5. Len(ss) \in G
    <2> HIDE DEF G
    <2>1. \A m \in 0 .. Len(ss) : m \in G
      BY <1>2, <1>3, <1>4, Steps
    <2>2. QED
      BY <1>2, <2>1
  <1>6. From(Len(ss)) /\ To(Len(ss)) /\ flat \in Seq(X) /\ h[Len(ss)] = flat
    BY <1>1, <1>2, <1>5
  <1>7. ASSUME NEW i \in 1 .. Len(ss), NEW j \in 1 .. Len(ss[i]) PROVE Among(ss[i][j], flat)
    BY <1>6 DEF Among
  <1>8. ASSUME NEW k \in 1 .. Len(flat) PROVE \E i \in 1 .. Len(ss) : Among(flat[k], ss[i])
    <2>1. \A l \in 1 .. Len(h[Len(ss)]) : \E i \in 1 .. Len(ss) : \E j \in 1 .. Len(ss[i]) :
             h[Len(ss)][l] = ss[i][j]
      <3> HIDE DEF To, G
      <3>1. From(Len(ss))
        BY <1>6
      <3>2. QED
        BY <3>1, Zenon DEF From
    <2> HIDE DEF From, To, G
    <2>2. \A l \in 1 .. Len(flat) : \E i \in 1 .. Len(ss) : \E j \in 1 .. Len(ss[i]) :
             flat[l] = ss[i][j]
      BY <1>6, <2>1
    <2>3. PICK i \in 1 .. Len(ss) : \E j \in 1 .. Len(ss[i]) : flat[k] = ss[i][j]
      BY <2>2
    <2>4. QED
      BY <2>3 DEF Among
  <1>9. QED
    BY <1>6, <1>7, <1>8

-----------------------------------------------------------------------------
(* Documents and the texts of their lines. *)

Docs == Seq([kind : Cut!Kinds, len : Nat])
LineUnits(doc, n) == {<<n, i>> : i \in 1 .. doc[n].len}

\* The text of a line holds the units of the line, and is firm if it has any.
LEMMA LineIs ==
    ASSUME NEW doc \in Docs, NEW n \in 1 .. Len(doc)
    PROVE  /\ doc[n] \in [kind : Cut!Kinds, len : Nat] /\ doc[n].len \in Nat
           /\ Cut!LineText(doc, n) \in Text /\ Len(Cut!LineText(doc, n)) = doc[n].len
           /\ UnitsOf(Cut!LineText(doc, n)) = LineUnits(doc, n)
           /\ doc[n].len # 0 => Firm(Cut!LineText(doc, n))
  <1> DEFINE t == Cut!LineText(doc, n)
             m == doc[n].len
  <1>1. doc[n] \in [kind : Cut!Kinds, len : Nat] /\ m \in Nat /\ n \in Nat \ {0}
    <2>1. doc[n] \in [kind : Cut!Kinds, len : Nat]
      BY ElementOfSeq DEF Docs
    <2>2. n \in Nat \ {0}
      BY DEF Docs
    <2>3. QED
      BY <2>1, <2>2
  <1>2. t = [i \in 1 .. m |-> <<n, i>>]
    BY DEF Cut!LineText
  <1> HIDE DEF t, m
  <1>3. \A i \in 1 .. m : <<n, i>> \in Unit /\ <<n, i>> # Cut!White
    BY <1>1 DEF Unit, Cut!White
  <1>4. t \in Text /\ Len(t) = m /\ \A i \in 1 .. m : t[i] = <<n, i>>
    <2>1. t \in [1 .. m -> Unit]
      BY <1>2, <1>3
    <2>2. QED
      BY <1>1, <1>2, <2>1 DEF Text
  <1>5. UnitsOf(t) = LineUnits(doc, n)
    <2>1. ASSUME NEW u PROVE u \in UnitsOf(t) <=> u \in LineUnits(doc, n)
      <3>1. u \in UnitsOf(t) <=> u # Cut!White /\ \E i \in 1 .. m : t[i] = u
        BY <1>4, UnitsAre
      <3>2. u \in LineUnits(doc, n) <=> \E i \in 1 .. m : u = <<n, i>>
        BY DEF LineUnits, m
      <3>3. QED
        BY <1>3, <1>4, <3>1, <3>2
    <2>2. QED
      BY <2>1
  <1>6. ASSUME m # 0 PROVE Firm(t)
    <2>1. 1 \in 1 .. m /\ m \in 1 .. m
      BY <1>1, <1>6
    <2>2. t[1] # Cut!White /\ t[m] # Cut!White
      BY <1>3, <1>4, <2>1
    <2>3. QED
      BY <1>4, <1>6, <2>2 DEF Firm
  <1>7. QED
    BY <1>1, <1>4, <1>5, <1>6 DEF t, m

\* The text of some lines holds their units; of lines none of which is empty,
\* it is firm.
LEMMA TextIs ==
    ASSUME NEW doc \in Docs, NEW ns \in Seq(1 .. Len(doc))
    PROVE  /\ Cut!TextOf(doc, ns) \in Text
           /\ \A u : u \in UnitsOf(Cut!TextOf(doc, ns)) <=>
                        \E i \in 1 .. Len(ns) : u \in LineUnits(doc, ns[i])
           /\ ns # <<>> /\ (\A i \in 1 .. Len(ns) : doc[ns[i]].len # 0) => Firm(Cut!TextOf(doc, ns))
  <1> DEFINE ts == [i \in DOMAIN ns |-> Cut!LineText(doc, ns[i])]
  <1>1. Len(ns) \in Nat /\ DOMAIN ns = 1 .. Len(ns) /\ \A i \in 1 .. Len(ns) : ns[i] \in 1 .. Len(doc)
    OBVIOUS
  <1>2. \A i \in 1 .. Len(ns) : Cut!LineText(doc, ns[i]) \in Text
    BY <1>1, LineIs
  <1>3. ts \in Seq(Text) /\ Len(ts) = Len(ns)
    <2>1. ts = [i \in 1 .. Len(ns) |-> Cut!LineText(doc, ns[i])]
      BY <1>1
    <2>2. ts \in [1 .. Len(ns) -> Text]
      BY <1>2, <2>1
    <2>3. QED
      BY <1>1, <2>2
  <1>4. \A i \in 1 .. Len(ns) : ts[i] = Cut!LineText(doc, ns[i])
    BY <1>1
  <1>5. Cut!TextOf(doc, ns) = Cut!Glue(ts)
    BY DEF Cut!TextOf
  <1> HIDE DEF ts
  <1>6. \A i \in 1 .. Len(ns) : UnitsOf(ts[i]) = LineUnits(doc, ns[i])
    BY <1>1, <1>4, LineIs
  <1>7. ASSUME ns # <<>>, \A i \in 1 .. Len(ns) : doc[ns[i]].len # 0 PROVE Firm(Cut!Glue(ts))
    <2>1. \A i \in 1 .. Len(ts) : Firm(ts[i])
      BY <1>1, <1>3, <1>4, <1>7, LineIs
    <2>2. ts # <<>>
      <3>1. Len(ns) # 0
        BY <1>7
      <3>2. QED
        BY <1>3, <3>1
    <2>3. QED
      BY <1>3, <2>1, <2>2, GlueUnits
  <1>8. /\ Cut!Glue(ts) \in Text
        /\ \A u : u \in UnitsOf(Cut!Glue(ts)) <=> \E i \in 1 .. Len(ts) : u \in UnitsOf(ts[i])
    BY <1>3, GlueUnits
  <1>9. QED
    BY <1>3, <1>5, <1>6, <1>7, <1>8

\* The lines from a to b.
LEMMA FromIs ==
    ASSUME NEW a \in Nat \ {0}, NEW b \in Nat, a <= b + 1, NEW n \in Nat, b <= n
    PROVE  /\ Cut!From(a, b) \in Seq(1 .. n) /\ Len(Cut!From(a, b)) = b - a + 1
           /\ \A i \in 1 .. Len(Cut!From(a, b)) : Cut!From(a, b)[i] = a + i - 1 /\ Cut!From(a, b)[i] \in a .. b
           /\ \A k \in a .. b : \E i \in 1 .. Len(Cut!From(a, b)) : Cut!From(a, b)[i] = k
           /\ Cut!From(a, b) = <<>> <=> b < a
  <1> DEFINE f == Cut!From(a, b)
             m == b - a + 1
  <1>1. m \in Nat /\ f = [i \in 1 .. m |-> a + i - 1]
    BY DEF Cut!From
  <1>2. \A i \in 1 .. m : a + i - 1 \in a .. b /\ a + i - 1 \in 1 .. n
    BY <1>1
  <1>3. \A k \in a .. b : k - a + 1 \in 1 .. m /\ a + (k - a + 1) - 1 = k
    BY <1>1
  <1>4. m = 0 <=> b < a
    BY <1>1
  <1> HIDE DEF f, m
  <1>5. f \in [1 .. m -> 1 .. n]
    BY <1>1, <1>2
  <1>6. f \in Seq(1 .. n) /\ Len(f) = m /\ \A i \in 1 .. m : f[i] = a + i - 1
    BY <1>1, <1>5
  <1>7. f = <<>> <=> m = 0
    BY <1>6
  <1>8. \A k \in a .. b : \E i \in 1 .. m : f[i] = k
    <2>1. ASSUME NEW k \in a .. b PROVE \E i \in 1 .. m : f[i] = k
      <3>1. k - a + 1 \in 1 .. m /\ f[k - a + 1] = k
        BY <1>3, <1>6
      <3>2. QED
        BY <3>1
    <2>2. QED
      BY <2>1
  <1>9. QED
    <2>1. /\ f \in Seq(1 .. n) /\ Len(f) = m
          /\ \A i \in 1 .. Len(f) : f[i] = a + i - 1 /\ f[i] \in a .. b
          /\ \A k \in a .. b : \E i \in 1 .. Len(f) : f[i] = k
          /\ f = <<>> <=> b < a
      BY <1>2, <1>4, <1>6, <1>7, <1>8
    <2>2. QED
      BY <2>1 DEF f, m

-----------------------------------------------------------------------------
(* The sections of a document. *)

Heads(doc) == {n \in 1 .. Len(doc) : doc[n].kind = Cut!Opening}
Parts0 == [title : Nat, lines : Seq(Nat), first : Nat, last : Nat]
Under(doc, s) ==
    /\ s.title = 0 \/ s.title \in Heads(doc)
    /\ s.title \in Nat /\ s.last \in Nat /\ s.title <= s.last /\ s.last <= Len(doc)
    /\ s.first = s.title + 1 /\ s.lines = Cut!From(s.title + 1, s.last)
    /\ \A h \in Heads(doc) : h <= s.title \/ s.last < h
    /\ s.last = Len(doc) \/ s.last + 1 \in Heads(doc)

\* A section for each heading and one before them: every line is in one.
LEMMA SectionsAre ==
    ASSUME NEW doc \in Docs
    PROVE  /\ Cut!Defs(doc) = Heads(doc) /\ Heads(doc) \subseteq 1 .. Len(doc)
           /\ Cut!Sections(doc) \in Seq(Parts0)
           /\ Len(Cut!Sections(doc)) = Cardinality(Heads(doc)) + 1
           /\ Cardinality(Heads(doc)) \in Nat
           /\ \A i \in 1 .. Len(Cut!Sections(doc)) :
                 /\ Under(doc, Cut!Sections(doc)[i])
                 /\ Cut!Sections(doc)[i].title =
                       IF i = 1 THEN 0 ELSE Cut!Ascending(Heads(doc))[i - 1]
           /\ \A n \in 1 .. Len(doc) : \E i \in 1 .. Len(Cut!Sections(doc)) :
                 Cut!Sections(doc)[i].title <= n /\ n <= Cut!Sections(doc)[i].last
           /\ \A n \in Heads(doc) : \E i \in 1 .. Len(Cut!Sections(doc)) :
                 Cut!Sections(doc)[i].title = n
  <1> DEFINE heads == Heads(doc)
             rise == Cut!Ascending(heads)
             c == Cardinality(heads)
             NextOf(n) == Cut!Min({h \in heads : h > n} \cup {Len(doc) + 1})
             Sec(n) == [title |-> n, lines |-> Cut!From(n + 1, NextOf(n) - 1),
                        first |-> n + 1, last |-> NextOf(n) - 1]
             T(i) == IF i = 1 THEN 0 ELSE rise[i - 1]
             ss == Cut!Sections(doc)
  <1>1. /\ heads = {n \in DOMAIN doc : doc[n].kind = Cut!Opening} /\ heads \subseteq 1 .. Len(doc)
        /\ Len(doc) \in Nat
    BY DEF Heads, Docs
  <1>2. Cut!Defs(doc) = heads
    BY <1>1 DEF Cut!Defs
  <1>3. /\ c \in Nat /\ Len(rise) = c /\ \A i \in 1 .. c : rise[i] \in heads
        /\ \A h \in heads : \E i \in 1 .. c : rise[i] = h
    <2>1. heads \subseteq 1 .. Len(doc) /\ Len(doc) \in Nat
      BY <1>1
    <2> HIDE DEF heads
    <2>2. /\ Len(rise) = c /\ c \in Nat
          /\ \A i \in 1 .. Len(rise) : rise[i] \in heads /\ Below(heads, rise[i]) = i - 1
          /\ \A x \in heads : \E i \in 1 .. Len(rise) : rise[i] = x
      BY <2>1, InOrder
    <2> HIDE DEF rise, c
    <2>3. QED
      BY <2>2
  <1>4. ss = [i \in 1 .. c + 1 |-> Sec(T(i))]
    <2>1. Cut!Cardinality(heads) = c
      BY SameCardinality
    <2>2. ss = [i \in 1 .. Cut!Cardinality(heads) + 1 |-> Sec(T(i))]
      BY <1>1, Zenon DEF Cut!Sections
    <2>3. QED
      BY <2>1, <2>2
  <1>5. \A h \in heads : h \in Nat /\ 0 < h /\ h <= Len(doc)
    BY <1>1
  <1>6. \A i \in 1 .. c + 1 : T(i) = 0 \/ T(i) \in heads
    <2>1. ASSUME NEW i \in 1 .. c + 1, i # 1 PROVE i - 1 \in 1 .. c
      BY <1>3, <2>1
    <2>2. QED
      BY <1>3, <2>1
  <1> HIDE DEF ss, c, rise, heads
  <1>7. ASSUME NEW n, n = 0 \/ n \in heads
        PROVE  Under(doc, Sec(n)) /\ Sec(n) \in Parts0
    <2> DEFINE later == {h \in heads : h > n} \cup {Len(doc) + 1}
    <2>1. n \in Nat /\ n <= Len(doc)
      BY <1>1, <1>5, <1>7
    <2>2. later \subseteq Nat /\ later # {} /\ \A x \in later : n < x /\ x <= Len(doc) + 1
      BY <1>1, <1>5, <2>1
    <2>3. NextOf(n) = Cut!Min(later)
      OBVIOUS
    <2>4. NextOf(n) \in later /\ \A x \in later : NextOf(n) <= x
      <3>1. later \subseteq Nat /\ later # {}
        BY <2>2
      <3> HIDE DEF later, NextOf
      <3>2. Cut!Min(later) \in later /\ \A x \in later : Cut!Min(later) <= x
        BY <3>1, BottomOf
      <3>3. QED
        BY <2>3, <3>2
    <2> DEFINE m == NextOf(n)
    <2>5. \A h \in heads : h <= n \/ m <= h
      BY <1>5, <2>1, <2>4
    <2>6. m \in Nat /\ n < m /\ m <= Len(doc) + 1 /\ (m = Len(doc) + 1 \/ m \in heads)
      BY <2>2, <2>4
    <2> HIDE DEF m, NextOf, later
    <2>7. /\ Sec(n).title = n /\ Sec(n).last = m - 1 /\ Sec(n).first = n + 1
          /\ Sec(n).lines = Cut!From(n + 1, m - 1)
      BY DEF m
    <2>8. m - 1 \in Nat /\ n <= m - 1 /\ m - 1 <= Len(doc) /\ m - 1 + 1 = m
      BY <1>1, <2>1, <2>6
    <2>9. \A h \in heads : h <= n \/ m - 1 < h
      BY <1>5, <2>5, <2>6
    <2>10. m - 1 = Len(doc) \/ m - 1 + 1 \in heads
      BY <1>1, <2>6
    <2>11. Cut!From(n + 1, m - 1) \in Seq(Nat)
      <3>1. n + 1 \in Nat \ {0} /\ n + 1 <= m - 1 + 1
        BY <2>1, <2>8
      <3>2. Cut!From(n + 1, m - 1) \in Seq(1 .. Len(doc))
        BY <1>1, <2>8, <3>1, FromIs
      <3>3. QED
        BY <3>2, SeqMonotonic, <1>1
    <2>12. Sec(n) \in Parts0
      BY <2>1, <2>7, <2>8, <2>11 DEF Parts0, m
    <2>13. QED
      <3> HIDE DEF Sec
      <3>1. QED
        BY <1>7, <2>1, <2>7, <2>8, <2>9, <2>10, <2>12 DEF Under, heads
  <1>8. \A i \in 1 .. c + 1 : ss[i] = Sec(T(i)) /\ ss[i].title = T(i)
    BY <1>4
  <1>9. ss \in Seq(Parts0) /\ Len(ss) = c + 1
    <2> HIDE DEF Sec, T
    <2>1. \A i \in 1 .. c + 1 : Sec(T(i)) \in Parts0
      BY <1>6, <1>7
    <2>2. ss \in [1 .. c + 1 -> Parts0]
      BY <1>4, <2>1
    <2>3. c + 1 \in Nat
      BY <1>3
    <2>4. QED
      BY <2>2, <2>3
  <1>10. \A i \in 1 .. c + 1 : Under(doc, ss[i]) /\ ss[i].title = T(i)
    <2> HIDE DEF Sec, T
    <2>1. QED
      BY <1>6, <1>7, <1>8
  <1>11. \A n \in heads : \E i \in 1 .. c + 1 : ss[i].title = n
    <2>1. ASSUME NEW n \in heads PROVE \E i \in 1 .. c + 1 : ss[i].title = n
      <3>1. PICK i \in 1 .. c : rise[i] = n
        BY <1>3
      <3>2. i + 1 \in 1 .. c + 1 /\ i + 1 # 1 /\ i + 1 - 1 = i
        BY <1>3
      <3>3. T(i + 1) = n
        BY <3>1, <3>2
      <3>4. QED
        BY <1>8, <3>2, <3>3
    <2>2. QED
      BY <2>1
  <1>12. \A n \in 1 .. Len(doc) : \E i \in 1 .. c + 1 : ss[i].title <= n /\ n <= ss[i].last
    <2>1. SUFFICES ASSUME NEW n \in 1 .. Len(doc)
                   PROVE  \E i \in 1 .. c + 1 : ss[i].title <= n /\ n <= ss[i].last
      OBVIOUS
    <2> DEFINE before == {h \in heads : h <= n}
    <2>2. \E m \in heads \cup {0} : m <= n /\ \A h \in heads : h <= m \/ n < h
      <3>1. CASE before = {}
        <4>1. \A h \in heads : n < h
          BY <1>5, <3>1
        <4>2. QED
          BY <4>1
      <3>2. CASE before # {}
        <4>1. before \subseteq 1 .. Len(doc)
          BY <1>1
        <4>2. Cut!Max(before) \in before /\ \A h \in before : h <= Cut!Max(before)
          <5> HIDE DEF before
          <5>1. QED
            BY <1>1, <3>2, <4>1, TopOf
        <4>3. \A h \in heads : h <= Cut!Max(before) \/ n < h
          BY <1>5, <4>2
        <4>4. QED
          BY <4>2, <4>3
      <3>3. QED
        BY <3>1, <3>2
    <2>3. PICK m \in heads \cup {0} : m <= n /\ \A h \in heads : h <= m \/ n < h
      BY <2>2
    <2>4. PICK i \in 1 .. c + 1 : ss[i].title = m
      <3>1. CASE m = 0
        <4>1. 1 \in 1 .. c + 1
          BY <1>3
        <4>2. T(1) = 0
          OBVIOUS
        <4>3. QED
          BY <1>8, <3>1, <4>1, <4>2
      <3>2. QED
        BY <1>11, <3>1
    <2>5. Under(doc, ss[i])
      BY <1>10
    <2>6. /\ ss[i].last = Len(doc) \/ ss[i].last + 1 \in heads
          /\ m <= ss[i].last /\ ss[i].last \in Nat
      BY <2>4, <2>5 DEF Under, heads
    <2>7. n <= ss[i].last
      <3>1. SUFFICES ASSUME ~(n <= ss[i].last) PROVE FALSE
        OBVIOUS
      <3>2. ss[i].last + 1 \in heads /\ ss[i].last + 1 <= n /\ m \in Nat /\ ~(ss[i].last + 1 <= m)
        BY <1>1, <1>5, <2>3, <2>6, <3>1
      <3>3. n < ss[i].last + 1
        BY <2>3, <3>2
      <3>4. QED
        BY <2>6, <3>2, <3>3
    <2>8. QED
      BY <2>3, <2>4, <2>7
  <1>13. QED
    <2>1. \A i \in 1 .. Len(ss) : Under(doc, ss[i]) /\ ss[i].title = IF i = 1 THEN 0 ELSE rise[i - 1]
      BY <1>9, <1>10
    <2> HIDE DEF T, Sec, NextOf
    <2>2. QED
      BY <1>1, <1>2, <1>3, <1>9, <1>11, <1>12, <2>1 DEF ss, heads, rise, c

-----------------------------------------------------------------------------
(* Passages, and what it takes to hold a line. *)

PieceSet == [text : Text, titles : SUBSET Nat, first : Int, last : Int]
\* A text of lines of S.
OfLines(doc, t, S) ==
    t \in Text /\ \A u \in UnitsOf(t) : \E n \in S : u \in LineUnits(doc, n)
\* All of a line is in the passages.
Covered(doc, ps, n) ==
    \A u \in LineUnits(doc, n) : \E k \in 1 .. Len(ps) : u \in UnitsOf(ps[k].text)

\* A line is held if a passage has all of it, or is filed under it.
LEMMA HeldIs ==
    ASSUME NEW doc, NEW ps \in Seq(PieceSet), NEW n,
           Covered(doc, ps, n) \/ \E k \in 1 .. Len(ps) : n \in ps[k].titles
    PROVE  Cut!Held(doc, ps, n)
  <1>1. DOMAIN ps = 1 .. Len(ps) /\ \A k \in 1 .. Len(ps) : ps[k].text \in Text
    <2>1. DOMAIN ps = 1 .. Len(ps) /\ \A k \in 1 .. Len(ps) : ps[k] \in PieceSet
      BY ElementOfSeq
    <2>2. QED
      BY <2>1 DEF PieceSet
  <1>2. CASE Covered(doc, ps, n)
    <2>1. ASSUME NEW i \in 1 .. doc[n].len
          PROVE  \E k \in DOMAIN ps : <<n, i>> \in Cut!Range(ps[k].text)
      <3>1. <<n, i>> \in LineUnits(doc, n)
        BY DEF LineUnits
      <3>2. PICK k \in 1 .. Len(ps) : <<n, i>> \in UnitsOf(ps[k].text)
        BY <1>2, <3>1 DEF Covered
      <3>3. <<n, i>> \in Cut!Range(ps[k].text)
        BY <1>1, <3>2, UnitsAre DEF Cut!Range
      <3>4. QED
        BY <1>1, <3>3
    <2>2. QED
      BY <2>1 DEF Cut!Held
  <1>3. CASE \E k \in 1 .. Len(ps) : n \in ps[k].titles
    BY <1>1, <1>3 DEF Cut!Held
  <1>4. QED
    BY <1>2, <1>3

\* The lines a passage is of are those of its units.
LEMMA LinesAre ==
    ASSUME NEW doc, NEW p, p.text \in Text
    PROVE  /\ Cut!LinesOf(p) = {u[1] : u \in UnitsOf(p.text)}
           /\ \A S : OfLines(doc, p.text, S) => Cut!LinesOf(p) \subseteq S
           /\ \A n, u : u \in UnitsOf(p.text) /\ u \in LineUnits(doc, n) => n \in Cut!LinesOf(p)
  <1>1. Cut!LinesOf(p) = {u[1] : u \in UnitsOf(p.text)}
    BY DEF Cut!LinesOf, UnitsOf
  <1>2. \A n, u : u \in LineUnits(doc, n) => u[1] = n
    BY DEF LineUnits
  <1>3. QED
    BY <1>1, <1>2 DEF OfLines

\* What the two halves of the property ask of the passages of a document.
Whole(f, doc, ps) ==
    /\ \A n \in DOMAIN doc : Cut!Held(doc, ps, n) \/ Cut!LeftOut(f, doc, n)
    /\ \A i \in DOMAIN ps : Cut!RightlyCited(f, doc, ps[i]) /\ Cut!RightlyTitled(f, doc, ps[i])

\* A passage is filed rightly if something of it comes under the heading.
LEMMA Titled ==
    ASSUME NEW f, NEW doc, NEW p \in PieceSet,
           \A h \in p.titles : \E n \in Cut!LinesOf(p) : n >= h /\ \A k \in h + 1 .. n : doc[k].kind # Cut!Opening
    PROVE  Cut!RightlyTitled(f, doc, p)
  BY DEF Cut!RightlyTitled

\* A blank line has nothing to hold.
LEMMA BlankHeld ==
    ASSUME NEW doc \in Docs, NEW ps, NEW n \in 1 .. Len(doc), doc[n].len = 0
    PROVE  Covered(doc, ps, n)
  BY DEF Covered, LineUnits
-----------------------------------------------------------------------------
(* Batches: whole items in a row, each in one of them. *)

Spans(items, b, a, c) ==
    /\ a \in 1 .. Len(items) /\ c \in a .. Len(items) /\ Len(b) = c - a + 1
    /\ \A j \in 1 .. Len(b) : b[j] = items[a + j - 1]
Batched(X, items, acc, i) ==
    /\ acc \in Seq(Seq(X))
    /\ \A k \in 1 .. Len(acc) : \E a, c \in 1 .. i : Spans(items, acc[k], a, c)
    /\ i # 0 => acc # <<>> /\ \E a \in 1 .. i : Spans(items, acc[Len(acc)], a, i)
    /\ \A j \in 1 .. i : \E k \in 1 .. Len(acc) : \E r \in 1 .. Len(acc[k]) : acc[k][r] = items[j]

\* A batch grows, or another one begins.
LEMMA BatchStep ==
    ASSUME NEW X, NEW items \in Seq(X), NEW i \in 1 .. Len(items), NEW acc,
           Batched(X, items, acc, i - 1), NEW new,
           \/ acc # <<>> /\ new = [acc EXCEPT ![Len(acc)] = Append(@, items[i])]
           \/ new = Append(acc, <<items[i]>>)
    PROVE  Batched(X, items, new, i)
  <1>1. /\ acc \in Seq(Seq(X)) /\ Len(acc) \in Nat /\ items[i] \in X
        /\ \A k \in 1 .. Len(acc) : acc[k] \in Seq(X)
    BY DEF Batched
  <1>2. Len(items) \in Nat /\ i - 1 \in Nat
    OBVIOUS
  <1>3. CASE new = Append(acc, <<items[i]>>)
    <2> DEFINE m == Len(acc) + 1
    <2>1. /\ new \in Seq(Seq(X)) /\ Len(new) = m /\ new[m] = <<items[i]>>
          /\ \A k \in 1 .. Len(acc) : new[k] = acc[k]
      <3>1. <<items[i]>> \in Seq(X)
        BY <1>1
      <3>2. QED
        BY <1>1, <1>3, <3>1, AppendProperties
    <2>2. Spans(items, new[m], i, i)
      <3>1. Len(<<items[i]>>) = 1 /\ <<items[i]>>[1] = items[i] /\ i \in i .. Len(items) /\ i - i + 1 = 1
        BY <1>2
      <3>2. \A j \in 1 .. 1 : j = 1 /\ i + j - 1 = i
        BY <1>2
      <3>3. QED
        BY <2>1, <3>1, <3>2 DEF Spans
    <2>3. \A k : k \in 1 .. m <=> k \in 1 .. Len(acc) \/ k = m
      BY <1>1
    <2>4. i \in 1 .. i /\ new # <<>> /\ \A a \in 1 .. i - 1 : a \in 1 .. i
      <3>1. Len(new) # 0
        BY <1>1, <2>1
      <3>2. QED
        BY <1>2, <3>1
    <2> HIDE DEF m
    <2>5. \A k \in 1 .. m : \E a, c \in 1 .. i : Spans(items, new[k], a, c)
      <3>1. ASSUME NEW k \in 1 .. m PROVE \E a, c \in 1 .. i : Spans(items, new[k], a, c)
        <4>1. CASE k = m
          BY <2>2, <2>4, <4>1
        <4>2. CASE k \in 1 .. Len(acc)
          <5>1. PICK a \in 1 .. i - 1, c \in 1 .. i - 1 : Spans(items, acc[k], a, c)
            BY <4>2 DEF Batched
          <5>2. QED
            BY <2>1, <2>4, <4>2, <5>1
        <4>3. QED
          BY <2>3, <4>1, <4>2
      <3>2. QED
        BY <3>1
    <2>6. ASSUME NEW j \in 1 .. i
          PROVE  \E k \in 1 .. m : \E r \in 1 .. Len(new[k]) : new[k][r] = items[j]
      <3>1. CASE j = i
        <4>1. m \in 1 .. m /\ Len(<<items[i]>>) = 1 /\ <<items[i]>>[1] = items[i] /\ 1 \in 1 .. 1
          BY <2>3
        <4>2. QED
          BY <2>1, <3>1, <4>1
      <3>2. CASE j # i
        <4>1. j \in 1 .. i - 1
          BY <1>2, <3>2
        <4>2. PICK k \in 1 .. Len(acc) : \E r \in 1 .. Len(acc[k]) : acc[k][r] = items[j]
          BY <4>1 DEF Batched
        <4>3. k \in 1 .. m /\ new[k] = acc[k]
          BY <2>1, <2>3
        <4>4. QED
          BY <4>2, <4>3
      <3>3. QED
        BY <3>1, <3>2
    <2>7. QED
      BY <2>1, <2>2, <2>4, <2>5, <2>6 DEF Batched
  <1>4. CASE acc # <<>> /\ new = [acc EXCEPT ![Len(acc)] = Append(@, items[i])]
    <2> DEFINE m == Len(acc)
    <2>1. m \in 1 .. m
      BY <1>1, <1>4
    <2>2. /\ new \in Seq(Seq(X)) /\ Len(new) = m /\ new[m] = Append(acc[m], items[i])
          /\ \A k \in 1 .. m : k # m => new[k] = acc[k]
      <3>1. Append(acc[m], items[i]) \in Seq(X)
        BY <1>1, <2>1, AppendProperties
      <3>2. QED
        BY <1>1, <1>4, <2>1, <3>1, ExceptSeq
    <2>3. CASE i = 1
      <3>1. \A k \in 1 .. Len(acc) : \E a \in 1 .. 0 : TRUE
        BY <2>3 DEF Batched
      <3>2. QED
        BY <2>1, <3>1
    <2>4. CASE i # 1
      <3>1. PICK b \in 1 .. i - 1 : Spans(items, acc[m], b, i - 1)
        BY <1>2, <2>4 DEF Batched
      <3>2. Spans(items, new[m], b, i)
        <4> DEFINE old == acc[m]
        <4>1. old \in Seq(X) /\ Len(old) = i - b /\ Len(old) \in Nat
          BY <1>1, <1>2, <2>1, <3>1 DEF Spans
        <4>2. /\ Len(new[m]) = Len(old) + 1 /\ new[m][Len(old) + 1] = items[i]
              /\ \A j \in 1 .. Len(old) : new[m][j] = old[j]
          <5>1. new[m] = Append(old, items[i]) /\ items[i] \in X
            BY <1>1, <2>2
          <5> HIDE DEF old, m
          <5>2. /\ Len(Append(old, items[i])) = Len(old) + 1
                /\ Append(old, items[i])[Len(old) + 1] = items[i]
                /\ \A j \in 1 .. Len(old) : Append(old, items[i])[j] = old[j]
            BY <4>1, <5>1, AppendProperties, ZenonT(20)
          <5>3. QED
            BY <5>1, <5>2
        <4>3. \A j \in 1 .. Len(old) : old[j] = items[b + j - 1]
          BY <3>1 DEF Spans
        <4> HIDE DEF old
        <4>4. /\ b \in 1 .. Len(items) /\ i \in b .. Len(items) /\ Len(old) + 1 = i - b + 1
              /\ b + (Len(old) + 1) - 1 = i
          BY <1>2, <4>1
        <4>5. ASSUME NEW j \in 1 .. Len(new[m]) PROVE new[m][j] = items[b + j - 1]
          <5>1. j \in 1 .. Len(old) \/ j = Len(old) + 1
            BY <4>1, <4>2
          <5>2. QED
            BY <4>2, <4>3, <4>4, <5>1
        <4>6. QED
          BY <4>2, <4>4, <4>5 DEF Spans
      <3> HIDE DEF m
      <3>3. ASSUME NEW k \in 1 .. m PROVE \E a, c \in 1 .. i : Spans(items, new[k], a, c)
        <4>1. CASE k = m
          BY <1>2, <3>1, <3>2, <4>1
        <4>2. CASE k # m
          <5>1. PICK a \in 1 .. i - 1, c \in 1 .. i - 1 : Spans(items, acc[k], a, c)
            BY DEF Batched, m
          <5>2. a \in 1 .. i /\ c \in 1 .. i
            BY <1>2
          <5>3. QED
            BY <2>2, <4>2, <5>1, <5>2
        <4>3. QED
          BY <4>1, <4>2
      <3>4. ASSUME NEW j \in 1 .. i
            PROVE  \E k \in 1 .. m : \E r \in 1 .. Len(new[k]) : new[k][r] = items[j]
        <4>1. /\ acc[m] \in Seq(X) /\ Len(acc[m]) \in Nat
              /\ Len(new[m]) = Len(acc[m]) + 1 /\ new[m][Len(acc[m]) + 1] = items[i]
              /\ \A r \in 1 .. Len(acc[m]) : new[m][r] = acc[m][r]
          <5>1. acc[m] \in Seq(X)
            BY <1>1, <2>1 DEF m
          <5>2. QED
            BY <1>1, <2>2, <5>1, AppendProperties, SMTT(20)
        <4>2. CASE j = i
          <5>1. Len(acc[m]) + 1 \in 1 .. Len(new[m])
            BY <4>1
          <5>2. QED
            BY <2>1, <4>1, <4>2, <5>1
        <4>3. CASE j # i
          <5>1. j \in 1 .. i - 1
            BY <1>2, <4>3
          <5>2. PICK k \in 1 .. m : \E r \in 1 .. Len(acc[k]) : acc[k][r] = items[j]
            BY <5>1 DEF Batched, m
          <5>3. PICK r \in 1 .. Len(acc[k]) : acc[k][r] = items[j]
            BY <5>2
          <5>4. r \in 1 .. Len(new[k]) /\ new[k][r] = acc[k][r]
            <6>1. CASE k = m
              <7>1. r \in 1 .. Len(acc[m]) /\ Len(acc[m]) \in Nat
                BY <4>1, <6>1
              <7>2. QED
                BY <4>1, <6>1, <7>1
            <6>2. CASE k # m
              <7>1. new[k] = acc[k]
                BY <2>2, <6>2
              <7>2. QED
                BY <7>1
            <6>3. QED
              BY <6>1, <6>2
          <5>5. QED
            BY <5>3, <5>4
        <4>4. QED
          BY <4>2, <4>3
      <3>5. new # <<>>
        <4>1. Len(new) # 0
          BY <1>1, <2>1, <2>2
        <4>2. QED
          BY <4>1
      <3>6. QED
        BY <2>2, <3>1, <3>2, <3>3, <3>4, <3>5 DEF Batched
    <2>5. QED
      BY <2>3, <2>4
  <1>5. QED
    BY <1>3, <1>4

\* Lines in batches, and passages in batches, as the model makes them.
LineBatches(doc, items, limit) == Cut!Batches(items, LAMBDA n : doc[n].len + 1, limit)
PieceBatches(items, limit) == Cut!Batches(items, LAMBDA p : Len(p.text), limit)

\* Each line is in a batch, and each batch is of lines in a row.
LEMMA LinesBatched ==
    ASSUME NEW doc, NEW X, NEW items \in Seq(X), NEW limit
    PROVE  Batched(X, items, LineBatches(doc, items, limit), Len(items))
  <1> DEFINE s == items
             n == Len(s)
             Acc == Seq(Seq(X))
             base == <<>>
             Step(a, b) == IF a # <<>> /\ Cut!FoldLeft(LAMBDA sum, x : sum + (doc[x].len + 1), 0, a[Len(a)]) + (doc[b].len + 1) <= limit
                           THEN [a EXCEPT ![Len(a)] = Append(@, b)] ELSE Append(a, <<b>>)
             f == [a \in Acc |-> [i \in 1 .. n |-> Step(a, s[i])]]
             Run(it) == it = [x \in SUBSET (1 .. n) |->
                                IF x = {} THEN base
                                ELSE Step(it[x \ {Cut!Max(x)}], s[Cut!Max(x)])]
             run == CHOOSE it : Run(it)
  <1>1. /\ s \in Seq(X) /\ n \in Nat /\ DOMAIN s = 1 .. n /\ \A i \in 1 .. n : s[i] \in X
    OBVIOUS
  <1>2. base \in Acc
    OBVIOUS
  <1>3. \A a \in Acc, b \in X : Step(a, b) \in Acc
    <2>1. ASSUME NEW a \in Seq(Seq(X)), NEW b \in X
          PROVE  /\ Append(a, <<b>>) \in Seq(Seq(X))
                 /\ a # <<>> => [a EXCEPT ![Len(a)] = Append(@, b)] \in Seq(Seq(X))
      <3>1. <<b>> \in Seq(X) /\ Append(a, <<b>>) \in Seq(Seq(X))
        BY AppendProperties
      <3>2. ASSUME a # <<>> PROVE [a EXCEPT ![Len(a)] = Append(@, b)] \in Seq(Seq(X))
        <4>1. Len(a) \in 1 .. Len(a) /\ a[Len(a)] \in Seq(X)
          BY <3>2
        <4>2. Append(a[Len(a)], b) \in Seq(X)
          BY <4>1, AppendProperties
        <4>3. QED
          BY <4>1, <4>2, ExceptSeq
      <3>3. QED
        BY <3>1, <3>2
    <2>2. QED
      BY <2>1
  <1> HIDE DEF s, n, Acc, base, Step
  <1>4. f \in [Acc -> [1 .. n -> Acc]]
    BY <1>1, <1>3
  <1>5. PICK it : Folds(it, n, Acc, base, f)
    <2> HIDE DEF f
    <2>1. QED
      BY <1>1, <1>2, <1>4, FoldExists
  <1>6. Run(it)
    <2>1. ASSUME NEW x \in SUBSET (1 .. n), x # {}
          PROVE  f[it[x \ {Cut!Max(x)}]][Cut!Max(x)] = Step(it[x \ {Cut!Max(x)}], s[Cut!Max(x)])
      <3>1. Cut!Max(x) \in 1 .. n
        BY <1>1, <2>1, TopOf
      <3>2. it[x \ {Cut!Max(x)}] \in Acc
        BY <1>5 DEF Folds
      <3>3. QED
        BY <3>1, <3>2
    <2>2. QED
      BY <1>5, <2>1 DEF Folds
  <1>7. Run(run)
    BY <1>6
  <1>8. LineBatches(doc, items, limit) = run[1 .. n]
    BY <1>1, Zenon DEF LineBatches, Cut!Batches, Cut!Last, Cut!FoldLeft, Cut!MapThenFoldSet, s,
       n, base, Step
  <1>9. \A x \in SUBSET (1 .. n) :
            run[x] = IF x = {} THEN base ELSE Step(run[x \ {Cut!Max(x)}], s[Cut!Max(x)])
    <2> HIDE DEF run
    <2>1. QED
      BY <1>7
  <1> HIDE DEF run, f, Run
  <1>10. run[{}] = base /\ \A i \in 1 .. n : run[1 .. i] = Step(run[1 .. i - 1], s[i])
    <2>1. ASSUME NEW i \in 1 .. n PROVE run[1 .. i] = Step(run[1 .. i - 1], s[i])
      <3>1. /\ 1 .. i \in SUBSET (1 .. n) /\ 1 .. i # {}
            /\ Cut!Max(1 .. i) = i /\ (1 .. i) \ {i} = 1 .. i - 1
        BY <1>1, Initials
      <3>2. run[1 .. i] = Step(run[(1 .. i) \ {Cut!Max(1 .. i)}], s[Cut!Max(1 .. i)])
        BY <1>9, <3>1
      <3>3. QED
        BY <3>1, <3>2
    <2>2. QED
      BY <1>9, <2>1
  <1>11. QED
    <2> DEFINE h == [i \in 0 .. n |-> run[1 .. i]]
    <2>1. /\ h[0] = base /\ h[n] = run[1 .. n]
          /\ \A i \in 1 .. n : h[i] = run[1 .. i] /\ h[i - 1] = run[1 .. i - 1]
      BY <1>1, <1>10, Initials
    <2> HIDE DEF h
    <2>2. \A i \in 1 .. n : h[i] = Step(h[i - 1], s[i])
      BY <1>10, <2>1
    <2>3. h[n] = LineBatches(doc, items, limit) /\ h[0] = base
      BY <1>8, <2>1
    <2>4. ASSUME NEW i \in 1 .. n, Batched(X, items, h[i - 1], i - 1)
                 PROVE Batched(X, items, h[i], i)
      <3>1. i \in 1 .. Len(items) /\ s[i] = items[i] /\ items \in Seq(X)
        BY <1>1 DEF s, n
      <3>2. \/ h[i - 1] # <<>> /\ h[i] = [h[i - 1] EXCEPT ![Len(h[i - 1])] = Append(@, items[i])]
            \/ h[i] = Append(h[i - 1], <<items[i]>>)
        BY <2>2, <3>1 DEF Step
      <3>3. QED
        BY <2>4, <3>1, <3>2, BatchStep
    <2>5. Batched(X, items, h[0], 0)
      <3>1. h[0] = <<>> /\ Len(<<>>) = 0 /\ 1 .. 0 = {}
        BY <2>3 DEF base
      <3>2. QED
        BY <3>1 DEF Batched
    <2>6. Batched(X, items, h[n], n)
      <3> DEFINE G == {i \in 0 .. n : Batched(X, items, h[i], i)}
      <3>1. 0 \in G
        BY <1>1, <2>5
      <3>2. ASSUME NEW i \in 1 .. n, i - 1 \in G PROVE i \in G
        BY <1>1, <2>4, <3>2
      <3> HIDE DEF G
      <3>3. \A i \in 0 .. n : i \in G
        BY <1>1, <3>1, <3>2, Steps
      <3>4. n \in G
        BY <1>1, <3>3
      <3>5. QED
        BY <3>4 DEF G
    <2>7. n = Len(items)
      BY DEF n, s
    <2>8. QED
      BY <2>3, <2>6, <2>7

\* The same of passages.
LEMMA PiecesBatched ==
    ASSUME NEW X, NEW items \in Seq(X), NEW limit
    PROVE  Batched(X, items, PieceBatches(items, limit), Len(items))
  <1> DEFINE s == items
             n == Len(s)
             Acc == Seq(Seq(X))
             base == <<>>
             Step(a, b) == IF a # <<>> /\ Cut!FoldLeft(LAMBDA sum, x : sum + Len(x.text), 0, a[Len(a)]) + Len(b.text) <= limit
                           THEN [a EXCEPT ![Len(a)] = Append(@, b)] ELSE Append(a, <<b>>)
             f == [a \in Acc |-> [i \in 1 .. n |-> Step(a, s[i])]]
             Run(it) == it = [x \in SUBSET (1 .. n) |->
                                IF x = {} THEN base
                                ELSE Step(it[x \ {Cut!Max(x)}], s[Cut!Max(x)])]
             run == CHOOSE it : Run(it)
  <1>1. /\ s \in Seq(X) /\ n \in Nat /\ DOMAIN s = 1 .. n /\ \A i \in 1 .. n : s[i] \in X
    OBVIOUS
  <1>2. base \in Acc
    OBVIOUS
  <1>3. \A a \in Acc, b \in X : Step(a, b) \in Acc
    <2>1. ASSUME NEW a \in Seq(Seq(X)), NEW b \in X
          PROVE  /\ Append(a, <<b>>) \in Seq(Seq(X))
                 /\ a # <<>> => [a EXCEPT ![Len(a)] = Append(@, b)] \in Seq(Seq(X))
      <3>1. <<b>> \in Seq(X) /\ Append(a, <<b>>) \in Seq(Seq(X))
        BY AppendProperties
      <3>2. ASSUME a # <<>> PROVE [a EXCEPT ![Len(a)] = Append(@, b)] \in Seq(Seq(X))
        <4>1. Len(a) \in 1 .. Len(a) /\ a[Len(a)] \in Seq(X)
          BY <3>2
        <4>2. Append(a[Len(a)], b) \in Seq(X)
          BY <4>1, AppendProperties
        <4>3. QED
          BY <4>1, <4>2, ExceptSeq
      <3>3. QED
        BY <3>1, <3>2
    <2>2. QED
      BY <2>1
  <1> HIDE DEF s, n, Acc, base, Step
  <1>4. f \in [Acc -> [1 .. n -> Acc]]
    BY <1>1, <1>3
  <1>5. PICK it : Folds(it, n, Acc, base, f)
    <2> HIDE DEF f
    <2>1. QED
      BY <1>1, <1>2, <1>4, FoldExists
  <1>6. Run(it)
    <2>1. ASSUME NEW x \in SUBSET (1 .. n), x # {}
          PROVE  f[it[x \ {Cut!Max(x)}]][Cut!Max(x)] = Step(it[x \ {Cut!Max(x)}], s[Cut!Max(x)])
      <3>1. Cut!Max(x) \in 1 .. n
        BY <1>1, <2>1, TopOf
      <3>2. it[x \ {Cut!Max(x)}] \in Acc
        BY <1>5 DEF Folds
      <3>3. QED
        BY <3>1, <3>2
    <2>2. QED
      BY <1>5, <2>1 DEF Folds
  <1>7. Run(run)
    BY <1>6
  <1>8. PieceBatches(items, limit) = run[1 .. n]
    BY <1>1, Zenon DEF PieceBatches, Cut!Batches, Cut!Last, Cut!FoldLeft, Cut!MapThenFoldSet, s,
       n, base, Step
  <1>9. \A x \in SUBSET (1 .. n) :
            run[x] = IF x = {} THEN base ELSE Step(run[x \ {Cut!Max(x)}], s[Cut!Max(x)])
    <2> HIDE DEF run
    <2>1. QED
      BY <1>7
  <1> HIDE DEF run, f, Run
  <1>10. run[{}] = base /\ \A i \in 1 .. n : run[1 .. i] = Step(run[1 .. i - 1], s[i])
    <2>1. ASSUME NEW i \in 1 .. n PROVE run[1 .. i] = Step(run[1 .. i - 1], s[i])
      <3>1. /\ 1 .. i \in SUBSET (1 .. n) /\ 1 .. i # {}
            /\ Cut!Max(1 .. i) = i /\ (1 .. i) \ {i} = 1 .. i - 1
        BY <1>1, Initials
      <3>2. run[1 .. i] = Step(run[(1 .. i) \ {Cut!Max(1 .. i)}], s[Cut!Max(1 .. i)])
        BY <1>9, <3>1
      <3>3. QED
        BY <3>1, <3>2
    <2>2. QED
      BY <1>9, <2>1
  <1>11. QED
    <2> DEFINE h == [i \in 0 .. n |-> run[1 .. i]]
    <2>1. /\ h[0] = base /\ h[n] = run[1 .. n]
          /\ \A i \in 1 .. n : h[i] = run[1 .. i] /\ h[i - 1] = run[1 .. i - 1]
      BY <1>1, <1>10, Initials
    <2> HIDE DEF h
    <2>2. \A i \in 1 .. n : h[i] = Step(h[i - 1], s[i])
      BY <1>10, <2>1
    <2>3. h[n] = PieceBatches(items, limit) /\ h[0] = base
      BY <1>8, <2>1
    <2>4. ASSUME NEW i \in 1 .. n, Batched(X, items, h[i - 1], i - 1)
                 PROVE Batched(X, items, h[i], i)
      <3>1. i \in 1 .. Len(items) /\ s[i] = items[i] /\ items \in Seq(X)
        BY <1>1 DEF s, n
      <3>2. \/ h[i - 1] # <<>> /\ h[i] = [h[i - 1] EXCEPT ![Len(h[i - 1])] = Append(@, items[i])]
            \/ h[i] = Append(h[i - 1], <<items[i]>>)
        BY <2>2, <3>1 DEF Step
      <3>3. QED
        BY <2>4, <3>1, <3>2, BatchStep
    <2>5. Batched(X, items, h[0], 0)
      <3>1. h[0] = <<>> /\ Len(<<>>) = 0 /\ 1 .. 0 = {}
        BY <2>3 DEF base
      <3>2. QED
        BY <3>1 DEF Batched
    <2>6. Batched(X, items, h[n], n)
      <3> DEFINE G == {i \in 0 .. n : Batched(X, items, h[i], i)}
      <3>1. 0 \in G
        BY <1>1, <2>5
      <3>2. ASSUME NEW i \in 1 .. n, i - 1 \in G PROVE i \in G
        BY <1>1, <2>4, <3>2
      <3> HIDE DEF G
      <3>3. \A i \in 0 .. n : i \in G
        BY <1>1, <3>1, <3>2, Steps
      <3>4. n \in G
        BY <1>1, <3>3
      <3>5. QED
        BY <3>4 DEF G
    <2>7. n = Len(items)
      BY DEF n, s
    <2>8. QED
      BY <2>3, <2>6, <2>7

-----------------------------------------------------------------------------
(* Tables. *)

\* What a document of a file is.
FileDoc(doc) ==
    /\ doc \in Docs /\ Len(doc) \in Nat \ {0}
    /\ \A n \in 1 .. Len(doc) : doc[n].kind = "blank" <=> doc[n].len = 0

\* A heading is a line that is not empty.
LEMMA HeadLine ==
    ASSUME NEW doc, FileDoc(doc), NEW h \in Heads(doc)
    PROVE  /\ h \in 1 .. Len(doc) /\ h \in Nat \ {0} /\ h <= Len(doc) /\ doc[h].len \in Nat \ {0}
           /\ LineUnits(doc, h) # {} /\ doc[h].kind = Cut!Opening
           /\ Cut!LineText(doc, h) \in Text /\ Firm(Cut!LineText(doc, h))
           /\ UnitsOf(Cut!LineText(doc, h)) = LineUnits(doc, h)
  <1>1. doc \in Docs /\ Len(doc) \in Nat \ {0} /\ h \in 1 .. Len(doc) /\ doc[h].kind = Cut!Opening
    BY DEF FileDoc, Heads
  <1>2. doc[h].kind # "blank"
    BY <1>1 DEF Cut!Opening
  <1>3. doc[h].len # 0
    BY <1>1, <1>2 DEF FileDoc
  <1>4. doc[h].len \in Nat /\ Cut!LineText(doc, h) \in Text /\ Firm(Cut!LineText(doc, h))
    BY <1>1, <1>3, LineIs
  <1>5. UnitsOf(Cut!LineText(doc, h)) = LineUnits(doc, h)
    BY <1>1, LineIs
  <1>6. LineUnits(doc, h) # {}
    BY <1>4, <1>5, FirmUnits
  <1>7. QED
    BY <1>1, <1>3, <1>4, <1>5, <1>6

\* The text of lines is a text of those lines.
LEMMA TextOfLines ==
    ASSUME NEW doc \in Docs, NEW ns \in Seq(1 .. Len(doc)), NEW S,
           \A i \in 1 .. Len(ns) : ns[i] \in S
    PROVE  /\ OfLines(doc, Cut!TextOf(doc, ns), S) /\ Cut!TextOf(doc, ns) \in Text
           /\ \A i \in 1 .. Len(ns) : LineUnits(doc, ns[i]) \subseteq UnitsOf(Cut!TextOf(doc, ns))
  <1>1. /\ Cut!TextOf(doc, ns) \in Text
        /\ \A u : u \in UnitsOf(Cut!TextOf(doc, ns)) <=>
                     \E i \in 1 .. Len(ns) : u \in LineUnits(doc, ns[i])
    BY TextIs
  <1>2. QED
    BY <1>1 DEF OfLines

\* A row in a batch of rows.
LEMMA RowSpan ==
    ASSUME NEW m \in Nat, NEW a0 \in Nat \ {0}, NEW z \in Nat, a0 <= z + 1, z <= m,
           NEW b \in Seq(1 .. m), NEW a, NEW c, Spans(Cut!From(a0, z), b, a, c)
    PROVE  /\ Len(b) = c - a + 1 /\ a \in Nat \ {0} /\ c \in Nat /\ a <= c /\ Len(b) \in Nat \ {0}
           /\ \A j \in 1 .. Len(b) : b[j] = a0 + (a + j - 1) - 1 /\ b[j] \in a0 + a - 1 .. a0 + c - 1
           /\ Head(b) = a0 + a - 1 /\ Cut!Last(b) = a0 + c - 1 /\ a0 + c - 1 <= z
  <1> DEFINE f == Cut!From(a0, z)
  <1>1. /\ Len(f) = z - a0 + 1
        /\ \A i \in 1 .. Len(f) : f[i] = a0 + i - 1 /\ f[i] \in a0 .. z
    BY FromIs
  <1> HIDE DEF f
  <1>2. /\ a \in 1 .. Len(f) /\ c \in a .. Len(f) /\ Len(b) = c - a + 1
        /\ \A j \in 1 .. Len(b) : b[j] = f[a + j - 1]
    BY DEF Spans, f
  <1>3. a \in Nat \ {0} /\ c \in Nat /\ a <= c /\ Len(b) \in Nat \ {0} /\ a0 + c - 1 <= z
    BY <1>1, <1>2
  <1>4. ASSUME NEW j \in 1 .. Len(b)
        PROVE  b[j] = a0 + (a + j - 1) - 1 /\ b[j] \in a0 + a - 1 .. a0 + c - 1
    <2>1. a + j - 1 \in 1 .. Len(f)
      BY <1>1, <1>2, <1>3
    <2>2. b[j] = a0 + (a + j - 1) - 1
      BY <1>1, <1>2, <2>1
    <2>3. a0 + (a + j - 1) - 1 \in a0 + a - 1 .. a0 + c - 1
      BY <1>2, <1>3
    <2>4. QED
      BY <2>2, <2>3
  <1>5. Head(b) = b[1] /\ Cut!Last(b) = b[Len(b)] /\ 1 \in 1 .. Len(b) /\ Len(b) \in 1 .. Len(b)
    BY <1>3 DEF Cut!Last
  <1>6. Head(b) = a0 + a - 1 /\ Cut!Last(b) = a0 + c - 1
    <2>1. Head(b) = a0 + (a + 1 - 1) - 1 /\ Cut!Last(b) = a0 + (a + Len(b) - 1) - 1
      BY <1>4, <1>5
    <2>2. a0 + (a + 1 - 1) - 1 = a0 + a - 1 /\ a0 + (a + Len(b) - 1) - 1 = a0 + c - 1
      BY <1>2, <1>3
    <2>3. QED
      BY <2>1, <2>2
  <1>7. QED
    BY <1>2, <1>3, <1>4, <1>6

\* The batches of the lines from a0 to z.
LEMMA RowBatches ==
    ASSUME NEW doc \in Docs, NEW a0 \in Nat \ {0}, NEW z \in Nat, a0 <= z + 1, z <= Len(doc),
           NEW limit, NEW bs, bs = LineBatches(doc, Cut!From(a0, z), limit)
    PROVE  /\ bs \in Seq(Seq(1 .. Len(doc)))
           /\ \A k \in 1 .. Len(bs) :
                 bs[k] \in Seq(1 .. Len(doc)) /\ \E a, c : Spans(Cut!From(a0, z), bs[k], a, c)
           /\ \A n \in a0 .. z : \E k \in 1 .. Len(bs) : Among(n, bs[k])
  <1> DEFINE f == Cut!From(a0, z)
  <1>1. Len(doc) \in Nat
    BY DEF Docs
  <1>2. /\ f \in Seq(1 .. Len(doc)) /\ Len(f) = z - a0 + 1
        /\ \A k \in a0 .. z : \E i \in 1 .. Len(f) : f[i] = k
    BY <1>1, FromIs
  <1> HIDE DEF f
  <1>3. Batched(1 .. Len(doc), f, bs, Len(f))
    <2>1. bs = LineBatches(doc, f, limit)
      BY DEF f
    <2>2. QED
      BY <1>2, <2>1, LinesBatched
  <1>4. bs \in Seq(Seq(1 .. Len(doc)))
    BY <1>3 DEF Batched
  <1>5. ASSUME NEW k \in 1 .. Len(bs)
        PROVE  bs[k] \in Seq(1 .. Len(doc)) /\ \E a, c : Spans(f, bs[k], a, c)
    <2>1. bs[k] \in Seq(1 .. Len(doc))
      BY <1>4
    <2>2. \E a, c \in 1 .. Len(f) : Spans(f, bs[k], a, c)
      BY <1>3 DEF Batched
    <2>3. QED
      BY <2>1, <2>2
  <1>6. ASSUME NEW n \in a0 .. z
        PROVE  \E k \in 1 .. Len(bs) : Among(n, bs[k])
    <2>1. PICK i \in 1 .. Len(f) : f[i] = n
      BY <1>2
    <2>2. \E k \in 1 .. Len(bs) : \E r \in 1 .. Len(bs[k]) : bs[k][r] = f[i]
      BY <1>3 DEF Batched
    <2>3. QED
      BY <2>1, <2>2 DEF Among
  <1>7. QED
    BY <1>4, <1>5, <1>6 DEF f

\* The rows of a table, each with its heading, hold every line under it.
LEMMA RowsAre ==
    ASSUME NEW doc, FileDoc(doc), NEW h \in Heads(doc), NEW z \in Nat, h <= z, z <= Len(doc),
           NEW rows, rows = Cut!Rows(doc, h, z)
    PROVE  /\ rows \in Seq(PieceSet)
           /\ \A k \in 1 .. Len(rows) :
                 /\ rows[k] \in PieceSet /\ rows[k].titles = {h} /\ h \in Cut!LinesOf(rows[k])
                 /\ Cut!LinesOf(rows[k]) \subseteq {h} \cup (h + rows[k].first .. h + rows[k].last)
           /\ \A n \in h + 1 .. z : Covered(doc, rows, n)
  <1> DEFINE bs == LineBatches(doc, Cut!From(h + 1, z), MAX_CHUNK_CHARS)
             R(b) == Cut!Passage(Cut!TextOf(doc, <<h>> \o b), {h}, Head(b) - h, Cut!Last(b) - h)
  <1>1. doc \in Docs /\ Len(doc) \in Nat /\ h \in 1 .. Len(doc) /\ h + 1 \in Nat \ {0} /\ h \in Nat \ {0}
    BY HeadLine DEF FileDoc
  <1>2. /\ bs \in Seq(Seq(1 .. Len(doc)))
        /\ \A k \in 1 .. Len(bs) : bs[k] \in Seq(1 .. Len(doc)) /\ \E a, c : Spans(Cut!From(h + 1, z), bs[k], a, c)
        /\ \A n \in h + 1 .. z : \E k \in 1 .. Len(bs) : Among(n, bs[k])
    <2> DEFINE a0 == h + 1
    <2>1. doc \in Docs /\ a0 <= z + 1 /\ a0 \in Nat \ {0} /\ z \in Nat /\ z <= Len(doc)
      BY <1>1
    <2> HIDE DEF a0
    <2>2. bs = LineBatches(doc, Cut!From(a0, z), MAX_CHUNK_CHARS)
      BY DEF a0
    <2> HIDE DEF bs
    <2>3. /\ bs \in Seq(Seq(1 .. Len(doc)))
          /\ \A k \in 1 .. Len(bs) :
                bs[k] \in Seq(1 .. Len(doc)) /\ \E a, c : Spans(Cut!From(a0, z), bs[k], a, c)
          /\ \A n \in a0 .. z : \E k \in 1 .. Len(bs) : Among(n, bs[k])
      BY <2>1, <2>2, RowBatches
    <2>4. QED
      BY <2>3 DEF a0
  <1>3. rows = [k \in DOMAIN bs |-> R(bs[k])]
    BY Zenon DEF Cut!Rows, LineBatches
  <1> HIDE DEF bs, R
  <1>4. Len(bs) \in Nat /\ DOMAIN bs = 1 .. Len(bs)
    BY <1>2
  <1>5. ASSUME NEW k \in 1 .. Len(bs)
        PROVE  /\ R(bs[k]) \in PieceSet /\ R(bs[k]).titles = {h} /\ h \in Cut!LinesOf(R(bs[k]))
               /\ Cut!LinesOf(R(bs[k])) \subseteq {h} \cup (h + R(bs[k]).first .. h + R(bs[k]).last)
               /\ \A r \in 1 .. Len(bs[k]) : LineUnits(doc, bs[k][r]) \subseteq UnitsOf(R(bs[k]).text)
    <2> DEFINE b == bs[k]
               ns == <<h>> \o b
               p == R(b)
    <2>1. b \in Seq(1 .. Len(doc)) /\ \E a, c : Spans(Cut!From(h + 1, z), b, a, c)
      BY <1>2
    <2> HIDE DEF b
    <2>2. PICK a, c : Spans(Cut!From(h + 1, z), b, a, c)
      BY <2>1
    <2>3. /\ a \in Nat \ {0} /\ c \in Nat /\ a <= c /\ Len(b) \in Nat \ {0}
          /\ \A j \in 1 .. Len(b) : b[j] \in h + 1 + a - 1 .. h + 1 + c - 1
          /\ Head(b) = h + 1 + a - 1 /\ Cut!Last(b) = h + 1 + c - 1
      <3>1. h + 1 <= z + 1
        BY <1>1
      <3>2. /\ a \in Nat \ {0} /\ c \in Nat /\ a <= c /\ Len(b) \in Nat \ {0}
            /\ \A j \in 1 .. Len(b) : b[j] = h + 1 + (a + j - 1) - 1 /\ b[j] \in h + 1 + a - 1 .. h + 1 + c - 1
            /\ Head(b) = h + 1 + a - 1 /\ Cut!Last(b) = h + 1 + c - 1
        BY <1>1, <2>1, <2>2, <3>1, RowSpan
      <3>3. QED
        BY <3>2
    <2>4. h + 1 + a - 1 = h + a /\ h + 1 + c - 1 = h + c /\ h + a - h = a /\ h + c - h = c
      BY <1>1, <2>3
    <2>5. /\ p.text = Cut!TextOf(doc, ns) /\ p.titles = {h} /\ p.first = a /\ p.last = c
          /\ p = [text |-> Cut!TextOf(doc, ns), titles |-> {h}, first |-> a, last |-> c]
      <3>1. Head(b) - h = a /\ Cut!Last(b) - h = c
        BY <1>1, <2>3, <2>4
      <3>2. p = [text |-> Cut!TextOf(doc, ns), titles |-> {h}, first |-> Head(b) - h,
                 last |-> Cut!Last(b) - h]
        BY DEF R, Cut!Passage
      <3> HIDE DEF p, ns
      <3>3. QED
        BY <3>1, <3>2
    <2>6. <<h>> \in Seq(1 .. Len(doc)) /\ Len(<<h>>) = 1 /\ <<h>>[1] = h
      BY <1>1
    <2>7. /\ ns \in Seq(1 .. Len(doc))
          /\ \A i \in 1 .. Len(ns) : ns[i] \in {h} \cup (h + a .. h + c)
          /\ 1 \in 1 .. Len(ns) /\ ns[1] = h
          /\ \A r \in 1 .. Len(b) : r + 1 \in 1 .. Len(ns) /\ ns[r + 1] = b[r]
      <3>1. /\ ns \in Seq(1 .. Len(doc))
            /\ \A i \in 1 .. Len(<<h>>) : i \in 1 .. Len(ns) /\ ns[i] = <<h>>[i]
            /\ \A i \in 1 .. Len(b) : i + Len(<<h>>) \in 1 .. Len(ns) /\ ns[i + Len(<<h>>)] = b[i]
            /\ \A i \in 1 .. Len(ns) : \/ i \in 1 .. Len(<<h>>) /\ ns[i] = <<h>>[i]
                                       \/ i - Len(<<h>>) \in 1 .. Len(b) /\ ns[i] = b[i - Len(<<h>>)]
        BY <2>1, <2>6, Joins
      <3> HIDE DEF ns
      <3>2. \A i \in 1 .. Len(ns) : ns[i] \in {h} \cup (h + a .. h + c)
        <4>1. ASSUME NEW i \in 1 .. Len(ns) PROVE ns[i] \in {h} \cup (h + a .. h + c)
          <5>1. CASE i \in 1 .. 1 /\ ns[i] = <<h>>[i]
            BY <2>6, <5>1
          <5>2. CASE i - 1 \in 1 .. Len(b) /\ ns[i] = b[i - 1]
            BY <2>3, <2>4, <5>2
          <5>3. QED
            BY <2>6, <3>1, <5>1, <5>2
        <4>2. QED
          BY <4>1
      <3>3. 1 \in 1 .. Len(ns) /\ ns[1] = h
        BY <2>6, <3>1
      <3>4. \A r \in 1 .. Len(b) : r + 1 \in 1 .. Len(ns) /\ ns[r + 1] = b[r]
        BY <2>6, <3>1
      <3>5. QED
        BY <3>1, <3>2, <3>3, <3>4
    <2> HIDE DEF ns, p
    <2>8. /\ p.text \in Text /\ OfLines(doc, p.text, {h} \cup (h + a .. h + c))
          /\ \A i \in 1 .. Len(ns) : LineUnits(doc, ns[i]) \subseteq UnitsOf(p.text)
      <3> DEFINE S == {h} \cup (h + a .. h + c)
      <3>1. ns \in Seq(1 .. Len(doc)) /\ (\A i \in 1 .. Len(ns) : ns[i] \in S) /\ p.text = Cut!TextOf(doc, ns)
        BY <2>5, <2>7
      <3> HIDE DEF S
      <3>2. QED
        BY <1>1, <3>1, TextOfLines DEF S
    <2>9. p \in PieceSet
      BY <1>1, <2>3, <2>5, <2>8 DEF PieceSet
    <2>10. Cut!LinesOf(p) \subseteq {h} \cup (h + p.first .. h + p.last)
      BY <2>5, <2>8, LinesAre, ZenonT(20)
    <2>11. h \in Cut!LinesOf(p)
      <3>1. LineUnits(doc, h) # {} /\ LineUnits(doc, h) \subseteq UnitsOf(p.text)
        BY <2>7, <2>8, HeadLine
      <3>2. PICK u : u \in LineUnits(doc, h) /\ u \in UnitsOf(p.text)
        BY <3>1
      <3>3. QED
        BY <2>8, <3>2, LinesAre
    <2>12. \A r \in 1 .. Len(b) : LineUnits(doc, b[r]) \subseteq UnitsOf(p.text)
      BY <2>7, <2>8
    <2>13. QED
      BY <2>5, <2>9, <2>10, <2>11, <2>12 DEF p, b
  <1>6. rows \in Seq(PieceSet) /\ Len(rows) = Len(bs) /\ \A k \in 1 .. Len(bs) : rows[k] = R(bs[k])
    <2>1. rows \in [1 .. Len(bs) -> PieceSet]
      BY <1>3, <1>4, <1>5
    <2>2. QED
      BY <1>3, <1>4, <2>1
  <1>7. ASSUME NEW n \in h + 1 .. z PROVE Covered(doc, rows, n)
    <2>1. PICK k \in 1 .. Len(bs) : Among(n, bs[k])
      BY <1>2
    <2>2. LineUnits(doc, n) \subseteq UnitsOf(R(bs[k]).text)
      BY <1>5, <2>1 DEF Among
    <2>3. QED
      BY <1>6, <2>2 DEF Covered
  <1>8. \A k \in 1 .. Len(rows) :
           /\ rows[k] \in PieceSet /\ rows[k].titles = {h} /\ h \in Cut!LinesOf(rows[k])
           /\ Cut!LinesOf(rows[k]) \subseteq {h} \cup (h + rows[k].first .. h + rows[k].last)
    BY <1>5, <1>6
  <1>9. QED
    BY <1>6, <1>7, <1>8

\* What it takes of passages to hold a file: every line, and each in its place.
LEMMA WholeIs ==
    ASSUME NEW f, NEW doc \in Docs, NEW ps \in Seq(PieceSet),
           \A n \in 1 .. Len(doc) : \/ Covered(doc, ps, n) \/ Cut!LeftOut(f, doc, n)
                                    \/ \E k \in 1 .. Len(ps) : n \in ps[k].titles,
           \A k \in 1 .. Len(ps) : Cut!RightlyCited(f, doc, ps[k]) /\ Cut!RightlyTitled(f, doc, ps[k])
    PROVE  Whole(f, doc, ps)
  <1>1. DOMAIN doc = 1 .. Len(doc) /\ DOMAIN ps = 1 .. Len(ps)
    BY DEF Docs
  <1>2. ASSUME NEW n \in 1 .. Len(doc) PROVE Cut!Held(doc, ps, n) \/ Cut!LeftOut(f, doc, n)
    BY HeldIs
  <1>3. QED
    BY <1>1, <1>2 DEF Whole

\* What is covered by some of the passages, is covered by all of them.
LEMMA CoveredMore ==
    ASSUME NEW doc, NEW qs, NEW ps, NEW n, Covered(doc, qs, n),
           \A k \in 1 .. Len(qs) : Among(qs[k], ps)
    PROVE  Covered(doc, ps, n)
  <1>1. ASSUME NEW u \in LineUnits(doc, n)
               PROVE \E k \in 1 .. Len(ps) : u \in UnitsOf(ps[k].text)
    <2>1. PICK k \in 1 .. Len(qs) : u \in UnitsOf(qs[k].text)
      BY DEF Covered
    <2>2. PICK j \in 1 .. Len(ps) : ps[j] = qs[k]
      BY DEF Among
    <2>3. QED
      BY <2>1, <2>2
  <1>2. QED
    BY <1>1 DEF Covered

\* One passage that has all of a line is enough.
LEMMA CoveredByOne ==
    ASSUME NEW doc, NEW p, NEW ps, NEW n, Among(p, ps),
           LineUnits(doc, n) \subseteq UnitsOf(p.text)
    PROVE  Covered(doc, ps, n)
  BY DEF Covered, Among

\* The schema of a table holds its heading and cites nothing.
LEMMA SchemaIs ==
    ASSUME NEW doc, FileDoc(doc), NEW h \in Heads(doc), NEW p, p = Cut!Schema(doc, h)
    PROVE  /\ p \in PieceSet /\ p.titles = {} /\ p.last = 0 /\ UnitsOf(p.text) = LineUnits(doc, h)
           /\ \A f : Cut!RightlyCited(f, doc, p) /\ Cut!RightlyTitled(f, doc, p)
  <1>1. /\ p = [text |-> Cut!LineText(doc, h), titles |-> {}, first |-> 0, last |-> 0]
        /\ p.titles = {} /\ p.last = 0 /\ p.text = Cut!LineText(doc, h)
    BY DEF Cut!Schema, Cut!Passage
  <1>2. p \in PieceSet /\ UnitsOf(p.text) = LineUnits(doc, h)
    BY <1>1, HeadLine DEF PieceSet
  <1>3. QED
    BY <1>1, <1>2 DEF Cut!RightlyCited, Cut!RightlyTitled

\* A row of a table is cited at the rows it is of.
LEMMA RowRight ==
    ASSUME NEW f \in {"csv", "xlsx"}, NEW doc, NEW p \in PieceSet, NEW h \in Nat,
           p.titles = {h},
           h \in Cut!LinesOf(p), Cut!LinesOf(p) \subseteq {h} \cup (h + p.first .. h + p.last)
    PROVE  Cut!RightlyCited(f, doc, p) /\ Cut!RightlyTitled(f, doc, p)
  <1>1. Cut!Cited(f, doc, p) = p.titles \cup UNION {k + p.first .. k + p.last : k \in p.titles}
    BY DEF Cut!Cited
  <1>2. Cut!LinesOf(p) \subseteq Cut!Cited(f, doc, p)
    BY <1>1
  <1>3. h >= h /\ \A k \in h + 1 .. h : doc[k].kind # Cut!Opening
    OBVIOUS
  <1>4. QED
    BY <1>2, <1>3 DEF Cut!RightlyCited, Cut!RightlyTitled

\* What is in a sequence made of two is in one of them.
LEMMA AmongBoth ==
    ASSUME NEW X, NEW a \in Seq(X), NEW b \in Seq(X)
    PROVE  /\ a \o b \in Seq(X)
           /\ \A k \in 1 .. Len(a) : Among(a[k], a \o b)
           /\ \A k \in 1 .. Len(b) : Among(b[k], a \o b)
           /\ \A k \in 1 .. Len(a \o b) : Among((a \o b)[k], a) \/ Among((a \o b)[k], b)
  <1>1. /\ a \o b \in Seq(X)
        /\ \A k \in 1 .. Len(a) : k \in 1 .. Len(a \o b) /\ (a \o b)[k] = a[k]
        /\ \A k \in 1 .. Len(b) : k + Len(a) \in 1 .. Len(a \o b) /\ (a \o b)[k + Len(a)] = b[k]
        /\ \A k \in 1 .. Len(a \o b) :
              \/ k \in 1 .. Len(a) /\ (a \o b)[k] = a[k]
              \/ k - Len(a) \in 1 .. Len(b) /\ (a \o b)[k] = b[k - Len(a)]
    BY Joins
  <1>2. \A k \in 1 .. Len(a) : Among(a[k], a \o b)
    BY <1>1 DEF Among
  <1>3. \A k \in 1 .. Len(b) : Among(b[k], a \o b)
    BY <1>1 DEF Among
  <1>4. \A k \in 1 .. Len(a \o b) : Among((a \o b)[k], a) \/ Among((a \o b)[k], b)
    BY <1>1 DEF Among
  <1>5. QED
    BY <1>1, <1>2, <1>3, <1>4

\* A sequence with one put before it.
LEMMA AmongJoined ==
    ASSUME NEW X, NEW x \in X, NEW b \in Seq(X), NEW ps, ps = <<x>> \o b
    PROVE  /\ ps \in Seq(X) /\ Among(x, ps)
           /\ \A k \in 1 .. Len(b) : Among(b[k], ps)
           /\ \A k \in 1 .. Len(ps) : ps[k] = x \/ Among(ps[k], b)
  <1> DEFINE a == <<x>>
  <1>1. a \in Seq(X) /\ Len(a) = 1 /\ a[1] = x /\ ps = a \o b
    OBVIOUS
  <1> HIDE DEF a
  <1>2. /\ a \o b \in Seq(X)
        /\ \A k \in 1 .. Len(a) : Among(a[k], a \o b)
        /\ \A k \in 1 .. Len(b) : Among(b[k], a \o b)
        /\ \A k \in 1 .. Len(a \o b) : Among((a \o b)[k], a) \/ Among((a \o b)[k], b)
    BY <1>1, AmongBoth
  <1>3. \A k \in 1 .. 1 : k = 1
    OBVIOUS
  <1>4. \A y : Among(y, a) => y = x
    BY <1>1, <1>3 DEF Among
  <1>5. 1 \in 1 .. Len(a)
    BY <1>1
  <1>6. QED
    BY <1>1, <1>2, <1>4, <1>5

\* Csv: one table.
LEMMA CsvWhole ==
    ASSUME NEW doc, FileDoc(doc), Cut!Fits("csv", doc)
    PROVE  Whole("csv", doc, Cut!Csv(doc))
  <1> DEFINE z == Len(doc)
             rows == Cut!Rows(doc, 1, z)
             top == Cut!Schema(doc, 1)
             ps == <<top>> \o rows
  <1>1. doc \in Docs /\ z \in Nat \ {0} /\ 1 \in Heads(doc) /\ 1 <= z
    BY DEF FileDoc, Cut!Fits, Heads
  <1>2. Cut!Csv(doc) = ps
    BY DEF Cut!Csv
  <1>3. /\ rows \in Seq(PieceSet)
        /\ \A k \in 1 .. Len(rows) :
              /\ rows[k] \in PieceSet /\ rows[k].titles = {1} /\ 1 \in Cut!LinesOf(rows[k])
              /\ Cut!LinesOf(rows[k]) \subseteq {1} \cup (1 + rows[k].first .. 1 + rows[k].last)
        /\ \A n \in 1 + 1 .. z : Covered(doc, rows, n)
    <2> HIDE DEF rows
    <2>1. rows = Cut!Rows(doc, 1, z) /\ z <= Len(doc)
      BY <1>1 DEF rows
    <2>2. QED
      BY <1>1, <2>1, RowsAre
  <1>4. /\ top \in PieceSet /\ UnitsOf(top.text) = LineUnits(doc, 1)
        /\ Cut!RightlyCited("csv", doc, top) /\ Cut!RightlyTitled("csv", doc, top)
    BY <1>1, SchemaIs
  <1> HIDE DEF rows, top, z
  <1>5. /\ <<top>> \in Seq(PieceSet) /\ Len(<<top>>) = 1 /\ <<top>>[1] = top
    BY <1>4
  <1>6. /\ ps \in Seq(PieceSet) /\ Among(top, ps)
        /\ \A k \in 1 .. Len(rows) : Among(rows[k], ps)
        /\ \A k \in 1 .. Len(ps) : ps[k] = top \/ Among(ps[k], rows)
    BY <1>3, <1>4, AmongJoined
  <1> HIDE DEF ps
  <1>7. \A k \in 1 .. Len(ps) : Cut!RightlyCited("csv", doc, ps[k]) /\ Cut!RightlyTitled("csv", doc, ps[k])
    <2>1. ASSUME NEW k \in 1 .. Len(rows)
          PROVE  Cut!RightlyCited("csv", doc, rows[k]) /\ Cut!RightlyTitled("csv", doc, rows[k])
      BY <1>3, RowRight
    <2>2. QED
      BY <1>4, <1>6, <2>1 DEF Among
  <1>8. \A n \in 1 .. Len(doc) : Covered(doc, ps, n)
    <2>1. ASSUME NEW n \in 1 .. z PROVE Covered(doc, ps, n)
      <3>1. CASE n = 1
        BY <1>4, <1>6, <3>1, CoveredByOne
      <3>2. CASE n # 1
        <4>1. Covered(doc, rows, n)
          BY <1>3, <3>2
        <4>2. QED
          BY <1>6, <4>1, CoveredMore
      <3>3. QED
        BY <3>1, <3>2
    <2>2. QED
      BY <2>1 DEF z
  <1>9. QED
    BY <1>1, <1>2, <1>6, <1>7, <1>8, WholeIs

\* One sequence made of each section, put one after the other.
LEMMA OfSections ==
    ASSUME NEW doc \in Docs, NEW X, NEW made,
           made = [i \in DOMAIN Cut!Sections(doc) |-> made[i]],
           \A i \in 1 .. Len(Cut!Sections(doc)) : made[i] \in Seq(X)
    PROVE  made \in Seq(Seq(X)) /\ Len(made) = Len(Cut!Sections(doc))
  <1>1. Len(Cut!Sections(doc)) \in Nat /\ DOMAIN Cut!Sections(doc) = 1 .. Len(Cut!Sections(doc))
    BY SectionsAre
  <1>2. made \in [1 .. Len(Cut!Sections(doc)) -> Seq(X)]
    BY <1>1
  <1>3. QED
    BY <1>1, <1>2

\* Where every document starts with a heading, each line is under one.
LEMMA UnderHead ==
    ASSUME NEW doc, FileDoc(doc), doc[1].kind = Cut!Opening, NEW n \in 1 .. Len(doc)
    PROVE  \E i \in 1 .. Len(Cut!Sections(doc)) :
              /\ Cut!Sections(doc)[i].title \in Heads(doc) /\ Cut!Sections(doc)[i].title # 0
              /\ Cut!Sections(doc)[i].title <= n /\ n <= Cut!Sections(doc)[i].last
  <1>1. doc \in Docs /\ 1 \in Heads(doc)
    BY DEF FileDoc, Heads
  <1>2. PICK i \in 1 .. Len(Cut!Sections(doc)) :
           Cut!Sections(doc)[i].title <= n /\ n <= Cut!Sections(doc)[i].last
    BY <1>1, SectionsAre
  <1>3. Under(doc, Cut!Sections(doc)[i])
    BY <1>1, SectionsAre
  <1> DEFINE s == Cut!Sections(doc)[i]
  <1>4. s.title \in Heads(doc) \/ s.title = 0
    BY <1>3 DEF Under
  <1>5. s.title # 0
    <2>1. SUFFICES ASSUME s.title = 0 PROVE FALSE
      OBVIOUS
    <2>2. 1 <= s.title \/ s.last < 1
      BY <1>1, <1>3 DEF Under
    <2>3. s.last \in Nat /\ s.last >= 1
      BY <1>2, <1>3 DEF Under
    <2>4. QED
      BY <2>1, <2>2, <2>3
  <1>6. QED
    BY <1>2, <1>4, <1>5

\* Xlsx: a table for each sheet.
LEMMA XlsxWhole ==
    ASSUME NEW doc, FileDoc(doc), Cut!Fits("xlsx", doc)
    PROVE  Whole("xlsx", doc, Cut!Xlsx(doc))
  <1> DEFINE S == Cut!Sections(doc)
             M(s) == IF s.title = 0 THEN <<>>
                     ELSE <<Cut!Schema(doc, s.title)>> \o Cut!Rows(doc, s.title, s.last)
             made == [i \in DOMAIN S |-> M(S[i])]
             ps == Cut!FlattenSeq(made)
             Fine(p) == p \in PieceSet /\ Cut!RightlyCited("xlsx", doc, p) /\ Cut!RightlyTitled("xlsx", doc, p)
  <1>1. doc \in Docs /\ doc[1].kind = Cut!Opening /\ Len(doc) \in Nat
    BY DEF FileDoc, Cut!Fits
  <1>2. Cut!Xlsx(doc) = ps
    BY Zenon DEF Cut!Xlsx, Cut!EachSection
  <1>3. Len(S) \in Nat /\ DOMAIN S = 1 .. Len(S) /\ \A i \in 1 .. Len(S) : Under(doc, S[i])
    BY <1>1, SectionsAre
  <1> HIDE DEF S
  <1>4. ASSUME NEW i \in 1 .. Len(S)
        PROVE  /\ M(S[i]) \in Seq(PieceSet) /\ \A k \in 1 .. Len(M(S[i])) : Fine(M(S[i])[k])
               /\ S[i].title # 0 =>
                     \A n \in S[i].title .. S[i].last : Covered(doc, M(S[i]), n)
    <2>1. CASE S[i].title = 0
      <3>1. M(S[i]) = <<>>
        BY <2>1
      <3> HIDE DEF M, Fine
      <3>2. QED
        BY <2>1, <3>1
    <2>2. CASE S[i].title # 0
      <3> DEFINE h == S[i].title
                 z == S[i].last
                 rows == Cut!Rows(doc, h, z)
                 top == Cut!Schema(doc, h)
                 qs == M(S[i])
      <3>1. h \in Heads(doc) /\ h \in Nat /\ z \in Nat /\ h <= z /\ z <= Len(doc)
        BY <1>3, <2>2 DEF Under
      <3>2. qs = <<top>> \o rows
        BY <2>2
      <3> HIDE DEF qs, M
      <3>3. /\ rows \in Seq(PieceSet)
            /\ \A k \in 1 .. Len(rows) :
                  /\ rows[k] \in PieceSet /\ rows[k].titles = {h} /\ h \in Cut!LinesOf(rows[k])
                  /\ Cut!LinesOf(rows[k]) \subseteq {h} \cup (h + rows[k].first .. h + rows[k].last)
            /\ \A n \in h + 1 .. z : Covered(doc, rows, n)
        <4>1. rows = Cut!Rows(doc, h, z)
          OBVIOUS
        <4> HIDE DEF rows, h, z
        <4>2. QED
          BY <3>1, <4>1, RowsAre
      <3>4. /\ top \in PieceSet /\ UnitsOf(top.text) = LineUnits(doc, h)
            /\ Cut!RightlyCited("xlsx", doc, top) /\ Cut!RightlyTitled("xlsx", doc, top)
        BY <3>1, SchemaIs
      <3> HIDE DEF rows, top, h, z
      <3>5. /\ qs \in Seq(PieceSet) /\ Among(top, qs)
            /\ \A k \in 1 .. Len(rows) : Among(rows[k], qs)
            /\ \A k \in 1 .. Len(qs) : qs[k] = top \/ Among(qs[k], rows)
        BY <3>2, <3>3, <3>4, AmongJoined
      <3>6. \A k \in 1 .. Len(qs) : Fine(qs[k])
        <4>1. ASSUME NEW k \in 1 .. Len(rows) PROVE Fine(rows[k])
          BY <3>1, <3>3, RowRight
        <4>2. Fine(top)
          BY <3>4
        <4> HIDE DEF Fine
        <4>3. QED
          BY <3>5, <4>1, <4>2 DEF Among
      <3>7. ASSUME NEW n \in h .. z PROVE Covered(doc, qs, n)
        <4>1. CASE n = h
          BY <3>4, <3>5, <4>1, CoveredByOne
        <4>2. CASE n # h
          <5>1. n \in h + 1 .. z
            BY <3>1, <4>2
          <5>2. Covered(doc, rows, n)
            BY <3>3, <5>1
          <5>3. QED
            BY <3>5, <5>2, CoveredMore
        <4>3. QED
          BY <4>1, <4>2
      <3> HIDE DEF Fine
      <3>8. QED
        BY <3>5, <3>6, <3>7 DEF qs, h, z
    <2>3. QED
      BY <2>1, <2>2
  <1>5. \A i \in 1 .. Len(S) : made[i] = M(S[i])
    BY <1>3
  <1> HIDE DEF M, Fine
  <1>6. made \in Seq(Seq(PieceSet)) /\ Len(made) = Len(S)
    <2>1. made = [i \in DOMAIN S |-> made[i]]
      OBVIOUS
    <2> HIDE DEF made
    <2>2. \A i \in 1 .. Len(S) : made[i] \in Seq(PieceSet)
      BY <1>4, <1>5
    <2>3. QED
      BY <1>1, <2>1, <2>2, OfSections DEF S
  <1> HIDE DEF made
  <1>7. /\ ps \in Seq(PieceSet)
        /\ \A i \in 1 .. Len(made) : \A j \in 1 .. Len(made[i]) : Among(made[i][j], ps)
        /\ \A k \in 1 .. Len(ps) : \E i \in 1 .. Len(made) : Among(ps[k], made[i])
    BY <1>6, AmongFlat
  <1> HIDE DEF ps
  <1>8. ASSUME NEW k \in 1 .. Len(ps) PROVE Fine(ps[k])
    <2>1. PICK i \in 1 .. Len(S) : Among(ps[k], made[i])
      BY <1>6, <1>7
    <2>2. QED
      BY <1>4, <1>5, <2>1 DEF Among
  <1>9. ASSUME NEW n \in 1 .. Len(doc) PROVE Covered(doc, ps, n)
    <2>1. PICK i \in 1 .. Len(S) : S[i].title # 0 /\ S[i].title <= n /\ n <= S[i].last
      BY <1>1, UnderHead DEF S
    <2>2. n \in S[i].title .. S[i].last
      <3>1. S[i].title \in Nat /\ S[i].last \in Nat
        BY <1>3 DEF Under
      <3>2. QED
        BY <2>1, <3>1
    <2>3. Covered(doc, made[i], n)
      BY <1>4, <1>5, <2>1, <2>2
    <2>4. \A j \in 1 .. Len(made[i]) : Among(made[i][j], ps)
      BY <1>6, <1>7
    <2>5. QED
      BY <2>3, <2>4, CoveredMore
  <1>10. QED
    BY <1>1, <1>2, <1>7, <1>8, <1>9, WholeIs DEF Fine

\* The passages of a document that are cited and filed as they should be.
Fine(f, doc) == {p \in PieceSet : Cut!RightlyCited(f, doc, p) /\ Cut!RightlyTitled(f, doc, p)}
Present(doc, ps, n) == Covered(doc, ps, n) \/ \E k \in 1 .. Len(ps) : n \in ps[k].titles

\* More passages hold no less.
LEMMA KeptMore ==
    ASSUME NEW doc, NEW qs, NEW ps, NEW n, Present(doc, qs, n),
           \A k \in 1 .. Len(qs) : Among(qs[k], ps)
    PROVE  Present(doc, ps, n)
  <1>1. CASE Covered(doc, qs, n)
    BY <1>1, CoveredMore DEF Present
  <1>2. CASE \E k \in 1 .. Len(qs) : n \in qs[k].titles
    <2>1. PICK k \in 1 .. Len(qs) : n \in qs[k].titles
      BY <1>2
    <2>2. PICK j \in 1 .. Len(ps) : ps[j] = qs[k]
      BY DEF Among
    <2>3. QED
      BY <2>1, <2>2 DEF Present
  <1>3. QED
    BY <1>1, <1>2 DEF Present

\* With no lines to point at and no heading to answer for, a passage is fine.
LEMMA FreeFine ==
    ASSUME NEW f, f \notin Cut!OneHeading, NEW doc, NEW t \in Text, NEW T \in SUBSET Nat
    PROVE  Cut!Passage(t, T, 0, 0) \in Fine(f, doc)
  <1> DEFINE p == Cut!Passage(t, T, 0, 0)
  <1>1. p = [text |-> t, titles |-> T, first |-> 0, last |-> 0] /\ p.last = 0
    BY DEF Cut!Passage
  <1> HIDE DEF p
  <1>2. p \in PieceSet
    BY <1>1 DEF PieceSet
  <1>3. Cut!RightlyCited(f, doc, p) /\ Cut!RightlyTitled(f, doc, p)
    BY <1>1 DEF Cut!RightlyCited, Cut!RightlyTitled
  <1>4. QED
    BY <1>2, <1>3 DEF Fine, p

\* Passages all cited and filed as they should be hold a file if they hold its
\* lines.
LEMMA FineWhole ==
    ASSUME NEW f, NEW doc \in Docs, NEW ps \in Seq(Fine(f, doc)),
           \A n \in 1 .. Len(doc) : Present(doc, ps, n) \/ Cut!LeftOut(f, doc, n)
    PROVE  Whole(f, doc, ps)
  <1>1. \A k \in 1 .. Len(ps) : ps[k] \in Fine(f, doc)
    BY ElementOfSeq
  <1>2. ps \in Seq(PieceSet)
    BY SeqMonotonic DEF Fine
  <1>3. QED
    BY <1>1, <1>2, WholeIs DEF Fine, Present

\* The same of passages made in groups, put one after the other.
LEMMA FlatWhole ==
    ASSUME NEW f, NEW doc \in Docs, NEW ss \in Seq(Seq(Fine(f, doc))), NEW ps,
           ps = Cut!FlattenSeq(ss),
           \A n \in 1 .. Len(doc) : \/ Cut!LeftOut(f, doc, n)
                                    \/ \E i \in 1 .. Len(ss) : Present(doc, ss[i], n)
    PROVE  Whole(f, doc, ps)
  <1>1. /\ ps \in Seq(Fine(f, doc))
        /\ \A i \in 1 .. Len(ss) : \A j \in 1 .. Len(ss[i]) : Among(ss[i][j], ps)
    BY AmongFlat
  <1>2. ASSUME NEW n \in 1 .. Len(doc) PROVE Present(doc, ps, n) \/ Cut!LeftOut(f, doc, n)
    BY <1>1, KeptMore
  <1>3. QED
    BY <1>1, <1>2, FineWhole

\* A document read section by section.
LEMMA SectionsWhole ==
    ASSUME NEW f, NEW doc \in Docs, NEW made,
           made = [i \in DOMAIN Cut!Sections(doc) |-> made[i]],
           NEW ps, ps = Cut!FlattenSeq(made),
           \A i \in 1 .. Len(Cut!Sections(doc)) : made[i] \in Seq(Fine(f, doc)),
           \A n \in 1 .. Len(doc) : \/ Cut!LeftOut(f, doc, n)
                                    \/ \E i \in 1 .. Len(Cut!Sections(doc)) : Present(doc, made[i], n)
    PROVE  Whole(f, doc, ps)
  <1>1. made \in Seq(Seq(Fine(f, doc))) /\ Len(made) = Len(Cut!Sections(doc))
    BY OfSections
  <1>2. QED
    BY <1>1, FlatWhole

\* Passages made of the batches of the lines from a0 to z.
LEMMA BatchPassages ==
    ASSUME NEW doc \in Docs, NEW a0 \in Nat \ {0}, NEW z \in Nat, a0 <= z + 1, z <= Len(doc),
           NEW limit, NEW f, f \notin Cut!OneHeading, NEW bs, bs = LineBatches(doc, Cut!From(a0, z), limit),
           NEW ps, ps = [i \in DOMAIN bs |-> Cut!Passage(Cut!TextOf(doc, bs[i]), {}, 0, 0)]
    PROVE  /\ ps \in Seq(Fine(f, doc))
           /\ \A n \in a0 .. z : Covered(doc, ps, n)
  <1>1. /\ bs \in Seq(Seq(1 .. Len(doc)))
        /\ \A k \in 1 .. Len(bs) : bs[k] \in Seq(1 .. Len(doc))
        /\ \A n \in a0 .. z : \E k \in 1 .. Len(bs) : Among(n, bs[k])
    BY RowBatches
  <1>2. Len(bs) \in Nat /\ DOMAIN bs = 1 .. Len(bs)
    BY <1>1
  <1>3. ASSUME NEW k \in 1 .. Len(bs)
        PROVE  /\ Cut!Passage(Cut!TextOf(doc, bs[k]), {}, 0, 0) \in Fine(f, doc)
               /\ Cut!Passage(Cut!TextOf(doc, bs[k]), {}, 0, 0).text = Cut!TextOf(doc, bs[k])
               /\ \A r \in 1 .. Len(bs[k]) : LineUnits(doc, bs[k][r]) \subseteq UnitsOf(Cut!TextOf(doc, bs[k]))
    <2>1. bs[k] \in Seq(1 .. Len(doc)) /\ \A i \in 1 .. Len(bs[k]) : bs[k][i] \in 1 .. Len(doc)
      BY <1>1
    <2>2. /\ Cut!TextOf(doc, bs[k]) \in Text
          /\ \A r \in 1 .. Len(bs[k]) : LineUnits(doc, bs[k][r]) \subseteq UnitsOf(Cut!TextOf(doc, bs[k]))
      BY <2>1, TextOfLines
    <2>3. {} \in SUBSET Nat
      OBVIOUS
    <2>4. QED
      BY <2>2, <2>3, FreeFine DEF Cut!Passage
  <1>4. ps \in Seq(Fine(f, doc)) /\ Len(ps) = Len(bs) /\ \A k \in 1 .. Len(bs) : ps[k] = Cut!Passage(Cut!TextOf(doc, bs[k]), {}, 0, 0)
    <2>1. ps \in [1 .. Len(bs) -> Fine(f, doc)]
      BY <1>2, <1>3
    <2>2. QED
      BY <1>2, <2>1
  <1>5. ASSUME NEW n \in a0 .. z PROVE Covered(doc, ps, n)
    <2>1. PICK k \in 1 .. Len(bs) : Among(n, bs[k])
      BY <1>1
    <2>2. LineUnits(doc, n) \subseteq UnitsOf(ps[k].text)
      BY <1>3, <1>4, <2>1 DEF Among
    <2>3. QED
      BY <1>4, <2>2 DEF Covered
  <1>6. QED
    BY <1>4, <1>5

\* Two lines of a section have no heading between them.
LEMMA UnderTogether ==
    ASSUME NEW doc \in Docs, NEW s, Under(doc, s), NEW m \in 0 .. Len(doc), NEW n \in 0 .. Len(doc),
           s.title <= m, m <= s.last, s.title <= n, n <= s.last
    PROVE  Cut!Together(doc, m, n)
  <1> DEFINE lo == Cut!Min({m, n})
             hi == Cut!Max({m, n})
  <1>1. Len(doc) \in Nat /\ s.title \in Nat /\ s.last \in Nat /\ s.last <= Len(doc)
    BY DEF Under, Docs
  <1>2. lo \in {m, n} /\ hi \in {m, n}
    <2>1. {m, n} \subseteq Nat /\ {m, n} # {} /\ {m, n} \subseteq 0 .. Len(doc)
      BY <1>1
    <2>2. QED
      BY <1>1, <2>1, BottomOf, TopIn
  <1> HIDE DEF lo, hi
  <1>3. ASSUME NEW k \in lo + 1 .. hi PROVE doc[k].kind # Cut!Opening
    <2>1. k \in 1 .. Len(doc) /\ s.title < k /\ k <= s.last
      BY <1>1, <1>2
    <2>2. k \notin Heads(doc)
      BY <1>1, <2>1 DEF Under
    <2>3. QED
      BY <1>1, <2>1, <2>2 DEF Heads, Docs
  <1>4. QED
    BY <1>3 DEF Cut!Together, lo, hi

\* Sqlite: the schema of each table and its rows in batches.
LEMMA SqliteWhole ==
    ASSUME NEW doc, FileDoc(doc), Cut!Fits("sqlite", doc), MAX_CHUNK_CHARS \in Nat
    PROVE  Whole("sqlite", doc, Cut!Sqlite(doc))
  <1> DEFINE S == Cut!Sections(doc)
             bs(s) == LineBatches(doc, s.lines, MAX_CHUNK_CHARS)
             top(h) == Cut!Passage(SubSeq(Cut!LineText(doc, h), 1, Cut!Min({Len(Cut!LineText(doc, h)), MAX_CHUNK_CHARS})), {}, 0, 0)
             rest(s) == [i \in DOMAIN bs(s) |-> Cut!Passage(Cut!TextOf(doc, bs(s)[i]), {}, 0, 0)]
             M(s) == IF s.title = 0 \/ Cut!Internal(doc, s.title) THEN <<>>
                     ELSE <<top(s.title)>> \o rest(s)
             made == [i \in DOMAIN S |-> M(S[i])]
             ps == Cut!FlattenSeq(made)
  <1>1. doc \in Docs /\ doc[1].kind = Cut!Opening /\ Len(doc) \in Nat
    BY DEF FileDoc, Cut!Fits
  <1>2. Cut!Sqlite(doc) = ps
    BY Zenon DEF Cut!Sqlite, Cut!EachSection, LineBatches
  <1>3. Len(S) \in Nat /\ DOMAIN S = 1 .. Len(S) /\ \A i \in 1 .. Len(S) : Under(doc, S[i])
    BY <1>1, SectionsAre
  <1>4. "sqlite" \notin Cut!OneHeading
    BY DEF Cut!OneHeading
  <1>5. ASSUME NEW h \in Heads(doc)
        PROVE  /\ top(h) \in Fine("sqlite", doc)
               /\ doc[h].len <= MAX_CHUNK_CHARS => LineUnits(doc, h) \subseteq UnitsOf(top(h).text)
    <2> DEFINE t == Cut!LineText(doc, h)
               k == Cut!Min({Len(t), MAX_CHUNK_CHARS})
    <2>1. t \in Text /\ Len(t) \in Nat /\ UnitsOf(t) = LineUnits(doc, h) /\ Len(t) = doc[h].len
      BY <1>1, HeadLine, UnitsAre, LineIs
    <2> HIDE DEF t
    <2>2. k \in 0 .. Len(t) /\ (Len(t) <= MAX_CHUNK_CHARS => k = Len(t))
      <3>1. {Len(t), MAX_CHUNK_CHARS} \subseteq Nat /\ {Len(t), MAX_CHUNK_CHARS} # {}
        BY <2>1
      <3>2. k \in {Len(t), MAX_CHUNK_CHARS} /\ k <= Len(t) /\ k <= MAX_CHUNK_CHARS
        BY <3>1, BottomOf
      <3>3. QED
        BY <2>1, <3>2
    <2> HIDE DEF k
    <2>3. SubSeq(t, 1, k) \in Text
      BY <2>1, <2>2, UnitsSplit
    <2>4. Len(t) <= MAX_CHUNK_CHARS => UnitsOf(SubSeq(t, 1, k)) = UnitsOf(t)
      <3>1. SubSeq(t, 1, Len(t)) = t
        BY <2>1 DEF Text
      <3>2. QED
        BY <2>2, <3>1
    <2>5. top(h) = Cut!Passage(SubSeq(t, 1, k), {}, 0, 0) /\ top(h).text = SubSeq(t, 1, k)
      BY DEF t, k, Cut!Passage
    <2>6. {} \in SUBSET Nat
      OBVIOUS
    <2> HIDE DEF top
    <2>7. QED
      BY <1>4, <2>1, <2>3, <2>4, <2>5, <2>6, FreeFine
  <1> HIDE DEF S, top
  <1>6. ASSUME NEW i \in 1 .. Len(S)
        PROVE  /\ M(S[i]) \in Seq(Fine("sqlite", doc))
               /\ S[i].title # 0 /\ ~Cut!Internal(doc, S[i].title) =>
                     \A n \in S[i].title .. S[i].last :
                        Covered(doc, M(S[i]), n) \/ (n \in Heads(doc) /\ doc[n].len > MAX_CHUNK_CHARS)
    <2>1. CASE S[i].title = 0 \/ Cut!Internal(doc, S[i].title)
      <3>1. M(S[i]) = <<>>
        BY <2>1
      <3> HIDE DEF M
      <3>2. QED
        BY <2>1, <3>1
    <2>2. CASE S[i].title # 0 /\ ~Cut!Internal(doc, S[i].title)
      <3> DEFINE h == S[i].title
                 z == S[i].last
                 qs == M(S[i])
                 rs == rest(S[i])
      <3>1. /\ h \in Heads(doc) /\ h \in Nat /\ h + 1 \in Nat \ {0} /\ z \in Nat /\ h <= z /\ z <= Len(doc)
            /\ h + 1 <= z + 1 /\ S[i].lines = Cut!From(h + 1, z)
        BY <1>3, <2>2 DEF Under
      <3>2. qs = <<top(h)>> \o rs
        BY <2>2
      <3>3. rs \in Seq(Fine("sqlite", doc)) /\ \A n \in h + 1 .. z : Covered(doc, rs, n)
        <4> DEFINE a0 == h + 1
                   cs == bs(S[i])
        <4>1. cs = LineBatches(doc, Cut!From(a0, z), MAX_CHUNK_CHARS) /\ a0 \in Nat \ {0} /\ a0 <= z + 1
          BY <3>1
        <4>2. rs = [k \in DOMAIN cs |-> Cut!Passage(Cut!TextOf(doc, cs[k]), {}, 0, 0)]
          OBVIOUS
        <4> HIDE DEF rs, bs, cs, a0, h, z, M
        <4>3. rs \in Seq(Fine("sqlite", doc)) /\ \A n \in a0 .. z : Covered(doc, rs, n)
          BY <1>1, <1>4, <3>1, <4>1, <4>2, BatchPassages
        <4>4. QED
          BY <4>3 DEF a0
      <3> HIDE DEF qs, M, rs, h, z, bs
      <3>4. top(h) \in Fine("sqlite", doc)
        BY <1>5, <3>1
      <3>5. /\ qs \in Seq(Fine("sqlite", doc)) /\ Among(top(h), qs)
            /\ \A k \in 1 .. Len(rs) : Among(rs[k], qs)
        BY <3>2, <3>3, <3>4, AmongJoined
      <3>6. ASSUME NEW n \in h .. z
            PROVE  Covered(doc, qs, n) \/ (n \in Heads(doc) /\ doc[n].len > MAX_CHUNK_CHARS)
        <4>1. CASE n = h
          <5>1. doc[h].len \in Nat
            BY <3>1, HeadLine
          <5>2. CASE doc[h].len <= MAX_CHUNK_CHARS
            BY <1>5, <3>1, <3>5, <4>1, <5>2, CoveredByOne
          <5>3. CASE doc[h].len > MAX_CHUNK_CHARS
            BY <3>1, <4>1, <5>3
          <5>4. QED
            BY <5>1, <5>2, <5>3
        <4>2. CASE n # h
          <5>1. n \in h + 1 .. z
            BY <3>1, <4>2
          <5>2. QED
            BY <3>3, <3>5, <5>1, CoveredMore
        <4>3. QED
          BY <4>1, <4>2
      <3>7. QED
        BY <3>5, <3>6 DEF qs, h, z
    <2>3. QED
      BY <2>1, <2>2
  <1>7. \A i \in 1 .. Len(S) : made[i] = M(S[i])
    BY <1>3
  <1>8. made = [i \in DOMAIN S |-> made[i]]
    OBVIOUS
  <1> HIDE DEF M, made
  <1>9. ASSUME NEW n \in 1 .. Len(doc)
        PROVE  Cut!LeftOut("sqlite", doc, n) \/ \E i \in 1 .. Len(S) : Present(doc, made[i], n)
    <2>1. PICK i \in 1 .. Len(S) : S[i].title # 0 /\ S[i].title <= n /\ n <= S[i].last
      BY <1>1, UnderHead DEF S
    <2>2. n \in S[i].title .. S[i].last
      <3>1. S[i].title \in Nat /\ S[i].last \in Nat
        BY <1>3 DEF Under
      <3>2. QED
        BY <2>1, <3>1
    <2>3. \/ Cut!Internal(doc, S[i].title)
          \/ Covered(doc, made[i], n) \/ (n \in Heads(doc) /\ doc[n].len > MAX_CHUNK_CHARS)
      BY <1>6, <1>7, <2>1, <2>2
    <2>6. ASSUME Cut!Internal(doc, S[i].title) PROVE Cut!LeftOut("sqlite", doc, n)
      <3>1. Under(doc, S[i])
        BY <1>3
      <3>3. S[i].title \in 1 .. n /\ S[i].title \in 0 .. Len(doc) /\ S[i].title <= S[i].title
            /\ S[i].title <= S[i].last /\ n \in 0 .. Len(doc)
        BY <1>1, <2>1, <3>1 DEF Under
      <3>2. Cut!Together(doc, S[i].title, n)
        BY <1>1, <2>1, <3>1, <3>3, UnderTogether
      <3>4. QED
        BY <2>6, <3>2, <3>3 DEF Cut!LeftOut
    <2>4. ASSUME n \in Heads(doc), doc[n].len > MAX_CHUNK_CHARS
                 PROVE Cut!LeftOut("sqlite", doc, n)
      BY <2>4 DEF Cut!LeftOut, Heads
    <2>5. QED
      BY <2>3, <2>4, <2>6 DEF Present
  <1>10. QED
    BY <1>1, <1>2, <1>6, <1>7, <1>8, <1>9, SectionsWhole DEF S

\* A heading that is not bare has something under it.
LEMMA NotBare ==
    ASSUME NEW doc, FileDoc(doc), NEW n \in 1 .. Len(doc), doc[n].kind = Cut!Opening,
           ~Cut!BareHeading(doc, n)
    PROVE  \E m \in n + 1 .. Len(doc) : /\ doc[m].kind \in {"text", Cut!Closing}
                                        /\ \A k \in n + 1 .. m : doc[k].kind # Cut!Opening
  <1>1. doc \in Docs /\ Len(doc) \in Nat
    BY DEF FileDoc
  <1>2. PICK m \in n + 1 .. Len(doc) : /\ doc[m].kind \notin {"blank", "note"}
                                       /\ \A k \in n + 1 .. m : doc[k].kind # Cut!Opening
    BY DEF Cut!BareHeading
  <1>3. m \in 1 .. Len(doc) /\ m \in n + 1 .. m
    BY <1>1
  <1>4. doc[m].kind \in Cut!Kinds
    BY <1>1, <1>3, LineIs
  <1>5. doc[m].kind \in {"text", Cut!Closing}
    BY <1>2, <1>3, <1>4 DEF Cut!Kinds
  <1>6. QED
    BY <1>2, <1>5

\* The kinds of lines.
LEMMA LineKind ==
    ASSUME NEW doc, FileDoc(doc), NEW n \in 1 .. Len(doc)
    PROVE  /\ doc[n].kind \in {Cut!Opening, "text", Cut!Closing, "note", "blank"}
           /\ doc[n].kind = "blank" => doc[n].len = 0
           /\ doc[n].kind = Cut!Opening <=> n \in Heads(doc)
           /\ doc \in Docs
  BY LineIs DEF FileDoc, Cut!Kinds, Heads

\* Legifrance: a passage for each article, under its headings.
LEMMA LegifranceWhole ==
    ASSUME NEW doc, FileDoc(doc), Cut!Fits("legifrance", doc)
    PROVE  Whole("legifrance", doc, Cut!Legifrance(doc))
  <1> DEFINE A == {n \in DOMAIN doc : doc[n].kind \in {"text", Cut!Closing}}
             rise == Cut!Ascending(A)
             P(n) == Cut!Passage(Cut!LineText(doc, n), Cut!LegifrancePath(doc, n), 0, 0)
             ps == [i \in DOMAIN rise |-> P(rise[i])]
  <1>1. /\ doc \in Docs /\ Len(doc) \in Nat /\ DOMAIN doc = 1 .. Len(doc)
        /\ \A n \in 1 .. Len(doc) : doc[n].kind # "note"
    BY DEF FileDoc, Cut!Fits, Docs
  <1>2. Cut!Legifrance(doc) = ps
    BY Zenon DEF Cut!Legifrance
  <1>3. A \subseteq 1 .. Len(doc) /\ \A n \in 1 .. Len(doc) : n \in A <=> doc[n].kind \in {"text", Cut!Closing}
    BY <1>1
  <1> HIDE DEF A
  <1>4. /\ Len(rise) \in Nat /\ DOMAIN rise = 1 .. Len(rise) /\ \A i \in 1 .. Len(rise) : rise[i] \in A
        /\ \A x \in A : \E i \in 1 .. Len(rise) : rise[i] = x
    <2>1. /\ Len(rise) = Cardinality(A) /\ Cardinality(A) \in Nat /\ DOMAIN rise = 1 .. Len(rise)
          /\ \A i \in 1 .. Len(rise) : rise[i] \in A /\ Below(A, rise[i]) = i - 1
          /\ \A x \in A : \E i \in 1 .. Len(rise) : rise[i] = x
      BY <1>1, <1>3, InOrder
    <2>2. QED
      BY <2>1
  <1>5. ASSUME NEW m \in 1 .. Len(doc)
        PROVE  /\ Cut!LegifrancePath(doc, m) \in SUBSET Nat
               /\ \A h \in Cut!LegifrancePath(doc, m) :
                     \/ h = Cut!Min(Cut!Defs(doc))
                     \/ h < m /\ \A k \in h + 1 .. m : doc[k].kind = Cut!Opening => k = m
               /\ \A h \in Heads(doc) : h < m /\ (\A k \in h + 1 .. m : doc[k].kind # Cut!Opening)
                                           => h \in Cut!LegifrancePath(doc, m)
    <2> DEFINE above == {h \in Heads(doc) : h < m}
    <2>1. above \subseteq 1 .. Len(doc) /\ above \subseteq Nat
      BY DEF Heads
    <2>2. Cut!LegifrancePath(doc, m) = IF above = {} THEN {} ELSE {Cut!Min(above), Cut!Max(above)}
      <3>1. Cut!Defs(doc) = Heads(doc)
        BY <1>1, SectionsAre
      <3>2. QED
        BY <3>1 DEF Cut!LegifrancePath
    <2>3. above # {} => /\ Cut!Min(above) \in above /\ Cut!Max(above) \in above
                        /\ \A h \in above : (\A g \in above : g <= h) => Cut!Max(above) = h
      <3> HIDE DEF above
      <3>1. QED
        BY <1>1, <2>1, BottomOf, TopOf
    <2>4. Cut!LegifrancePath(doc, m) \in SUBSET Nat
      BY <2>1, <2>2, <2>3
    <2>5. ASSUME NEW h \in Heads(doc), h < m, \A k \in h + 1 .. m : doc[k].kind # Cut!Opening
          PROVE  h \in Cut!LegifrancePath(doc, m)
      <3>1. h \in above
        BY <2>5
      <3>2. ASSUME NEW g \in above PROVE g <= h
        <4>1. g \in 1 .. Len(doc) /\ g < m /\ doc[g].kind = Cut!Opening /\ h \in 1 .. Len(doc)
          BY DEF Heads
        <4>2. g \notin h + 1 .. m
          BY <2>5, <4>1
        <4>3. QED
          BY <1>1, <4>1, <4>2
      <3>3. Cut!Max(above) = h
        BY <2>3, <3>1, <3>2
      <3>4. QED
        BY <2>2, <3>1, <3>3
    <2>6. ASSUME NEW h \in Cut!LegifrancePath(doc, m)
          PROVE  \/ h = Cut!Min(Cut!Defs(doc))
                 \/ h < m /\ \A k \in h + 1 .. m : doc[k].kind = Cut!Opening => k = m
      <3>1. above # {} /\ h \in {Cut!Min(above), Cut!Max(above)}
        BY <2>2, <2>6
      <3>2. CASE h = Cut!Min(above)
        <4>1. /\ Cut!Defs(doc) = Heads(doc) /\ Heads(doc) \subseteq Nat /\ m \in Nat
              /\ h \in Heads(doc) /\ h < m
          BY <1>1, <2>1, <2>3, <3>1, <3>2, SectionsAre
        <4>2. \A g \in above : h <= g
          BY <2>1, <3>1, <3>2, BottomOf
        <4>3. ASSUME NEW g \in Heads(doc) PROVE h <= g
          BY <4>1, <4>2, <4>3
        <4>4. Cut!Min(Heads(doc)) = h
          BY <4>1, <4>3, BottomOf
        <4>5. QED
          BY <4>1, <4>4
      <3>3. CASE h = Cut!Max(above)
        <4>1. h \in above /\ \A g \in above : g <= h
          <5> HIDE DEF above
          <5>1. QED
            BY <1>1, <2>1, <3>1, <3>3, TopOf
        <4>2. ASSUME NEW k \in h + 1 .. m, doc[k].kind = Cut!Opening PROVE k = m
          <5>1. h \in 1 .. Len(doc) /\ k \in 1 .. Len(doc) /\ k \in Heads(doc) /\ k > h
            BY <1>1, <2>1, <4>1, <4>2 DEF Heads
          <5>2. k \notin above
            BY <4>1, <5>1
          <5>3. QED
            BY <1>1, <5>1, <5>2
        <4>3. QED
          BY <4>1, <4>2
      <3>4. QED
        BY <3>1, <3>2, <3>3
    <2>7. QED
      BY <2>4, <2>5, <2>6
  <1>6. ASSUME NEW m \in A
        PROVE  /\ P(m) \in Fine("legifrance", doc) /\ P(m).titles = Cut!LegifrancePath(doc, m)
               /\ LineUnits(doc, m) \subseteq UnitsOf(P(m).text)
    <2>1. /\ Cut!LineText(doc, m) \in Text /\ UnitsOf(Cut!LineText(doc, m)) = LineUnits(doc, m)
          /\ Cut!LegifrancePath(doc, m) \in SUBSET Nat
      BY <1>1, <1>3, <1>5, LineIs
    <2>2. P(m) = [text |-> Cut!LineText(doc, m), titles |-> Cut!LegifrancePath(doc, m), first |-> 0, last |-> 0]
      BY DEF Cut!Passage
    <2> HIDE DEF P
    <2>3. P(m) \in PieceSet /\ P(m).last = 0 /\ P(m).titles = Cut!LegifrancePath(doc, m)
          /\ P(m).text = Cut!LineText(doc, m)
      BY <2>1, <2>2 DEF PieceSet
    <2>4. m \in Cut!LinesOf(P(m)) /\ doc[m].kind # Cut!Opening
      <3>1. m \in 1 .. Len(doc) /\ doc[m].kind \in {"text", Cut!Closing} /\ doc[m].kind # "blank"
        BY <1>3 DEF Cut!Closing
      <3>2. doc[m].len \in Nat \ {0}
        BY <1>1, <3>1, LineIs DEF FileDoc
      <3>3. <<m, 1>> \in LineUnits(doc, m)
        BY <3>2 DEF LineUnits
      <3>4. doc[m].kind # Cut!Opening
        BY <3>1 DEF Cut!Opening, Cut!Closing
      <3>5. QED
        BY <2>1, <2>3, <3>3, <3>4, LinesAre
    <2>5. ASSUME NEW h \in P(m).titles
          PROVE  \/ \E n \in Cut!LinesOf(P(m)) : n >= h /\ \A k \in h + 1 .. n : doc[k].kind # Cut!Opening
                 \/ h = Cut!Min(Cut!Defs(doc))
      <3>1. m \in 1 .. Len(doc) /\ h \in Nat
        BY <1>3, <2>1, <2>3
      <3>2. \/ h = Cut!Min(Cut!Defs(doc))
            \/ h < m /\ \A k \in h + 1 .. m : doc[k].kind = Cut!Opening => k = m
        BY <1>5, <2>3, <3>1
      <3>3. ASSUME h < m, \A k \in h + 1 .. m : doc[k].kind = Cut!Opening => k = m
            PROVE  m >= h /\ \A k \in h + 1 .. m : doc[k].kind # Cut!Opening
        BY <2>4, <3>1, <3>3
      <3>4. QED
        BY <2>4, <3>2, <3>3
    <2>6. P(m) \in Fine("legifrance", doc)
      BY <2>3, <2>5 DEF Fine, Cut!RightlyCited, Cut!RightlyTitled
    <2>7. QED
      BY <2>1, <2>3, <2>6
  <1> HIDE DEF rise, P
  <1>7. ps \in Seq(Fine("legifrance", doc)) /\ Len(ps) = Len(rise) /\ \A i \in 1 .. Len(rise) : ps[i] = P(rise[i])
    <2>1. ps \in [1 .. Len(rise) -> Fine("legifrance", doc)]
      BY <1>4, <1>6
    <2>2. QED
      BY <1>4, <2>1
  <1> HIDE DEF ps
  <1>8. ASSUME NEW n \in 1 .. Len(doc)
               PROVE Present(doc, ps, n) \/ Cut!LeftOut("legifrance", doc, n)
    <2>1. CASE n \in A
      <3>1. PICK i \in 1 .. Len(rise) : rise[i] = n
        BY <1>4, <2>1
      <3>2. LineUnits(doc, n) \subseteq UnitsOf(ps[i].text)
        BY <1>6, <1>7, <2>1, <3>1
      <3>3. QED
        BY <1>7, <3>2 DEF Present, Covered
    <2>2. CASE doc[n].kind = "blank"
      BY <2>2, LineKind, BlankHeld DEF Present
    <2>3. CASE n \in Heads(doc)
      <3>1. CASE Cut!BareHeading(doc, n)
        BY <3>1 DEF Cut!LeftOut
      <3>2. CASE ~Cut!BareHeading(doc, n)
        <4>1. PICK m \in n + 1 .. Len(doc) : /\ doc[m].kind \in {"text", Cut!Closing}
                                            /\ \A k \in n + 1 .. m : doc[k].kind # Cut!Opening
          BY <2>3, <3>2, NotBare DEF Heads
        <4>2. m \in A /\ m \in 1 .. Len(doc) /\ n < m
          BY <1>1, <1>3, <4>1
        <4>3. n \in Cut!LegifrancePath(doc, m)
          BY <1>5, <2>3, <4>1, <4>2
        <4>4. PICK i \in 1 .. Len(rise) : rise[i] = m
          BY <1>4, <4>2
        <4>5. n \in ps[i].titles
          BY <1>6, <1>7, <4>2, <4>3, <4>4
        <4>6. QED
          BY <1>7, <4>5 DEF Present
      <3>3. QED
        BY <3>1, <3>2
    <2>4. QED
      BY <1>1, <1>3, <2>1, <2>2, <2>3, LineKind
  <1>9. QED
    BY <1>1, <1>2, <1>7, <1>8, FineWhole
-----------------------------------------------------------------------------
(* HTML. *)

\* Lines put in batches are all there.
LEMMA LinesInBatches ==
    ASSUME NEW doc, NEW X, NEW items \in Seq(X), NEW limit, NEW bs,
           bs = LineBatches(doc, items, limit)
    PROVE  /\ bs \in Seq(Seq(X)) /\ \A k \in 1 .. Len(bs) : bs[k] \in Seq(X)
           /\ \A n : Among(n, items) => \E k \in 1 .. Len(bs) : Among(n, bs[k])
  <1>1. Batched(X, items, bs, Len(items))
    BY LinesBatched
  <1>2. bs \in Seq(Seq(X))
    BY <1>1 DEF Batched
  <1>3. ASSUME NEW n, Among(n, items) PROVE \E k \in 1 .. Len(bs) : Among(n, bs[k])
    <2>1. PICK i \in 1 .. Len(items) : items[i] = n
      BY <1>3 DEF Among
    <2>2. \E k \in 1 .. Len(bs) : \E r \in 1 .. Len(bs[k]) : bs[k][r] = items[i]
      BY <1>1 DEF Batched
    <2>3. QED
      BY <2>1, <2>2 DEF Among
  <1>4. QED
    BY <1>2, <1>3, ElementOfSeq

\* A section of a page, in batches, holds its lines under its heading.
LEMMA HtmlPiecesAre ==
    ASSUME NEW doc \in Docs, NEW s, s.title \in Nat, s.lines \in Seq(1 .. Len(doc)),
           NEW ps, ps = Cut!HtmlPieces(doc, s)
    PROVE  /\ ps \in Seq(Fine("html", doc))
           /\ \A n : Among(n, s.lines) => /\ Covered(doc, ps, n)
                                          /\ \E k \in 1 .. Len(ps) : ps[k].titles = Cut!Title(s.title)
  <1> DEFINE bs == LineBatches(doc, s.lines, MAX_CHUNK_CHARS + 1)
             P(b) == Cut!Passage(Cut!TextOf(doc, b), Cut!Title(s.title), 0, 0)
  <1>1. ps = [k \in DOMAIN bs |-> P(bs[k])]
    BY Zenon DEF Cut!HtmlPieces, LineBatches
  <1>2. /\ bs \in Seq(Seq(1 .. Len(doc))) /\ \A k \in 1 .. Len(bs) : bs[k] \in Seq(1 .. Len(doc))
        /\ \A n : Among(n, s.lines) => \E k \in 1 .. Len(bs) : Among(n, bs[k])
    <2> DEFINE items == s.lines
    <2> HIDE DEF items
    <2>1. items \in Seq(1 .. Len(doc)) /\ bs = LineBatches(doc, items, MAX_CHUNK_CHARS + 1)
      BY DEF items
    <2> HIDE DEF bs
    <2>2. /\ bs \in Seq(Seq(1 .. Len(doc))) /\ \A k \in 1 .. Len(bs) : bs[k] \in Seq(1 .. Len(doc))
          /\ \A n : Among(n, items) => \E k \in 1 .. Len(bs) : Among(n, bs[k])
      BY <2>1, LinesInBatches, ZenonT(20)
    <2>3. QED
      BY <2>2 DEF items
  <1> HIDE DEF bs
  <1>3. Len(bs) \in Nat /\ DOMAIN bs = 1 .. Len(bs)
    BY <1>2
  <1>4. ASSUME NEW b \in Seq(1 .. Len(doc))
        PROVE  /\ P(b) \in Fine("html", doc) /\ P(b).titles = Cut!Title(s.title)
               /\ \A n : Among(n, b) => LineUnits(doc, n) \subseteq UnitsOf(P(b).text)
    <2>1. \A i \in 1 .. Len(b) : b[i] \in 1 .. Len(doc)
      OBVIOUS
    <2>2. /\ Cut!TextOf(doc, b) \in Text
          /\ \A r \in 1 .. Len(b) : LineUnits(doc, b[r]) \subseteq UnitsOf(Cut!TextOf(doc, b))
      BY <2>1, TextOfLines
    <2>3. Cut!Title(s.title) \in SUBSET Nat /\ "html" \notin Cut!OneHeading
      BY DEF Cut!Title, Cut!OneHeading
    <2>4. QED
      BY <2>2, <2>3, FreeFine DEF Cut!Passage, Among
  <1> HIDE DEF P
  <1>5. ps \in Seq(Fine("html", doc)) /\ Len(ps) = Len(bs) /\ \A k \in 1 .. Len(bs) : ps[k] = P(bs[k])
    <2>1. ps \in [1 .. Len(bs) -> Fine("html", doc)]
      BY <1>1, <1>2, <1>3, <1>4
    <2>2. QED
      BY <1>1, <1>3, <2>1
  <1>6. ASSUME NEW n, Among(n, s.lines)
        PROVE  Covered(doc, ps, n) /\ \E k \in 1 .. Len(ps) : ps[k].titles = Cut!Title(s.title)
    <2>1. PICK k \in 1 .. Len(bs) : Among(n, bs[k])
      BY <1>2, <1>6
    <2>2. LineUnits(doc, n) \subseteq UnitsOf(ps[k].text) /\ ps[k].titles = Cut!Title(s.title)
      BY <1>2, <1>4, <1>5, <2>1
    <2>3. QED
      BY <1>5, <2>2 DEF Covered
  <1>7. QED
    BY <1>5, <1>6

\* What is read of a section: its texts, not its notes.
LEMMA HtmlContentIs ==
    ASSUME NEW doc \in Docs, NEW s, Under(doc, s), NEW c, c = Cut!HtmlContent(doc, s)
    PROVE  /\ c \in Seq(1 .. Len(doc))
           /\ \A n \in s.title + 1 .. s.last : doc[n].kind \in {"text", Cut!Closing} => Among(n, c)
  <1> DEFINE ls == s.lines
             K == {i \in DOMAIN ls : doc[ls[i]].kind \notin {"note", "blank"}}
  <1>1. c = Picked(ls, K)
    BY Zenon DEF Cut!HtmlContent, Cut!Keep, Picked
  <1>2. /\ ls \in Seq(1 .. Len(doc)) /\ \A k \in s.title + 1 .. s.last : \E i \in 1 .. Len(ls) : ls[i] = k
    <2>1. s.title \in Nat /\ s.last \in Nat /\ s.title <= s.last /\ s.last <= Len(doc) /\ Len(doc) \in Nat
      BY DEF Under, Docs
    <2> DEFINE a == s.title + 1
               z == s.last
    <2>2. a \in Nat \ {0} /\ a <= z + 1 /\ z \in Nat /\ z <= Len(doc) /\ Len(doc) \in Nat /\ ls = Cut!From(a, z)
      BY <2>1 DEF Under
    <2> DEFINE N == Len(doc)
    <2> HIDE DEF a, z, ls, N
    <2>3. ls \in Seq(1 .. N) /\ \A k \in a .. z : \E i \in 1 .. Len(ls) : ls[i] = k
      <3>1. N \in Nat /\ z <= N
        BY <2>2 DEF N
      <3>2. /\ Cut!From(a, z) \in Seq(1 .. N)
            /\ \A k \in a .. z : \E i \in 1 .. Len(Cut!From(a, z)) : Cut!From(a, z)[i] = k
        BY <2>2, <3>1, FromIs
      <3>3. QED
        BY <2>2, <3>2
    <2>4. QED
      BY <2>3 DEF a, z, N
  <1>3. K \subseteq 1 .. Len(ls) /\ \A i \in 1 .. Len(ls) : doc[ls[i]].kind \in {"text", Cut!Closing} => i \in K
    BY <1>2 DEF Cut!Closing
  <1> HIDE DEF K, ls
  <1>4. /\ Picked(ls, K) \in Seq(1 .. Len(doc))
        /\ \A i \in K : \E k \in 1 .. Len(Picked(ls, K)) : Picked(ls, K)[k] = ls[i]
    BY <1>2, <1>3, PickedIs
  <1>5. ASSUME NEW n \in s.title + 1 .. s.last, doc[n].kind \in {"text", Cut!Closing}
               PROVE Among(n, c)
    <2>1. PICK i \in 1 .. Len(ls) : ls[i] = n
      BY <1>2
    <2>2. i \in K
      BY <1>3, <1>5, <2>1
    <2>3. QED
      BY <1>1, <1>4, <2>1, <2>2 DEF Among
  <1>6. QED
    BY <1>1, <1>4, <1>5

HtmlSection(doc) == [title : Nat, lines : Seq(1 .. Len(doc))]

\* No section of a page is dropped with something in it.
LEMMA HtmlSectionsAre ==
    ASSUME NEW doc \in Docs, NEW hs, hs = Cut!HtmlSections(doc)
    PROVE  /\ hs \in Seq(HtmlSection(doc))
           /\ \A i \in 1 .. Len(Cut!Sections(doc)) :
                 \E k \in 1 .. Len(hs) :
                    /\ i # 1 => hs[k].title = Cut!Sections(doc)[i].title
                    /\ \A n \in Cut!Sections(doc)[i].title + 1 .. Cut!Sections(doc)[i].last :
                          doc[n].kind \in {"text", Cut!Closing} => Among(n, hs[k].lines)
  <1> DEFINE S == Cut!Sections(doc)
             U(i) == IF i = 2 THEN Cut!HtmlContent(doc, S[1]) \o Cut!HtmlContent(doc, S[2])
                     ELSE Cut!HtmlContent(doc, S[i])
             H(i) == [title |-> S[i].title, lines |-> U(i)]
             Takes(i, k) == \A n \in S[i].title + 1 .. S[i].last :
                               doc[n].kind \in {"text", Cut!Closing} => Among(n, hs[k].lines)
  <1>1. hs = IF Len(S) = 1 THEN <<H(1)>> ELSE [i \in 1 .. Len(S) - 1 |-> H(i + 1)]
    BY Zenon DEF Cut!HtmlSections
  <1>2. Len(S) \in Nat \ {0} /\ \A i \in 1 .. Len(S) : Under(doc, S[i])
    <2>1. Len(S) = Cardinality(Heads(doc)) + 1 /\ Cardinality(Heads(doc)) \in Nat
      BY SectionsAre
    <2>2. QED
      BY <2>1, SectionsAre
  <1> HIDE DEF S
  <1>3. ASSUME NEW i \in 1 .. Len(S)
        PROVE  /\ U(i) \in Seq(1 .. Len(doc)) /\ H(i) \in HtmlSection(doc)
               /\ \A j \in {i} \cup (IF i = 2 THEN {1} ELSE {}) :
                     \A n \in S[j].title + 1 .. S[j].last :
                        doc[n].kind \in {"text", Cut!Closing} => Among(n, U(i))
    <2>1. \A j \in 1 .. Len(S) :
             /\ Cut!HtmlContent(doc, S[j]) \in Seq(1 .. Len(doc))
             /\ \A n \in S[j].title + 1 .. S[j].last :
                   doc[n].kind \in {"text", Cut!Closing} => Among(n, Cut!HtmlContent(doc, S[j]))
      BY <1>2, HtmlContentIs
    <2>2. U(i) \in Seq(1 .. Len(doc))
          /\ \A j \in {i} \cup (IF i = 2 THEN {1} ELSE {}) :
                     \A n \in S[j].title + 1 .. S[j].last :
                        doc[n].kind \in {"text", Cut!Closing} => Among(n, U(i))
      <3>1. CASE i = 2
        <4> DEFINE a == Cut!HtmlContent(doc, S[1])
                   b == Cut!HtmlContent(doc, S[2])
        <4>1. a \in Seq(1 .. Len(doc)) /\ b \in Seq(1 .. Len(doc)) /\ U(i) = a \o b
          BY <1>2, <2>1, <3>1
        <4>2. \A n \in S[1].title + 1 .. S[1].last : doc[n].kind \in {"text", Cut!Closing} => Among(n, a)
          BY <1>2, <2>1
        <4>3. \A n \in S[2].title + 1 .. S[2].last : doc[n].kind \in {"text", Cut!Closing} => Among(n, b)
          BY <2>1, <3>1
        <4> HIDE DEF a, b, U
        <4>4. /\ a \o b \in Seq(1 .. Len(doc))
              /\ \A k \in 1 .. Len(a) : Among(a[k], a \o b)
              /\ \A k \in 1 .. Len(b) : Among(b[k], a \o b)
          BY <4>1, AmongBoth
        <4>5. \A n : Among(n, a) \/ Among(n, b) => Among(n, U(i))
          BY <4>1, <4>4 DEF Among
        <4>6. QED
          BY <3>1, <4>1, <4>2, <4>3, <4>4, <4>5
      <3>2. CASE i # 2
        <4>1. U(i) = Cut!HtmlContent(doc, S[i]) /\ {i} \cup (IF i = 2 THEN {1} ELSE {}) = {i}
          BY <3>2
        <4> HIDE DEF U
        <4>2. QED
          BY <2>1, <4>1
      <3>3. QED
        BY <3>1, <3>2
    <2>3. S[i].title \in Nat
      BY <1>2 DEF Under
    <2> HIDE DEF U
    <2>4. H(i) \in HtmlSection(doc)
      BY <2>2, <2>3 DEF HtmlSection
    <2>5. QED
      BY <2>2, <2>4
  <1>4. \A i \in 1 .. Len(S) : H(i).title = S[i].title /\ H(i).lines = U(i)
    OBVIOUS
  <1> HIDE DEF H, U
  <1>5. CASE Len(S) = 1
    <2>1. hs = <<H(1)>> /\ 1 \in 1 .. Len(S)
      BY <1>1, <1>5
    <2>2. hs \in Seq(HtmlSection(doc)) /\ Len(hs) = 1 /\ hs[1] = H(1)
      BY <1>3, <2>1
    <2>3. \A i \in 1 .. Len(S) : i = 1 /\ Takes(i, 1)
      BY <1>3, <1>4, <1>5, <2>2
    <2>4. 1 \in 1 .. Len(hs)
      BY <2>2
    <2> HIDE DEF Takes
    <2>5. \A i \in 1 .. Len(S) : \E k \in 1 .. Len(hs) : (i # 1 => hs[k].title = S[i].title) /\ Takes(i, k)
      BY <2>3, <2>4
    <2>6. QED
      BY <2>2, <2>5 DEF Takes, S
  <1>6. CASE Len(S) # 1
    <2>0. Len(S) - 1 \in Nat \ {0} /\ \A k \in 1 .. Len(S) - 1 : k + 1 \in 1 .. Len(S)
      BY <1>2, <1>6
    <2>1. hs = [k \in 1 .. Len(S) - 1 |-> H(k + 1)]
      BY <1>1, <1>6
    <2>2. /\ hs \in Seq(HtmlSection(doc)) /\ Len(hs) = Len(S) - 1
          /\ \A k \in 1 .. Len(S) - 1 : hs[k] = H(k + 1)
      <3> DEFINE N == Len(S) - 1
      <3>1. hs \in [1 .. N -> HtmlSection(doc)]
        BY <1>3, <2>0, <2>1
      <3>2. N \in Nat /\ hs = [k \in 1 .. N |-> H(k + 1)]
        BY <2>0, <2>1
      <3> HIDE DEF N
      <3>3. hs \in Seq(HtmlSection(doc)) /\ Len(hs) = N /\ \A k \in 1 .. N : hs[k] = H(k + 1)
        BY <3>1, <3>2
      <3>4. QED
        BY <3>3 DEF N
    <2>3. ASSUME NEW i \in 1 .. Len(S)
          PROVE  \E k \in 1 .. Len(hs) : (i # 1 => hs[k].title = S[i].title) /\ Takes(i, k)
      <3>1. CASE i = 1
        <4>1. 1 \in 1 .. Len(hs) /\ hs[1] = H(2) /\ 2 \in 1 .. Len(S)
          BY <2>0, <2>2
        <4>2. hs[1].lines = U(2)
          BY <1>4, <4>1
        <4>3. 1 \in {2} \cup (IF 2 = 2 THEN {1} ELSE {})
          OBVIOUS
        <4>4. Takes(1, 1)
          BY <1>3, <4>1, <4>2, <4>3
        <4>5. QED
          BY <3>1, <4>1, <4>4
      <3>2. CASE i # 1
        <4>1. i - 1 \in 1 .. Len(hs) /\ hs[i - 1] = H(i)
          BY <1>2, <2>2, <3>2
        <4>2. hs[i - 1].lines = U(i) /\ hs[i - 1].title = S[i].title
          BY <1>4, <4>1
        <4>3. Takes(i, i - 1)
          BY <1>3, <4>2
        <4> HIDE DEF Takes
        <4>4. QED
          BY <4>1, <4>2, <4>3
      <3>3. QED
        BY <3>1, <3>2
    <2>4. QED
      BY <2>2, <2>3 DEF Takes, S
  <1>7. QED
    BY <1>5, <1>6

\* Html: each section of a page in batches.
LEMMA HtmlWhole ==
    ASSUME NEW doc, FileDoc(doc)
    PROVE  Whole("html", doc, Cut!Html(doc))
  <1> DEFINE hs == Cut!HtmlSections(doc)
             S == Cut!Sections(doc)
             ss == [i \in DOMAIN hs |-> Cut!HtmlPieces(doc, hs[i])]
  <1>1. doc \in Docs
    BY DEF FileDoc
  <1>2. Cut!Html(doc) = Cut!FlattenSeq(ss)
    BY Zenon DEF Cut!Html
  <1>3. /\ hs \in Seq(HtmlSection(doc))
        /\ \A i \in 1 .. Len(S) :
                 \E k \in 1 .. Len(hs) :
                    /\ i # 1 => hs[k].title = S[i].title
                    /\ \A n \in S[i].title + 1 .. S[i].last :
                          doc[n].kind \in {"text", Cut!Closing} => Among(n, hs[k].lines)
    <2> HIDE DEF hs
    <2>1. hs = Cut!HtmlSections(doc)
      BY DEF hs
    <2>2. QED
      BY <1>1, <2>1, HtmlSectionsAre
  <1> HIDE DEF hs
  <1>4. Len(hs) \in Nat /\ DOMAIN hs = 1 .. Len(hs) /\ \A k \in 1 .. Len(hs) : hs[k] \in HtmlSection(doc)
    BY <1>3
  <1>5. ASSUME NEW k \in 1 .. Len(hs)
        PROVE  /\ Cut!HtmlPieces(doc, hs[k]) \in Seq(Fine("html", doc)) /\ ss[k] = Cut!HtmlPieces(doc, hs[k])
               /\ \A n : Among(n, hs[k].lines) =>
                     /\ Covered(doc, ss[k], n)
                     /\ \E j \in 1 .. Len(ss[k]) : ss[k][j].titles = Cut!Title(hs[k].title)
    <2>1. hs[k].title \in Nat /\ hs[k].lines \in Seq(1 .. Len(doc)) /\ ss[k] = Cut!HtmlPieces(doc, hs[k])
      BY <1>4 DEF HtmlSection
    <2> DEFINE s == hs[k]
               qs == ss[k]
    <2> HIDE DEF s, qs, ss
    <2>2. s.title \in Nat /\ s.lines \in Seq(1 .. Len(doc)) /\ qs = Cut!HtmlPieces(doc, s)
      BY <2>1 DEF s, qs
    <2>3. /\ qs \in Seq(Fine("html", doc))
          /\ \A n : Among(n, s.lines) => /\ Covered(doc, qs, n)
                                         /\ \E j \in 1 .. Len(qs) : qs[j].titles = Cut!Title(s.title)
      BY <1>1, <2>2, HtmlPiecesAre
    <2>4. QED
      BY <2>1, <2>3 DEF s, qs
  <1>6. ss \in Seq(Seq(Fine("html", doc))) /\ Len(ss) = Len(hs)
    <2>1. ss \in [1 .. Len(hs) -> Seq(Fine("html", doc))]
      BY <1>4, <1>5
    <2>2. QED
      BY <1>4, <2>1
  <1> HIDE DEF ss
  <1>7. /\ \A i \in 1 .. Len(S) : Under(doc, S[i]) /\ (i = 1 => S[i].title = 0)
        /\ \A n \in 1 .. Len(doc) : \E i \in 1 .. Len(S) : S[i].title <= n /\ n <= S[i].last
        /\ \A n \in Heads(doc) : \E i \in 1 .. Len(S) : S[i].title = n
    BY <1>1, SectionsAre
  <1> HIDE DEF S
  <1>8. ASSUME NEW n \in 1 .. Len(doc), NEW i \in 1 .. Len(S), S[i].title <= n, n <= S[i].last
        PROVE  n \in Heads(doc) \/ n \in S[i].title + 1 .. S[i].last
    <2>1. S[i].title \in Nat /\ S[i].last \in Nat /\ (S[i].title = 0 \/ S[i].title \in Heads(doc))
      BY <1>7 DEF Under
    <2>2. QED
      BY <1>8, <2>1
  <1>9. ASSUME NEW n \in 1 .. Len(doc)
        PROVE  Cut!LeftOut("html", doc, n) \/ \E k \in 1 .. Len(ss) : Present(doc, ss[k], n)
    <2>1. CASE doc[n].kind \in {"text", Cut!Closing}
      <3>1. PICK i \in 1 .. Len(S) : S[i].title <= n /\ n <= S[i].last
        BY <1>7
      <3>2. n \notin Heads(doc)
        BY <2>1 DEF Heads, Cut!Closing, Cut!Opening
      <3>3. n \in S[i].title + 1 .. S[i].last
        BY <1>8, <3>1, <3>2
      <3>4. PICK k \in 1 .. Len(hs) : Among(n, hs[k].lines)
        BY <1>3, <2>1, <3>3
      <3>5. Covered(doc, ss[k], n)
        BY <1>5, <3>4
      <3>6. QED
        BY <1>6, <3>5 DEF Present
    <2>2. CASE doc[n].kind = "note"
      BY <2>2 DEF Cut!LeftOut
    <2>3. CASE n \in Heads(doc)
      <3>1. CASE Cut!BareHeading(doc, n)
        BY <3>1 DEF Cut!LeftOut
      <3>2. CASE ~Cut!BareHeading(doc, n)
        <4>1. PICK m \in n + 1 .. Len(doc) : /\ doc[m].kind \in {"text", Cut!Closing}
                                            /\ \A k \in n + 1 .. m : doc[k].kind # Cut!Opening
          BY <2>3, <3>2, NotBare DEF Heads
        <4>2. PICK i \in 1 .. Len(S) : S[i].title = n
          BY <1>7, <2>3
        <4>3. n # 0 /\ n \in Nat /\ i # 1
          BY <1>7, <4>2
        <4>4. m \in n + 1 .. S[i].last
          <5>1. S[i].last \in Nat /\ (S[i].last = Len(doc) \/ S[i].last + 1 \in Heads(doc)) /\ n <= S[i].last
            BY <1>7, <4>2 DEF Under
          <5>2. S[i].last + 1 \in Heads(doc) => S[i].last + 1 \notin n + 1 .. m
            BY <4>1 DEF Heads
          <5>3. Len(doc) \in Nat
            BY <1>1 DEF Docs
          <5>4. QED
            BY <4>1, <4>3, <5>1, <5>2, <5>3
        <4>5. PICK k \in 1 .. Len(hs) : hs[k].title = n /\ Among(m, hs[k].lines)
          BY <1>3, <4>1, <4>2, <4>3, <4>4
        <4>6. PICK j \in 1 .. Len(ss[k]) : ss[k][j].titles = Cut!Title(n)
          BY <1>5, <4>5
        <4>7. n \in ss[k][j].titles
          BY <4>3, <4>6 DEF Cut!Title
        <4>8. QED
          BY <1>6, <4>7 DEF Present
      <3>3. QED
        BY <3>1, <3>2
    <2>4. CASE doc[n].kind = "blank"
      <3>1. \A k \in 1 .. Len(ss) : Present(doc, ss[k], n)
        BY <1>1, <2>4, LineKind, BlankHeld DEF Present
      <3>2. 1 \in 1 .. Len(ss)
        <4>1. PICK i \in 1 .. Len(S) : S[i].title <= n /\ n <= S[i].last
          BY <1>7
        <4>2. PICK k \in 1 .. Len(hs) : TRUE
          BY <1>3
        <4>3. QED
          BY <1>4, <1>6, <4>2
      <3>3. QED
        BY <3>1, <3>2
    <2>5. QED
      BY <2>1, <2>2, <2>3, <2>4, LineKind
  <1>10. QED
    BY <1>1, <1>2, <1>6, <1>9, FlatWhole

-----------------------------------------------------------------------------
(* A text cut at a blank line, at the end of a line, or where it must be. *)

Measures ==
    /\ SHORT \in Nat /\ MIN_CHUNK_CHARS \in Nat /\ TARGET_CHUNK_CHARS \in Nat /\ MAX_CHUNK_CHARS \in Nat
    /\ 0 < SHORT /\ SHORT < MIN_CHUNK_CHARS /\ MIN_CHUNK_CHARS < TARGET_CHUNK_CHARS
    /\ TARGET_CHUNK_CHARS < MAX_CHUNK_CHARS

CutHead(t, at) == Cut!RStrip(SubSeq(t, 1, Cut!CutPoint(t, at)))
CutTail(t, at) == Cut!LStrip(SubSeq(t, Cut!CutPoint(t, at) + 1, Len(t)))
\* Starts with no white space.
Flush(t) == t \in Text /\ (t = <<>> \/ t[1] # Cut!White)

\* A cut takes something, and no more than a passage.
LEMMA CutPointIs ==
    ASSUME Measures, NEW t \in Text, NEW at
    PROVE  Cut!CutPoint(t, at) \in 1 .. MAX_CHUNK_CHARS
  <1> DEFINE D == MAX_CHUNK_CHARS
  <1>1. D \in Nat \ {0} /\ MIN_CHUNK_CHARS \in Nat \ {0}
    BY DEF Measures
  <1>2. ASSUME NEW found, found \subseteq 1 .. D PROVE Cut!Before(found) \in 0 .. D
    <2> DEFINE x == {i - 1 : i \in found} \cup {0}
    <2>1. x \subseteq 0 .. D /\ x # {}
      BY <1>1, <1>2
    <2> HIDE DEF x, D
    <2>2. Cut!Max(x) \in x
      BY <1>1, <2>1, TopIn
    <2>3. Cut!Max(x) \in 0 .. D
      BY <2>1, <2>2
    <2>4. QED
      BY <2>3 DEF Cut!Before, x
  <1>3. Cut!LineEnds(t) \subseteq 1 .. D /\ Cut!BlankLines(t) \subseteq 1 .. D
    <2>1. Len(t) \in Nat
      BY UnitsAre
    <2>2. QED
      BY <1>1, <2>1 DEF Cut!LineEnds, Cut!BlankLines
  <1> DEFINE blank == IF "blank" \in at THEN Cut!Before(Cut!BlankLines(t)) ELSE 0
             line == IF "line" \in at THEN Cut!Before(Cut!LineEnds(t)) ELSE 0
  <1>4. blank \in 0 .. D /\ line \in 0 .. D
    BY <1>1, <1>2, <1>3
  <1>5. Cut!CutPoint(t, at) = IF blank >= MIN_CHUNK_CHARS THEN blank
                              ELSE IF line >= MIN_CHUNK_CHARS THEN line ELSE D
    BY DEF Cut!CutPoint
  <1> HIDE DEF blank, line
  <1>6. QED
    BY <1>1, <1>4, <1>5

\* A cut in two loses no unit, and its rest is shorter.
LEMMA CutIs ==
    ASSUME Measures, NEW t \in Text, NEW at, ~(Len(t) <= MAX_CHUNK_CHARS)
    PROVE  /\ CutHead(t, at) \in Text /\ CutTail(t, at) \in Text /\ Flush(CutTail(t, at))
           /\ Len(CutTail(t, at)) < Len(t) /\ Len(CutTail(t, at)) \in Nat
           /\ UnitsOf(CutHead(t, at)) \cup UnitsOf(CutTail(t, at)) = UnitsOf(t)
           /\ Flush(t) => UnitsOf(CutHead(t, at)) # {}
  <1> DEFINE c == Cut!CutPoint(t, at)
             a == SubSeq(t, 1, c)
             b == SubSeq(t, c + 1, Len(t))
  <1>1. Len(t) \in Nat /\ c \in 1 .. Len(t) /\ c \in 0 .. Len(t) /\ c \in Nat \ {0} /\ c < Len(t)
    <2>1. Len(t) \in Nat /\ c \in 1 .. MAX_CHUNK_CHARS /\ MAX_CHUNK_CHARS \in Nat
      BY UnitsAre, CutPointIs DEF Measures
    <2> HIDE DEF c
    <2>2. QED
      BY <2>1
  <1> HIDE DEF c
  <1>2. a \in Text /\ b \in Text /\ UnitsOf(a) \cup UnitsOf(b) = UnitsOf(t)
    BY <1>1, UnitsSplit
  <1>3. Len(b) = Len(t) - c /\ Len(b) < Len(t)
    <2>1. c + 1 \in Nat \ {0} /\ Len(t) <= Len(t) /\ c + 1 <= Len(t)
      BY <1>1
    <2>2. Len(b) = Len(t) - (c + 1) + 1
      BY <1>1, <2>1, UnitsSub
    <2>3. QED
      BY <1>1, <2>2
  <1>4. CutHead(t, at) = Cut!RStrip(a) /\ CutTail(t, at) = Cut!LStrip(b)
    BY DEF CutHead, CutTail, c
  <1>5. Flush(t) => UnitsOf(a) # {}
    <2>1. SUFFICES ASSUME Flush(t) PROVE UnitsOf(a) # {}
      OBVIOUS
    <2>2. t # <<>>
      BY <1>1, UnitsWhite
    <2>3. t[1] # Cut!White
      BY <2>1, <2>2 DEF Flush
    <2>4. 1 \in 1 .. c /\ c <= Len(t) /\ 1 \in Nat \ {0} /\ c \in Nat
      BY <1>1
    <2>5. t[1] \in UnitsOf(a)
      BY <2>3, <2>4, UnitsSub
    <2>6. QED
      BY <2>5
  <1> HIDE DEF a, b
  <1>6. /\ Cut!RStrip(a) \in Text /\ UnitsOf(Cut!RStrip(a)) = UnitsOf(a)
        /\ Cut!LStrip(b) \in Text /\ UnitsOf(Cut!LStrip(b)) = UnitsOf(b) /\ Len(Cut!LStrip(b)) <= Len(b)
    BY <1>2, UnitsStrip
  <1>7. Flush(Cut!LStrip(b))
    <2>1. CASE UnitsOf(b) = {}
      <3>1. Cut!Blank(b)
        BY <1>2, <2>1, UnitsStrip
      <3>2. Cut!LStrip(b) = <<>>
        BY <3>1 DEF Cut!LStrip
      <3>3. QED
        BY <3>2, UnitsWhite DEF Flush
    <2>2. CASE UnitsOf(b) # {}
      <3>1. Cut!LStrip(b)[1] # Cut!White
        BY <1>2, <2>2, FirmStrip
      <3>2. QED
        BY <1>6, <3>1 DEF Flush
    <2>3. QED
      BY <2>1, <2>2
  <1>8. Len(Cut!LStrip(b)) < Len(t) /\ Len(Cut!LStrip(b)) \in Nat
    <2>1. Len(Cut!LStrip(b)) \in Nat /\ Len(b) \in Nat
      BY <1>2, <1>6, UnitsAre
    <2>2. QED
      BY <1>1, <1>3, <1>6, <2>1
  <1>9. QED
    BY <1>2, <1>4, <1>5, <1>6, <1>7, <1>8

\* g cuts the texts of T.
Cuts(g, T, at) ==
    \A t \in T : g[t] = IF Len(t) <= MAX_CHUNK_CHARS THEN IF Cut!Blank(t) THEN <<>> ELSE <<t>>
                        ELSE <<CutHead(t, at)>> \o g[CutTail(t, at)]
UpTo(m) == {t \in Text : Len(t) <= m}

\* Texts of at most m units.
LEMMA UpToIs ==
    ASSUME NEW m \in Nat
    PROVE  /\ UpTo(m) \subseteq Text
           /\ \A t \in Text : t \in UpTo(m) <=> Len(t) <= m
           /\ \A k \in Nat : k <= m => UpTo(k) \subseteq UpTo(m)
           /\ \A t \in Text : Len(t) \in Nat
  <1>1. \A t \in Text : Len(t) \in Nat
    BY UnitsAre
  <1>2. QED
    BY <1>1 DEF UpTo

\* There is one way to cut a text, whatever the lengths it is defined for.
LEMMA CutsAgree ==
    ASSUME Measures, NEW at, NEW m \in Nat, NEW k \in Nat, NEW g, NEW h,
           Cuts(g, UpTo(m), at), Cuts(h, UpTo(k), at), NEW t \in UpTo(m), t \in UpTo(k)
    PROVE  g[t] = h[t]
  <1> DEFINE Agree(i) == \A s \in Text : Len(s) <= i /\ Len(s) <= m /\ Len(s) <= k => g[s] = h[s]
             G == {i \in 0 .. m : Agree(i)}
  <1>1. ASSUME NEW s \in Text, Len(s) <= m, Len(s) <= k,
               \A r \in Text : Len(r) < Len(s) => g[r] = h[r]
        PROVE  g[s] = h[s]
    <2>1. s \in UpTo(m) /\ s \in UpTo(k)
      BY <1>1, UpToIs
    <2>2. CASE Len(s) <= MAX_CHUNK_CHARS
      BY <2>1, <2>2 DEF Cuts
    <2>3. CASE ~(Len(s) <= MAX_CHUNK_CHARS)
      <3>1. g[CutTail(s, at)] = h[CutTail(s, at)]
        BY <1>1, <2>3, CutIs
      <3>2. /\ g[s] = <<CutHead(s, at)>> \o g[CutTail(s, at)]
            /\ h[s] = <<CutHead(s, at)>> \o h[CutTail(s, at)]
        BY <2>1, <2>3 DEF Cuts
      <3>3. QED
        BY <3>1, <3>2
    <2>4. QED
      BY <2>2, <2>3
  <1>2. 0 \in G
    <2>1. ASSUME NEW s \in Text, Len(s) <= 0, Len(s) <= m, Len(s) <= k PROVE g[s] = h[s]
      <3>1. \A r \in Text : ~(Len(r) < Len(s))
        BY <2>1, UnitsAre
      <3>2. QED
        BY <1>1, <2>1, <3>1
    <2>2. QED
      BY <2>1
  <1>3. ASSUME NEW i \in 1 .. m, i - 1 \in G PROVE i \in G
    <2>1. ASSUME NEW s \in Text, Len(s) <= i, Len(s) <= m, Len(s) <= k PROVE g[s] = h[s]
      <3>1. ASSUME NEW r \in Text, Len(r) < Len(s) PROVE g[r] = h[r]
        <4>1. Len(r) <= i - 1 /\ Len(r) <= m /\ Len(r) <= k
          <5>1. Len(r) \in Nat /\ Len(s) \in Nat
            BY UnitsAre
          <5>2. QED
            BY <2>1, <3>1, <5>1
        <4>2. Agree(i - 1)
          BY <1>3
        <4> HIDE DEF G
        <4>3. QED
          BY <4>1, <4>2
      <3> HIDE DEF Agree, G
      <3>2. QED
        BY <1>1, <2>1, <3>1
    <2>2. i \in 0 .. m
      OBVIOUS
    <2>3. QED
      BY <2>1, <2>2
  <1>4. Agree(m)
    <2> HIDE DEF G
    <2>1. \A i \in 0 .. m : i \in G
      BY <1>2, <1>3, Steps
    <2>2. m \in G
      BY <2>1
    <2>3. QED
      BY <2>2 DEF G
  <1>5. Len(t) <= m /\ Len(t) <= k /\ t \in Text
    BY DEF UpTo
  <1> HIDE DEF G
  <1>6. QED
    BY <1>4, <1>5

\* Texts of at most n units can be cut.
LEMMA CutsUpTo ==
    ASSUME Measures, NEW at, NEW n \in Nat
    PROVE  \E g : g \in [UpTo(n) -> Seq(Text)] /\ Cuts(g, UpTo(n), at)
  <1> DEFINE One(t) == IF Cut!Blank(t) THEN <<>> ELSE <<t>>
             Good(m, g) == g \in [UpTo(m) -> Seq(Text)] /\ Cuts(g, UpTo(m), at)
             G == {m \in 0 .. n : \E g : Good(m, g)}
  <1>1. \A t \in Text : One(t) \in Seq(Text)
    OBVIOUS
  <1>2. 0 \in G
    <2> DEFINE g == [t \in UpTo(0) |-> One(t)]
    <2>1. g \in [UpTo(0) -> Seq(Text)]
      BY <1>1, UpToIs
    <2>2. \A t \in UpTo(0) : Len(t) <= MAX_CHUNK_CHARS
      <3>1. \A t \in UpTo(0) : Len(t) \in Nat /\ Len(t) <= 0
        BY UpToIs
      <3>2. QED
        BY <3>1 DEF Measures
    <2>3. Cuts(g, UpTo(0), at)
      BY <2>2 DEF Cuts
    <2>4. Good(0, g)
      BY <2>1, <2>3
    <2> HIDE DEF Good
    <2>5. QED
      BY <2>4
  <1>3. ASSUME NEW m \in 1 .. n, m - 1 \in G PROVE m \in G
    <2>1. PICK old : Good(m - 1, old)
      BY <1>3
    <2>2. m - 1 \in Nat /\ m \in Nat /\ m - 1 <= m /\ m \in 0 .. n
      OBVIOUS
    <2> DEFINE New(t) == IF Len(t) <= MAX_CHUNK_CHARS THEN One(t)
                         ELSE <<CutHead(t, at)>> \o old[CutTail(t, at)]
               g == [t \in UpTo(m) |-> New(t)]
    <2>3. ASSUME NEW t \in UpTo(m), ~(Len(t) <= MAX_CHUNK_CHARS)
          PROVE  /\ CutTail(t, at) \in UpTo(m - 1) /\ CutTail(t, at) \in UpTo(m) /\ CutHead(t, at) \in Text
                 /\ old[CutTail(t, at)] \in Seq(Text)
      <3>1. t \in Text /\ Len(t) <= m /\ Len(t) \in Nat
        BY <2>2, UpToIs
      <3>2. /\ CutHead(t, at) \in Text /\ CutTail(t, at) \in Text
            /\ Len(CutTail(t, at)) < Len(t) /\ Len(CutTail(t, at)) \in Nat
        BY <2>3, <3>1, CutIs
      <3>3. Len(CutTail(t, at)) <= m - 1 /\ Len(CutTail(t, at)) <= m
        BY <2>2, <3>1, <3>2
      <3>4. CutTail(t, at) \in UpTo(m - 1) /\ CutTail(t, at) \in UpTo(m)
        BY <2>2, <3>2, <3>3, UpToIs
      <3>5. QED
        BY <2>1, <3>2, <3>4
    <2>4. g \in [UpTo(m) -> Seq(Text)]
      <3>1. ASSUME NEW t \in UpTo(m) PROVE New(t) \in Seq(Text)
        <4>1. CASE Len(t) <= MAX_CHUNK_CHARS
          BY <1>1, <2>2, <4>1, UpToIs
        <4>2. CASE ~(Len(t) <= MAX_CHUNK_CHARS)
          <5>1. <<CutHead(t, at)>> \in Seq(Text) /\ old[CutTail(t, at)] \in Seq(Text)
            BY <2>3, <4>2
          <5>2. QED
            BY <4>2, <5>1, ConcatProperties
        <4>3. QED
          BY <4>1, <4>2
      <3>2. QED
        BY <3>1
    <2>5. \A t \in UpTo(m) : g[t] = New(t)
      OBVIOUS
    <2> HIDE DEF g
    <2>6. \A t \in UpTo(m - 1) : t \in UpTo(m) /\ g[t] = old[t]
      <3>1. ASSUME NEW t \in UpTo(m - 1) PROVE t \in UpTo(m) /\ g[t] = old[t]
        <4>1. t \in UpTo(m)
          BY <2>2, UpToIs
        <4>2. old[t] = IF Len(t) <= MAX_CHUNK_CHARS THEN One(t)
                       ELSE <<CutHead(t, at)>> \o old[CutTail(t, at)]
          BY <2>1 DEF Cuts
        <4>3. QED
          BY <2>5, <4>1, <4>2
      <3>2. QED
        BY <3>1
    <2>7. Cuts(g, UpTo(m), at)
      <3>1. ASSUME NEW t \in UpTo(m)
            PROVE  g[t] = IF Len(t) <= MAX_CHUNK_CHARS THEN IF Cut!Blank(t) THEN <<>> ELSE <<t>>
                          ELSE <<CutHead(t, at)>> \o g[CutTail(t, at)]
        <4>1. CASE Len(t) <= MAX_CHUNK_CHARS
          BY <2>5, <4>1
        <4>2. CASE ~(Len(t) <= MAX_CHUNK_CHARS)
          <5>1. g[CutTail(t, at)] = old[CutTail(t, at)]
            BY <2>3, <2>6, <4>2
          <5>2. g[t] = <<CutHead(t, at)>> \o old[CutTail(t, at)]
            BY <2>5, <4>2
          <5>3. QED
            BY <4>2, <5>1, <5>2
        <4>3. QED
          BY <4>1, <4>2
      <3>2. QED
        BY <3>1 DEF Cuts
    <2>8. Good(m, g)
      BY <2>4, <2>7
    <2> HIDE DEF Good
    <2>9. QED
      BY <2>2, <2>8
  <1>4. n \in G
    <2> HIDE DEF G
    <2>1. \A m \in 0 .. n : m \in G
      BY <1>2, <1>3, Steps
    <2>2. QED
      BY <2>1
  <1>5. QED
    BY <1>4

\* CutLong is what its definition says, for every text.
LEMMA CutLongIs ==
    ASSUME Measures, NEW at
    PROVE  \E g : Cuts(g, Text, at) /\ \A t \in Text : Cut!CutLong(t, at) = g[t]
  <1> DEFINE Cutting(g) == g = [rest \in Seq(Nat \X Nat) |->
                 IF Len(rest) <= MAX_CHUNK_CHARS THEN IF Cut!Blank(rest) THEN <<>> ELSE <<rest>>
                 ELSE <<Cut!RStrip(SubSeq(rest, 1, Cut!CutPoint(rest, at)))>>
                      \o g[Cut!LStrip(SubSeq(rest, Cut!CutPoint(rest, at) + 1, Len(rest)))]]
             cut == CHOOSE g : Cutting(g)
             Of(m) == CHOOSE g : g \in [UpTo(m) -> Seq(Text)] /\ Cuts(g, UpTo(m), at)
             all == [t \in Text |-> Of(Len(t))[t]]
  <1>1. \A m \in Nat : Cuts(Of(m), UpTo(m), at)
    <2>1. ASSUME NEW m \in Nat PROVE Cuts(Of(m), UpTo(m), at)
      <3>1. \E g : g \in [UpTo(m) -> Seq(Text)] /\ Cuts(g, UpTo(m), at)
        BY CutsUpTo
      <3>2. QED
        BY <3>1
    <2>2. QED
      BY <2>1
  <1> HIDE DEF Of
  <1>2. ASSUME NEW t \in Text
        PROVE  all[t] = IF Len(t) <= MAX_CHUNK_CHARS THEN IF Cut!Blank(t) THEN <<>> ELSE <<t>>
                        ELSE <<CutHead(t, at)>> \o all[CutTail(t, at)]
    <2>1. Len(t) \in Nat /\ t \in UpTo(Len(t))
      <3>1. Len(t) \in Nat
        BY UnitsAre
      <3>2. QED
        BY <3>1, UpToIs
    <2>2. all[t] = Of(Len(t))[t]
      OBVIOUS
    <2>3. Of(Len(t))[t] = IF Len(t) <= MAX_CHUNK_CHARS THEN IF Cut!Blank(t) THEN <<>> ELSE <<t>>
                          ELSE <<CutHead(t, at)>> \o Of(Len(t))[CutTail(t, at)]
      BY <1>1, <2>1 DEF Cuts
    <2>4. ASSUME ~(Len(t) <= MAX_CHUNK_CHARS)
          PROVE  all[CutTail(t, at)] = Of(Len(t))[CutTail(t, at)]
      <3> DEFINE s == CutTail(t, at)
      <3>1. s \in Text /\ Len(s) < Len(t) /\ Len(s) \in Nat
        BY <2>4, CutIs
      <3> HIDE DEF s
      <3>2. s \in UpTo(Len(s)) /\ s \in UpTo(Len(t))
        BY <2>1, <3>1, UpToIs
      <3>3. Of(Len(s))[s] = Of(Len(t))[s]
        BY <1>1, <2>1, <3>1, <3>2, CutsAgree
      <3>4. QED
        BY <3>1, <3>3 DEF s
    <2>5. QED
      BY <2>2, <2>3, <2>4
  <1>3. Cutting(all)
    <2>1. all = [t \in Text |-> all[t]]
      OBVIOUS
    <2> HIDE DEF all
    <2>2. all = [t \in Text |-> IF Len(t) <= MAX_CHUNK_CHARS THEN IF Cut!Blank(t) THEN <<>> ELSE <<t>>
                                ELSE <<CutHead(t, at)>> \o all[CutTail(t, at)]]
      BY <1>2, <2>1
    <2>3. QED
      BY <2>2, Zenon DEF Text, Unit, CutHead, CutTail
  <1>4. Cutting(cut)
    <2> HIDE DEF Cutting
    <2>1. QED
      BY <1>3
  <1>5. \A t : Cut!CutLong(t, at) = cut[t]
    BY Zenon DEF Cut!CutLong
  <1> HIDE DEF cut, all
  <1>6. Cuts(cut, Text, at)
    <2>1. Text = Seq(Nat \X Nat)
      BY DEF Text, Unit
    <2>2. QED
      BY <1>4, <2>1 DEF Cuts, CutHead, CutTail
  <1>7. QED
    BY <1>5, <1>6

\* The texts ts hold what t holds, and none is white.
PiecesOf(t, ts) ==
    /\ ts \in Seq(Text)
    /\ \A x : Among(x, ts) => UnitsOf(x) # {} /\ UnitsOf(x) \subseteq UnitsOf(t)
    /\ \A u \in UnitsOf(t) : \E x : Among(x, ts) /\ u \in UnitsOf(x)

\* A sequence with one put before it, element by element.
LEMMA AmongFirst ==
    ASSUME NEW X, NEW x \in X, NEW b \in Seq(X)
    PROVE  /\ <<x>> \o b \in Seq(X)
           /\ \A y : Among(y, <<x>> \o b) <=> y = x \/ Among(y, b)
  <1> DEFINE ps == <<x>> \o b
  <1>1. ps = <<x>> \o b
    OBVIOUS
  <1> HIDE DEF ps
  <1>2. /\ ps \in Seq(X) /\ Among(x, ps)
        /\ \A k \in 1 .. Len(b) : Among(b[k], ps)
        /\ \A k \in 1 .. Len(ps) : ps[k] = x \/ Among(ps[k], b)
    BY <1>1, AmongJoined
  <1>3. ASSUME NEW y PROVE Among(y, ps) <=> y = x \/ Among(y, b)
    <2>1. ASSUME Among(y, ps) PROVE y = x \/ Among(y, b)
      <3>1. PICK k \in 1 .. Len(ps) : ps[k] = y
        BY <2>1 DEF Among
      <3>2. QED
        BY <1>2, <3>1
    <2>2. ASSUME Among(y, b) PROVE Among(y, ps)
      <3>1. PICK k \in 1 .. Len(b) : b[k] = y
        BY <2>2 DEF Among
      <3>2. QED
        BY <1>2, <3>1
    <2>3. QED
      BY <1>2, <2>1, <2>2
  <1>4. QED
    BY <1>2, <1>3 DEF ps

\* A sequence of one, and of none.
LEMMA AmongOne ==
    ASSUME NEW X, NEW x \in X
    PROVE  <<x>> \in Seq(X) /\ (\A y : Among(y, <<x>>) <=> y = x) /\ \A y : ~Among(y, <<>>)
  <1>1. <<x>> \in Seq(X) /\ Len(<<x>>) = 1 /\ <<x>>[1] = x /\ Len(<<>>) = 0
    OBVIOUS
  <1>2. (\A k : k \in 1 .. 1 <=> k = 1) /\ 1 .. 0 = {}
    OBVIOUS
  <1>3. QED
    BY <1>1, <1>2 DEF Among

\* A long text cut in pieces is in them, and none is white.
LEMMA LongPieces ==
    ASSUME Measures, NEW at, NEW s, Flush(s), NEW ts, ts = Cut!CutLong(s, at)
    PROVE  PiecesOf(s, ts)
  <1>1. PICK g : Cuts(g, Text, at) /\ \A t \in Text : Cut!CutLong(t, at) = g[t]
    BY CutLongIs
  <1> DEFINE Good(i) == \A t \in Text : Len(t) <= i /\ Flush(t) => PiecesOf(t, g[t])
             n == Len(s)
             G == {i \in 0 .. n : Good(i)}
  <1>2. s \in Text /\ n \in Nat /\ \A t \in Text : Len(t) \in Nat
    BY UnitsAre DEF Flush
  <1>3. ASSUME NEW t \in Text, Flush(t), NEW i \in Nat, Len(t) <= i, i # 0 => Good(i - 1)
        PROVE  PiecesOf(t, g[t])
    <2>1. CASE Len(t) <= MAX_CHUNK_CHARS
      <3>1. g[t] = IF Cut!Blank(t) THEN <<>> ELSE <<t>>
        BY <1>1, <2>1 DEF Cuts
      <3>2. CASE Cut!Blank(t)
        <4>1. g[t] = <<>> /\ UnitsOf(t) = {} /\ \A y : ~Among(y, <<>>)
          BY <3>1, <3>2, UnitsStrip, AmongOne
        <4>2. QED
          BY <4>1 DEF PiecesOf
      <3>3. CASE ~Cut!Blank(t)
        <4>1. g[t] = <<t>> /\ UnitsOf(t) # {} /\ <<t>> \in Seq(Text) /\ \A y : Among(y, <<t>>) <=> y = t
          BY <3>1, <3>3, UnitsStrip, AmongOne
        <4>2. QED
          BY <4>1 DEF PiecesOf
      <3>4. QED
        BY <3>2, <3>3
    <2>2. CASE ~(Len(t) <= MAX_CHUNK_CHARS)
      <3> DEFINE a == CutHead(t, at)
                 b == CutTail(t, at)
      <3>1. g[t] = <<a>> \o g[b]
        BY <1>1, <2>2 DEF Cuts
      <3>2. /\ a \in Text /\ b \in Text /\ Flush(b) /\ Len(b) < Len(t) /\ Len(b) \in Nat
            /\ UnitsOf(a) \cup UnitsOf(b) = UnitsOf(t) /\ UnitsOf(a) # {}
        BY <1>3, <2>2, CutIs
      <3> HIDE DEF a, b
      <3>3. i # 0 /\ Len(b) <= i - 1
        BY <1>2, <1>3, <3>2
      <3>4. PiecesOf(b, g[b])
        BY <1>3, <3>2, <3>3
      <3>5. g[b] \in Seq(Text)
        BY <3>4 DEF PiecesOf
      <3>6. g[t] \in Seq(Text) /\ \A y : Among(y, g[t]) <=> y = a \/ Among(y, g[b])
        BY <3>1, <3>2, <3>5, AmongFirst
      <3>7. QED
        BY <3>2, <3>4, <3>6 DEF PiecesOf
    <2>3. QED
      BY <2>1, <2>2
  <1>4. 0 \in G
    <2>1. 0 \in Nat
      OBVIOUS
    <2>2. Good(0)
      BY <1>3, <2>1
    <2>3. QED
      BY <1>2, <2>2
  <1>5. ASSUME NEW i \in 1 .. n, i - 1 \in G PROVE i \in G
    <2>1. i \in Nat /\ i \in 0 .. n /\ i # 0 /\ Good(i - 1)
      BY <1>2, <1>5
    <2>2. Good(i)
      BY <1>3, <2>1
    <2>3. QED
      BY <2>1, <2>2
  <1>6. Good(n)
    <2> HIDE DEF G
    <2>1. \A i \in 0 .. n : i \in G
      BY <1>2, <1>4, <1>5, Steps
    <2>2. n \in G
      BY <1>2, <2>1
    <2>3. QED
      BY <2>2 DEF G
  <1>7. PiecesOf(s, g[s])
    <2>1. Len(s) <= n
      BY <1>2
    <2> HIDE DEF G, n
    <2>2. QED
      BY <1>2, <1>6, <2>1
  <1>8. QED
    BY <1>1, <1>2, <1>7

\* What is cut off a passage stays where the passage was.
PieceOf(q, p) ==
    /\ q \in PieceSet /\ q.titles = p.titles /\ q.first = p.first /\ q.last = p.last
    /\ UnitsOf(q.text) \subseteq UnitsOf(p.text) /\ UnitsOf(q.text) # {}

\* SplitLong leaves passages in which all there was still is.
LEMMA SplitIs ==
    ASSUME Measures, NEW at, NEW ps \in Seq(PieceSet),
           \A i \in 1 .. Len(ps) : Flush(ps[i].text),
           NEW qs, qs = Cut!SplitLong(ps, at)
    PROVE  /\ qs \in Seq(PieceSet)
           /\ \A k \in 1 .. Len(qs) : \E i \in 1 .. Len(ps) : PieceOf(qs[k], ps[i])
           /\ \A i \in 1 .. Len(ps) : \A u \in UnitsOf(ps[i].text) :
                 \E k \in 1 .. Len(qs) : u \in UnitsOf(qs[k].text) /\ PieceOf(qs[k], ps[i])
  <1> DEFINE T(p) == Cut!CutLong(p.text, at)
             R(p) == [k \in DOMAIN T(p) |-> [p EXCEPT !.text = T(p)[k]]]
             ss == [i \in DOMAIN ps |-> R(ps[i])]
  <1>1. qs = Cut!FlattenSeq(ss)
    BY Zenon DEF Cut!SplitLong
  <1>2. Len(ps) \in Nat /\ DOMAIN ps = 1 .. Len(ps) /\ \A i \in 1 .. Len(ps) : ps[i] \in PieceSet
    OBVIOUS
  <1>3. ASSUME NEW p \in PieceSet, Flush(p.text)
        PROVE  /\ R(p) \in Seq(PieceSet)
               /\ \A x : Among(x, R(p)) => PieceOf(x, p)
               /\ \A u \in UnitsOf(p.text) : \E x : Among(x, R(p)) /\ u \in UnitsOf(x.text)
    <2> DEFINE ts == T(p)
               E(x) == [p EXCEPT !.text = x]
    <2>1. PiecesOf(p.text, ts)
      <3> DEFINE s == p.text
      <3>1. ts = Cut!CutLong(s, at) /\ Flush(s)
        BY <1>3
      <3> HIDE DEF s, ts
      <3>2. PiecesOf(s, ts)
        BY <3>1, LongPieces
      <3>3. QED
        BY <3>2 DEF s
    <2>2. R(p) = [k \in DOMAIN ts |-> E(ts[k])]
      OBVIOUS
    <2> HIDE DEF ts
    <2>3. ts \in Seq(Text) /\ Len(ts) \in Nat /\ DOMAIN ts = 1 .. Len(ts) /\ \A k \in 1 .. Len(ts) : ts[k] \in Text
      BY <2>1 DEF PiecesOf
    <2>4. ASSUME NEW x \in Text
          PROVE  /\ E(x) \in PieceSet /\ E(x).text = x /\ E(x).titles = p.titles
                 /\ E(x).first = p.first /\ E(x).last = p.last
      BY <1>3 DEF PieceSet
    <2> HIDE DEF E, R
    <2>5. R(p) \in Seq(PieceSet) /\ Len(R(p)) = Len(ts) /\ \A k \in 1 .. Len(ts) : R(p)[k] = E(ts[k])
      <3>1. R(p) \in [1 .. Len(ts) -> PieceSet]
        BY <2>2, <2>3, <2>4
      <3>2. QED
        BY <2>2, <2>3, <3>1
    <2>6. ASSUME NEW x, Among(x, R(p)) PROVE PieceOf(x, p)
      <3>1. PICK k \in 1 .. Len(ts) : x = E(ts[k])
        BY <2>5, <2>6 DEF Among
      <3>2. ts[k] \in Text /\ Among(ts[k], ts)
        BY <2>3 DEF Among
      <3>3. UnitsOf(ts[k]) # {} /\ UnitsOf(ts[k]) \subseteq UnitsOf(p.text)
        BY <2>1, <3>2 DEF PiecesOf
      <3>4. QED
        BY <2>4, <3>1, <3>2, <3>3 DEF PieceOf
    <2>7. ASSUME NEW u \in UnitsOf(p.text) PROVE \E x : Among(x, R(p)) /\ u \in UnitsOf(x.text)
      <3>1. PICK y : Among(y, ts) /\ u \in UnitsOf(y)
        BY <2>1 DEF PiecesOf
      <3>2. PICK k \in 1 .. Len(ts) : ts[k] = y
        BY <3>1 DEF Among
      <3>3. Among(E(y), R(p)) /\ E(y).text = y
        BY <2>3, <2>4, <2>5, <3>2 DEF Among
      <3>4. QED
        BY <3>1, <3>3
    <2>8. QED
      BY <2>5, <2>6, <2>7
  <1>4. \A i \in 1 .. Len(ps) : ss[i] = R(ps[i])
    BY <1>2
  <1> HIDE DEF R
  <1>5. ss \in Seq(Seq(PieceSet)) /\ Len(ss) = Len(ps)
    <2>1. ss \in [1 .. Len(ps) -> Seq(PieceSet)]
      BY <1>2, <1>3
    <2>2. QED
      BY <1>2, <2>1
  <1> HIDE DEF ss
  <1>6. /\ qs \in Seq(PieceSet)
        /\ \A i \in 1 .. Len(ss) : \A j \in 1 .. Len(ss[i]) : Among(ss[i][j], qs)
        /\ \A k \in 1 .. Len(qs) : \E i \in 1 .. Len(ss) : Among(qs[k], ss[i])
    BY <1>1, <1>5, AmongFlat
  <1>7. ASSUME NEW k \in 1 .. Len(qs) PROVE \E i \in 1 .. Len(ps) : PieceOf(qs[k], ps[i])
    <2>1. PICK i \in 1 .. Len(ps) : Among(qs[k], R(ps[i]))
      BY <1>4, <1>5, <1>6
    <2>2. QED
      BY <1>2, <1>3, <2>1
  <1>8. ASSUME NEW i \in 1 .. Len(ps), NEW u \in UnitsOf(ps[i].text)
        PROVE  \E k \in 1 .. Len(qs) : u \in UnitsOf(qs[k].text) /\ PieceOf(qs[k], ps[i])
    <2>1. PICK x : Among(x, R(ps[i])) /\ u \in UnitsOf(x.text) /\ PieceOf(x, ps[i])
      BY <1>2, <1>3
    <2>2. PICK j \in 1 .. Len(ss[i]) : ss[i][j] = x
      BY <1>4, <2>1 DEF Among
    <2>3. Among(x, qs)
      BY <1>5, <1>6, <2>2
    <2>4. QED
      BY <2>1, <2>3 DEF Among
  <1>9. QED
    BY <1>6, <1>7, <1>8

\* A line that passages hold they hold after SplitLong.
LEMMA SplitCovers ==
    ASSUME Measures, NEW at, NEW ps \in Seq(PieceSet),
           \A i \in 1 .. Len(ps) : Flush(ps[i].text),
           NEW qs, qs = Cut!SplitLong(ps, at), NEW doc, NEW n, Covered(doc, ps, n)
    PROVE  Covered(doc, qs, n)
  <1>1. \A i \in 1 .. Len(ps) : \A u \in UnitsOf(ps[i].text) :
                 \E k \in 1 .. Len(qs) : u \in UnitsOf(qs[k].text)
    BY SplitIs
  <1>2. QED
    BY <1>1 DEF Covered

\* White passages thrown away are not missed.
LEMMA NonBlankIs ==
    ASSUME NEW X, X \subseteq PieceSet, NEW ps \in Seq(X), NEW qs, qs = Cut!NonBlank(ps)
    PROVE  /\ qs \in Seq(X) /\ \A k \in 1 .. Len(qs) : Among(qs[k], ps) /\ UnitsOf(qs[k].text) # {}
           /\ \A doc, n : Covered(doc, ps, n) => Covered(doc, qs, n)
           /\ \A k \in 1 .. Len(ps) : UnitsOf(ps[k].text) # {} => Among(ps[k], qs)
  <1> DEFINE K == {i \in DOMAIN ps : ~Cut!Blank(ps[i].text)}
  <1>1. qs = Picked(ps, K)
    BY Zenon DEF Cut!NonBlank, Cut!Keep, Picked
  <1>2. DOMAIN ps = 1 .. Len(ps) /\ \A i \in 1 .. Len(ps) : ps[i] \in PieceSet /\ ps[i].text \in Text
    <2>1. DOMAIN ps = 1 .. Len(ps) /\ \A i \in 1 .. Len(ps) : ps[i] \in X
      OBVIOUS
    <2>2. QED
      BY <2>1 DEF PieceSet
  <1>3. K \subseteq 1 .. Len(ps) /\ \A i \in 1 .. Len(ps) : i \in K <=> UnitsOf(ps[i].text) # {}
    BY <1>2, UnitsStrip
  <1> HIDE DEF K
  <1>4. /\ qs \in Seq(X)
        /\ \A k \in 1 .. Len(qs) : \E i \in K : qs[k] = ps[i]
        /\ \A i \in K : \E k \in 1 .. Len(qs) : qs[k] = ps[i]
    <2>1. /\ Picked(ps, K) \in Seq(X)
          /\ \A k \in 1 .. Len(Picked(ps, K)) : \E i \in K : Picked(ps, K)[k] = ps[i]
          /\ \A i \in K : \E k \in 1 .. Len(Picked(ps, K)) : Picked(ps, K)[k] = ps[i]
      <3>1. ps \in Seq(X) /\ K \subseteq 1 .. Len(ps)
        BY <1>3
      <3>2. QED
        BY <3>1, PickedIs, ZenonT(60)
    <2>2. QED
      BY <1>1, <2>1
  <1>5. \A k \in 1 .. Len(qs) : Among(qs[k], ps) /\ UnitsOf(qs[k].text) # {}
    BY <1>3, <1>4 DEF Among
  <1>6. \A k \in 1 .. Len(ps) : UnitsOf(ps[k].text) # {} => Among(ps[k], qs)
    BY <1>3, <1>4 DEF Among
  <1>7. ASSUME NEW doc, NEW n, Covered(doc, ps, n) PROVE Covered(doc, qs, n)
    <2>1. ASSUME NEW u \in LineUnits(doc, n)
                 PROVE \E k \in 1 .. Len(qs) : u \in UnitsOf(qs[k].text)
      <3>1. PICK i \in 1 .. Len(ps) : u \in UnitsOf(ps[i].text)
        BY <1>7 DEF Covered
      <3>2. Among(ps[i], qs)
        BY <1>6, <3>1
      <3>3. QED
        BY <3>1, <3>2 DEF Among
    <2>2. QED
      BY <2>1 DEF Covered
  <1>8. QED
    BY <1>4, <1>5, <1>6, <1>7

-----------------------------------------------------------------------------
(* Keys and elements, gathered. *)

Loose == {p \in PieceSet : Firm(p.text) /\ p.last = 0}

\* Passages joined hold what they held.
LEMMA JoinedIs ==
    ASSUME NEW b \in Seq(Loose), b # <<>>, NEW q, q = Cut!Joined(b)
    PROVE  /\ q \in Loose
           /\ \A u : u \in UnitsOf(q.text) <=> \E i \in 1 .. Len(b) : u \in UnitsOf(b[i].text)
  <1> DEFINE ts == [i \in DOMAIN b |-> b[i].text]
             T == UNION {b[i].titles : i \in DOMAIN b}
  <1>1. /\ Len(b) \in Nat \ {0} /\ DOMAIN b = 1 .. Len(b)
        /\ \A i \in 1 .. Len(b) : b[i] \in PieceSet /\ Firm(b[i].text)
    <2>1. Len(b) \in Nat \ {0} /\ DOMAIN b = 1 .. Len(b) /\ \A i \in 1 .. Len(b) : b[i] \in Loose
      OBVIOUS
    <2>2. QED
      BY <2>1 DEF Loose
  <1>2. T \in SUBSET Nat /\ \A i \in 1 .. Len(b) : b[i].text \in Text
    BY <1>1 DEF PieceSet
  <1>3. ts \in Seq(Text) /\ Len(ts) = Len(b) /\ \A i \in 1 .. Len(b) : ts[i] = b[i].text
    <2>1. ts \in [1 .. Len(b) -> Text]
      BY <1>1, <1>2
    <2>2. QED
      BY <1>1, <2>1
  <1>4. q = Cut!Passage(Cut!Glue(ts), T, 0, 0)
    BY Zenon DEF Cut!Joined
  <1> HIDE DEF ts, T
  <1>5. ts # <<>> /\ \A i \in 1 .. Len(ts) : Firm(ts[i])
    BY <1>1, <1>3
  <1>6. /\ Cut!Glue(ts) \in Text /\ Firm(Cut!Glue(ts))
        /\ \A u : u \in UnitsOf(Cut!Glue(ts)) <=> \E i \in 1 .. Len(ts) : u \in UnitsOf(ts[i])
    BY <1>3, <1>5, GlueUnits
  <1>7. q = [text |-> Cut!Glue(ts), titles |-> T, first |-> 0, last |-> 0]
    BY <1>4 DEF Cut!Passage
  <1>8. q \in Loose
    BY <1>2, <1>6, <1>7 DEF Loose, PieceSet
  <1>9. QED
    BY <1>3, <1>6, <1>7, <1>8

\* Short passages gathered hold what they held.
LEMMA GatheredIs ==
    ASSUME NEW ps \in Seq(Loose), NEW qs, qs = Cut!Gathered(ps)
    PROVE  /\ qs \in Seq(Loose)
           /\ \A doc, n : Covered(doc, ps, n) => Covered(doc, qs, n)
  <1> DEFINE bs == PieceBatches(ps, TARGET_CHUNK_CHARS)
  <1>1. qs = [i \in DOMAIN bs |-> Cut!Joined(bs[i])]
    BY Zenon DEF Cut!Gathered, PieceBatches
  <1>2. Batched(Loose, ps, bs, Len(ps))
    BY PiecesBatched
  <1> HIDE DEF bs
  <1>3. /\ bs \in Seq(Seq(Loose))
        /\ \A k \in 1 .. Len(bs) : \E a, c \in 1 .. Len(ps) : Spans(ps, bs[k], a, c)
        /\ \A j \in 1 .. Len(ps) : \E k \in 1 .. Len(bs) : \E r \in 1 .. Len(bs[k]) : bs[k][r] = ps[j]
    BY <1>2 DEF Batched
  <1>4. Len(bs) \in Nat /\ DOMAIN bs = 1 .. Len(bs) /\ \A k \in 1 .. Len(bs) : bs[k] \in Seq(Loose)
    BY <1>3
  <1>5. \A k \in 1 .. Len(bs) : bs[k] # <<>>
    <2>1. ASSUME NEW k \in 1 .. Len(bs) PROVE bs[k] # <<>>
      <3>1. PICK a \in 1 .. Len(ps), c \in 1 .. Len(ps) : Spans(ps, bs[k], a, c)
        BY <1>3
      <3>2. Len(bs[k]) # 0
        BY <3>1 DEF Spans
      <3>3. QED
        BY <3>2
    <2>2. QED
      BY <2>1
  <1>6. ASSUME NEW k \in 1 .. Len(bs)
        PROVE  /\ Cut!Joined(bs[k]) \in Loose
               /\ \A u : u \in UnitsOf(Cut!Joined(bs[k]).text) <=>
                            \E r \in 1 .. Len(bs[k]) : u \in UnitsOf(bs[k][r].text)
    BY <1>4, <1>5, JoinedIs
  <1>7. qs \in Seq(Loose) /\ Len(qs) = Len(bs) /\ \A k \in 1 .. Len(bs) : qs[k] = Cut!Joined(bs[k])
    <2>1. qs \in [1 .. Len(bs) -> Loose]
      BY <1>1, <1>4, <1>6
    <2>2. QED
      BY <1>1, <1>4, <2>1
  <1>8. ASSUME NEW j \in 1 .. Len(ps), NEW u \in UnitsOf(ps[j].text)
        PROVE  \E k \in 1 .. Len(qs) : u \in UnitsOf(qs[k].text)
    <2>1. PICK k \in 1 .. Len(bs) : \E r \in 1 .. Len(bs[k]) : bs[k][r] = ps[j]
      BY <1>3
    <2>2. u \in UnitsOf(qs[k].text)
      BY <1>6, <1>7, <2>1
    <2>3. QED
      BY <1>7, <2>2
  <1>9. QED
    BY <1>7, <1>8 DEF Covered

\* A short last passage goes to the one before it.
LEMMA TailMergedIs ==
    ASSUME NEW ps \in Seq(Loose), NEW qs, qs = Cut!TailMerged(ps)
    PROVE  /\ qs \in Seq(Loose)
           /\ \A doc, n : Covered(doc, ps, n) => Covered(doc, qs, n)
  <1> DEFINE m == Len(ps)
             a == SubSeq(ps, 1, m - 2)
             b == SubSeq(ps, m - 1, m)
             x == Cut!Joined(b)
  <1>1. CASE qs = ps
    BY <1>1
  <1>2. CASE qs = Append(a, x) /\ m > 1
    <2>1. m \in Nat /\ \A i \in 1 .. m : ps[i] \in Loose
      OBVIOUS
    <2>2. m - 2 \in Nat /\ m - 1 \in Nat \ {0} /\ m - 1 <= m
      BY <1>2, <2>1
    <2>3. /\ a \in Seq(Loose) /\ Len(a) = m - 2 /\ \A i \in 1 .. m - 2 : a[i] = ps[i]
      <3>1. \A i \in 1 .. m - 2 : ps[i] \in Loose
        BY <2>1, <2>2
      <3>2. /\ SubSeq(ps, 1, m - 2) \in Seq(Loose)
            /\ Len(SubSeq(ps, 1, m - 2)) = IF 1 <= m - 2 THEN m - 2 - 1 + 1 ELSE 0
            /\ \A i \in 1 .. m - 2 - 1 + 1 : SubSeq(ps, 1, m - 2)[i] = ps[1 + i - 1]
        BY <2>2, <3>1, SubSeqProperties
      <3>3. /\ \A i \in 1 .. m - 2 : i \in 1 .. m - 2 - 1 + 1 /\ 1 + i - 1 = i
            /\ (IF 1 <= m - 2 THEN m - 2 - 1 + 1 ELSE 0) = m - 2
        <4>1. m \in Nat /\ m - 2 \in Nat
          BY <2>1, <2>2
        <4> HIDE DEF m
        <4>2. \A i \in 1 .. m - 2 : i \in 1 .. m - 2 - 1 + 1 /\ 1 + i - 1 = i
          BY <4>1
        <4>3. (IF 1 <= m - 2 THEN m - 2 - 1 + 1 ELSE 0) = m - 2
          BY <4>1
        <4>4. QED
          BY <4>2, <4>3
      <3> HIDE DEF m
      <3>4. QED
        BY <3>2, <3>3
    <2>4. b \in Seq(Loose) /\ Len(b) = 2 /\ b[1] = ps[m - 1] /\ b[2] = ps[m]
      <3>1. \A i \in m - 1 .. m : ps[i] \in Loose
        BY <2>1, <2>2
      <3>2. /\ b \in Seq(Loose) /\ Len(b) = m - (m - 1) + 1
            /\ \A i \in 1 .. m - (m - 1) + 1 : b[i] = ps[m - 1 + i - 1]
        BY <2>1, <2>2, <3>1, SubSeqProperties
      <3>3. m - (m - 1) + 1 = 2 /\ m - 1 + 1 - 1 = m - 1 /\ m - 1 + 2 - 1 = m
        BY <2>1
      <3>4. QED
        BY <3>2, <3>3
    <2> HIDE DEF a, b
    <2>5. b # <<>>
      BY <2>4, SMTT(20)
    <2>6. x \in Loose /\ \A u : u \in UnitsOf(x.text) <=> \E i \in 1 .. Len(b) : u \in UnitsOf(b[i].text)
      BY <2>4, <2>5, JoinedIs
    <2> HIDE DEF x
    <2>7. /\ qs \in Seq(Loose) /\ Len(qs) = m - 2 + 1 /\ qs[m - 2 + 1] = x
          /\ \A i \in 1 .. m - 2 : qs[i] = ps[i]
      <3>1. Append(a, x) \in Seq(Loose) /\ Len(Append(a, x)) = Len(a) + 1 /\ Append(a, x)[Len(a) + 1] = x
            /\ \A i \in 1 .. Len(a) : Append(a, x)[i] = a[i]
        BY <2>3, <2>6, AppendProperties
      <3>2. QED
        BY <1>2, <2>3, <3>1
    <2>8. ASSUME NEW i \in 1 .. m, NEW u \in UnitsOf(ps[i].text)
          PROVE  \E k \in 1 .. Len(qs) : u \in UnitsOf(qs[k].text)
      <3>1. i \in 1 .. m - 2 \/ i = m - 1 \/ i = m
        BY <2>1, <2>2
      <3>2. CASE i \in 1 .. m - 2
        <4>1. i \in 1 .. Len(qs)
          BY <2>2, <2>7, <3>2
        <4>2. QED
          BY <2>7, <2>8, <3>2, <4>1
      <3>3. CASE i = m - 1 \/ i = m
        <4>1. \E j \in 1 .. Len(b) : u \in UnitsOf(b[j].text)
          <5>1. 1 \in 1 .. 2 /\ 2 \in 1 .. 2
            OBVIOUS
          <5>2. QED
            BY <2>4, <2>8, <3>3, <5>1
        <4>2. m - 2 + 1 \in 1 .. Len(qs)
          BY <2>2, <2>7
        <4>3. QED
          BY <2>6, <2>7, <4>1, <4>2
      <3>4. QED
        BY <3>1, <3>2, <3>3
    <2>9. QED
      BY <2>7, <2>8 DEF Covered
  <1>3. QED
    BY <1>1, <1>2 DEF Cut!TailMerged

\* A section with its heading.
LEMMA WithTitleIs ==
    ASSUME NEW doc \in Docs, NEW s, Under(doc, s), NEW w, w = Cut!WithTitle(s)
    PROVE  /\ w \in Seq(1 .. Len(doc)) /\ \A i \in 1 .. Len(w) : w[i] \in s.title .. s.last
           /\ \A n \in s.title .. s.last : n # 0 => Among(n, w)
  <1> DEFINE a == s.title + 1
             z == s.last
             N == Len(doc)
             ls == Cut!From(a, z)
  <1>1. /\ N \in Nat /\ a \in Nat \ {0} /\ z \in Nat /\ a <= z + 1 /\ z <= N /\ s.lines = ls
        /\ s.title \in Nat /\ (s.title # 0 => s.title \in 1 .. N)
    BY DEF Under, Docs, Heads
  <1>2. w = (IF s.title = 0 THEN <<>> ELSE <<s.title>>) \o ls
    BY <1>1 DEF Cut!WithTitle
  <1>3. \A n : n \in a .. z <=> n \in s.title .. z /\ n # s.title
    BY <1>1
  <1> HIDE DEF N, a, z
  <1>4. /\ ls \in Seq(1 .. N)
        /\ \A i \in 1 .. Len(ls) : ls[i] \in a .. z
        /\ \A k \in a .. z : \E i \in 1 .. Len(ls) : ls[i] = k
    BY <1>1, FromIs
  <1> HIDE DEF ls
  <1>5. CASE s.title = 0
    <2>1. w = ls
      BY <1>2, <1>4, <1>5, ConcatEmptySeq
    <2>2. QED
      BY <1>3, <1>4, <1>5, <2>1 DEF N, z, Among
  <1>6. CASE s.title # 0
    <2> DEFINE t == s.title
    <2>1. t \in 1 .. N /\ w = <<t>> \o ls
      BY <1>1, <1>2, <1>6
    <2> HIDE DEF t
    <2>2. w \in Seq(1 .. N) /\ \A y : Among(y, w) <=> y = t \/ Among(y, ls)
      <3> DEFINE X == 1 .. N
      <3>1. t \in X /\ ls \in Seq(X)
        BY <1>4, <2>1
      <3> HIDE DEF X
      <3>2. <<t>> \o ls \in Seq(X) /\ \A y : Among(y, <<t>> \o ls) <=> y = t \/ Among(y, ls)
        BY <3>1, AmongFirst
      <3>3. QED
        BY <2>1, <3>2 DEF X
    <2>3. \A i \in 1 .. Len(w) : w[i] \in t .. z
      <3>1. ASSUME NEW i \in 1 .. Len(w) PROVE w[i] \in t .. z
        <4>1. w[i] = t \/ Among(w[i], ls)
          BY <2>2 DEF Among
        <4>2. t \in t .. z
          BY <1>1 DEF t, a
        <4>3. QED
          BY <1>3, <1>4, <4>1, <4>2 DEF Among, t
      <3>2. QED
        BY <3>1
    <2>4. \A n \in t .. z : Among(n, w)
      BY <1>3, <1>4, <2>2 DEF Among, t
    <2>5. QED
      BY <2>2, <2>3, <2>4 DEF N, z, t
  <1>7. QED
    BY <1>5, <1>6

\* A passage of a section and its heading.
InSection(doc, p) ==
    \E i \in 1 .. Len(Cut!Sections(doc)) :
        /\ p.titles = Cut!Title(Cut!Sections(doc)[i].title)
        /\ OfLines(doc, p.text, Cut!Sections(doc)[i].title .. Cut!Sections(doc)[i].last)
Top(doc) == {p \in Loose : InSection(doc, p)}

\* The entries at the top level hold every line.
LEMMA TopLevelIs ==
    ASSUME NEW doc \in Docs, NEW qs, qs = Cut!TopLevel(doc)
    PROVE  qs \in Seq(Top(doc)) /\ \A n \in 1 .. Len(doc) : Covered(doc, qs, n)
  <1> DEFINE S == Cut!Sections(doc)
             P(s) == Cut!Passage(Cut!Strip(Cut!TextOf(doc, Cut!WithTitle(s))), Cut!Title(s.title), 0, 0)
             made == [i \in DOMAIN S |-> <<P(S[i])>>]
             ps == Cut!FlattenSeq(made)
             X == {p \in PieceSet : /\ UnitsOf(p.text) # {} => Firm(p.text)
                                    /\ p.last = 0 /\ InSection(doc, p)}
  <1>1. qs = Cut!NonBlank(ps)
    BY Zenon DEF Cut!TopLevel, Cut!EachSection
  <1>2. /\ Len(S) \in Nat /\ DOMAIN S = 1 .. Len(S) /\ \A i \in 1 .. Len(S) : Under(doc, S[i])
        /\ \A n \in 1 .. Len(doc) : \E i \in 1 .. Len(S) : S[i].title <= n /\ n <= S[i].last
    <2> HIDE DEF P, made, ps, X
    <2>1. /\ S \in Seq(Parts0) /\ \A i \in 1 .. Len(S) : Under(doc, S[i])
          /\ \A n \in 1 .. Len(doc) : \E i \in 1 .. Len(S) : S[i].title <= n /\ n <= S[i].last
      BY SectionsAre
    <2> HIDE DEF S
    <2>2. Len(S) \in Nat /\ DOMAIN S = 1 .. Len(S)
      BY <2>1
    <2>3. QED
      BY <2>1, <2>2
  <1> HIDE DEF S
  <1>3. ASSUME NEW i \in 1 .. Len(S)
        PROVE  P(S[i]) \in X /\ \A n \in S[i].title .. S[i].last :
                                   n # 0 => LineUnits(doc, n) \subseteq UnitsOf(P(S[i]).text)
    <2> DEFINE s == S[i]
               w == Cut!WithTitle(s)
               t == Cut!TextOf(doc, w)
               p == P(s)
               L == s.title .. s.last
    <2>1. Under(doc, s) /\ s.title \in Nat
      BY <1>2 DEF Under
    <2> HIDE DEF s
    <2>2. /\ w \in Seq(1 .. Len(doc)) /\ \A j \in 1 .. Len(w) : w[j] \in L
          /\ \A n \in L : n # 0 => Among(n, w)
      BY <2>1, WithTitleIs
    <2> HIDE DEF w, L
    <2>3. /\ OfLines(doc, t, L) /\ t \in Text
          /\ \A j \in 1 .. Len(w) : LineUnits(doc, w[j]) \subseteq UnitsOf(t)
      BY <2>2, TextOfLines
    <2>4. p = [text |-> Cut!Strip(t), titles |-> Cut!Title(s.title), first |-> 0, last |-> 0]
      BY DEF Cut!Passage, w
    <2> HIDE DEF t, p, P
    <2>5. /\ Cut!Strip(t) \in Text /\ UnitsOf(Cut!Strip(t)) = UnitsOf(t)
          /\ UnitsOf(t) # {} => Firm(Cut!Strip(t))
      BY <2>3, UnitsStrip, FirmStrip
    <2>6. p \in PieceSet
      BY <2>1, <2>4, <2>5 DEF PieceSet, Cut!Title
    <2>7. InSection(doc, p)
      <3>1. OfLines(doc, p.text, L) /\ p.titles = Cut!Title(s.title)
        BY <2>3, <2>4, <2>5 DEF OfLines
      <3>2. QED
        BY <3>1 DEF InSection, L, s, S
    <2>8. p \in X
      BY <2>4, <2>5, <2>6, <2>7
    <2>9. \A n \in L : n # 0 => LineUnits(doc, n) \subseteq UnitsOf(p.text)
      BY <2>2, <2>3, <2>4, <2>5 DEF Among
    <2>10. QED
      BY <2>8, <2>9 DEF p, s, L
  <1> HIDE DEF P, X
  <1>4. \A i \in 1 .. Len(S) : made[i] = <<P(S[i])>> /\ made[i] \in Seq(X)
    <2>1. \A i \in 1 .. Len(S) : <<P(S[i])>> \in Seq(X)
      BY <1>3
    <2>2. QED
      BY <1>2, <2>1
  <1>5. made \in Seq(Seq(X)) /\ Len(made) = Len(S)
    <2>1. made = [i \in DOMAIN S |-> made[i]]
      OBVIOUS
    <2> HIDE DEF made
    <2>2. QED
      BY <1>4, <2>1, OfSections DEF S
  <1> HIDE DEF made
  <1>6. /\ ps \in Seq(X)
        /\ \A i \in 1 .. Len(made) : \A j \in 1 .. Len(made[i]) : Among(made[i][j], ps)
    BY <1>5, AmongFlat
  <1> HIDE DEF ps
  <1>7. ASSUME NEW n \in 1 .. Len(doc) PROVE Covered(doc, ps, n)
    <2>1. PICK i \in 1 .. Len(S) : S[i].title <= n /\ n <= S[i].last
      BY <1>2
    <2>2. S[i].title \in Nat /\ S[i].last \in Nat /\ n # 0
      BY <1>2 DEF Under
    <2>3. LineUnits(doc, n) \subseteq UnitsOf(P(S[i]).text)
      BY <1>3, <2>1, <2>2
    <2>4. Among(P(S[i]), ps)
      <3>1. Len(made[i]) = 1 /\ made[i][1] = P(S[i]) /\ 1 \in 1 .. 1
        <4>1. \A x : Len(<<x>>) = 1 /\ <<x>>[1] = x
          OBVIOUS
        <4>2. made[i] = <<P(S[i])>>
          BY <1>4
        <4>3. QED
          BY <4>1, <4>2
      <3>2. QED
        BY <1>5, <1>6, <3>1
    <2>5. QED
      BY <2>3, <2>4, CoveredByOne
  <1>8. X \subseteq PieceSet
    BY DEF X
  <1>9. /\ qs \in Seq(X) /\ \A k \in 1 .. Len(qs) : UnitsOf(qs[k].text) # {}
        /\ \A n : Covered(doc, ps, n) => Covered(doc, qs, n)
    BY <1>1, <1>6, <1>8, NonBlankIs
  <1>10. qs \in Seq(Top(doc))
    <2>1. Len(qs) \in Nat /\ DOMAIN qs = 1 .. Len(qs) /\ qs = [k \in 1 .. Len(qs) |-> qs[k]]
          /\ \A k \in 1 .. Len(qs) : qs[k] \in X
      BY <1>9
    <2>2. \A k \in 1 .. Len(qs) : qs[k] \in Top(doc)
      BY <1>9, <2>1 DEF X, Top, Loose
    <2>3. qs \in [1 .. Len(qs) -> Top(doc)]
      BY <2>1, <2>2
    <2>4. QED
      BY <2>1, <2>3
  <1>11. QED
    BY <1>7, <1>9, <1>10

\* A passage that cites nothing cites nothing wrong.
LEMMA LooseFine ==
    ASSUME NEW f, f \notin Cut!OneHeading, NEW doc, NEW ps \in Seq(PieceSet),
           \A k \in 1 .. Len(ps) : ps[k].last = 0
    PROVE  ps \in Seq(Fine(f, doc))
  <1>1. /\ Len(ps) \in Nat /\ DOMAIN ps = 1 .. Len(ps) /\ ps = [k \in 1 .. Len(ps) |-> ps[k]]
        /\ \A k \in 1 .. Len(ps) : ps[k] \in PieceSet
    OBVIOUS
  <1>2. \A k \in 1 .. Len(ps) : ps[k] \in Fine(f, doc)
    BY <1>1 DEF Fine, Cut!RightlyCited, Cut!RightlyTitled
  <1>3. ps \in [1 .. Len(ps) -> Fine(f, doc)]
    BY <1>1, <1>2
  <1>4. QED
    BY <1>1, <1>3

\* Passages that cite nothing.
LEMMA LooseIs ==
    ASSUME NEW ps \in Seq(Loose)
    PROVE  ps \in Seq(PieceSet) /\ \A k \in 1 .. Len(ps) : ps[k].last = 0 /\ Flush(ps[k].text) /\ ps[k] \in PieceSet
  <1>1. \A k \in 1 .. Len(ps) : ps[k] \in Loose
    BY ElementOfSeq
  <1>2. Loose \subseteq PieceSet
    BY DEF Loose
  <1>3. ps \in Seq(PieceSet)
    BY <1>2, SeqMonotonic
  <1>4. QED
    BY <1>1, <1>3 DEF Loose, Firm, Flush

\* They are split into such.
LEMMA SplitLoose ==
    ASSUME Measures, NEW at, NEW ps \in Seq(Loose), NEW qs, qs = Cut!SplitLong(ps, at),
           NEW f, f \notin Cut!OneHeading, NEW doc
    PROVE  qs \in Seq(Fine(f, doc)) /\ \A n : Covered(doc, ps, n) => Covered(doc, qs, n)
  <1>1. ps \in Seq(PieceSet) /\ \A k \in 1 .. Len(ps) : ps[k].last = 0 /\ Flush(ps[k].text)
    BY LooseIs
  <1>2. /\ qs \in Seq(PieceSet) /\ \A k \in 1 .. Len(qs) : \E i \in 1 .. Len(ps) : PieceOf(qs[k], ps[i])
        /\ \A n : Covered(doc, ps, n) => Covered(doc, qs, n)
    BY <1>1, SplitIs, SplitCovers
  <1>3. \A k \in 1 .. Len(qs) : qs[k].last = 0
    BY <1>1, <1>2 DEF PieceOf
  <1>4. QED
    BY <1>2, <1>3, LooseFine

\* Entries of the top level are.
LEMMA TopLoose ==
    ASSUME NEW doc, NEW ps \in Seq(Top(doc))
    PROVE  ps \in Seq(Loose)
  BY SeqMonotonic DEF Top

\* Yaml and json: entries of the top level, gathered and split.
LEMMA YamlWhole ==
    ASSUME Measures, NEW doc, FileDoc(doc), NEW f \in {"yaml", "json"}
    PROVE  Whole(f, doc, Cut!Yaml(doc))
  <1> DEFINE a == Cut!TopLevel(doc)
             b == Cut!Gathered(a)
             c == Cut!TailMerged(b)
             d == Cut!SplitLong(c, {"line"})
  <1>1. doc \in Docs /\ f \notin Cut!OneHeading /\ Cut!Yaml(doc) = d
    BY DEF FileDoc, Cut!OneHeading, Cut!Yaml
  <1>2. a \in Seq(Loose) /\ \A n \in 1 .. Len(doc) : Covered(doc, a, n)
    BY <1>1, TopLevelIs, TopLoose
  <1> HIDE DEF a
  <1>3. b \in Seq(Loose) /\ \A n \in 1 .. Len(doc) : Covered(doc, b, n)
    BY <1>2, GatheredIs
  <1> HIDE DEF b
  <1>4. c \in Seq(Loose) /\ \A n \in 1 .. Len(doc) : Covered(doc, c, n)
    BY <1>3, TailMergedIs
  <1> HIDE DEF c
  <1>5. d \in Seq(Fine(f, doc)) /\ \A n \in 1 .. Len(doc) : Covered(doc, d, n)
    BY <1>1, <1>4, SplitLoose
  <1> HIDE DEF d
  <1>6. QED
    BY <1>1, <1>5, FineWhole DEF Present

\* A json array: its elements.
LEMMA ArrayWhole ==
    ASSUME NEW doc, FileDoc(doc)
    PROVE  Whole("array", doc, Cut!Array(doc))
  <1> DEFINE a == Cut!TopLevel(doc)
             b == Cut!Gathered(a)
             c == Cut!TailMerged(b)
  <1>1. doc \in Docs /\ "array" \notin Cut!OneHeading /\ Cut!Array(doc) = c
    BY DEF FileDoc, Cut!OneHeading, Cut!Array
  <1>2. a \in Seq(Loose) /\ \A n \in 1 .. Len(doc) : Covered(doc, a, n)
    BY <1>1, TopLevelIs, TopLoose
  <1> HIDE DEF a
  <1>3. b \in Seq(Loose) /\ \A n \in 1 .. Len(doc) : Covered(doc, b, n)
    BY <1>2, GatheredIs
  <1> HIDE DEF b
  <1>4. c \in Seq(Loose) /\ \A n \in 1 .. Len(doc) : Covered(doc, c, n)
    BY <1>3, TailMergedIs
  <1> HIDE DEF c
  <1>5. c \in Seq(Fine("array", doc))
    BY <1>1, <1>4, LooseIs, LooseFine
  <1>6. QED
    BY <1>1, <1>4, <1>5, FineWhole DEF Present

\* Without its comments, a document is one still, and its other lines as they were.
LEMMA UncommentedIs ==
    ASSUME NEW doc, FileDoc(doc), NEW d, d = Cut!Uncommented(doc)
    PROVE  /\ d \in Docs /\ Len(d) = Len(doc)
           /\ \A n \in 1 .. Len(doc) : /\ d[n].kind = doc[n].kind
                                       /\ doc[n].kind # "note" => d[n] = doc[n] /\ LineUnits(d, n) = LineUnits(doc, n)
                                       /\ doc[n].kind = "note" => d[n].len = 0
                                       /\ LineUnits(d, n) \subseteq LineUnits(doc, n)
  <1> DEFINE L == [kind : Cut!Kinds, len : Nat]
             E(n) == IF doc[n].kind = "note" THEN [kind |-> "note", len |-> 0] ELSE doc[n]
  <1>1. doc \in Seq(L) /\ Len(doc) \in Nat /\ DOMAIN doc = 1 .. Len(doc) /\ \A n \in 1 .. Len(doc) : doc[n] \in L
    <2>1. doc \in Seq(L)
      BY DEF FileDoc, Docs
    <2> HIDE DEF L
    <2>2. QED
      BY <2>1
  <1>2. \A n \in 1 .. Len(doc) : E(n) \in L
    <2>1. [kind |-> "note", len |-> 0] \in L
      BY DEF Cut!Kinds
    <2> HIDE DEF L
    <2>2. QED
      BY <1>1, <2>1
  <1>3. d = [n \in 1 .. Len(doc) |-> E(n)]
    BY <1>1 DEF Cut!Uncommented
  <1> HIDE DEF L
  <1>4. d \in Seq(L) /\ Len(d) = Len(doc) /\ \A n \in 1 .. Len(doc) : d[n] = E(n)
    <2> HIDE DEF E
    <2>1. d \in [1 .. Len(doc) -> L]
      BY <1>2, <1>3
    <2>2. QED
      BY <1>1, <1>3, <2>1
  <1>5. ASSUME NEW n \in 1 .. Len(doc)
        PROVE  /\ d[n].kind = doc[n].kind
               /\ doc[n].kind # "note" => d[n] = doc[n] /\ LineUnits(d, n) = LineUnits(doc, n)
               /\ doc[n].kind = "note" => d[n].len = 0
               /\ LineUnits(d, n) \subseteq LineUnits(doc, n)
    <2>1. CASE doc[n].kind = "note"
      <3>1. d[n] = [kind |-> "note", len |-> 0] /\ d[n].len = 0 /\ d[n].kind = "note"
        BY <1>4, <2>1
      <3>2. LineUnits(d, n) = {}
        BY <3>1 DEF LineUnits
      <3>3. QED
        BY <2>1, <3>1, <3>2
    <2>2. CASE doc[n].kind # "note"
      <3>1. d[n] = doc[n]
        BY <1>4, <2>2
      <3>2. QED
        BY <2>2, <3>1 DEF LineUnits
    <2>3. QED
      BY <2>1, <2>2
  <1>6. QED
    BY <1>4, <1>5 DEF Docs, L

\* Toml: its tables, gathered and split.
LEMMA TomlWhole ==
    ASSUME Measures, NEW doc, FileDoc(doc)
    PROVE  Whole("toml", doc, Cut!Toml(doc))
  <1> DEFINE e == Cut!Uncommented(doc)
             a == Cut!TopLevel(e)
             b == Cut!Gathered(a)
             d == Cut!SplitLong(b, {"line"})
  <1>1. doc \in Docs /\ "toml" \notin Cut!OneHeading /\ Cut!Toml(doc) = d
    BY DEF FileDoc, Cut!OneHeading, Cut!Toml, Cut!TomlBlocks
  <1>2. /\ e \in Docs /\ Len(e) = Len(doc)
        /\ \A n \in 1 .. Len(doc) : doc[n].kind # "note" => LineUnits(e, n) = LineUnits(doc, n)
    BY UncommentedIs
  <1> HIDE DEF e
  <1>3. a \in Seq(Loose) /\ \A n \in 1 .. Len(doc) : Covered(e, a, n)
    BY <1>2, TopLevelIs, TopLoose
  <1> HIDE DEF a
  <1>4. b \in Seq(Loose) /\ \A n \in 1 .. Len(doc) : Covered(e, b, n)
    BY <1>3, GatheredIs
  <1>5. \A n \in 1 .. Len(doc) : doc[n].kind # "note" => Covered(doc, b, n)
    BY <1>2, <1>4 DEF Covered
  <1> HIDE DEF b
  <1>6. d \in Seq(Fine("toml", doc)) /\ \A n \in 1 .. Len(doc) : doc[n].kind # "note" => Covered(doc, d, n)
    BY <1>1, <1>4, <1>5, SplitLoose
  <1> HIDE DEF d
  <1>7. \A n \in 1 .. Len(doc) : doc[n].kind = "note" => Cut!LeftOut("toml", doc, n)
    BY DEF Cut!LeftOut
  <1>8. QED
    BY <1>1, <1>6, <1>7, FineWhole DEF Present

\* What a mapping renders of each item.
LEMMA MappedWhole ==
    ASSUME NEW doc, FileDoc(doc)
    PROVE  Whole("mapped", doc, Cut!Mapped(doc))
  <1> DEFINE e == Cut!Uncommented(doc)
             a == Cut!TopLevel(e)
  <1>1. doc \in Docs /\ "mapped" \notin Cut!OneHeading /\ Cut!Mapped(doc) = a
    BY DEF FileDoc, Cut!OneHeading, Cut!Mapped
  <1>2. /\ e \in Docs /\ Len(e) = Len(doc)
        /\ \A n \in 1 .. Len(doc) : doc[n].kind # "note" => LineUnits(e, n) = LineUnits(doc, n)
    BY UncommentedIs
  <1> HIDE DEF e
  <1>3. a \in Seq(Loose) /\ \A n \in 1 .. Len(doc) : Covered(e, a, n)
    BY <1>2, TopLevelIs, TopLoose
  <1>4. \A n \in 1 .. Len(doc) : doc[n].kind # "note" => Covered(doc, a, n)
    BY <1>2, <1>3 DEF Covered
  <1> HIDE DEF a
  <1>5. a \in Seq(Fine("mapped", doc))
    BY <1>1, <1>3, LooseIs, LooseFine
  <1>6. \A n \in 1 .. Len(doc) : doc[n].kind = "note" => Cut!LeftOut("mapped", doc, n)
    BY DEF Cut!LeftOut
  <1>7. QED
    BY <1>1, <1>4, <1>5, <1>6, FineWhole DEF Present

\* Under one heading, a passage with a text is filed under it.
LEMMA UnderRight ==
    ASSUME NEW doc, FileDoc(doc), NEW s, Under(doc, s), NEW p \in PieceSet,
           p.titles = Cut!Title(s.title),
           UnitsOf(p.text) # {}, OfLines(doc, p.text, s.title .. s.last), NEW f
    PROVE  Cut!RightlyTitled(f, doc, p)
  <1>1. PICK u \in UnitsOf(p.text) : TRUE
    OBVIOUS
  <1>2. PICK n \in s.title .. s.last : u \in LineUnits(doc, n)
    BY <1>1 DEF OfLines
  <1>3. n \in Cut!LinesOf(p)
    BY <1>1, <1>2, LinesAre DEF PieceSet
  <1>4. s.title \in Nat /\ s.last \in Nat /\ s.last <= Len(doc) /\ Len(doc) \in Nat
    BY DEF Under, FileDoc
  <1>5. ASSUME NEW h \in p.titles
        PROVE  n >= h /\ \A k \in h + 1 .. n : doc[k].kind # Cut!Opening
    <2>1. h = s.title
      BY DEF Cut!Title
    <2>2. ASSUME NEW k \in h + 1 .. n PROVE doc[k].kind # Cut!Opening
      <3>1. k \in 1 .. Len(doc) /\ ~(k <= s.title) /\ ~(s.last < k)
        BY <1>4, <2>1
      <3>2. k \notin Heads(doc)
        BY <3>1 DEF Under
      <3>3. QED
        BY <3>1, <3>2 DEF Heads
    <2>3. QED
      BY <1>4, <2>1, <2>2
  <1>6. QED
    BY <1>3, <1>5 DEF Cut!RightlyTitled

\* A notebook: its cells, split.
LEMMA JupyterWhole ==
    ASSUME Measures, NEW doc, FileDoc(doc)
    PROVE  Whole("jupyter", doc, Cut!Jupyter(doc))
  <1> DEFINE a == Cut!TopLevel(doc)
             d == Cut!SplitLong(a, {"line"})
  <1>1. doc \in Docs /\ Cut!Jupyter(doc) = d
    BY DEF FileDoc, Cut!Jupyter
  <1>2. a \in Seq(Top(doc)) /\ a \in Seq(Loose) /\ \A n \in 1 .. Len(doc) : Covered(doc, a, n)
    BY <1>1, TopLevelIs, TopLoose
  <1> HIDE DEF a
  <1>3. /\ a \in Seq(PieceSet) /\ \A k \in 1 .. Len(a) : a[k] \in Top(doc) /\ a[k].last = 0 /\ Flush(a[k].text)
    BY <1>2, LooseIs, ElementOfSeq
  <1>4. /\ d \in Seq(PieceSet) /\ \A k \in 1 .. Len(d) : \E i \in 1 .. Len(a) : PieceOf(d[k], a[i])
        /\ \A n \in 1 .. Len(doc) : Covered(doc, d, n)
    BY <1>2, <1>3, SplitIs, SplitCovers
  <1> HIDE DEF d
  <1>5. ASSUME NEW k \in 1 .. Len(d) PROVE d[k] \in Fine("jupyter", doc)
    <2>1. PICK i \in 1 .. Len(a) : PieceOf(d[k], a[i])
      BY <1>4
    <2>2. PICK j \in 1 .. Len(Cut!Sections(doc)) :
             /\ a[i].titles = Cut!Title(Cut!Sections(doc)[j].title)
             /\ OfLines(doc, a[i].text, Cut!Sections(doc)[j].title .. Cut!Sections(doc)[j].last)
      BY <1>3 DEF Top, InSection
    <2> DEFINE s == Cut!Sections(doc)[j]
               p == d[k]
    <2>3. Under(doc, s)
      BY <1>1, SectionsAre
    <2>4. /\ p \in PieceSet /\ p.titles = Cut!Title(s.title) /\ UnitsOf(p.text) # {} /\ p.last = 0
          /\ UnitsOf(p.text) \subseteq UnitsOf(a[i].text)
      BY <1>3, <2>1, <2>2 DEF PieceOf
    <2>5. OfLines(doc, p.text, s.title .. s.last)
      BY <2>2, <2>4 DEF OfLines, PieceSet
    <2> HIDE DEF s, p
    <2>6. Cut!RightlyTitled("jupyter", doc, p)
      BY <2>3, <2>4, <2>5, UnderRight
    <2>7. Cut!RightlyCited("jupyter", doc, p)
      BY <2>4 DEF Cut!RightlyCited
    <2>8. QED
      BY <2>4, <2>6, <2>7 DEF Fine, p
  <1>6. d \in Seq(Fine("jupyter", doc))
    <2>1. Len(d) \in Nat /\ d = [k \in 1 .. Len(d) |-> d[k]]
      BY <1>4
    <2>2. d \in [1 .. Len(d) -> Fine("jupyter", doc)]
      BY <1>5, <2>1
    <2>3. QED
      BY <2>1, <2>2
  <1>7. QED
    BY <1>1, <1>4, <1>6, FineWhole DEF Present

-----------------------------------------------------------------------------
(* Texts in a row: paragraphs and sentences. *)

FirmText == {t \in Text : Firm(t)}
UnitsIn(ts) == UNION {UnitsOf(ts[i]) : i \in 1 .. Len(ts)}

\* What texts in a row hold.
LEMMA UnitsInIs ==
    ASSUME NEW a \in Seq(Text)
    PROVE  /\ \A b \in Seq(Text) : UnitsIn(a \o b) = UnitsIn(a) \cup UnitsIn(b)
           /\ \A x \in Text : /\ UnitsIn(Append(a, x)) = UnitsIn(a) \cup UnitsOf(x)
                              /\ UnitsIn(<<x>>) = UnitsOf(x)
           /\ UnitsIn(<<>>) = {}
           /\ UnitsOf(Cut!Glue(a)) = UnitsIn(a)
  <1>1. ASSUME NEW b \in Seq(Text) PROVE UnitsIn(a \o b) = UnitsIn(a) \cup UnitsIn(b)
    <2>1. /\ \A k \in 1 .. Len(a) : k \in 1 .. Len(a \o b) /\ (a \o b)[k] = a[k]
          /\ \A k \in 1 .. Len(b) : k + Len(a) \in 1 .. Len(a \o b) /\ (a \o b)[k + Len(a)] = b[k]
          /\ \A k \in 1 .. Len(a \o b) :
                \/ k \in 1 .. Len(a) /\ (a \o b)[k] = a[k]
                \/ k - Len(a) \in 1 .. Len(b) /\ (a \o b)[k] = b[k - Len(a)]
      BY Joins
    <2> DEFINE c == a \o b
    <2> HIDE DEF c
    <2>2. UnitsIn(c) \subseteq UnitsIn(a) \cup UnitsIn(b)
      <3>1. SUFFICES ASSUME NEW k \in 1 .. Len(c)
                            PROVE UnitsOf(c[k]) \subseteq UnitsIn(a) \cup UnitsIn(b)
        BY DEF UnitsIn
      <3>2. QED
        BY <2>1 DEF UnitsIn, c
    <2>3. UnitsIn(a) \subseteq UnitsIn(c) /\ UnitsIn(b) \subseteq UnitsIn(c)
      <3>1. \A k \in 1 .. Len(a) : UnitsOf(a[k]) \subseteq UnitsIn(c)
        <4>1. \A k \in 1 .. Len(a) : k \in 1 .. Len(c) /\ c[k] = a[k]
          BY <2>1 DEF c
        <4>2. QED
          BY <4>1 DEF UnitsIn
      <3>2. \A k \in 1 .. Len(b) : UnitsOf(b[k]) \subseteq UnitsIn(c)
        <4>1. \A k \in 1 .. Len(b) : k + Len(a) \in 1 .. Len(c) /\ c[k + Len(a)] = b[k]
          BY <2>1 DEF c
        <4>2. QED
          BY <4>1 DEF UnitsIn
      <3>3. QED
        BY <3>1, <3>2 DEF UnitsIn
    <2>4. QED
      BY <2>2, <2>3 DEF c
  <1>2. \A x \in Text : UnitsIn(<<x>>) = UnitsOf(x)
    BY DEF UnitsIn
  <1>3. ASSUME NEW x \in Text PROVE UnitsIn(Append(a, x)) = UnitsIn(a) \cup UnitsOf(x)
    <2>1. Append(a, x) = a \o <<x>> /\ <<x>> \in Seq(Text)
      OBVIOUS
    <2>2. QED
      BY <1>1, <1>2, <2>1
  <1>4. UnitsIn(<<>>) = {}
    BY DEF UnitsIn
  <1>5. UnitsOf(Cut!Glue(a)) = UnitsIn(a)
    BY GlueUnits DEF UnitsIn
  <1>6. QED
    BY <1>1, <1>2, <1>3, <1>4, <1>5

\* A row of one text, and of none.
LEMMA UnitsOne ==
    /\ UnitsIn(<<>>) = {} /\ UnitsOf(<<>>) = {} /\ <<>> \in Seq(FirmText)
    /\ \A x \in Text : <<x>> \in Seq(Text) /\ UnitsIn(<<x>>) = UnitsOf(x)
    /\ \A x \in FirmText : x \in Text /\ <<x>> \in Seq(FirmText)
  <1>1. UnitsIn(<<>>) = {} /\ <<>> \in Seq(FirmText)
    BY DEF UnitsIn
  <1>2. \A x \in Text : <<x>> \in Seq(Text) /\ UnitsIn(<<x>>) = UnitsOf(x)
    BY DEF UnitsIn
  <1>3. \A x \in FirmText : x \in Text /\ <<x>> \in Seq(FirmText)
    BY DEF FirmText
  <1>4. QED
    BY <1>1, <1>2, <1>3, UnitsWhite

\* Two texts glued.
LEMMA GlueTwo ==
    ASSUME NEW a \in Text, NEW b \in Text
    PROVE  /\ Cut!Glue(<<a, b>>) \in Text
           /\ UnitsOf(Cut!Glue(<<a, b>>)) = UnitsOf(a) \cup UnitsOf(b)
           /\ Firm(a) /\ Firm(b) => Firm(Cut!Glue(<<a, b>>))
  <1> DEFINE ts == <<a, b>>
  <1>1. ts \in Seq(Text) /\ Len(ts) = 2 /\ ts[1] = a /\ ts[2] = b /\ ts # <<>>
    OBVIOUS
  <1> HIDE DEF ts
  <1>2. UnitsIn(ts) = UnitsOf(a) \cup UnitsOf(b)
    BY <1>1 DEF UnitsIn
  <1>3. UnitsOf(Cut!Glue(ts)) = UnitsIn(ts)
    BY <1>1, UnitsInIs
  <1>4. /\ Cut!Glue(ts) \in Text
        /\ (\A i \in 1 .. Len(ts) : Firm(ts[i])) => Firm(Cut!Glue(ts))
    BY <1>1, GlueUnits
  <1>5. QED
    BY <1>1, <1>2, <1>3, <1>4 DEF ts

\* The last of them apart.
LEMMA UnitsEnds ==
    ASSUME NEW a \in Seq(FirmText), a # <<>>
    PROVE  /\ Cut!Front(a) \in Seq(FirmText) /\ Cut!Last(a) \in FirmText /\ Cut!Last(a) = a[Len(a)]
           /\ a = Append(Cut!Front(a), Cut!Last(a))
           /\ UnitsIn(a) = UnitsIn(Cut!Front(a)) \cup UnitsOf(Cut!Last(a))
           /\ \A x \in FirmText :
                 /\ [a EXCEPT ![Len(a)] = x] \in Seq(FirmText)
                 /\ UnitsIn([a EXCEPT ![Len(a)] = x]) = UnitsIn(Cut!Front(a)) \cup UnitsOf(x)
  <1> DEFINE m == Len(a)
             c == Cut!Front(a)
  <1>1. m \in Nat \ {0} /\ m - 1 \in Nat /\ a[m] \in FirmText /\ \A i \in 1 .. m : a[i] \in FirmText
    OBVIOUS
  <1>2. c = SubSeq(a, 1, m - 1) /\ Cut!Last(a) = a[m]
    BY DEF Cut!Front, Cut!Last
  <1>3. c \in Seq(FirmText) /\ Len(c) = m - 1 /\ \A i \in 1 .. m - 1 : c[i] = a[i]
    <2>1. /\ SubSeq(a, 1, m - 1) \in Seq(FirmText)
          /\ Len(SubSeq(a, 1, m - 1)) = IF 1 <= m - 1 THEN m - 1 - 1 + 1 ELSE 0
          /\ \A i \in 1 .. m - 1 - 1 + 1 : SubSeq(a, 1, m - 1)[i] = a[1 + i - 1]
      <3>1. \A i \in 1 .. m - 1 : a[i] \in FirmText
        BY <1>1
      <3>2. QED
        BY <1>1, <3>1, SubSeqProperties
    <2>2. /\ \A i \in 1 .. m - 1 : i \in 1 .. m - 1 - 1 + 1 /\ 1 + i - 1 = i
          /\ (IF 1 <= m - 1 THEN m - 1 - 1 + 1 ELSE 0) = m - 1
      <3> HIDE DEF m
      <3>1. QED
        BY <1>1
    <2> HIDE DEF m, c
    <2>3. QED
      BY <1>2, <2>1, <2>2
  <1>4. FirmText \subseteq Text /\ c \in Seq(Text)
    BY <1>3 DEF FirmText
  <1>5. ASSUME NEW x \in FirmText
        PROVE  [a EXCEPT ![m] = x] = Append(c, x) /\ Append(c, x) \in Seq(FirmText)
               /\ UnitsIn(Append(c, x)) = UnitsIn(c) \cup UnitsOf(x)
    <2>1. Append(c, x) \in Seq(FirmText) /\ Len(Append(c, x)) = m /\ Append(c, x)[m] = x
          /\ \A i \in 1 .. m - 1 : Append(c, x)[i] = a[i]
      BY <1>1, <1>3
    <2>2. [a EXCEPT ![m] = x] \in Seq(FirmText) /\ Len([a EXCEPT ![m] = x]) = m
          /\ [a EXCEPT ![m] = x][m] = x /\ \A i \in 1 .. m - 1 : [a EXCEPT ![m] = x][i] = a[i]
      BY <1>1
    <2> DEFINE p == [a EXCEPT ![m] = x]
               q == Append(c, x)
    <2>3. p \in Seq(FirmText) /\ q \in Seq(FirmText) /\ Len(p) = m /\ Len(q) = m
          /\ \A i \in 1 .. m : p[i] = q[i]
      <3>1. p[m] = q[m] /\ \A i \in 1 .. m - 1 : p[i] = q[i]
        BY <2>1, <2>2
      <3>2. \A i \in 1 .. m : i = m \/ i \in 1 .. m - 1
        BY <1>1
      <3>3. QED
        BY <2>1, <2>2, <3>1, <3>2
    <2> HIDE DEF p, q, m
    <2>4. p = q
      BY <2>3, SeqEqual
    <2>5. UnitsIn(Append(c, x)) = UnitsIn(c) \cup UnitsOf(x)
      BY <1>4, UnitsInIs
    <2>6. QED
      BY <2>1, <2>4, <2>5 DEF p, q
  <1>6. a = [a EXCEPT ![m] = a[m]]
    OBVIOUS
  <1> HIDE DEF c, m
  <1>7. a = Append(c, a[m]) /\ UnitsIn(a) = UnitsIn(c) \cup UnitsOf(a[m])
    BY <1>1, <1>5, <1>6
  <1>8. QED
    BY <1>1, <1>2, <1>3, <1>5, <1>7 DEF c, m

-----------------------------------------------------------------------------
\* The steps of the two folds of the text formats.
SentenceAcc(t) == [out : Seq(Text), start : 0 .. Len(t), prev : 0 .. Len(t)]
SentenceStart == [out |-> <<>>, start |-> 0, prev |-> 0]
SentenceStep(t, max, acc, end) ==
    IF end - acc.start > max /\ acc.prev > acc.start
    THEN [out |-> Append(acc.out, Cut!Strip(SubSeq(t, acc.start + 1, acc.prev))),
          start |-> acc.prev, prev |-> end]
    ELSE [acc EXCEPT !.prev = end]
SentenceRest(t, acc) ==
    LET rest == Cut!Strip(SubSeq(t, acc.start + 1, Len(t)))
    IN  acc.out \o (IF rest = <<>> THEN <<>> ELSE <<rest>>)

\* What the fold over the ends of the sentences goes through.
LEMMA SentencesFold ==
    ASSUME NEW doc, NEW t, NEW max, NEW X, NEW Acc, Cut!SentenceEnds(doc, t) \in Seq(X),
           SentenceStart \in Acc,
           \A a \in Acc, b \in X : SentenceStep(t, max, a, b) \in Acc
    PROVE  \E h : /\ h[0] = SentenceStart /\ Cut!SentencePieces(doc, t, max) = SentenceRest(t, h[Len(Cut!SentenceEnds(doc, t))])
                  /\ \A i \in 0 .. Len(Cut!SentenceEnds(doc, t)) : h[i] \in Acc
                  /\ \A i \in 1 .. Len(Cut!SentenceEnds(doc, t)) : h[i] = SentenceStep(t, max, h[i - 1], Cut!SentenceEnds(doc, t)[i])
  <1> DEFINE s == Cut!SentenceEnds(doc, t)
             n == Len(s)
             f == [a \in Acc |-> [i \in 1 .. n |-> SentenceStep(t, max, a, s[i])]]
             Run(it) == it = [x \in SUBSET (1 .. n) |->
                                IF x = {} THEN SentenceStart
                                ELSE SentenceStep(t, max, it[x \ {Cut!Max(x)}], s[Cut!Max(x)])]
             run == CHOOSE it : Run(it)
  <1>1. n \in Nat /\ DOMAIN s = 1 .. n /\ \A i \in 1 .. n : s[i] \in X
    OBVIOUS
  <1> HIDE DEF n, s
  <1>2. \A a \in Acc : \A i \in 1 .. n : SentenceStep(t, max, a, s[i]) \in Acc
    BY <1>1
  <1>3. f \in [Acc -> [1 .. n -> Acc]]
    BY <1>2
  <1>4. PICK it : Folds(it, n, Acc, SentenceStart, f)
    <2> HIDE DEF f
    <2>1. QED
      BY <1>1, <1>3, FoldExists
  <1>5. Run(it)
    <2>1. ASSUME NEW x \in SUBSET (1 .. n), x # {}
          PROVE  f[it[x \ {Cut!Max(x)}]][Cut!Max(x)] = SentenceStep(t, max, it[x \ {Cut!Max(x)}], s[Cut!Max(x)])
      <3>1. Cut!Max(x) \in 1 .. n /\ it[x \ {Cut!Max(x)}] \in Acc
        BY <1>1, <1>4, <2>1, TopOf DEF Folds
      <3>2. QED
        BY <3>1
    <2>2. QED
      BY <1>4, <2>1 DEF Folds
  <1>6. Cut!SentencePieces(doc, t, max) = SentenceRest(t, run[1 .. n])
    <2>1. Cut!FoldLeft(LAMBDA a, b : SentenceStep(t, max, a, b), SentenceStart, s) = run[1 .. n]
      BY <1>1, Zenon DEF Cut!FoldLeft, Cut!MapThenFoldSet
    <2>2. Cut!SentencePieces(doc, t, max) = SentenceRest(t, Cut!FoldLeft(LAMBDA a, b : SentenceStep(t, max, a, b), SentenceStart, s))
      BY Zenon DEF Cut!SentencePieces, SentenceStep, SentenceStart, SentenceRest, s
    <2>3. QED
      BY <2>1, <2>2
  <1>7. Run(run)
    BY <1>5
  <1>8. \A x \in SUBSET (1 .. n) :
            run[x] = IF x = {} THEN SentenceStart ELSE SentenceStep(t, max, run[x \ {Cut!Max(x)}], s[Cut!Max(x)])
    <2> HIDE DEF run
    <2>1. QED
      BY <1>7
  <1> HIDE DEF run, f, Run
  <1>9. ASSUME NEW i \in 1 .. n PROVE run[1 .. i] = SentenceStep(t, max, run[1 .. i - 1], s[i])
    <2>1. /\ 1 .. i \in SUBSET (1 .. n) /\ 1 .. i # {}
          /\ Cut!Max(1 .. i) = i /\ (1 .. i) \ {i} = 1 .. i - 1
      BY <1>1, Initials
    <2>2. run[1 .. i] = SentenceStep(t, max, run[(1 .. i) \ {Cut!Max(1 .. i)}], s[Cut!Max(1 .. i)])
      BY <1>8, <2>1
    <2>3. QED
      BY <2>1, <2>2
  <1>10. run[{}] = SentenceStart
    BY <1>8
  <1> DEFINE h == [i \in 0 .. n |-> run[1 .. i]]
  <1>11. /\ h[0] = SentenceStart /\ h[n] = run[1 .. n]
        /\ \A i \in 1 .. n : h[i] = run[1 .. i] /\ h[i - 1] = run[1 .. i - 1]
    BY <1>1, <1>10, Initials
  <1> HIDE DEF h
  <1>12. \A i \in 1 .. n : h[i] = SentenceStep(t, max, h[i - 1], s[i])
    BY <1>9, <1>11
  <1>13. \A i \in 0 .. n : h[i] \in Acc
    <2> DEFINE G == {i \in 0 .. n : h[i] \in Acc}
    <2>1. 0 \in G /\ \A i \in 1 .. n : i - 1 \in G => i \in G
      BY <1>2, <1>1, <1>11, <1>12
    <2> HIDE DEF G
    <2>2. \A i \in 0 .. n : i \in G
      BY <1>1, <2>1, Steps
    <2>3. QED
      BY <2>2 DEF G
  <1>14. QED
    BY <1>6, <1>11, <1>12, <1>13 DEF n, s

MergeAcc == [out : Seq(Text), buffer : Text]
MergeStart == [out |-> <<>>, buffer |-> <<>>]
MergeRest(acc) ==
    IF acc.buffer = <<>> THEN acc.out
    ELSE IF acc.out # <<>> /\ Len(acc.buffer) < MIN_CHUNK_CHARS
         THEN [acc.out EXCEPT ![Len(acc.out)] = Cut!Glue(<<@, acc.buffer>>)]
         ELSE Append(acc.out, acc.buffer)

\* What the fold over the paragraphs goes through.
LEMMA MergeFold ==
    ASSUME NEW doc, NEW ps, NEW X, NEW Acc, ps \in Seq(X), MergeStart \in Acc,
           \A a \in Acc, b \in X : Cut!MergeStep(doc, a, b) \in Acc
    PROVE  \E h : /\ h[0] = MergeStart /\ Cut!MergeShort(doc, ps) = MergeRest(h[Len(ps)])
                  /\ \A i \in 0 .. Len(ps) : h[i] \in Acc
                  /\ \A i \in 1 .. Len(ps) : h[i] = Cut!MergeStep(doc, h[i - 1], ps[i])
  <1> DEFINE s == ps
             n == Len(s)
             f == [a \in Acc |-> [i \in 1 .. n |-> Cut!MergeStep(doc, a, s[i])]]
             Run(it) == it = [x \in SUBSET (1 .. n) |->
                                IF x = {} THEN MergeStart
                                ELSE Cut!MergeStep(doc, it[x \ {Cut!Max(x)}], s[Cut!Max(x)])]
             run == CHOOSE it : Run(it)
  <1>1. n \in Nat /\ DOMAIN s = 1 .. n /\ \A i \in 1 .. n : s[i] \in X
    OBVIOUS
  <1> HIDE DEF n, s
  <1>2. \A a \in Acc : \A i \in 1 .. n : Cut!MergeStep(doc, a, s[i]) \in Acc
    BY <1>1
  <1>3. f \in [Acc -> [1 .. n -> Acc]]
    BY <1>2
  <1>4. PICK it : Folds(it, n, Acc, MergeStart, f)
    <2> HIDE DEF f
    <2>1. QED
      BY <1>1, <1>3, FoldExists
  <1>5. Run(it)
    <2>1. ASSUME NEW x \in SUBSET (1 .. n), x # {}
          PROVE  f[it[x \ {Cut!Max(x)}]][Cut!Max(x)] = Cut!MergeStep(doc, it[x \ {Cut!Max(x)}], s[Cut!Max(x)])
      <3>1. Cut!Max(x) \in 1 .. n /\ it[x \ {Cut!Max(x)}] \in Acc
        BY <1>1, <1>4, <2>1, TopOf DEF Folds
      <3>2. QED
        BY <3>1
    <2>2. QED
      BY <1>4, <2>1 DEF Folds
  <1>6. Cut!MergeShort(doc, ps) = MergeRest(run[1 .. n])
    <2>1. Cut!FoldLeft(LAMBDA a, b : Cut!MergeStep(doc, a, b), MergeStart, s) = run[1 .. n]
      BY <1>1, Zenon DEF Cut!FoldLeft, Cut!MapThenFoldSet
    <2>2. Cut!MergeShort(doc, ps) = MergeRest(Cut!FoldLeft(LAMBDA a, b : Cut!MergeStep(doc, a, b), MergeStart, s))
      BY Zenon DEF Cut!MergeShort, MergeStart, MergeRest, s
    <2>3. QED
      BY <2>1, <2>2
  <1>7. Run(run)
    BY <1>5
  <1>8. \A x \in SUBSET (1 .. n) :
            run[x] = IF x = {} THEN MergeStart ELSE Cut!MergeStep(doc, run[x \ {Cut!Max(x)}], s[Cut!Max(x)])
    <2> HIDE DEF run
    <2>1. QED
      BY <1>7
  <1> HIDE DEF run, f, Run
  <1>9. ASSUME NEW i \in 1 .. n PROVE run[1 .. i] = Cut!MergeStep(doc, run[1 .. i - 1], s[i])
    <2>1. /\ 1 .. i \in SUBSET (1 .. n) /\ 1 .. i # {}
          /\ Cut!Max(1 .. i) = i /\ (1 .. i) \ {i} = 1 .. i - 1
      BY <1>1, Initials
    <2>2. run[1 .. i] = Cut!MergeStep(doc, run[(1 .. i) \ {Cut!Max(1 .. i)}], s[Cut!Max(1 .. i)])
      BY <1>8, <2>1
    <2>3. QED
      BY <2>1, <2>2
  <1>10. run[{}] = MergeStart
    BY <1>8
  <1> DEFINE h == [i \in 0 .. n |-> run[1 .. i]]
  <1>11. /\ h[0] = MergeStart /\ h[n] = run[1 .. n]
        /\ \A i \in 1 .. n : h[i] = run[1 .. i] /\ h[i - 1] = run[1 .. i - 1]
    BY <1>1, <1>10, Initials
  <1> HIDE DEF h
  <1>12. \A i \in 1 .. n : h[i] = Cut!MergeStep(doc, h[i - 1], s[i])
    BY <1>9, <1>11
  <1>13. \A i \in 0 .. n : h[i] \in Acc
    <2> DEFINE G == {i \in 0 .. n : h[i] \in Acc}
    <2>1. 0 \in G /\ \A i \in 1 .. n : i - 1 \in G => i \in G
      BY <1>2, <1>1, <1>11, <1>12
    <2> HIDE DEF G
    <2>2. \A i \in 0 .. n : i \in G
      BY <1>1, <2>1, Steps
    <2>3. QED
      BY <2>2 DEF G
  <1>14. QED
    BY <1>6, <1>11, <1>12, <1>13 DEF n, s

-----------------------------------------------------------------------------
(* A text is cut between sentences, and paragraphs are merged. *)

\* The units of a text up to a place, and from there to another.
LEMMA UnitsMiddle ==
    ASSUME NEW t \in Text, NEW a \in 0 .. Len(t), NEW b \in 0 .. Len(t), a <= b
    PROVE  /\ SubSeq(t, 1, a) \in Text /\ SubSeq(t, 1, b) \in Text /\ SubSeq(t, a + 1, b) \in Text
           /\ UnitsOf(SubSeq(t, 1, b)) = UnitsOf(SubSeq(t, 1, a)) \cup UnitsOf(SubSeq(t, a + 1, b))
           /\ a < b /\ t[b] # Cut!White => UnitsOf(SubSeq(t, a + 1, b)) # {}
           /\ UnitsOf(SubSeq(t, 1, 0)) = {} /\ UnitsOf(SubSeq(t, 1, Len(t))) = UnitsOf(t)
  <1>1. Len(t) \in Nat /\ a \in Nat /\ b \in Nat /\ a + 1 \in Nat \ {0} /\ 0 <= Len(t)
    BY DEF Text
  <1>2. /\ SubSeq(t, 1, a) \in Text
        /\ \A u : u \in UnitsOf(SubSeq(t, 1, a)) <=> u # Cut!White /\ \E i \in 1 .. a : t[i] = u
    BY <1>1, UnitsSub
  <1>3. /\ SubSeq(t, 1, b) \in Text
        /\ \A u : u \in UnitsOf(SubSeq(t, 1, b)) <=> u # Cut!White /\ \E i \in 1 .. b : t[i] = u
    BY <1>1, UnitsSub
  <1>4. /\ SubSeq(t, a + 1, b) \in Text
        /\ \A u : u \in UnitsOf(SubSeq(t, a + 1, b)) <=> u # Cut!White /\ \E i \in a + 1 .. b : t[i] = u
    BY <1>1, UnitsSub
  <1>5. \A i : i \in 1 .. b <=> i \in 1 .. a \/ i \in a + 1 .. b
    BY <1>1
  <1>6. UnitsOf(SubSeq(t, 1, b)) = UnitsOf(SubSeq(t, 1, a)) \cup UnitsOf(SubSeq(t, a + 1, b))
    BY <1>2, <1>3, <1>4, <1>5
  <1>7. a < b /\ t[b] # Cut!White => UnitsOf(SubSeq(t, a + 1, b)) # {}
    <2>1. ASSUME a < b, t[b] # Cut!White PROVE t[b] \in UnitsOf(SubSeq(t, a + 1, b))
      BY <1>1, <1>4, <2>1
    <2>2. QED
      BY <2>1
  <1>8. UnitsOf(SubSeq(t, 1, 0)) = {}
    BY <1>1, UnitsSub
  <1>9. UnitsOf(SubSeq(t, 1, Len(t))) = UnitsOf(t)
    <2>1. \A u : u \in UnitsOf(SubSeq(t, 1, Len(t))) <=> u # Cut!White /\ \E i \in 1 .. Len(t) : t[i] = u
      BY <1>1, UnitsSub
    <2>2. QED
      BY <2>1, UnitsAre
  <1>10. QED
    BY <1>2, <1>3, <1>4, <1>6, <1>7, <1>8, <1>9

\* What is cut so far holds the text up to where it was cut.
SentencesCut(t) ==
    {acc \in [out : Seq(FirmText), start : 0 .. Len(t), prev : 0 .. Len(t)] :
        /\ UnitsIn(acc.out) = UnitsOf(SubSeq(t, 1, acc.start))
        /\ acc.prev = 0 \/ t[acc.prev] # Cut!White}
\* A sentence is taken, or put off to be taken with the next.
LEMMA SentencesStep ==
    ASSUME NEW t \in Text, NEW max, NEW acc \in SentencesCut(t),
           NEW end \in {i \in 1 .. Len(t) : t[i] # Cut!White}
    PROVE  SentenceStep(t, max, acc, end) \in SentencesCut(t)
  <1>1. /\ acc \in [out : Seq(FirmText), start : 0 .. Len(t), prev : 0 .. Len(t)]
        /\ UnitsIn(acc.out) = UnitsOf(SubSeq(t, 1, acc.start))
        /\ acc.prev = 0 \/ t[acc.prev] # Cut!White
    BY DEF SentencesCut
  <1>2. /\ acc.out \in Seq(FirmText) /\ acc.start \in 0 .. Len(t) /\ acc.prev \in 0 .. Len(t)
        /\ end \in 0 .. Len(t) /\ t[end] # Cut!White /\ Len(t) \in Nat
    BY <1>1 DEF Text
  <1>3. CASE SentenceStep(t, max, acc, end) = [acc EXCEPT !.prev = end]
    BY <1>1, <1>2, <1>3 DEF SentencesCut
  <1>4. CASE /\ acc.prev > acc.start
             /\ SentenceStep(t, max, acc, end) =
                  [out |-> Append(acc.out, Cut!Strip(SubSeq(t, acc.start + 1, acc.prev))),
                   start |-> acc.prev, prev |-> end]
    <2> DEFINE m == SubSeq(t, acc.start + 1, acc.prev)
               x == Cut!Strip(m)
    <2>1. acc.start <= acc.prev /\ acc.start < acc.prev /\ acc.prev # 0
      BY <1>2, <1>4
    <2>2. /\ m \in Text /\ UnitsOf(m) # {}
          /\ UnitsOf(SubSeq(t, 1, acc.prev)) = UnitsOf(SubSeq(t, 1, acc.start)) \cup UnitsOf(m)
      BY <1>1, <1>2, <2>1, UnitsMiddle
    <2> HIDE DEF m
    <2>3. x \in FirmText /\ x \in Text /\ UnitsOf(x) = UnitsOf(m)
      BY <2>2, FirmStrip, UnitsStrip DEF FirmText
    <2> HIDE DEF x
    <2>4. Append(acc.out, x) \in Seq(FirmText) /\ acc.out \in Seq(Text)
      BY <1>2, <2>3 DEF FirmText
    <2>5. UnitsIn(Append(acc.out, x)) = UnitsOf(SubSeq(t, 1, acc.prev))
      <3>1. UnitsIn(Append(acc.out, x)) = UnitsIn(acc.out) \cup UnitsOf(x)
        BY <2>3, <2>4, UnitsInIs, Zenon
      <3>2. QED
        BY <1>1, <2>2, <2>3, <3>1, Zenon
    <2>6. SentenceStep(t, max, acc, end) = [out |-> Append(acc.out, x), start |-> acc.prev, prev |-> end]
      BY <1>4 DEF m, x
    <2> DEFINE y == Append(acc.out, x)
               r == [out |-> y, start |-> acc.prev, prev |-> end]
    <2> HIDE DEF y
    <2>7. r \in [out : Seq(FirmText), start : 0 .. Len(t), prev : 0 .. Len(t)]
      BY <1>2, <2>4 DEF y
    <2>8. r.out = y /\ r.start = acc.prev /\ r.prev = end
      OBVIOUS
    <2>9. SentenceStep(t, max, acc, end) = r /\ UnitsIn(y) = UnitsOf(SubSeq(t, 1, acc.prev))
      BY <2>5, <2>6 DEF y
    <2> HIDE DEF r
    <2>10. QED
      BY <1>2, <2>7, <2>8, <2>9 DEF SentencesCut
  <1>5. QED
    BY <1>3, <1>4 DEF SentenceStep

\* Cut between its sentences, a text is kept.
LEMMA SentencePiecesIs ==
    ASSUME NEW doc, NEW t \in Text, NEW max, NEW ps, ps = Cut!SentencePieces(doc, t, max)
    PROVE  ps \in Seq(FirmText) /\ UnitsIn(ps) = UnitsOf(t)
  <1> DEFINE E == {i \in DOMAIN t : Cut!EndsSentence(doc, t, i)}
             W == {i \in 1 .. Len(t) : t[i] # Cut!White}
  <1>1. Len(t) \in Nat /\ DOMAIN t = 1 .. Len(t) /\ E \subseteq 1 .. Len(t) /\ E \subseteq W
    BY DEF Text, Cut!EndsSentence
  <1>2. Cut!SentenceEnds(doc, t) = Cut!Ascending(E)
    BY DEF Cut!SentenceEnds
  <1> HIDE DEF E
  <1>3. Cut!SentenceEnds(doc, t) \in Seq(W)
    <2>1. Cut!Ascending(E) \in Seq(E)
      BY <1>1, InOrder
    <2> HIDE DEF W
    <2>2. \A s \in Seq(E) : s \in Seq(W)
      <3>1. ASSUME NEW s \in Seq(E) PROVE s \in Seq(W)
        <4>1. \A i \in 1 .. Len(s) : s[i] \in W
          <5>1. \A i \in 1 .. Len(s) : s[i] \in E
            OBVIOUS
          <5>2. E \subseteq W
            BY <1>1
          <5>3. QED
            BY <5>1, <5>2
        <4>2. s \in [1 .. Len(s) -> W] /\ Len(s) \in Nat
          BY <4>1
        <4>3. QED
          BY <4>2
      <3>2. QED
        BY <3>1
    <2>3. QED
      BY <1>2, <2>1, <2>2
  <1>4. SentenceStart \in SentencesCut(t)
    <2>1. 0 \in 0 .. Len(t) /\ <<>> \in Seq(FirmText) /\ <<>> \in Seq(Text)
      BY <1>1
    <2>2. UnitsOf(SubSeq(t, 1, 0)) = {}
      BY <2>1, UnitsMiddle
    <2>3. UnitsIn(<<>>) = {}
      BY <2>1, UnitsInIs
    <2>4. QED
      BY <2>1, <2>2, <2>3 DEF SentenceStart, SentencesCut
  <1>5. \A a \in SentencesCut(t), b \in W : SentenceStep(t, max, a, b) \in SentencesCut(t)
    BY SentencesStep
  <1> HIDE DEF W
  <1>6. PICK h : /\ Cut!SentencePieces(doc, t, max) = SentenceRest(t, h[Len(Cut!SentenceEnds(doc, t))])
                 /\ \A i \in 0 .. Len(Cut!SentenceEnds(doc, t)) : h[i] \in SentencesCut(t)
    BY <1>3, <1>4, <1>5, SentencesFold
  <1> DEFINE acc == h[Len(Cut!SentenceEnds(doc, t))]
             m == SubSeq(t, acc.start + 1, Len(t))
             x == Cut!Strip(m)
  <1>7. acc \in SentencesCut(t) /\ ps = SentenceRest(t, acc)
    <2>1. Len(Cut!SentenceEnds(doc, t)) \in 0 .. Len(Cut!SentenceEnds(doc, t))
      BY <1>3
    <2>2. QED
      BY <1>6, <2>1
  <1> HIDE DEF acc
  <1>8. /\ acc.out \in Seq(FirmText) /\ acc.start \in 0 .. Len(t)
        /\ UnitsIn(acc.out) = UnitsOf(SubSeq(t, 1, acc.start))
    BY <1>7 DEF SentencesCut
  <1>9. m \in Text /\ UnitsOf(t) = UnitsIn(acc.out) \cup UnitsOf(m)
    <2>1. Len(t) \in 0 .. Len(t) /\ acc.start <= Len(t)
      BY <1>1, <1>8
    <2>2. QED
      BY <1>8, <2>1, UnitsMiddle
  <1>10. ps = acc.out \o (IF x = <<>> THEN <<>> ELSE <<x>>)
    BY <1>7 DEF SentenceRest
  <1> HIDE DEF m
  <1>11. /\ x \in Text /\ UnitsOf(x) = UnitsOf(m) /\ (x = <<>> <=> UnitsOf(m) = {})
         /\ UnitsOf(m) # {} => x \in FirmText
    BY <1>9, UnitsStrip, FirmStrip DEF FirmText
  <1> HIDE DEF x
  <1>12. FirmText \subseteq Text /\ acc.out \in Seq(Text)
    BY <1>8 DEF FirmText
  <1>13. CASE x = <<>>
    <2>1. ps = acc.out
      BY <1>8, <1>10, <1>13
    <2>2. UnitsOf(m) = {}
      BY <1>11, <1>13, Zenon
    <2>3. QED
      BY <1>8, <1>9, <2>1, <2>2
  <1>14. CASE x # <<>>
    <2>1. x \in FirmText /\ x \in Text /\ UnitsOf(x) = UnitsOf(m)
      BY <1>11, <1>14, Zenon
    <2>2. ps = Append(acc.out, x) /\ ps \in Seq(FirmText)
      BY <1>8, <1>10, <1>14, <2>1
    <2>3. UnitsIn(Append(acc.out, x)) = UnitsIn(acc.out) \cup UnitsOf(x)
      BY <1>12, <2>1, UnitsInIs
    <2>4. QED
      BY <1>9, <2>1, <2>2, <2>3
  <1>15. QED
    BY <1>13, <1>14

\* A text split between sentences is all there.
LEMMA SplitSentences ==
    ASSUME NEW doc, NEW t \in FirmText, NEW max \in Nat \ {0}, NEW ps,
           ps = Cut!SplitOnSentence(doc, t, max)
    PROVE  ps \in Seq(FirmText) /\ UnitsIn(ps) = UnitsOf(t) /\ ps # <<>>
  <1>1. /\ t \in Text /\ Firm(t) /\ Len(t) \in Nat \ {0} /\ t[1] # Cut!White /\ t[Len(t)] # Cut!White
        /\ UnitsOf(t) # {}
    BY FirmUnits DEF FirmText, Firm
  <1>2. CASE ps = <<t>>
    BY <1>1, <1>2, UnitsOne
  <1>3. CASE ps = Cut!SentencePieces(doc, t, max)
    <2>1. ps \in Seq(FirmText) /\ UnitsIn(ps) = UnitsOf(t)
      BY <1>1, <1>3, SentencePiecesIs
    <2>2. UnitsIn(<<>>) = {}
      BY UnitsOne
    <2>3. QED
      BY <1>1, <2>1, <2>2
  <1>4. CASE /\ ~(Len(t) <= max)
             /\ ps = <<Cut!Strip(SubSeq(t, 1, max)), Cut!Strip(SubSeq(t, max + 1, Len(t)))>>
    <2> DEFINE a == SubSeq(t, 1, max)
               b == SubSeq(t, max + 1, Len(t))
    <2>1. max \in 0 .. Len(t) /\ Len(t) \in 0 .. Len(t) /\ 0 \in 0 .. Len(t)
          /\ max <= Len(t) /\ max < Len(t) /\ 0 <= max
      BY <1>1, <1>4
    <2>2. /\ a \in Text /\ b \in Text /\ UnitsOf(t) = UnitsOf(a) \cup UnitsOf(b) /\ UnitsOf(b) # {}
      BY <1>1, <2>1, UnitsMiddle
    <2>3. UnitsOf(a) # {}
      <3>1. \A u : u \in UnitsOf(a) <=> u # Cut!White /\ \E i \in 1 .. max : t[i] = u
        BY <1>1, <2>1, UnitsSub
      <3>2. t[1] \in UnitsOf(a)
        BY <1>1, <3>1
      <3>3. QED
        BY <3>2
    <2> HIDE DEF a, b
    <2> DEFINE x == Cut!Strip(a)
               y == Cut!Strip(b)
    <2>4. x \in FirmText /\ y \in FirmText /\ x \in Text /\ y \in Text
          /\ UnitsOf(x) = UnitsOf(a) /\ UnitsOf(y) = UnitsOf(b)
      BY <2>2, <2>3, FirmStrip, UnitsStrip DEF FirmText
    <2>5. ps = <<x, y>>
      BY <1>4 DEF a, b
    <2> HIDE DEF x, y
    <2> DEFINE c == <<x>>
    <2>6. ps = Append(c, y) /\ ps \in Seq(FirmText) /\ ps # <<>>
      BY <2>4, <2>5
    <2>9. c \in Seq(Text) /\ UnitsIn(c) = UnitsOf(x)
      BY <2>4, UnitsOne
    <2> HIDE DEF c
    <2>7. UnitsIn(ps) = UnitsIn(c) \cup UnitsOf(y) /\ UnitsIn(c) = UnitsOf(x)
      <3>1. UnitsIn(Append(c, y)) = UnitsIn(c) \cup UnitsOf(y)
        BY <2>4, <2>9, UnitsInIs
      <3>2. QED
        BY <2>6, <2>9, <3>1
    <2>8. QED
      BY <2>2, <2>4, <2>6, <2>7
  <1>5. QED
    BY <1>2, <1>3, <1>4 DEF Cut!SplitOnSentence

\* What has been merged so far, and what waits.
Merged == [out : Seq(FirmText), buffer : FirmText \cup {<<>>}]
MergedUnits(acc) == UnitsIn(acc.out) \cup UnitsOf(acc.buffer)
\* A paragraph merged with those before it, or split: nothing is lost.
LEMMA MergeStepIs ==
    ASSUME Measures, NEW doc, NEW acc \in Merged, NEW p \in FirmText, NEW r,
           r = Cut!MergeStep(doc, acc, p)
    PROVE  r \in Merged /\ MergedUnits(r) = MergedUnits(acc) \cup UnitsOf(p)
  <1> DEFINE out == acc.out
             b0 == acc.buffer
             b == IF b0 = <<>> THEN p ELSE Cut!Glue(<<b0, p>>)
             ps == Cut!SplitOnSentence(doc, b, MAX_CHUNK_CHARS)
  <1>1. out \in Seq(FirmText) /\ b0 \in FirmText \cup {<<>>} /\ MergedUnits(acc) = UnitsIn(out) \cup UnitsOf(b0)
    BY DEF Merged, MergedUnits
  <1>2. /\ r = IF Len(b) < TARGET_CHUNK_CHARS THEN [acc EXCEPT !.buffer = b]
               ELSE IF Len(b) > MAX_CHUNK_CHARS THEN [out |-> out \o Cut!Front(ps), buffer |-> Cut!Last(ps)]
                    ELSE [out |-> Append(out, b), buffer |-> <<>>]
        /\ acc = [out |-> out, buffer |-> b0]
    BY DEF Cut!MergeStep, Merged
  <1> HIDE DEF out, b0
  <1>3. b \in FirmText /\ UnitsOf(b) = UnitsOf(b0) \cup UnitsOf(p)
    <2>1. CASE b0 = <<>>
      BY <2>1, UnitsWhite
    <2>2. CASE b0 # <<>>
      BY <1>1, <2>2, GlueTwo DEF FirmText
    <2>3. QED
      BY <2>1, <2>2
  <1>4. ps \in Seq(FirmText) /\ UnitsIn(ps) = UnitsOf(b) /\ ps # <<>>
    <2>1. MAX_CHUNK_CHARS \in Nat \ {0}
      BY DEF Measures
    <2> HIDE DEF b
    <2>2. QED
      BY <1>3, <2>1, SplitSentences
  <1> HIDE DEF b, ps
  <1>5. FirmText \subseteq Text /\ out \in Seq(Text) /\ b \in Text
    BY <1>1, <1>3 DEF FirmText
  <1>6. CASE r = [acc EXCEPT !.buffer = b]
    <2>1. r = [out |-> out, buffer |-> b]
      BY <1>2, <1>6
    <2>2. QED
      BY <1>1, <1>3, <2>1 DEF Merged, MergedUnits
  <1>7. CASE r = [out |-> out \o Cut!Front(ps), buffer |-> Cut!Last(ps)]
    <2> DEFINE x == Cut!Front(ps)
               y == Cut!Last(ps)
    <2>1. x \in Seq(FirmText) /\ y \in FirmText /\ UnitsOf(b) = UnitsIn(x) \cup UnitsOf(y)
      BY <1>4, UnitsEnds
    <2> HIDE DEF x, y
    <2>2. x \in Seq(Text) /\ out \o x \in Seq(FirmText)
      BY <1>1, <2>1 DEF FirmText
    <2>3. UnitsIn(out \o x) = UnitsIn(out) \cup UnitsIn(x)
      BY <1>5, <2>2, UnitsInIs
    <2> DEFINE z == out \o x
    <2>4. r = [out |-> z, buffer |-> y]
      BY <1>7 DEF x, y
    <2> HIDE DEF z
    <2>5. r \in Merged /\ MergedUnits(r) = UnitsIn(z) \cup UnitsOf(y)
      BY <2>1, <2>2, <2>4 DEF Merged, MergedUnits, z
    <2>6. QED
      BY <1>1, <1>3, <2>1, <2>3, <2>5 DEF z
  <1>8. CASE r = [out |-> Append(out, b), buffer |-> <<>>]
    <2> DEFINE z == Append(out, b)
    <2>1. z \in Seq(FirmText)
      BY <1>1, <1>3
    <2>2. UnitsIn(z) = UnitsIn(out) \cup UnitsOf(b) /\ UnitsOf(<<>>) = {}
      BY <1>5, UnitsInIs, UnitsWhite
    <2> HIDE DEF z
    <2>3. r = [out |-> z, buffer |-> <<>>]
      BY <1>8 DEF z
    <2>4. r \in Merged /\ MergedUnits(r) = UnitsIn(z)
      BY <2>1, <2>2, <2>3 DEF Merged, MergedUnits
    <2>5. QED
      BY <1>1, <1>3, <2>2, <2>4
  <1>9. QED
    BY <1>2, <1>6, <1>7, <1>8

\* Merged, the paragraphs keep their units.
LEMMA MergeShortIs ==
    ASSUME Measures, NEW doc, NEW ps \in Seq(FirmText), NEW qs, qs = Cut!MergeShort(doc, ps)
    PROVE  qs \in Seq(FirmText) /\ UnitsIn(qs) = UnitsIn(ps)
  <1>1. /\ MergeStart \in Merged /\ MergedUnits(MergeStart) = {}
        /\ \A a \in Merged, b \in FirmText : Cut!MergeStep(doc, a, b) \in Merged
    <2>1. \A a \in Merged, b \in FirmText : Cut!MergeStep(doc, a, b) \in Merged
      BY MergeStepIs
    <2>2. UnitsIn(<<>>) = {} /\ UnitsOf(<<>>) = {} /\ <<>> \in Seq(FirmText)
      BY UnitsOne
    <2>3. QED
      BY <2>1, <2>2 DEF MergeStart, Merged, MergedUnits
  <1>2. PICK h : /\ h[0] = MergeStart /\ qs = MergeRest(h[Len(ps)])
                 /\ \A i \in 0 .. Len(ps) : h[i] \in Merged
                 /\ \A i \in 1 .. Len(ps) : h[i] = Cut!MergeStep(doc, h[i - 1], ps[i])
    BY <1>1, MergeFold
  <1>3. Len(ps) \in Nat /\ \A i \in 1 .. Len(ps) : ps[i] \in FirmText /\ i - 1 \in 0 .. Len(ps)
    OBVIOUS
  <1> DEFINE UpToNth(i) == UNION {UnitsOf(ps[j]) : j \in 1 .. i}
             G == {i \in 0 .. Len(ps) : MergedUnits(h[i]) = UpToNth(i)}
  <1>4. \A i \in 0 .. Len(ps) : i \in G
    <2>1. 0 \in G
      <3>1. UpToNth(0) = {}
        OBVIOUS
      <3>2. QED
        BY <1>1, <1>2, <1>3, <3>1
    <2>2. ASSUME NEW i \in 1 .. Len(ps), i - 1 \in G PROVE i \in G
      <3>1. MergedUnits(h[i]) = MergedUnits(h[i - 1]) \cup UnitsOf(ps[i])
        BY <1>2, <1>3, MergeStepIs
      <3>2. UpToNth(i) = UpToNth(i - 1) \cup UnitsOf(ps[i])
        <4>1. \A j : j \in 1 .. i <=> j \in 1 .. i - 1 \/ j = i
          BY <1>3
        <4>2. QED
          BY <4>1
      <3>3. MergedUnits(h[i - 1]) = UpToNth(i - 1) /\ i \in 0 .. Len(ps)
        BY <1>3, <2>2
      <3> HIDE DEF UpToNth
      <3>4. QED
        BY <3>1, <3>2, <3>3
    <2> HIDE DEF G
    <2>3. QED
      BY <1>3, <2>1, <2>2, Steps
  <1> DEFINE acc == h[Len(ps)]
  <1>5. acc \in Merged /\ qs = MergeRest(acc) /\ MergedUnits(acc) = UnitsIn(ps)
    <2>1. Len(ps) \in 0 .. Len(ps) /\ Len(ps) \in G
      BY <1>3, <1>4
    <2>2. QED
      BY <1>2, <2>1 DEF UnitsIn
  <1> HIDE DEF acc, G, UpToNth
  <1> DEFINE out == acc.out
             b == acc.buffer
  <1>6. out \in Seq(FirmText) /\ b \in FirmText \cup {<<>>} /\ UnitsIn(ps) = UnitsIn(out) \cup UnitsOf(b)
    BY <1>5 DEF Merged, MergedUnits
  <1>7. qs = IF b = <<>> THEN out
             ELSE IF out # <<>> /\ Len(b) < MIN_CHUNK_CHARS
                  THEN [out EXCEPT ![Len(out)] = Cut!Glue(<<@, b>>)]
                  ELSE Append(out, b)
    BY <1>5 DEF MergeRest
  <1> HIDE DEF out, b
  <1>8. FirmText \subseteq Text /\ out \in Seq(Text)
    BY <1>6 DEF FirmText
  <1>9. CASE b = <<>>
    BY <1>6, <1>7, <1>9, UnitsWhite
  <1>10. CASE b # <<>> /\ qs = Append(out, b)
    <2>1. b \in FirmText /\ b \in Text
      BY <1>6, <1>8, <1>10
    <2>2. UnitsIn(Append(out, b)) = UnitsIn(out) \cup UnitsOf(b)
      BY <1>8, <2>1, UnitsInIs
    <2>3. QED
      BY <1>6, <1>10, <2>1, <2>2
  <1>11. CASE b # <<>> /\ out # <<>> /\ qs = [out EXCEPT ![Len(out)] = Cut!Glue(<<@, b>>)]
    <2>1. b \in FirmText /\ b \in Text /\ Firm(b)
      BY <1>6, <1>8, <1>11 DEF FirmText
    <2> DEFINE l == out[Len(out)]
               g == Cut!Glue(<<l, b>>)
    <2>2. /\ l \in FirmText /\ UnitsIn(out) = UnitsIn(Cut!Front(out)) \cup UnitsOf(l)
          /\ \A x \in FirmText :
                /\ [out EXCEPT ![Len(out)] = x] \in Seq(FirmText)
                /\ UnitsIn([out EXCEPT ![Len(out)] = x]) = UnitsIn(Cut!Front(out)) \cup UnitsOf(x)
      BY <1>6, <1>11, UnitsEnds
    <2>3. qs = [out EXCEPT ![Len(out)] = g]
      BY <1>11
    <2> HIDE DEF l
    <2>4. g \in FirmText /\ UnitsOf(g) = UnitsOf(l) \cup UnitsOf(b)
      BY <2>1, <2>2, GlueTwo DEF FirmText
    <2> HIDE DEF g
    <2>5. qs \in Seq(FirmText) /\ UnitsIn(qs) = UnitsIn(Cut!Front(out)) \cup UnitsOf(g)
      BY <2>2, <2>3, <2>4
    <2>6. QED
      BY <1>6, <2>2, <2>4, <2>5
  <1>12. QED
    BY <1>7, <1>9, <1>10, <1>11

\* Of the paragraphs, the long ones are kept, and there is one if there was one.
LEMMA ParagraphsIs ==
    ASSUME NEW all \in Seq(FirmText), NEW qs, qs = Cut!Paragraphs(all)
    PROVE  /\ qs \in Seq(FirmText) /\ UnitsIn(qs) \subseteq UnitsIn(all)
           /\ \A i \in 1 .. Len(all) : Len(all[i]) > SHORT => UnitsOf(all[i]) \subseteq UnitsIn(qs)
           /\ all # <<>> => qs # <<>>
  <1> DEFINE K == {i \in DOMAIN all : Len(all[i]) > SHORT}
             long == Picked(all, K)
  <1>1. qs = IF long # <<>> THEN long ELSE IF all # <<>> THEN <<Cut!Glue(all)>> ELSE <<>>
    <2>1. Cut!Keep(all, LAMBDA p : Len(p) > SHORT) = long
      BY Zenon DEF Cut!Keep, Picked
    <2>2. QED
      BY <2>1, Zenon DEF Cut!Paragraphs
  <1>2. /\ DOMAIN all = 1 .. Len(all) /\ K \subseteq 1 .. Len(all) /\ Len(all) \in Nat /\ all \in Seq(Text)
        /\ \A i \in 1 .. Len(all) : Len(all[i]) > SHORT => i \in K
        /\ \A i \in 1 .. Len(all) : Firm(all[i])
    BY DEF FirmText
  <1> HIDE DEF K
  <1>3. /\ long \in Seq(FirmText)
        /\ \A k \in 1 .. Len(long) : \E i \in K : long[k] = all[i]
        /\ \A i \in K : \E k \in 1 .. Len(long) : long[k] = all[i]
        /\ long = <<>> <=> K = {}
    BY <1>2, PickedIs
  <1> HIDE DEF long
  <1>4. UnitsIn(<<>>) = {}
    BY UnitsOne
  <1>5. CASE long # <<>>
    <2>1. UnitsIn(long) \subseteq UnitsIn(all)
      BY <1>2, <1>3 DEF UnitsIn
    <2>2. \A i \in K : UnitsOf(all[i]) \subseteq UnitsIn(long)
      BY <1>3 DEF UnitsIn
    <2>3. QED
      BY <1>1, <1>2, <1>3, <1>5, <2>1, <2>2
  <1>6. CASE long = <<>> /\ all # <<>>
    <2> DEFINE g == Cut!Glue(all)
    <2>1. g \in FirmText /\ g \in Text /\ UnitsOf(g) = UnitsIn(all)
      BY <1>2, <1>6, GlueUnits, UnitsInIs DEF FirmText
    <2>2. qs = <<g>>
      BY <1>1, <1>6
    <2> HIDE DEF g
    <2>3. UnitsIn(qs) = UnitsIn(all) /\ qs \in Seq(FirmText) /\ qs # <<>>
      BY <2>1, <2>2, UnitsOne
    <2>4. QED
      BY <2>3 DEF UnitsIn
  <1>7. CASE all = <<>>
    BY <1>1, <1>2, <1>3, <1>4, <1>7
  <1>8. QED
    BY <1>5, <1>6, <1>7

-----------------------------------------------------------------------------
(* The cut of the text formats. *)

BlockSet == [texts : Seq(FirmText), title : Nat, first : Int, last : Int]
\* A passage of a block.
OfBlock(p, b) ==
    /\ p.titles = Cut!Title(b.title) /\ p.first = b.first /\ p.last = b.last
    /\ UnitsOf(p.text) \subseteq UnitsIn(b.texts) /\ UnitsOf(p.text) # {}
\* The passages ps hold what must be kept of a block.
BlockKept(ps, b) ==
    /\ \A j \in 1 .. Len(b.texts) : Len(b.texts[j]) > SHORT =>
          \A u \in UnitsOf(b.texts[j]) : \E k \in 1 .. Len(ps) : u \in UnitsOf(ps[k].text)
    /\ b.texts # <<>> => \E k \in 1 .. Len(ps) : ps[k].titles = Cut!Title(b.title)

\* A sequence of what is in Y is a sequence of Y.
LEMMA SeqOfPart ==
    ASSUME NEW X, NEW Y, NEW s \in Seq(X), \A k \in 1 .. Len(s) : s[k] \in Y
    PROVE  s \in Seq(Y)
  <1>1. Len(s) \in Nat /\ s = [k \in 1 .. Len(s) |-> s[k]]
    OBVIOUS
  <1>2. s \in [1 .. Len(s) -> Y]
    BY <1>1
  <1>3. QED
    BY <1>1, <1>2

\* Section 0 has no heading.
LEMMA TitleIs == \A n \in Nat : Cut!Title(n) \in SUBSET Nat /\ (n # 0 => n \in Cut!Title(n))
  BY DEF Cut!Title

\* The passages of a block: short ones are merged, what is left is dropped
\* only if it is short.
LEMMA BlockPieces ==
    ASSUME Measures, NEW doc, NEW b \in BlockSet, NEW cut,
           cut = Cut!MergeShort(doc, Cut!Paragraphs(b.texts)),
           NEW ps, ps = [i \in DOMAIN cut |-> Cut!Passage(cut[i], Cut!Title(b.title), b.first, b.last)]
    PROVE  /\ ps \in Seq(PieceSet) /\ \A k \in 1 .. Len(ps) : OfBlock(ps[k], b)
           /\ BlockKept(ps, b)
  <1> DEFINE ts == b.texts
             qs == Cut!Paragraphs(ts)
             T == Cut!Title(b.title)
  <1>1. ts \in Seq(FirmText) /\ T \in SUBSET Nat /\ b.first \in Int /\ b.last \in Int
    BY TitleIs DEF BlockSet
  <1> HIDE DEF ts
  <1>2. /\ qs \in Seq(FirmText) /\ UnitsIn(qs) \subseteq UnitsIn(ts)
        /\ \A i \in 1 .. Len(ts) : Len(ts[i]) > SHORT => UnitsOf(ts[i]) \subseteq UnitsIn(qs)
        /\ ts # <<>> => qs # <<>>
    BY <1>1, ParagraphsIs
  <1> HIDE DEF qs
  <1>3. cut \in Seq(FirmText) /\ UnitsIn(cut) = UnitsIn(qs)
    BY <1>2, MergeShortIs DEF qs, ts
  <1>4. /\ Len(cut) \in Nat /\ DOMAIN cut = 1 .. Len(cut)
        /\ \A k \in 1 .. Len(cut) : cut[k] \in Text /\ UnitsOf(cut[k]) # {} /\ UnitsOf(cut[k]) \subseteq UnitsIn(cut)
    <2>1. \A k \in 1 .. Len(cut) : cut[k] \in FirmText
      BY <1>3
    <2>2. \A k \in 1 .. Len(cut) : cut[k] \in Text /\ UnitsOf(cut[k]) # {}
      BY <2>1, FirmUnits DEF FirmText
    <2>3. QED
      BY <1>3, <2>2 DEF UnitsIn
  <1> HIDE DEF T
  <1>5. \A k \in 1 .. Len(cut) : /\ Cut!Passage(cut[k], T, b.first, b.last) \in PieceSet
                                 /\ Cut!Passage(cut[k], T, b.first, b.last).text = cut[k]
                                 /\ Cut!Passage(cut[k], T, b.first, b.last).titles = T
                                 /\ Cut!Passage(cut[k], T, b.first, b.last).first = b.first
                                 /\ Cut!Passage(cut[k], T, b.first, b.last).last = b.last
    BY <1>1, <1>4 DEF Cut!Passage, PieceSet
  <1>6. ps = [i \in 1 .. Len(cut) |-> Cut!Passage(cut[i], T, b.first, b.last)]
    BY <1>4 DEF T
  <1>7. /\ ps \in Seq(PieceSet) /\ Len(ps) = Len(cut)
        /\ \A k \in 1 .. Len(ps) : /\ ps[k].text = cut[k] /\ ps[k].titles = T
                                   /\ ps[k].first = b.first /\ ps[k].last = b.last
    <2>1. ps \in [1 .. Len(cut) -> PieceSet]
      BY <1>5, <1>6
    <2>2. QED
      BY <1>4, <1>5, <1>6, <2>1
  <1>8. \A k \in 1 .. Len(ps) : OfBlock(ps[k], b)
    BY <1>2, <1>3, <1>4, <1>7 DEF OfBlock, T, ts
  <1>9. ASSUME NEW j \in 1 .. Len(ts), Len(ts[j]) > SHORT, NEW u \in UnitsOf(ts[j])
        PROVE  \E k \in 1 .. Len(ps) : u \in UnitsOf(ps[k].text)
    <2>1. u \in UnitsIn(cut)
      BY <1>2, <1>3, <1>9
    <2>2. QED
      BY <1>7, <2>1 DEF UnitsIn
  <1>10. ASSUME ts # <<>> PROVE \E k \in 1 .. Len(ps) : ps[k].titles = T
    <2>1. 1 \in 1 .. Len(qs) /\ qs[1] \in FirmText
      BY <1>2, <1>10
    <2>2. UnitsIn(qs) # {}
      <3>1. UnitsOf(qs[1]) # {}
        BY <2>1, FirmUnits DEF FirmText
      <3>2. UnitsOf(qs[1]) \subseteq UnitsIn(qs)
        BY <2>1 DEF UnitsIn
      <3>3. QED
        BY <3>1, <3>2
    <2>3. 1 .. Len(cut) # {}
      BY <1>3, <2>2 DEF UnitsIn
    <2>4. QED
      BY <1>7, <2>3
  <1>11. QED
    BY <1>7, <1>8, <1>9, <1>10 DEF BlockKept, T, ts

\* Every passage is of a block, and every block is kept.
LEMMA CutBlocks ==
    ASSUME Measures, NEW doc, NEW blocks \in Seq(BlockSet), NEW ps, ps = Cut!Cut(doc, blocks)
    PROVE  /\ ps \in Seq(PieceSet)
           /\ \A k \in 1 .. Len(ps) : \E b : Among(b, blocks) /\ OfBlock(ps[k], b)
           /\ \A b : Among(b, blocks) => BlockKept(ps, b)
  <1> DEFINE Cuts1(b) == Cut!MergeShort(doc, Cut!Paragraphs(b.texts))
             Pieces(b) == [i \in DOMAIN Cuts1(b) |->
                             Cut!Passage(Cuts1(b)[i], Cut!Title(b.title), b.first, b.last)]
             ss == [i \in DOMAIN blocks |-> Pieces(blocks[i])]
  <1>1. ps = Cut!FlattenSeq(ss)
    BY Zenon DEF Cut!Cut
  <1>2. Len(blocks) \in Nat /\ DOMAIN blocks = 1 .. Len(blocks) /\ \A i \in 1 .. Len(blocks) : blocks[i] \in BlockSet
    OBVIOUS
  <1>3. \A b \in BlockSet : /\ Pieces(b) \in Seq(PieceSet)
                            /\ \A k \in 1 .. Len(Pieces(b)) : OfBlock(Pieces(b)[k], b)
                            /\ BlockKept(Pieces(b), b)
    BY BlockPieces
  <1> HIDE DEF Pieces
  <1>4. ss \in Seq(Seq(PieceSet)) /\ Len(ss) = Len(blocks) /\ \A i \in 1 .. Len(blocks) : ss[i] = Pieces(blocks[i])
    <2>1. ss \in [1 .. Len(blocks) -> Seq(PieceSet)]
      BY <1>2, <1>3
    <2>2. QED
      BY <1>2, <2>1
  <1> HIDE DEF ss, Cuts1
  <1>5. /\ ps \in Seq(PieceSet)
        /\ \A i \in 1 .. Len(ss) : \A j \in 1 .. Len(ss[i]) : Among(ss[i][j], ps)
        /\ \A k \in 1 .. Len(ps) : \E i \in 1 .. Len(ss) : Among(ps[k], ss[i])
    <2>1. ss \in Seq(Seq(PieceSet))
      BY <1>4
    <2>2. QED
      BY <1>1, <2>1, AmongFlat, ZenonT(30)
  <1>6. ASSUME NEW k \in 1 .. Len(ps) PROVE \E b : Among(b, blocks) /\ OfBlock(ps[k], b)
    <2>1. PICK i \in 1 .. Len(blocks) : Among(ps[k], Pieces(blocks[i]))
      BY <1>4, <1>5
    <2>2. OfBlock(ps[k], blocks[i])
      BY <1>2, <1>3, <2>1 DEF Among
    <2>3. QED
      BY <2>2 DEF Among
  <1>7. ASSUME NEW b, Among(b, blocks) PROVE BlockKept(ps, b)
    <2>1. PICK i \in 1 .. Len(blocks) : blocks[i] = b
      BY <1>7 DEF Among
    <2> DEFINE qs == Pieces(b)
    <2>2. b \in BlockSet /\ BlockKept(qs, b) /\ \A k \in 1 .. Len(qs) : Among(qs[k], ps)
      BY <1>2, <1>3, <1>4, <1>5, <2>1
    <2> HIDE DEF qs
    <2>3. \A k \in 1 .. Len(qs) : \E r \in 1 .. Len(ps) : ps[r] = qs[k]
      BY <2>2 DEF Among
    <2>4. QED
      BY <2>2, <2>3, ZenonT(20) DEF BlockKept
  <1>8. QED
    BY <1>5, <1>6, <1>7

\* A line of which a block has a text that is not short, or the heading.
InBlock(doc, b, n) ==
    \/ \E j \in 1 .. Len(b.texts) : Len(b.texts[j]) > SHORT /\ LineUnits(doc, n) \subseteq UnitsOf(b.texts[j])
    \/ b.texts # <<>> /\ b.title = n /\ n # 0
\* A file of text is held if every line is in a block whose passages are fine.
LEMMA TextWhole ==
    ASSUME Measures, NEW f, NEW doc \in Docs, NEW blocks \in Seq(BlockSet), NEW ps,
           ps = Cut!Cut(doc, blocks),
           \A b : Among(b, blocks) => \A p \in PieceSet : OfBlock(p, b) => p \in Fine(f, doc),
           \A n \in 1 .. Len(doc) : \/ Cut!LeftOut(f, doc, n) \/ doc[n].len = 0
                                    \/ \E b : Among(b, blocks) /\ InBlock(doc, b, n)
    PROVE  Whole(f, doc, ps)
  <1>1. /\ ps \in Seq(PieceSet)
        /\ \A k \in 1 .. Len(ps) : \E b : Among(b, blocks) /\ OfBlock(ps[k], b)
        /\ \A b : Among(b, blocks) => BlockKept(ps, b)
    BY CutBlocks
  <1>2. ps \in Seq(Fine(f, doc))
    <2>1. Len(ps) \in Nat /\ \A k \in 1 .. Len(ps) : ps[k] \in PieceSet
      BY <1>1
    <2>2. \A k \in 1 .. Len(ps) : ps[k] \in Fine(f, doc)
      BY <1>1, <2>1
    <2>3. QED
      BY <1>1, <2>1, <2>2, SeqOfPart
  <1>3. ASSUME NEW n \in 1 .. Len(doc), ~Cut!LeftOut(f, doc, n) PROVE Present(doc, ps, n)
    <2> SUFFICES ASSUME doc[n].len # 0 PROVE Present(doc, ps, n)
      BY BlankHeld DEF Present
    <2>1. PICK b : Among(b, blocks) /\ InBlock(doc, b, n)
      BY <1>3
    <2>2. BlockKept(ps, b)
      BY <1>1, <2>1
    <2>3. CASE \E j \in 1 .. Len(b.texts) : Len(b.texts[j]) > SHORT /\ LineUnits(doc, n) \subseteq UnitsOf(b.texts[j])
      BY <2>2, <2>3 DEF BlockKept, Present, Covered
    <2>4. CASE b.texts # <<>> /\ b.title = n /\ n # 0
      <3>1. n \in Cut!Title(n) /\ Cut!Title(n) = Cut!Title(b.title)
        BY <2>4, TitleIs
      <3>2. QED
        BY <2>2, <2>4, <3>1 DEF BlockKept, Present
    <2>5. QED
      BY <2>1, <2>3, <2>4 DEF InBlock
  <1>4. QED
    BY <1>2, <1>3, FineWhole

-----------------------------------------------------------------------------
(* Paragraphs: runs of lines that are not blank. *)

\* The places from x to y are a run of the places in full: no more can be added.
RunOf(full, x, y) == x \in full /\ x <= y /\ x .. y \subseteq full /\ x - 1 \notin full /\ y + 1 \notin full
EndIn(full, x) == Cut!Max({j \in full : x .. j \subseteq full})
\* A run that begins has an end.
LEMMA RunEnds ==
    ASSUME NEW m \in Nat, NEW full, full \subseteq 1 .. m, NEW x \in full, x - 1 \notin full
    PROVE  /\ EndIn(full, x) \in full /\ RunOf(full, x, EndIn(full, x))
           /\ \A i \in full : x .. i \subseteq full => i <= EndIn(full, x)
  <1> DEFINE S == {j \in full : x .. j \subseteq full}
             y == Cut!Max(S)
  <1>1. S \subseteq 1 .. m /\ x \in S /\ \A j \in full : j \in Nat /\ j <= m
    <2>1. \A j \in full : j \in Nat /\ j <= m
      OBVIOUS
    <2>2. S \subseteq 1 .. m
      OBVIOUS
    <2>3. x .. x \subseteq full
      BY <2>1
    <2>4. QED
      BY <2>1, <2>2, <2>3
  <1>2. y \in S /\ \A i \in S : i <= y
    <2> HIDE DEF S
    <2>1. QED
      BY <1>1, TopOf
  <1>3. y \in full /\ x .. y \subseteq full /\ x <= y
    BY <1>1, <1>2
  <1>4. y + 1 \notin full
    <2>1. SUFFICES ASSUME y + 1 \in full PROVE FALSE
      OBVIOUS
    <2> HIDE DEF y
    <2>2. \A j : j \in x .. y + 1 => j \in x .. y \/ j = y + 1
      BY <1>1, <1>3
    <2>3. y + 1 \in S
      BY <1>3, <2>1, <2>2
    <2>4. QED
      BY <1>1, <1>2, <1>3, <2>3 DEF y
  <1>5. \A i \in full : x .. i \subseteq full => i <= y
    BY <1>2
  <1>6. QED
    BY <1>3, <1>4, <1>5 DEF RunOf, EndIn

\* Every line that is not blank is in a run.
LEMMA RunStarts ==
    ASSUME NEW m \in Nat, NEW full, full \subseteq 1 .. m, NEW i \in full
    PROVE  \E x \in full : x <= i /\ x .. i \subseteq full /\ x - 1 \notin full
  <1> DEFINE S == {x \in full : x <= i /\ x .. i \subseteq full}
             x == Cut!Min(S)
  <1>1. S \subseteq Nat /\ i \in S /\ i \in Nat
    <2>1. i \in Nat /\ i <= i /\ S \subseteq Nat
      <3>1. (\A j \in full : j \in Nat) /\ S \subseteq full
        OBVIOUS
      <3> HIDE DEF S
      <3>2. QED
        BY <3>1
    <2>2. i .. i \subseteq full
      BY <2>1
    <2>3. QED
      BY <2>1, <2>2
  <1>2. x \in S /\ \A j \in S : x <= j
    <2> HIDE DEF S
    <2>1. QED
      BY <1>1, BottomOf
  <1>3. x \in full /\ x <= i /\ x .. i \subseteq full /\ x \in Nat
    BY <1>1, <1>2
  <1>4. x - 1 \notin full
    <2>1. SUFFICES ASSUME x - 1 \in full PROVE FALSE
      OBVIOUS
    <2> HIDE DEF x
    <2>2. \A j : j \in x - 1 .. i => j \in x .. i \/ j = x - 1
      BY <1>1, <1>3
    <2>3. x - 1 \in S
      BY <1>1, <1>3, <2>1, <2>2
    <2>4. QED
      BY <1>2, <1>3, <2>3
  <1>5. QED
    BY <1>3, <1>4

\* The runs of lines between the blank ones.
LEMMA RunsAre ==
    ASSUME NEW doc \in Docs, NEW ns \in Seq(1 .. Len(doc)), NEW full,
           full = {i \in DOMAIN ns : doc[ns[i]].kind # "blank"}, NEW rs, rs = Cut!Runs(doc, ns)
    PROVE  /\ \A k \in 1 .. Len(rs) : \E x, y \in full : RunOf(full, x, y) /\ rs[k] = SubSeq(ns, x, y)
           /\ \A i \in full : \E k \in 1 .. Len(rs) : \E x, y \in full :
                 RunOf(full, x, y) /\ x <= i /\ i <= y /\ rs[k] = SubSeq(ns, x, y)
           /\ Len(rs) \in Nat /\ rs = [k \in 1 .. Len(rs) |-> rs[k]]
  <1> DEFINE EndOf(i) == EndIn(full, i)
             F == {i \in full : i - 1 \notin full}
             starts == Cut!Ascending(F)
  <1>1. rs = [k \in DOMAIN starts |-> SubSeq(ns, starts[k], EndOf(starts[k]))]
    BY Zenon DEF Cut!Runs, EndIn
  <1>2. Len(ns) \in Nat /\ full \subseteq 1 .. Len(ns) /\ F \subseteq 1 .. Len(ns)
    OBVIOUS
  <1>3. \A x \in F : /\ x \in full /\ EndOf(x) \in full /\ RunOf(full, x, EndOf(x))
                     /\ \A i \in full : x .. i \subseteq full => i <= EndOf(x)
    <2>1. ASSUME NEW x \in F
          PROVE  /\ x \in full /\ EndOf(x) \in full /\ RunOf(full, x, EndOf(x))
                 /\ \A i \in full : x .. i \subseteq full => i <= EndOf(x)
      <3>1. x \in full /\ x - 1 \notin full
        OBVIOUS
      <3> HIDE DEF F
      <3>2. QED
        BY <1>2, <3>1, RunEnds
    <2>2. QED
      BY <2>1
  <1>4. \A i \in full : \E x \in F : x <= i /\ x .. i \subseteq full
    BY <1>2, RunStarts
  <1> HIDE DEF F, EndOf
  <1>5. /\ DOMAIN starts = 1 .. Len(starts) /\ Len(starts) \in Nat
        /\ \A k \in 1 .. Len(starts) : starts[k] \in F
        /\ \A x \in F : \E k \in 1 .. Len(starts) : starts[k] = x
    <2>1. /\ starts \in Seq(F) /\ DOMAIN starts = 1 .. Len(starts)
          /\ \A x \in F : \E k \in 1 .. Len(starts) : starts[k] = x
      BY <1>2, InOrder
    <2> HIDE DEF starts
    <2>2. QED
      BY <2>1
  <1> HIDE DEF starts
  <1>6. /\ Len(rs) = Len(starts) /\ rs = [k \in 1 .. Len(rs) |-> rs[k]]
        /\ \A k \in 1 .. Len(rs) : rs[k] = SubSeq(ns, starts[k], EndOf(starts[k]))
    <2> DEFINE R == {SubSeq(ns, starts[k], EndOf(starts[k])) : k \in 1 .. Len(starts)}
    <2>1. rs \in [1 .. Len(starts) -> R]
      BY <1>1, <1>5
    <2> HIDE DEF R
    <2>2. Len(rs) = Len(starts) /\ rs = [k \in 1 .. Len(rs) |-> rs[k]]
      BY <1>5, <2>1
    <2>3. QED
      BY <1>1, <1>5, <2>2
  <1>7. ASSUME NEW k \in 1 .. Len(rs) PROVE \E x,
               y \in full : RunOf(full, x, y) /\ rs[k] = SubSeq(ns, x, y)
    <2>1. starts[k] \in F /\ rs[k] = SubSeq(ns, starts[k], EndOf(starts[k]))
      BY <1>5, <1>6
    <2>2. QED
      BY <1>3, <2>1
  <1>8. ASSUME NEW i \in full
        PROVE  \E k \in 1 .. Len(rs) : \E x, y \in full :
                  RunOf(full, x, y) /\ x <= i /\ i <= y /\ rs[k] = SubSeq(ns, x, y)
    <2>1. PICK x \in F : x <= i /\ x .. i \subseteq full
      BY <1>4
    <2>2. PICK k \in 1 .. Len(rs) : starts[k] = x
      BY <1>5, <1>6, <2>1
    <2>3. /\ x \in full /\ EndOf(x) \in full /\ RunOf(full, x, EndOf(x)) /\ i <= EndOf(x)
          /\ rs[k] = SubSeq(ns, x, EndOf(x))
      BY <1>3, <1>6, <2>1, <2>2
    <2>4. QED
      BY <2>1, <2>3
  <1>9. QED
    BY <1>5, <1>6, <1>7, <1>8

\* Lines in a row, of which none is blank, between blank ones or the ends.
Stretch(doc, a, z, x, y) ==
    /\ x \in a .. z /\ y \in x .. z /\ \A n \in x .. y : doc[n].kind # "blank"
    /\ x = a \/ doc[x - 1].kind = "blank"
    /\ y = z \/ doc[y + 1].kind = "blank"
\* A part of the lines from a to z.
LEMMA SubFrom ==
    ASSUME NEW a \in Nat, NEW z \in Nat, NEW x \in Nat \ {0}, NEW y \in Nat, x <= y,
           y <= z - a + 1
    PROVE  SubSeq(Cut!From(a, z), x, y) = Cut!From(a + x - 1, a + y - 1)
  <1>1. /\ y - x + 1 = (a + y - 1) - (a + x - 1) + 1
        /\ \A i \in 1 .. y - x + 1 : x + i - 1 \in 1 .. z - a + 1 /\ a + (x + i - 1) - 1 = (a + x - 1) + i - 1
    OBVIOUS
  <1>2. SubSeq(Cut!From(a, z), x, y) = [i \in 1 .. y - x + 1 |-> Cut!From(a, z)[x + i - 1]]
    OBVIOUS
  <1>3. \A i \in 1 .. y - x + 1 : Cut!From(a, z)[x + i - 1] = (a + x - 1) + i - 1
    BY <1>1 DEF Cut!From
  <1>4. QED
    BY <1>1, <1>2, <1>3 DEF Cut!From

\* The text t is of the run of lines around n, of those from a to z.
RunOfLine(doc, a, z, n, t) ==
    \E x, y \in a .. z : /\ Stretch(doc, a, z, x, y) /\ n \in x .. y /\ t = Cut!TextOf(doc, Cut!From(x, y))
                          /\ LineUnits(doc, n) \subseteq UnitsOf(t)
RunsHold(doc, a, z, ts) ==
    /\ ts \in Seq(FirmText)
    /\ \A u \in UnitsIn(ts) : \E n \in a .. z : u \in LineUnits(doc, n)
    /\ \A n \in a .. z : doc[n].kind # "blank" => \E k \in 1 .. Len(ts) : RunOfLine(doc, a, z, n, ts[k])

\* The paragraphs of the lines from a to z hold them.
LEMMA RunTextsAre ==
    ASSUME NEW doc, FileDoc(doc), NEW a \in Nat \ {0}, NEW z \in Nat, a <= z + 1, z <= Len(doc),
           NEW ts, ts = Cut!RunTexts(doc, Cut!From(a, z))
    PROVE  RunsHold(doc, a, z, ts)
  <1> DEFINE ns == Cut!From(a, z)
             full == {i \in DOMAIN ns : doc[ns[i]].kind # "blank"}
             rs == Cut!Runs(doc, ns)
             M == 1 .. Len(doc)
  <1>1. doc \in Docs /\ Len(doc) \in Nat /\ \A n \in M : doc[n].kind = "blank" <=> doc[n].len = 0
    BY DEF FileDoc
  <1>2. /\ ns \in Seq(M) /\ Len(ns) = z - a + 1 /\ DOMAIN ns = 1 .. z - a + 1
        /\ \A i \in 1 .. z - a + 1 : ns[i] = a + i - 1
    <2>1. Cut!From(a, z) \in Seq(1 .. Len(doc)) /\ Len(Cut!From(a, z)) = z - a + 1
      BY <1>1, FromIs
    <2>2. \A i \in 1 .. z - a + 1 : Cut!From(a, z)[i] = a + i - 1
      BY DEF Cut!From
    <2>3. QED
      BY <2>1, <2>2
  <1>3. \A i : i \in full <=> i \in 1 .. z - a + 1 /\ doc[a + i - 1].kind # "blank"
    BY <1>2
  <1>4. /\ \A k \in 1 .. Len(rs) : \E x, y \in full : RunOf(full, x, y) /\ rs[k] = SubSeq(ns, x, y)
        /\ \A i \in full : \E k \in 1 .. Len(rs) : \E x, y \in full :
              RunOf(full, x, y) /\ x <= i /\ i <= y /\ rs[k] = SubSeq(ns, x, y)
        /\ Len(rs) \in Nat /\ rs = [k \in 1 .. Len(rs) |-> rs[k]]
    BY <1>1, <1>2, RunsAre
  <1>5. ts = [i \in DOMAIN rs |-> Cut!TextOf(doc, rs[i])]
    BY Zenon DEF Cut!RunTexts
  <1> HIDE DEF rs, full
  <1>6. ASSUME NEW x \in full, NEW y \in full, RunOf(full, x, y)
        PROVE  /\ SubSeq(ns, x, y) = Cut!From(a + x - 1, a + y - 1)
               /\ Stretch(doc, a, z, a + x - 1, a + y - 1)
               /\ a + x - 1 \in a .. z /\ a + y - 1 \in a .. z /\ a + x - 1 <= a + y - 1
    <2>1. /\ x \in 1 .. z - a + 1 /\ y \in 1 .. z - a + 1 /\ x <= y
          /\ x .. y \subseteq full /\ x - 1 \notin full /\ y + 1 \notin full
      BY <1>3, <1>6 DEF RunOf
    <2>2. SubSeq(ns, x, y) = Cut!From(a + x - 1, a + y - 1)
      <3>1. x \in Nat \ {0} /\ y \in Nat /\ y <= z - a + 1
        BY <2>1
      <3>2. QED
        BY <2>1, <3>1, SubFrom
    <2>3. /\ a + x - 1 \in a .. z /\ a + y - 1 \in a + x - 1 .. z /\ a + y - 1 \in a .. z
          /\ a + x - 1 <= a + y - 1
      BY <2>1
    <2>4. ASSUME NEW n \in a + x - 1 .. a + y - 1 PROVE doc[n].kind # "blank"
      <3>1. n - a + 1 \in x .. y /\ a + (n - a + 1) - 1 = n
        BY <2>1
      <3>2. n - a + 1 \in full
        BY <2>1, <3>1
      <3>3. QED
        BY <1>3, <3>1, <3>2
    <2>5. a + x - 1 = a \/ doc[a + x - 1 - 1].kind = "blank"
      <3>1. x = 1 \/ (x - 1 \in 1 .. z - a + 1 /\ a + (x - 1) - 1 = a + x - 1 - 1)
        BY <2>1
      <3>2. x = 1 => a + x - 1 = a
        OBVIOUS
      <3>3. QED
        BY <1>3, <2>1, <3>1, <3>2
    <2>6. a + y - 1 = z \/ doc[a + y - 1 + 1].kind = "blank"
      <3>1. a + y - 1 = z \/ (y + 1 \in 1 .. z - a + 1 /\ a + (y + 1) - 1 = a + y - 1 + 1)
        BY <2>1
      <3>2. QED
        BY <1>3, <2>1, <3>1
    <2>7. Stretch(doc, a, z, a + x - 1, a + y - 1)
      <3> DEFINE p == a + x - 1
                 q == a + y - 1
      <3>1. /\ p \in a .. z /\ q \in p .. z /\ \A n \in p .. q : doc[n].kind # "blank"
            /\ p = a \/ doc[p - 1].kind = "blank"
            /\ q = z \/ doc[q + 1].kind = "blank"
        <4>1. p \in a .. z /\ q \in p .. z
          BY <2>3
        <4>2. \A n \in p .. q : doc[n].kind # "blank"
          BY <2>4
        <4>3. p = a \/ doc[p - 1].kind = "blank"
          <5>1. a + x - 1 - 1 = p - 1
            BY <2>1
          <5>2. QED
            BY <2>5, <5>1
        <4>4. q = z \/ doc[q + 1].kind = "blank"
          BY <2>6, Zenon
        <4>5. QED
          BY <4>1, <4>2, <4>3, <4>4
      <3> HIDE DEF p, q
      <3>2. Stretch(doc, a, z, p, q)
        BY <3>1 DEF Stretch
      <3>3. QED
        BY <3>2 DEF p, q
    <2> HIDE DEF ns
    <2>8. QED
      BY <2>2, <2>3, <2>7
  <1> HIDE DEF ns
  <1>7. ASSUME NEW x, NEW y, Stretch(doc, a, z, x, y)
        PROVE  LET t == Cut!TextOf(doc, Cut!From(x, y))
               IN  /\ t \in FirmText
                   /\ \A u : u \in UnitsOf(t) <=> \E n \in x .. y : u \in LineUnits(doc, n)
    <2> DEFINE s == Cut!From(x, y)
               t == Cut!TextOf(doc, s)
    <2>1. /\ x \in Nat \ {0} /\ y \in Nat /\ x <= y /\ x <= y + 1 /\ y <= Len(doc)
          /\ x .. y \subseteq M /\ \A n \in x .. y : doc[n].kind # "blank"
      BY <1>1, <1>7 DEF Stretch
    <2>2. /\ s \in Seq(M) /\ s # <<>>
          /\ \A i \in 1 .. Len(s) : s[i] \in x .. y
          /\ \A k \in x .. y : \E i \in 1 .. Len(s) : s[i] = k
      <3>1. /\ Cut!From(x, y) \in Seq(1 .. Len(doc)) /\ (Cut!From(x, y) = <<>> <=> y < x)
            /\ \A i \in 1 .. Len(Cut!From(x, y)) : Cut!From(x, y)[i] \in x .. y
            /\ \A k \in x .. y : \E i \in 1 .. Len(Cut!From(x, y)) : Cut!From(x, y)[i] = k
        BY <1>1, <2>1, FromIs
      <3>2. ~(y < x)
        BY <2>1
      <3>3. QED
        BY <3>1, <3>2
    <2> HIDE DEF s
    <2>3. /\ t \in Text
          /\ \A u : u \in UnitsOf(t) <=> \E i \in 1 .. Len(s) : u \in LineUnits(doc, s[i])
          /\ (\A i \in 1 .. Len(s) : doc[s[i]].len # 0) => Firm(t)
      BY <1>1, <2>2, TextIs
    <2>4. \A i \in 1 .. Len(s) : doc[s[i]].len # 0
      BY <1>1, <2>1, <2>2
    <2>5. QED
      BY <2>2, <2>3, <2>4 DEF FirmText, s
  <1>8. /\ Len(ts) = Len(rs) /\ Len(ts) \in Nat /\ DOMAIN ts = 1 .. Len(ts)
        /\ \A k \in 1 .. Len(ts) : ts[k] = Cut!TextOf(doc, rs[k])
        /\ ts = [k \in 1 .. Len(ts) |-> ts[k]]
    BY <1>4, <1>5
  <1>9. ASSUME NEW k \in 1 .. Len(ts)
        PROVE  \E x, y \in a .. z : Stretch(doc, a, z, x, y) /\ ts[k] = Cut!TextOf(doc, Cut!From(x, y))
    <2>1. PICK x \in full, y \in full : RunOf(full, x, y) /\ rs[k] = SubSeq(ns, x, y)
      BY <1>4, <1>8
    <2>2. QED
      BY <1>6, <1>8, <2>1
  <1>10. ASSUME NEW k \in 1 .. Len(ts)
         PROVE  ts[k] \in FirmText /\ \A u \in UnitsOf(ts[k]) : \E n \in a .. z : u \in LineUnits(doc, n)
    <2>1. PICK x \in a .. z, y \in a .. z : Stretch(doc, a, z, x, y) /\ ts[k] = Cut!TextOf(doc, Cut!From(x, y))
      BY <1>9
    <2>2. x .. y \subseteq a .. z
      OBVIOUS
    <2>3. QED
      BY <1>7, <2>1, <2>2
  <1>11. ts \in Seq(FirmText)
    <2>1. ts \in [1 .. Len(ts) -> FirmText]
      BY <1>8, <1>10
    <2>2. QED
      BY <1>8, <2>1
  <1>12. ASSUME NEW n \in a .. z, doc[n].kind # "blank"
         PROVE  \E k \in 1 .. Len(ts) : \E x, y \in a .. z :
                    /\ Stretch(doc, a, z, x, y) /\ n \in x .. y /\ ts[k] = Cut!TextOf(doc, Cut!From(x, y))
                    /\ LineUnits(doc, n) \subseteq UnitsOf(ts[k])
    <2> DEFINE i == n - a + 1
    <2>1. i \in 1 .. z - a + 1 /\ a + i - 1 = n
      OBVIOUS
    <2>2. i \in full
      BY <1>3, <1>12, <2>1
    <2> HIDE DEF i
    <2>3. PICK k \in 1 .. Len(ts), x \in full, y \in full :
             RunOf(full, x, y) /\ x <= i /\ i <= y /\ rs[k] = SubSeq(ns, x, y)
      BY <1>4, <1>8, <2>2
    <2> DEFINE p == a + x - 1
               q == a + y - 1
    <2>4. Stretch(doc, a, z, p, q) /\ p \in a .. z /\ q \in a .. z /\ ts[k] = Cut!TextOf(doc, Cut!From(p, q))
      BY <1>6, <1>8, <2>3
    <2>5. n \in p .. q
      <3>1. x \in Nat /\ y \in Nat /\ i \in Nat
        BY <1>3, <2>1
      <3>2. QED
        BY <2>1, <2>3, <3>1
    <2> HIDE DEF p, q
    <2>6. LineUnits(doc, n) \subseteq UnitsOf(ts[k])
      BY <1>7, <2>4, <2>5
    <2>7. QED
      BY <2>4, <2>5, <2>6
  <1>13. \A u \in UnitsIn(ts) : \E n \in a .. z : u \in LineUnits(doc, n)
    BY <1>10 DEF UnitsIn
  <1>14. \A n \in a .. z : doc[n].kind # "blank" => \E k \in 1 .. Len(ts) : RunOfLine(doc, a, z, n, ts[k])
    BY <1>12 DEF RunOfLine
  <1>15. QED
    BY <1>11, <1>13, <1>14 DEF RunsHold

\* The lesser and the greater of two.
LEMMA PairEnds ==
    ASSUME NEW m \in Nat, NEW n \in Nat
    PROVE  /\ Cut!Min({m, n}) = IF m <= n THEN m ELSE n
           /\ Cut!Max({m, n}) = IF m <= n THEN n ELSE m
  <1> DEFINE S == {m, n}
  <1>1. S \subseteq Nat /\ S # {} /\ S \subseteq 0 .. m + n /\ m + n \in Nat
    OBVIOUS
  <1>2. m \in S /\ n \in S /\ \A i \in S : i = m \/ i = n
    OBVIOUS
  <1> HIDE DEF S
  <1>3. Cut!Min(S) \in S /\ \A i \in S : Cut!Min(S) <= i
    BY <1>1, BottomOf
  <1>4. Cut!Max(S) \in S /\ \A i \in S : i <= Cut!Max(S)
    BY <1>1, TopIn
  <1>5. \A v : (v = m \/ v = n) /\ v <= m /\ v <= n => v = IF m <= n THEN m ELSE n
    OBVIOUS
  <1>6. \A v : (v = m \/ v = n) /\ m <= v /\ n <= v => v = IF m <= n THEN n ELSE m
    OBVIOUS
  <1>7. (Cut!Min(S) = m \/ Cut!Min(S) = n) /\ Cut!Min(S) <= m /\ Cut!Min(S) <= n
    BY <1>2, <1>3, Zenon
  <1>8. (Cut!Max(S) = m \/ Cut!Max(S) = n) /\ m <= Cut!Max(S) /\ n <= Cut!Max(S)
    BY <1>2, <1>4, Zenon
  <1>9. /\ Cut!Min(S) = IF m <= n THEN m ELSE n
        /\ Cut!Max(S) = IF m <= n THEN n ELSE m
    BY <1>5, <1>6, <1>7, <1>8, Zenon
  <1>10. QED
    BY <1>9 DEF S

\* The numbers from x to y, in order.
LEMMA InRow ==
    ASSUME NEW x \in Nat \ {0}, NEW y \in Nat, x <= y
    PROVE  Cut!Ascending(x .. y) = Cut!From(x, y)
  <1> DEFINE S == x .. y
             s == Cut!Ascending(S)
  <1>1. S \subseteq 1 .. y /\ Cardinality(S) = y - x + 1
    BY FS_Interval
  <1>2. ASSUME NEW v \in S PROVE Below(S, v) = v - x
    <2>1. {w \in S : w < v} = x .. v - 1 /\ x \in Int /\ v - 1 \in Int /\ v \in Int /\ x <= v
      OBVIOUS
    <2>2. Cardinality(x .. v - 1) = IF x > v - 1 THEN 0 ELSE v - 1 - x + 1
      BY <2>1, FS_Interval
    <2>3. Cardinality(x .. v - 1) = v - x
      BY <2>1, <2>2
    <2> HIDE DEF S
    <2>4. QED
      BY <2>1, <2>3 DEF Below
  <1>3. S \subseteq Nat
    OBVIOUS
  <1> HIDE DEF S
  <1>4. /\ s \in Seq(S) /\ Len(s) = y - x + 1 /\ DOMAIN s = 1 .. Len(s)
        /\ \A i \in 1 .. Len(s) : s[i] \in S /\ Below(S, s[i]) = i - 1
    BY <1>1, InOrder
  <1> HIDE DEF s
  <1>5. \A i \in 1 .. Len(s) : s[i] = x + i - 1
    <2>1. ASSUME NEW i \in 1 .. Len(s) PROVE s[i] = x + i - 1
      <3>1. s[i] \in Nat /\ s[i] - x = i - 1
        BY <1>2, <1>3, <1>4
      <3>2. QED
        BY <3>1
    <2>2. QED
      BY <2>1
  <1>6. s = [i \in 1 .. y - x + 1 |-> x + i - 1]
    BY <1>4, <1>5
  <1>7. QED
    BY <1>6 DEF Cut!From, s, S

\* Where paragraphs break.
Breaks(f) == IF f = "rtf" THEN {"blank"} ELSE {Cut!Opening, "blank"}

\* Lines of which no more are without a break.
Unbroken(doc, B, x, y) ==
    /\ x \in Nat \ {0} /\ y \in Nat /\ x <= y /\ y <= Len(doc) /\ \A k \in x .. y : doc[k].kind \notin B
    /\ x = 1 \/ doc[x - 1].kind \in B
    /\ y = Len(doc) \/ doc[y + 1].kind \in B

\* The paragraph of a line is the run of lines around it.
LEMMA ParagraphIs ==
    ASSUME NEW doc \in Docs, NEW f, NEW x \in Nat \ {0}, NEW y \in Nat,
           Unbroken(doc, Breaks(f), x, y), NEW n \in x .. y
    PROVE  Cut!Paragraph(f, doc, n) = x .. y
  <1> DEFINE B == Breaks(f)
  <1>3. Cut!Paragraph(f, doc, n) =
           {m \in DOMAIN doc : \A k \in Cut!Min({m, n}) .. Cut!Max({m, n}) : doc[k].kind \notin B}
    BY Zenon DEF Cut!Paragraph, Breaks
  <1> HIDE DEF B
  <1>1. /\ x \in Nat \ {0} /\ y \in Nat /\ x <= y /\ y <= Len(doc) /\ \A k \in x .. y : doc[k].kind \notin B
        /\ x = 1 \/ doc[x - 1].kind \in B
        /\ y = Len(doc) \/ doc[y + 1].kind \in B
    BY DEF Unbroken, B
  <1>7. y <= Len(doc) /\ x <= y
    BY <1>1
  <1>2. n \in Nat /\ Len(doc) \in Nat /\ DOMAIN doc = 1 .. Len(doc) /\ x <= n /\ n <= y
    BY <1>1 DEF Docs
  <1>5. ASSUME NEW m \in x .. y
        PROVE  m \in 1 .. Len(doc) /\ \A k \in Cut!Min({m, n}) .. Cut!Max({m, n}) : doc[k].kind \notin B
    <2>1. m \in Nat /\ x <= m /\ m <= y
      BY <1>1
    <2>2. Cut!Min({m, n}) .. Cut!Max({m, n}) \subseteq x .. y
      <3>1. Cut!Min({m, n}) = (IF m <= n THEN m ELSE n) /\ Cut!Max({m, n}) = (IF m <= n THEN n ELSE m)
        BY <1>2, <2>1, PairEnds
      <3>2. m .. n \subseteq x .. y /\ n .. m \subseteq x .. y
        BY <1>2, <2>1
      <3>3. CASE m <= n
        BY <3>1, <3>2, <3>3
      <3>4. CASE ~(m <= n)
        BY <3>1, <3>2, <3>4
      <3>5. QED
        BY <3>3, <3>4
    <2>3. m \in 1 .. Len(doc)
      BY <1>2, <1>7, <2>1
    <2>4. QED
      BY <1>1, <2>2, <2>3
  <1>6. ASSUME NEW m \in 1 .. Len(doc), m \notin x .. y
        PROVE  \E k \in Cut!Min({m, n}) .. Cut!Max({m, n}) : doc[k].kind \in B
    <2>1. m \in Nat /\ m # 0 /\ m <= Len(doc)
      BY <1>2, <1>6
    <2>5. m < x \/ y < m
      BY <1>1, <1>6, <2>1
    <2>2. Cut!Min({m, n}) = (IF m <= n THEN m ELSE n) /\ Cut!Max({m, n}) = (IF m <= n THEN n ELSE m)
      BY <1>2, <2>1, PairEnds
    <2>3. CASE m < x
      <3>1. m <= n /\ x - 1 \in m .. n /\ x # 1
        BY <1>2, <1>7, <2>1, <2>3
      <3>2. x - 1 \in Cut!Min({m, n}) .. Cut!Max({m, n})
        BY <2>2, <3>1
      <3>3. QED
        BY <1>1, <3>1, <3>2
    <2>4. CASE y < m
      <3>1. ~(m <= n)
        BY <1>2, <2>1, <2>4
      <3>4. y + 1 \in n .. m
        BY <1>2, <2>1, <2>4
      <3>5. y # Len(doc)
        BY <2>1, <2>4
      <3>2. y + 1 \in Cut!Min({m, n}) .. Cut!Max({m, n})
        BY <2>2, <3>1, <3>4
      <3>3. QED
        BY <1>1, <3>5, <3>2
    <2>6. QED
      BY <2>3, <2>4, <2>5
  <1>8. QED
    BY <1>2, <1>3, <1>5, <1>6

\* A stretch of the lines from a to z is not broken, where what is around them breaks.
LEMMA StretchUnbroken ==
    ASSUME NEW doc \in Docs, NEW B, "blank" \in B, NEW a \in Nat \ {0}, NEW z \in Nat,
           z <= Len(doc),
           \A k \in a .. z : doc[k].kind \in B => doc[k].kind = "blank",
           a = 1 \/ doc[a - 1].kind \in B, z = Len(doc) \/ doc[z + 1].kind \in B,
           NEW x, NEW y, Stretch(doc, a, z, x, y)
    PROVE  Unbroken(doc, B, x, y)
  <1>1. /\ x \in a .. z /\ y \in x .. z /\ \A k \in x .. y : doc[k].kind # "blank"
        /\ x = a \/ doc[x - 1].kind = "blank"
        /\ y = z \/ doc[y + 1].kind = "blank"
    BY DEF Stretch
  <1>2. x \in Nat \ {0} /\ y \in Nat /\ a <= x /\ x <= y /\ y <= z /\ y <= Len(doc) /\ Len(doc) \in Nat
    <2>1. x \in Nat /\ a <= x /\ x <= z
      BY <1>1
    <2>2. y \in Nat /\ x <= y /\ y <= z
      BY <1>1, <2>1
    <2>3. QED
      BY <2>1, <2>2 DEF Docs
  <1>3. \A k \in x .. y : doc[k].kind \notin B
    BY <1>1, <1>2
  <1>4. x = 1 \/ doc[x - 1].kind \in B
    BY <1>1, Zenon
  <1>5. y = Len(doc) \/ doc[y + 1].kind \in B
    BY <1>1, Zenon
  <1>6. QED
    BY <1>2, <1>3, <1>4, <1>5 DEF Unbroken

\* A paragraph too short to be kept is known to be left out.
LEMMA ShortDropped ==
    ASSUME NEW f \in {"markdown", "pdf", "djvu", "rtf"}, NEW doc, NEW n, NEW x \in Nat \ {0},
           NEW y \in Nat, x <= y,
           Cut!Paragraph(f, doc, n) = x .. y, SHORT \in Nat,
           Len(Cut!TextOf(doc, Cut!From(x, y))) \in Nat, ~(Len(Cut!TextOf(doc, Cut!From(x, y))) > SHORT)
    PROVE  Cut!LeftOut(f, doc, n)
  <1>1. Cut!Ascending(Cut!Paragraph(f, doc, n)) = Cut!From(x, y) /\ Cut!Paragraph(f, doc, n) # {}
    BY InRow
  <1>2. Len(Cut!TextOf(doc, Cut!Ascending(Cut!Paragraph(f, doc, n)))) <= SHORT
    BY <1>1
  <1>3. Cut!Dropped(f, doc, n)
    BY <1>1, <1>2 DEF Cut!Dropped
  <1>4. QED
    BY <1>3 DEF Cut!LeftOut

\* Of the lines from a to z, one is left out or is in a paragraph that is not short.
LEMMA LineKept ==
    ASSUME Measures, NEW doc, FileDoc(doc), NEW f \in {"markdown", "pdf", "djvu", "rtf"},
           NEW B, B = Breaks(f),
           NEW a \in Nat \ {0}, NEW z \in Nat, a <= z + 1, z <= Len(doc),
           \A k \in a .. z : doc[k].kind \in B => doc[k].kind = "blank",
           a = 1 \/ doc[a - 1].kind \in B, z = Len(doc) \/ doc[z + 1].kind \in B,
           NEW b, b.texts = Cut!RunTexts(doc, Cut!From(a, z)), NEW n \in a .. z
    PROVE  Cut!LeftOut(f, doc, n) \/ doc[n].len = 0 \/ InBlock(doc, b, n)
  <1> DEFINE ts == Cut!RunTexts(doc, Cut!From(a, z))
  <1>0. b.texts = ts
    OBVIOUS
  <1>1. CASE doc[n].kind = "blank"
    <2>1. n \in 1 .. Len(doc)
      BY DEF FileDoc
    <2>2. QED
      BY <1>1, <2>1 DEF FileDoc
  <1> HIDE DEF ts
  <1>2. CASE doc[n].kind # "blank"
    <2>1. RunsHold(doc, a, z, ts)
      BY RunTextsAre DEF ts
    <2>2. ts \in Seq(FirmText) /\ \E k \in 1 .. Len(ts) : RunOfLine(doc, a, z, n, ts[k])
      BY <1>2, <2>1 DEF RunsHold
    <2>7. PICK k \in 1 .. Len(ts) : RunOfLine(doc, a, z, n, ts[k])
      BY <2>2
    <2>6. PICK x \in a .. z, y \in a .. z :
                    /\ Stretch(doc, a, z, x, y) /\ n \in x .. y /\ ts[k] = Cut!TextOf(doc, Cut!From(x, y))
                    /\ LineUnits(doc, n) \subseteq UnitsOf(ts[k])
      BY <2>7 DEF RunOfLine
    <2>3. CASE Len(ts[k]) > SHORT
      BY <1>0, <2>6, <2>3 DEF InBlock
    <2>4. CASE ~(Len(ts[k]) > SHORT)
      <3>1. doc \in Docs /\ "blank" \in B
        BY DEF FileDoc, Breaks
      <3>6. Unbroken(doc, B, x, y)
        BY <2>6, <3>1, StretchUnbroken
      <3>7. x \in Nat \ {0} /\ y \in Nat
        BY <3>6 DEF Unbroken
      <3>2. Cut!Paragraph(f, doc, n) = x .. y
        BY <2>6, <3>1, <3>6, <3>7, ParagraphIs
      <3>3. ts[k] \in FirmText /\ Len(ts[k]) \in Nat /\ SHORT \in Nat
        <4>1. ts[k] \in FirmText
          BY <2>2
        <4>2. QED
          BY <4>1, FirmUnits DEF FirmText, Measures
      <3>4. x \in Nat \ {0} /\ y \in Nat /\ x <= y
        BY <3>6 DEF Unbroken
      <3>5. QED
        BY <2>4, <2>6, <3>2, <3>3, <3>4, ShortDropped
    <2>5. QED
      BY <2>3, <2>4
  <1>3. QED
    BY <1>1, <1>2

\* The blocks whose passages are cited and filed as they should be.
FineBlocks(f, doc) == {b \in BlockSet : \A p \in PieceSet : OfBlock(p, b) => p \in Fine(f, doc)}

\* A file of text is held by blocks all of whose passages are fine.
LEMMA BlocksWhole ==
    ASSUME Measures, NEW f, NEW doc \in Docs, NEW blocks \in Seq(FineBlocks(f, doc)), NEW ps,
           ps = Cut!Cut(doc, blocks),
           \A n \in 1 .. Len(doc) : \/ Cut!LeftOut(f, doc, n) \/ doc[n].len = 0
                                    \/ \E b : Among(b, blocks) /\ InBlock(doc, b, n)
    PROVE  Whole(f, doc, ps)
  <1>1. \A k \in 1 .. Len(blocks) : blocks[k] \in FineBlocks(f, doc)
    OBVIOUS
  <1>2. \A k \in 1 .. Len(blocks) : blocks[k] \in BlockSet
    BY <1>1 DEF FineBlocks
  <1>3. blocks \in Seq(BlockSet)
    BY <1>2, SeqOfPart
  <1>4. \A b : Among(b, blocks) => \A p \in PieceSet : OfBlock(p, b) => p \in Fine(f, doc)
    BY <1>1 DEF Among, FineBlocks
  <1>5. QED
    BY <1>3, <1>4, TextWhole

\* Blocks made section by section.
LEMMA SectionsText ==
    ASSUME Measures, NEW f, NEW doc \in Docs, NEW made,
           made = [i \in DOMAIN Cut!Sections(doc) |-> made[i]],
           NEW blocks, blocks = Cut!FlattenSeq(made),
           \A i \in 1 .. Len(Cut!Sections(doc)) : made[i] \in Seq(FineBlocks(f, doc)),
           \A n \in 1 .. Len(doc) : \/ Cut!LeftOut(f, doc, n) \/ doc[n].len = 0
                                    \/ \E i \in 1 .. Len(Cut!Sections(doc)) :
                                          \E b : Among(b, made[i]) /\ InBlock(doc, b, n)
    PROVE  Whole(f, doc, Cut!Cut(doc, blocks))
  <1>1. made \in Seq(Seq(FineBlocks(f, doc))) /\ Len(made) = Len(Cut!Sections(doc))
    BY OfSections
  <1>2. /\ blocks \in Seq(FineBlocks(f, doc))
        /\ \A i \in 1 .. Len(made) : \A j \in 1 .. Len(made[i]) : Among(made[i][j], blocks)
    BY <1>1, AmongFlat
  <1>3. \A i \in 1 .. Len(made) : \A b : Among(b, made[i]) => Among(b, blocks)
    BY <1>2 DEF Among
  <1>4. \A n \in 1 .. Len(doc) : \/ Cut!LeftOut(f, doc, n) \/ doc[n].len = 0
                                 \/ \E b : Among(b, blocks) /\ InBlock(doc, b, n)
    BY <1>1, <1>3
  <1>5. QED
    BY <1>2, <1>4, BlocksWhole

\* One block for each section.
LEMMA OneEach ==
    ASSUME Measures, NEW f, NEW doc \in Docs, NEW bs, NEW blocks,
           blocks = Cut!FlattenSeq([i \in DOMAIN Cut!Sections(doc) |-> <<bs[i]>>]),
           \A i \in 1 .. Len(Cut!Sections(doc)) : bs[i] \in FineBlocks(f, doc),
           \A n \in 1 .. Len(doc) : \/ Cut!LeftOut(f, doc, n) \/ doc[n].len = 0
                                    \/ \E i \in 1 .. Len(Cut!Sections(doc)) : InBlock(doc, bs[i], n)
    PROVE  Whole(f, doc, Cut!Cut(doc, blocks))
  <1> DEFINE S == Cut!Sections(doc)
             made == [i \in DOMAIN S |-> <<bs[i]>>]
  <1>1. DOMAIN S = 1 .. Len(S) /\ made = [i \in DOMAIN S |-> made[i]] /\ \A i \in 1 .. Len(S) : made[i] = <<bs[i]>>
    BY SectionsAre
  <1>2. blocks = Cut!FlattenSeq(made)
    OBVIOUS
  <1> HIDE DEF made
  <1>3. ASSUME NEW i \in 1 .. Len(S)
        PROVE  made[i] \in Seq(FineBlocks(f, doc)) /\ Among(bs[i], made[i])
    <2>1. bs[i] \in FineBlocks(f, doc) /\ made[i] = <<bs[i]>>
      BY <1>1
    <2>2. QED
      BY <2>1, AmongOne
  <1>4. QED
    BY <1>1, <1>2, <1>3, SectionsText

\* What a block of one section has to be.
LEMMA BlockRight ==
    ASSUME NEW doc, FileDoc(doc), NEW s, Under(doc, s), NEW b \in BlockSet,
           b.title = 0 \/ b.title = s.title,
           \A u \in UnitsIn(b.texts) : \E n \in s.title .. s.last : u \in LineUnits(doc, n),
           NEW p \in PieceSet, OfBlock(p, b), NEW f
    PROVE  /\ Cut!RightlyTitled(f, doc, p) /\ OfLines(doc, p.text, s.title .. s.last) /\ UnitsOf(p.text) # {}
           /\ p.first = b.first /\ p.last = b.last
  <1>1. OfLines(doc, p.text, s.title .. s.last) /\ UnitsOf(p.text) # {} /\ p.titles = Cut!Title(b.title)
    BY DEF OfBlock, OfLines, PieceSet
  <1>2. CASE b.title = 0
    <2>1. p.titles = {}
      BY <1>1, <1>2 DEF Cut!Title
    <2>2. QED
      BY <1>1, <2>1 DEF OfBlock, Cut!RightlyTitled
  <1>3. CASE b.title = s.title
    BY <1>1, <1>3, UnderRight DEF OfBlock
  <1>4. QED
    BY <1>2, <1>3

\* The passages of a block of one section that cites nothing are fine.
LEMMA LooseBlock ==
    ASSUME NEW doc, FileDoc(doc), NEW s, Under(doc, s), NEW b \in BlockSet,
           b.title = 0 \/ b.title = s.title,
           \A u \in UnitsIn(b.texts) : \E n \in s.title .. s.last : u \in LineUnits(doc, n), b.last = 0, NEW f
    PROVE  b \in FineBlocks(f, doc)
  <1>1. ASSUME NEW p \in PieceSet, OfBlock(p, b) PROVE p \in Fine(f, doc)
    <2>1. Cut!RightlyTitled(f, doc, p) /\ p.last = 0
      BY <1>1, BlockRight
    <2>2. QED
      BY <2>1 DEF Fine, Cut!RightlyCited
  <1>2. QED
    BY <1>1 DEF FineBlocks

\* The lines of a section.
LEMMA SectionLines ==
    ASSUME NEW doc \in Docs, NEW s, Under(doc, s)
    PROVE  /\ s.lines \in Seq(1 .. Len(doc)) /\ Len(doc) \in Nat
           /\ s.title \in Nat /\ s.title + 1 \in Nat \ {0} /\ s.last \in Nat /\ s.title <= s.last /\ s.last <= Len(doc)
           /\ \A i \in 1 .. Len(s.lines) : s.lines[i] \in s.title + 1 .. s.last
           /\ \A n \in s.title + 1 .. s.last : Among(n, s.lines)
  <1> DEFINE a == s.title + 1
             z == s.last
             N == Len(doc)
             ls == s.lines
  <1>1. /\ N \in Nat /\ a \in Nat \ {0} /\ z \in Nat /\ a <= z + 1 /\ z <= N /\ ls = Cut!From(a, z)
        /\ s.title \in Nat /\ s.title <= s.last
    BY DEF Under, Docs
  <1> HIDE DEF N, a, z, ls
  <1>2. /\ Cut!From(a, z) \in Seq(1 .. N)
        /\ \A i \in 1 .. Len(Cut!From(a, z)) : Cut!From(a, z)[i] \in a .. z
        /\ \A k \in a .. z : \E i \in 1 .. Len(Cut!From(a, z)) : Cut!From(a, z)[i] = k
    BY <1>1, FromIs
  <1>3. QED
    BY <1>1, <1>2 DEF N, a, z, ls, Among

\* Each line that is not blank, a text.
LEMMA EachLineIs ==
    ASSUME NEW doc, FileDoc(doc), NEW ns \in Seq(1 .. Len(doc)), NEW ts,
           ts = Cut!EachLine(doc, ns)
    PROVE  /\ ts \in Seq(FirmText)
           /\ \A u \in UnitsIn(ts) : \E n : Among(n, ns) /\ u \in LineUnits(doc, n)
           /\ \A n : Among(n, ns) /\ doc[n].kind # "blank" =>
                 \E j \in 1 .. Len(ts) : Len(ts[j]) = doc[n].len /\ UnitsOf(ts[j]) = LineUnits(doc, n)
  <1> DEFINE K == {i \in DOMAIN ns : doc[ns[i]].kind # "blank"}
             c == Cut!Filled(doc, ns)
             X == 1 .. Len(doc)
  <1>1. c = Picked(ns, K)
    BY Zenon DEF Cut!Filled, Cut!Keep, Picked
  <1>2. ts = [i \in DOMAIN c |-> Cut!LineText(doc, c[i])]
    BY Zenon DEF Cut!EachLine
  <1>3. K \subseteq 1 .. Len(ns) /\ \A i \in K : doc[ns[i]].kind # "blank" /\ Among(ns[i], ns)
    BY DEF Among
  <1>4. \A i \in 1 .. Len(ns) : doc[ns[i]].kind # "blank" => i \in K
    OBVIOUS
  <1>0. ns \in Seq(X)
    OBVIOUS
  <1> HIDE DEF c, K, X
  <1>12. K \subseteq 1 .. Len(ns)
    BY <1>3
  <1>13. /\ Picked(ns, K) \in Seq(X)
         /\ \A k \in 1 .. Len(Picked(ns, K)) : \E i \in K : Picked(ns, K)[k] = ns[i]
         /\ \A i \in K : \E k \in 1 .. Len(Picked(ns, K)) : Picked(ns, K)[k] = ns[i]
    BY <1>0, <1>12, PickedIs, ZenonT(20)
  <1>5. /\ c \in Seq(X)
        /\ \A k \in 1 .. Len(c) : \E i \in K : c[k] = ns[i]
        /\ \A i \in K : \E k \in 1 .. Len(c) : c[k] = ns[i]
    BY <1>1, <1>13
  <1>6. Len(c) \in Nat /\ DOMAIN c = 1 .. Len(c)
    BY <1>5
  <1>7. ASSUME NEW k \in 1 .. Len(c)
        PROVE  /\ Cut!LineText(doc, c[k]) \in FirmText /\ Len(Cut!LineText(doc, c[k])) = doc[c[k]].len
               /\ UnitsOf(Cut!LineText(doc, c[k])) = LineUnits(doc, c[k]) /\ Among(c[k], ns)
    <2>4. PICK i \in K : c[k] = ns[i]
      BY <1>5
    <2>5. c[k] \in X
      BY <1>5
    <2>1. c[k] \in 1 .. Len(doc) /\ doc[c[k]].kind # "blank" /\ Among(c[k], ns)
      BY <1>3, <2>4, <2>5 DEF X
    <2>2. doc \in Docs /\ doc[c[k]].len # 0
      BY <2>1 DEF FileDoc
    <2>3. QED
      BY <2>1, <2>2, LineIs DEF FirmText
  <1>8. /\ ts \in Seq(FirmText) /\ Len(ts) = Len(c)
        /\ \A k \in 1 .. Len(ts) : ts[k] = Cut!LineText(doc, c[k])
    <2>1. ts \in [1 .. Len(c) -> FirmText]
      BY <1>2, <1>6, <1>7
    <2>2. QED
      BY <1>2, <1>6, <2>1
  <1>9. ASSUME NEW u \in UnitsIn(ts) PROVE \E n : Among(n, ns) /\ u \in LineUnits(doc, n)
    <2>1. PICK k \in 1 .. Len(ts) : u \in UnitsOf(ts[k])
      BY DEF UnitsIn
    <2>2. QED
      BY <1>7, <1>8, <2>1
  <1>10. ASSUME NEW n, Among(n, ns), doc[n].kind # "blank"
         PROVE  \E j \in 1 .. Len(ts) : Len(ts[j]) = doc[n].len /\ UnitsOf(ts[j]) = LineUnits(doc, n)
    <2>1. PICK i \in 1 .. Len(ns) : ns[i] = n
      BY <1>10 DEF Among
    <2>2. i \in K
      BY <1>4, <1>10, <2>1
    <2>3. PICK k \in 1 .. Len(c) : c[k] = n
      BY <1>5, <2>1, <2>2
    <2>4. QED
      BY <1>7, <1>8, <2>3
  <1>11. QED
    BY <1>8, <1>9, <1>10

EachFormat == {"docx", "odt", "fb2", "epub", "mobi"}

\* A line that is a text of a block is kept, or short.
LEMMA LineBlock ==
    ASSUME Measures, NEW doc, FileDoc(doc), NEW f \in EachFormat, NEW ns \in Seq(1 .. Len(doc)),
           NEW b, b.texts = Cut!EachLine(doc, ns), NEW n \in 1 .. Len(doc), Among(n, ns)
    PROVE  Cut!LeftOut(f, doc, n) \/ doc[n].len = 0 \/ InBlock(doc, b, n)
  <1> DEFINE ts == Cut!EachLine(doc, ns)
  <1>1. CASE doc[n].kind = "blank"
    BY <1>1 DEF FileDoc
  <1>2. CASE doc[n].kind # "blank"
    <2>1. \E j \in 1 .. Len(ts) : Len(ts[j]) = doc[n].len /\ UnitsOf(ts[j]) = LineUnits(doc, n)
      BY <1>2, EachLineIs
    <2>2. b.texts = ts /\ doc[n].len \in Nat /\ SHORT \in Nat
      BY LineIs DEF FileDoc, Measures
    <2> HIDE DEF ts
    <2>3. CASE doc[n].len > SHORT
      BY <2>1, <2>2, <2>3 DEF InBlock
    <2>4. CASE ~(doc[n].len > SHORT)
      <3>1. Cut!Dropped(f, doc, n)
        BY <2>2, <2>4 DEF Cut!Dropped, EachFormat
      <3>2. QED
        BY <3>1 DEF Cut!LeftOut
    <2>5. QED
      BY <2>3, <2>4
  <1>3. QED
    BY <1>1, <1>2

\* The block of a section, in the formats with no lines.
LEMMA SectionBlock ==
    ASSUME Measures, NEW doc, FileDoc(doc), NEW s, Under(doc, s),
           NEW f \in {"docx", "odt", "fb2"},
           NEW b, b = Cut!Block(Cut!EachLine(doc, s.lines), s.title, 0, 0)
    PROVE  /\ b \in FineBlocks(f, doc)
           /\ \A n \in 1 .. Len(doc) : s.title <= n /\ n <= s.last =>
                 Cut!LeftOut(f, doc, n) \/ doc[n].len = 0 \/ InBlock(doc, b, n)
  <1> DEFINE ts == Cut!EachLine(doc, s.lines)
  <1>1. doc \in Docs /\ Len(doc) \in Nat
    BY DEF FileDoc
  <1>2. /\ s.lines \in Seq(1 .. Len(doc))
        /\ s.title \in Nat /\ s.last \in Nat /\ s.title <= s.last /\ s.last <= Len(doc)
        /\ \A i \in 1 .. Len(s.lines) : s.lines[i] \in s.title + 1 .. s.last
        /\ \A n \in s.title + 1 .. s.last : Among(n, s.lines)
    BY <1>1, SectionLines
  <1>3. /\ ts \in Seq(FirmText)
        /\ \A u \in UnitsIn(ts) : \E n : Among(n, s.lines) /\ u \in LineUnits(doc, n)
        /\ \A n : Among(n, s.lines) /\ doc[n].kind # "blank" =>
              \E j \in 1 .. Len(ts) : Len(ts[j]) = doc[n].len /\ UnitsOf(ts[j]) = LineUnits(doc, n)
    BY <1>2, EachLineIs
  <1>4. b.texts = Cut!EachLine(doc, s.lines)
    BY DEF Cut!Block
  <1> HIDE DEF ts
  <1>5. b = [texts |-> ts, title |-> s.title, first |-> 0, last |-> 0]
    BY DEF ts, Cut!Block
  <1>6. b \in BlockSet /\ b.title = s.title /\ b.last = 0 /\ b.texts = ts
    BY <1>2, <1>3, <1>5 DEF BlockSet
  <1>7. \A u \in UnitsIn(b.texts) : \E n \in s.title .. s.last : u \in LineUnits(doc, n)
    <2>1. \A n : Among(n, s.lines) => n \in s.title .. s.last
      BY <1>2 DEF Among
    <2>2. QED
      BY <1>3, <1>6, <2>1
  <1>8. b \in FineBlocks(f, doc)
    BY <1>6, <1>7, LooseBlock
  <1>9. ASSUME NEW n \in 1 .. Len(doc), s.title <= n, n <= s.last
        PROVE  Cut!LeftOut(f, doc, n) \/ doc[n].len = 0 \/ InBlock(doc, b, n)
    <2>1. CASE n = s.title
      <3>1. n # 0 /\ n \in Nat /\ doc[n].kind = Cut!Opening
        BY <1>1, <2>1 DEF Under, Heads
      <3>2. CASE Cut!BareHeading(doc, n)
        BY <3>2 DEF Cut!LeftOut
      <3>3. CASE ~Cut!BareHeading(doc, n)
        <4>1. PICK m \in n + 1 .. Len(doc) : /\ doc[m].kind \in {"text", Cut!Closing}
                                             /\ \A k \in n + 1 .. m : doc[k].kind # Cut!Opening
          BY <3>1, <3>3, NotBare
        <4>2. m <= s.last
          <5>1. SUFFICES ASSUME s.last < m PROVE FALSE
            BY <1>2, <3>1, <4>1
          <5>2. s.last # Len(doc) /\ s.last + 1 \in n + 1 .. m
            BY <1>1, <1>2, <1>9, <3>1, <4>1, <5>1
          <5>3. doc[s.last + 1].kind = Cut!Opening
            BY <5>2 DEF Under, Heads
          <5>4. QED
            BY <4>1, <5>2, <5>3
        <4>3. m \in s.title + 1 .. s.last /\ doc[m].kind # "blank"
          BY <1>2, <2>1, <3>1, <4>1, <4>2 DEF Cut!Closing
        <4>4. ts # <<>>
          BY <1>2, <1>3, <4>3
        <4>5. QED
          BY <1>6, <2>1, <3>1, <4>4 DEF InBlock
      <3>4. QED
        BY <3>2, <3>3
    <2>2. CASE n # s.title
      <3>1. n \in s.title + 1 .. s.last
        BY <1>2, <1>9, <2>2
      <3>2. Among(n, s.lines) /\ f \in EachFormat
        BY <1>2, <3>1 DEF EachFormat
      <3>3. QED
        BY <1>2, <1>4, <3>2, LineBlock
    <2>3. QED
      BY <2>1, <2>2
  <1>10. QED
    BY <1>8, <1>9

\* Docx and odt: a block for each section.
LEMMA DocxWhole ==
    ASSUME Measures, NEW doc, FileDoc(doc), NEW f \in {"docx", "odt"}
    PROVE  Whole(f, doc, Cut!Cut(doc, Cut!Odt(doc)))
  <1> DEFINE S == Cut!Sections(doc)
             B(s) == Cut!Block(Cut!EachLine(doc, s.lines), s.title, 0, 0)
             bs == [i \in DOMAIN S |-> B(S[i])]
             blocks == Cut!FlattenSeq([i \in DOMAIN S |-> <<bs[i]>>])
  <1>1. Cut!Odt(doc) = Cut!FlattenSeq([i \in DOMAIN S |-> <<B(S[i])>>])
    BY Zenon DEF Cut!Odt, Cut!Docx, Cut!EachSection
  <1>2. [i \in DOMAIN S |-> <<B(S[i])>>] = [i \in DOMAIN S |-> <<bs[i]>>]
    OBVIOUS
  <1>3. Cut!Odt(doc) = blocks
    BY <1>1, <1>2
  <1>4. doc \in Docs
    BY DEF FileDoc
  <1>5. DOMAIN S = 1 .. Len(S) /\ \A i \in 1 .. Len(S) : Under(doc, S[i])
    BY <1>4, SectionsAre
  <1>6. \A i \in 1 .. Len(S) : bs[i] = B(S[i])
    BY <1>5
  <1>7. \A n \in 1 .. Len(doc) : \E i \in 1 .. Len(S) : S[i].title <= n /\ n <= S[i].last
    BY <1>4, SectionsAre
  <1> HIDE DEF bs
  <1>8. ASSUME NEW i \in 1 .. Len(S)
        PROVE  /\ bs[i] \in FineBlocks(f, doc)
               /\ \A n \in 1 .. Len(doc) : S[i].title <= n /\ n <= S[i].last =>
                     Cut!LeftOut(f, doc, n) \/ doc[n].len = 0 \/ InBlock(doc, bs[i], n)
    <2>1. Under(doc, S[i]) /\ bs[i] = Cut!Block(Cut!EachLine(doc, S[i].lines), S[i].title, 0, 0)
      BY <1>5, <1>6
    <2> HIDE DEF S
    <2>2. QED
      BY <2>1, SectionBlock
  <1>9. \A n \in 1 .. Len(doc) : \/ Cut!LeftOut(f, doc, n) \/ doc[n].len = 0
                                 \/ \E i \in 1 .. Len(S) : InBlock(doc, bs[i], n)
    BY <1>7, <1>8
  <1>10. QED
    BY <1>3, <1>4, <1>8, <1>9, OneEach

\* Fb2: a block for each section, with its heading.
LEMMA Fb2Whole ==
    ASSUME Measures, NEW doc, FileDoc(doc)
    PROVE  Whole("fb2", doc, Cut!Cut(doc, Cut!Fb2(doc)))
  <1> DEFINE S == Cut!Sections(doc)
             B(s) == Cut!Block(Cut!EachLine(doc, s.lines), s.title, 0, 0)
             M(s) == IF s.title = 0 THEN <<>> ELSE <<B(s)>>
             made == [i \in DOMAIN S |-> M(S[i])]
  <1>1. Cut!Fb2(doc) = Cut!FlattenSeq(made)
    BY Zenon DEF Cut!Fb2, Cut!EachSection
  <1>2. doc \in Docs
    BY DEF FileDoc
  <1>3. DOMAIN S = 1 .. Len(S) /\ \A i \in 1 .. Len(S) : Under(doc, S[i])
    BY <1>2, SectionsAre
  <1>4. made = [i \in DOMAIN S |-> made[i]] /\ \A i \in 1 .. Len(S) : made[i] = M(S[i])
    BY <1>3
  <1>5. \A n \in 1 .. Len(doc) : \E i \in 1 .. Len(S) : S[i].title <= n /\ n <= S[i].last
    BY <1>2, SectionsAre
  <1> HIDE DEF made
  <1>6. ASSUME NEW i \in 1 .. Len(S)
        PROVE  /\ made[i] \in Seq(FineBlocks("fb2", doc))
               /\ \A n \in 1 .. Len(doc) : S[i].title <= n /\ n <= S[i].last =>
                     \/ Cut!LeftOut("fb2", doc, n) \/ doc[n].len = 0
                     \/ \E b : Among(b, made[i]) /\ InBlock(doc, b, n)
    <2> DEFINE b == B(S[i])
    <2>1. CASE S[i].title = 0
      <3>1. made[i] = <<>>
        BY <1>4, <2>1
      <3>2. ASSUME NEW n \in 1 .. Len(doc), n <= S[i].last PROVE Cut!LeftOut("fb2", doc, n)
        <4>1. ASSUME NEW h \in Heads(doc) PROVE n < h
          <5>1. h \in Nat \ {0} /\ S[i].last \in Nat /\ S[i].last < h
            BY <1>3, <2>1 DEF Under, Heads
          <5>2. QED
            BY <3>2, <5>1
        <4>2. Cut!Defs(doc) = Heads(doc)
          BY <1>2, SectionsAre
        <4>3. QED
          BY <4>1, <4>2 DEF Cut!LeftOut
      <3>3. QED
        BY <3>1, <3>2
    <2>2. CASE S[i].title # 0
      <3>1. Under(doc, S[i]) /\ b = Cut!Block(Cut!EachLine(doc, S[i].lines), S[i].title, 0, 0)
        BY <1>3
      <3>2. made[i] = <<b>>
        BY <1>4, <2>2
      <3> HIDE DEF S, b, B, M
      <3>3. /\ b \in FineBlocks("fb2", doc)
            /\ \A n \in 1 .. Len(doc) : S[i].title <= n /\ n <= S[i].last =>
                  Cut!LeftOut("fb2", doc, n) \/ doc[n].len = 0 \/ InBlock(doc, b, n)
        BY <3>1, SectionBlock
      <3>4. made[i] \in Seq(FineBlocks("fb2", doc)) /\ Among(b, made[i])
        BY <3>2, <3>3, AmongOne
      <3>5. QED
        BY <3>3, <3>4
    <2>3. QED
      BY <2>1, <2>2
  <1>7. \A n \in 1 .. Len(doc) : \/ Cut!LeftOut("fb2", doc, n) \/ doc[n].len = 0
                                 \/ \E i \in 1 .. Len(S) : \E b : Among(b, made[i]) /\ InBlock(doc, b, n)
    BY <1>5, <1>6
  <1>8. QED
    BY <1>1, <1>2, <1>4, <1>6, <1>7, SectionsText

Places(S, s) == S \subseteq 1 .. Len(s)

\* What is picked is what was there and is kept.
LEMMA PickedSeq ==
    ASSUME NEW X, NEW s \in Seq(X), NEW S, Places(S, s), NEW ns, ns = Picked(s, S)
    PROVE  /\ ns \in Seq(X)
           /\ \A n : Among(n, ns) <=> \E i \in 1 .. Len(s) : i \in S /\ s[i] = n
  <1>0. S \subseteq 1 .. Len(s)
    BY DEF Places
  <1>1. /\ Picked(s, S) \in Seq(X)
        /\ \A k \in 1 .. Len(Picked(s, S)) : \E i \in S : Picked(s, S)[k] = s[i]
        /\ \A i \in S : \E k \in 1 .. Len(Picked(s, S)) : Picked(s, S)[k] = s[i]
    BY <1>0, PickedIs, ZenonT(60)
  <1>2. \A i \in S : i \in 1 .. Len(s)
    BY <1>0
  <1>3. \A n : Among(n, ns) <=> \E i \in 1 .. Len(s) : i \in S /\ s[i] = n
    BY <1>1, <1>2, Zenon DEF Among
  <1>4. QED
    BY <1>1, <1>3

\* A line whose units are all in a text is no longer than it.
LEMMA LineFits ==
    ASSUME NEW doc \in Docs, NEW n \in 1 .. Len(doc), NEW t \in Text,
           LineUnits(doc, n) \subseteq UnitsOf(t)
    PROVE  doc[n].len <= Len(t)
  <1> DEFINE l == doc[n].len
             A == 1 .. l
             B == 1 .. Len(t)
             f == [i \in A |-> CHOOSE j \in B : t[j] = <<n, i>>]
  <1>1. l \in Nat /\ Len(t) \in Nat
    BY LineIs, UnitsAre
  <1>2. \A i \in A : \E j \in B : t[j] = <<n, i>>
    <2>1. \A i \in A : <<n, i>> \in UnitsOf(t)
      BY DEF LineUnits
    <2>2. QED
      BY <2>1, UnitsAre
  <1>3. \A i \in A : f[i] \in B /\ t[f[i]] = <<n, i>>
    <2> HIDE DEF B
    <2>1. \A i \in A : f[i] = CHOOSE j \in B : t[j] = <<n, i>>
      OBVIOUS
    <2>2. QED
      BY <1>2, <2>1
  <1>4. f \in [A -> B]
    BY <1>3
  <1> HIDE DEF f
  <1>5. f \in Injection(A, B)
    <2>1. ASSUME NEW i \in A, NEW k \in A, f[i] = f[k] PROVE i = k
      <3>1. <<n, i>> = <<n, k>>
        BY <1>3, <2>1
      <3>2. QED
        BY <3>1
    <2>2. QED
      BY <1>4, <2>1 DEF Injection, IsInjective
  <1>6. /\ IsFiniteSet(B) /\ Cardinality(B) = Len(t)
        /\ IsFiniteSet(A) /\ Cardinality(A) = l
    <2>1. ASSUME NEW k \in Nat PROVE IsFiniteSet(1 .. k) /\ Cardinality(1 .. k) = k
      BY FS_Interval
    <2>2. QED
      BY <1>1, <2>1
  <1> HIDE DEF A, B
  <1>7. QED
    BY <1>5, <1>6, FS_Injection

ButFor(doc, w, bad) == Picked(w, {i \in DOMAIN w : doc[w[i]].kind # bad})

\* The lines of a chapter but for those of a kind.
LEMMA ButForIs ==
    ASSUME NEW doc \in Docs, NEW s, Under(doc, s), NEW bad,
           NEW ns, ns = ButFor(doc, Cut!WithTitle(s), bad)
    PROVE  /\ ns \in Seq(1 .. Len(doc))
           /\ \A n : Among(n, ns) => n \in s.title .. s.last /\ n \in 1 .. Len(doc) /\ doc[n].kind # bad
           /\ \A n \in 1 .. Len(doc) : s.title <= n /\ n <= s.last /\ doc[n].kind # bad => Among(n, ns)
  <1> DEFINE w == Cut!WithTitle(s)
             K == {i \in DOMAIN w : doc[w[i]].kind # bad}
             X == 1 .. Len(doc)
  <1>1. Len(doc) \in Nat /\ s.title \in Nat /\ s.last \in Nat
    BY DEF Under, Docs
  <1>2. /\ w \in Seq(X) /\ \A i \in 1 .. Len(w) : w[i] \in s.title .. s.last
        /\ \A n \in s.title .. s.last : n # 0 => Among(n, w)
    BY WithTitleIs
  <1>0. ns = Picked(w, K)
    BY DEF ButFor
  <1> HIDE DEF w, X
  <1>3. /\ Places(K, w) /\ K \subseteq 1 .. Len(w) /\ \A i \in K : doc[w[i]].kind # bad
        /\ \A i \in 1 .. Len(w) : doc[w[i]].kind # bad => i \in K
    BY <1>2 DEF Places
  <1> HIDE DEF K
  <1>7. w \in Seq(X)
    BY <1>2
  <1>9. Places(K, w)
    BY <1>3
  <1>4. ns \in Seq(X) /\ \A n : Among(n, ns) <=> \E i \in 1 .. Len(w) : i \in K /\ w[i] = n
    BY <1>0, <1>7, <1>9, PickedSeq
  <1>5. ASSUME NEW n, Among(n, ns) PROVE n \in s.title .. s.last /\ n \in X /\ doc[n].kind # bad
    <2>1. PICK i \in 1 .. Len(w) : i \in K /\ w[i] = n
      BY <1>4, <1>5
    <2>2. w[i] \in X
      BY <1>2
    <2>3. QED
      BY <1>2, <1>3, <2>1, <2>2
  <1>6. ASSUME NEW n \in 1 .. Len(doc), s.title <= n, n <= s.last, doc[n].kind # bad PROVE Among(n, ns)
    <2>1. PICK i \in 1 .. Len(w) : w[i] = n
      BY <1>1, <1>2, <1>6 DEF Among
    <2>2. QED
      BY <1>3, <1>4, <1>6, <2>1
  <1>8. QED
    BY <1>4, <1>5, <1>6 DEF X

\* The block of some texts, which cites nothing.
LEMMA BlockIs ==
    ASSUME NEW ts \in Seq(FirmText), NEW title \in Nat, NEW b, b = Cut!Block(ts, title, 0, 0)
    PROVE  b \in BlockSet /\ b.title = title /\ b.last = 0 /\ b.texts = ts
  <1>1. b = [texts |-> ts, title |-> title, first |-> 0, last |-> 0]
    BY DEF Cut!Block
  <1>2. QED
    BY <1>1 DEF BlockSet

\* The block of a chapter that has something to read: its heading is a line of it.
LEMMA ReadBlock ==
    ASSUME Measures, NEW doc, FileDoc(doc), NEW s, Under(doc, s), NEW f \in {"epub", "mobi"},
           NEW ns, ns \in Seq(1 .. Len(doc)),
           \A n : Among(n, ns) => n \in s.title .. s.last /\ n \in 1 .. Len(doc) /\ doc[n].kind # "note",
           \A n \in 1 .. Len(doc) : s.title <= n /\ n <= s.last /\ doc[n].kind # "note" => Among(n, ns),
           NEW ts, ts = Cut!EachLine(doc, ns), ts # <<>>,
           NEW b, NEW title, title = 0 \/ title = s.title, b = Cut!Block(ts, title, 0, 0)
    PROVE  /\ b \in FineBlocks(f, doc)
           /\ \A n \in 1 .. Len(doc) : s.title <= n /\ n <= s.last =>
                 Cut!LeftOut(f, doc, n) \/ doc[n].len = 0 \/ InBlock(doc, b, n)
  <1>1. doc \in Docs /\ Len(doc) \in Nat /\ s.title \in Nat /\ s.last \in Nat
    BY DEF FileDoc, Under
  <1>2. /\ ts \in Seq(FirmText)
        /\ \A u \in UnitsIn(ts) : \E n : Among(n, ns) /\ u \in LineUnits(doc, n)
    BY EachLineIs
  <1>3. title \in Nat
    BY <1>1
  <1>4. b \in BlockSet /\ b.title = title /\ b.last = 0 /\ b.texts = ts
    BY <1>2, <1>3, BlockIs
  <1>5. b \in FineBlocks(f, doc)
    <2>1. \A u \in UnitsIn(b.texts) : \E n \in s.title .. s.last : u \in LineUnits(doc, n)
      BY <1>2, <1>4
    <2>2. QED
      BY <1>4, <2>1, LooseBlock
  <1>6. PICK m \in 1 .. Len(doc) : s.title <= m /\ m <= s.last /\ doc[m].kind \notin {"note", "blank"}
    <2>1. 1 \in 1 .. Len(ts) /\ ts[1] \in FirmText
      BY <1>2
    <2>2. PICK u \in UnitsOf(ts[1]) : TRUE
      <3>1. ts[1] \in Text /\ Firm(ts[1])
        BY <2>1 DEF FirmText
      <3>2. QED
        BY <3>1, FirmUnits
    <2>3. PICK n : Among(n, ns) /\ u \in LineUnits(doc, n)
      BY <1>2, <2>1, <2>2 DEF UnitsIn
    <2>4. n \in s.title .. s.last /\ n \in 1 .. Len(doc) /\ doc[n].kind # "note"
      BY <2>3
    <2>5. doc[n].len # 0
      BY <1>1, <2>3, <2>4, LineIs DEF LineUnits
    <2>6. doc[n].kind # "blank"
      BY <2>4, <2>5 DEF FileDoc
    <2>7. QED
      BY <1>1, <2>4, <2>6
  <1>7. ASSUME NEW n \in 1 .. Len(doc), s.title <= n, n <= s.last
        PROVE  Cut!LeftOut(f, doc, n) \/ doc[n].len = 0 \/ InBlock(doc, b, n)
    <2>1. CASE doc[n].kind = "note"
      <3>1. Cut!Together(doc, m, n)
        BY <1>1, <1>6, <1>7, UnderTogether
      <3>2. m \in DOMAIN doc
        BY <1>1 DEF Docs
      <3>3. QED
        BY <1>6, <2>1, <3>1, <3>2 DEF Cut!LeftOut
    <2>2. CASE doc[n].kind # "note"
      <3>1. Among(n, ns) /\ f \in EachFormat
        BY <1>7, <2>2 DEF EachFormat
      <3>2. b.texts = Cut!EachLine(doc, ns)
        BY <1>4
      <3>3. QED
        BY <3>1, <3>2, LineBlock
    <2>3. QED
      BY <2>1, <2>2
  <1>8. QED
    BY <1>5, <1>7

\* The block of a chapter that has nothing but cells or divisions: all of it, as one text.
LEMMA WholeBlock ==
    ASSUME Measures, NEW doc, FileDoc(doc), NEW s, Under(doc, s), NEW f \in {"epub", "mobi"},
           NEW all, all \in Seq(1 .. Len(doc)), all # <<>>,
           \A n : Among(n, all) => n \in s.title .. s.last /\ n \in 1 .. Len(doc) /\ doc[n].kind # "blank",
           \A n \in 1 .. Len(doc) : s.title <= n /\ n <= s.last /\ doc[n].kind # "blank" => Among(n, all),
           NEW b, NEW title, title = 0 \/ title = s.title,
           b = Cut!Block(<<Cut!TextOf(doc, all)>>, title, 0, 0)
    PROVE  /\ b \in FineBlocks(f, doc)
           /\ \A n \in 1 .. Len(doc) : s.title <= n /\ n <= s.last =>
                 Cut!LeftOut(f, doc, n) \/ doc[n].len = 0 \/ InBlock(doc, b, n)
  <1> DEFINE t == Cut!TextOf(doc, all)
  <1>1. doc \in Docs /\ Len(doc) \in Nat /\ s.title \in Nat /\ s.last \in Nat
    BY DEF FileDoc, Under
  <1>2. \A i \in 1 .. Len(all) : all[i] \in 1 .. Len(doc) /\ Among(all[i], all) /\ doc[all[i]].len # 0
    <2>1. \A i \in 1 .. Len(all) : Among(all[i], all)
      BY DEF Among
    <2>2. QED
      BY <2>1 DEF FileDoc
  <1>3. /\ t \in Text /\ Firm(t)
        /\ \A u : u \in UnitsOf(t) <=> \E i \in 1 .. Len(all) : u \in LineUnits(doc, all[i])
    BY <1>1, <1>2, TextIs
  <1> HIDE DEF t
  <1> DEFINE ts == <<t>>
  <1>4. ts \in Seq(FirmText) /\ Len(ts) = 1 /\ ts[1] = t /\ title \in Nat /\ b = Cut!Block(ts, title, 0, 0)
    <2>1. t \in FirmText
      BY <1>3 DEF FirmText
    <2>2. title \in Nat /\ b = Cut!Block(ts, title, 0, 0)
      BY <1>1 DEF t
    <2>3. QED
      BY <2>1, <2>2
  <1> HIDE DEF ts
  <1>9. b \in BlockSet /\ b.title = title /\ b.last = 0 /\ b.texts = ts
    BY <1>4, BlockIs
  <1>5. b \in BlockSet /\ b.title = title /\ b.last = 0 /\ Len(b.texts) = 1 /\ b.texts[1] = t
    BY <1>4, <1>9
  <1>6. b \in FineBlocks(f, doc)
    <2>1. \A u \in UnitsIn(b.texts) : u \in UnitsOf(t)
      BY <1>5 DEF UnitsIn
    <2>2. \A u \in UnitsIn(b.texts) : \E n \in s.title .. s.last : u \in LineUnits(doc, n)
      BY <1>2, <1>3, <2>1
    <2>3. QED
      BY <1>5, <2>2, LooseBlock
  <1>7. ASSUME NEW n \in 1 .. Len(doc), s.title <= n, n <= s.last
        PROVE  Cut!LeftOut(f, doc, n) \/ doc[n].len = 0 \/ InBlock(doc, b, n)
    <2>1. CASE doc[n].kind = "blank"
      BY <2>1 DEF FileDoc
    <2>2. CASE doc[n].kind # "blank"
      <3>1. PICK i \in 1 .. Len(all) : all[i] = n
        BY <1>7, <2>2 DEF Among
      <3>2. LineUnits(doc, n) \subseteq UnitsOf(t)
        BY <1>3, <3>1
      <3>3. doc[n].len <= Len(t) /\ doc[n].len \in Nat /\ Len(t) \in Nat /\ SHORT \in Nat
        BY <1>1, <1>3, <3>2, LineFits, LineIs, UnitsAre DEF Measures
      <3>4. CASE Len(t) > SHORT
        <4>1. 1 \in 1 .. Len(b.texts)
          BY <1>5
        <4>2. Len(b.texts[1]) > SHORT /\ LineUnits(doc, n) \subseteq UnitsOf(b.texts[1])
          BY <1>5, <3>2, <3>4
        <4>3. \E j \in 1 .. Len(b.texts) :
                 Len(b.texts[j]) > SHORT /\ LineUnits(doc, n) \subseteq UnitsOf(b.texts[j])
          BY <4>1, <4>2
        <4>4. InBlock(doc, b, n)
          BY <4>3 DEF InBlock
        <4>5. QED
          BY <4>4
      <3>5. CASE Len(t) <= SHORT
        <4>1. doc[n].len <= SHORT
          BY <3>3, <3>5
        <4>2. QED
          BY <4>1 DEF Cut!LeftOut, Cut!Dropped
      <3>6. QED
        BY <3>3, <3>4, <3>5
    <2>3. QED
      BY <2>1, <2>2
  <1>8. QED
    BY <1>6, <1>7

\* The block of a chapter.
LEMMA ChapterBlock ==
    ASSUME Measures, NEW doc, FileDoc(doc), NEW s, Under(doc, s), NEW f \in {"epub", "mobi"},
           NEW b, NEW title, title = 0 \/ title = s.title, b = Cut!Block(Cut!Spoken(doc, s), title, 0, 0)
    PROVE  /\ b \in FineBlocks(f, doc)
           /\ \A n \in 1 .. Len(doc) : s.title <= n /\ n <= s.last =>
                 Cut!LeftOut(f, doc, n) \/ doc[n].len = 0 \/ InBlock(doc, b, n)
  <1> DEFINE w == Cut!WithTitle(s)
             ns == ButFor(doc, w, "note")
             all == ButFor(doc, w, "blank")
             read == Cut!EachLine(doc, ns)
  <1>1. Cut!Spoken(doc, s) = IF read # <<>> \/ all = <<>> THEN read ELSE <<Cut!TextOf(doc, all)>>
    BY Zenon DEF Cut!Spoken, Cut!Keep, Cut!Filled, Picked, ButFor
  <1>2. doc \in Docs /\ Len(doc) \in Nat /\ s.title \in Nat /\ s.last \in Nat
    BY DEF FileDoc, Under
  <1>3. /\ ns \in Seq(1 .. Len(doc))
        /\ \A n : Among(n, ns) => n \in s.title .. s.last /\ n \in 1 .. Len(doc) /\ doc[n].kind # "note"
        /\ \A n \in 1 .. Len(doc) : s.title <= n /\ n <= s.last /\ doc[n].kind # "note" => Among(n, ns)
    BY <1>2, ButForIs
  <1>4. /\ all \in Seq(1 .. Len(doc))
        /\ \A n : Among(n, all) => n \in s.title .. s.last /\ n \in 1 .. Len(doc) /\ doc[n].kind # "blank"
        /\ \A n \in 1 .. Len(doc) : s.title <= n /\ n <= s.last /\ doc[n].kind # "blank" => Among(n, all)
    BY <1>2, ButForIs
  <1> HIDE DEF ns, all, w
  <1>5. CASE read # <<>>
    <2>1. b = Cut!Block(read, title, 0, 0)
      BY <1>1, <1>5
    <2> HIDE DEF read
    <2>2. read = Cut!EachLine(doc, ns)
      BY DEF read
    <2>3. QED
      BY <1>3, <1>5, <2>1, <2>2, ReadBlock
  <1>6. CASE read = <<>> /\ all # <<>>
    <2>1. b = Cut!Block(<<Cut!TextOf(doc, all)>>, title, 0, 0)
      BY <1>1, <1>6
    <2>2. QED
      BY <1>4, <1>6, <2>1, WholeBlock
  <1>7. CASE read = <<>> /\ all = <<>>
    <2> DEFINE none == <<>>
    <2>1. b = Cut!Block(none, title, 0, 0) /\ none \in Seq(FirmText) /\ Len(none) = 0 /\ title \in Nat
      BY <1>1, <1>2, <1>7
    <2> HIDE DEF none, read
    <2>2. b \in BlockSet /\ b.title = title /\ b.last = 0 /\ b.texts = none
      BY <2>1, BlockIs
    <2>3. UnitsIn(b.texts) = {}
      BY <2>1, <2>2 DEF UnitsIn
    <2>4. b \in FineBlocks(f, doc)
      BY <2>2, <2>3, LooseBlock
    <2>5. ASSUME NEW n \in 1 .. Len(doc), s.title <= n, n <= s.last PROVE doc[n].len = 0
      <3>1. doc[n].kind = "blank"
        BY <1>4, <1>7, <2>5 DEF Among
      <3>2. QED
        BY <3>1 DEF FileDoc
    <2>6. QED
      BY <2>4, <2>5
  <1>8. QED
    BY <1>5, <1>6, <1>7

\* Epub and mobi: a block for each section, or chapter, of what is spoken.
LEMMA EpubWhole ==
    ASSUME Measures, NEW doc, FileDoc(doc), NEW f \in {"epub", "mobi"}, NEW blocks,
           blocks = IF f = "epub" THEN Cut!Epub(doc) ELSE Cut!Mobi(doc)
    PROVE  Whole(f, doc, Cut!Cut(doc, blocks))
  <1> DEFINE S == Cut!Sections(doc)
             B(s) == Cut!Block(Cut!Spoken(doc, s), s.title, 0, 0)
             C(s) == Cut!Block(Cut!Spoken(doc, s), 0, 0, 0)
             bs == [i \in DOMAIN S |-> IF f = "epub" THEN B(S[i]) ELSE C(S[i])]
             each == [i \in DOMAIN S |-> <<bs[i]>>]
  <1>1. /\ Cut!Epub(doc) = Cut!FlattenSeq([i \in DOMAIN S |-> <<B(S[i])>>])
        /\ Cut!Mobi(doc) = Cut!FlattenSeq([i \in DOMAIN S |-> <<C(S[i])>>])
    BY Zenon DEF Cut!Epub, Cut!Mobi, Cut!EachSection
  <1>2. /\ f = "epub" => [i \in DOMAIN S |-> <<B(S[i])>>] = each
        /\ f # "epub" => [i \in DOMAIN S |-> <<C(S[i])>>] = each
    OBVIOUS
  <1>3. blocks = Cut!FlattenSeq(each)
    BY <1>1, <1>2
  <1>4. doc \in Docs
    BY DEF FileDoc
  <1>5. DOMAIN S = 1 .. Len(S) /\ \A i \in 1 .. Len(S) : Under(doc, S[i])
    BY <1>4, SectionsAre
  <1>6. \A i \in 1 .. Len(S) : bs[i] = Cut!Block(Cut!Spoken(doc, S[i]), IF f = "epub" THEN S[i].title ELSE 0, 0, 0)
    BY <1>5
  <1>7. \A n \in 1 .. Len(doc) : \E i \in 1 .. Len(S) : S[i].title <= n /\ n <= S[i].last
    BY <1>4, SectionsAre
  <1> HIDE DEF bs
  <1>8. ASSUME NEW i \in 1 .. Len(S)
        PROVE  /\ bs[i] \in FineBlocks(f, doc)
               /\ \A n \in 1 .. Len(doc) : S[i].title <= n /\ n <= S[i].last =>
                     Cut!LeftOut(f, doc, n) \/ doc[n].len = 0 \/ InBlock(doc, bs[i], n)
    <2> DEFINE title == IF f = "epub" THEN S[i].title ELSE 0
    <2>1. /\ Under(doc, S[i]) /\ bs[i] = Cut!Block(Cut!Spoken(doc, S[i]), title, 0, 0)
          /\ title = 0 \/ title = S[i].title
      BY <1>5, <1>6
    <2> HIDE DEF S, title
    <2>2. QED
      BY <2>1, ChapterBlock
  <1>9. \A n \in 1 .. Len(doc) : \/ Cut!LeftOut(f, doc, n) \/ doc[n].len = 0
                                 \/ \E i \in 1 .. Len(S) : InBlock(doc, bs[i], n)
    BY <1>7, <1>8
  <1>10. QED
    BY <1>3, <1>4, <1>8, <1>9, OneEach

\* A block of the paragraphs of some lines.
LEMMA RunLines ==
    ASSUME NEW doc, NEW a, NEW z, NEW title, NEW first, NEW last, NEW b,
           b = Cut!Block(Cut!RunTexts(doc, Cut!From(a, z)), title, first, last), FileDoc(doc),
           a \in Nat \ {0}, z \in Nat, a <= z + 1, z <= Len(doc), title \in Nat, first \in Int, last \in Int
    PROVE  /\ b \in BlockSet /\ b.title = title /\ b.first = first /\ b.last = last
           /\ b.texts = Cut!RunTexts(doc, Cut!From(a, z)) /\ RunsHold(doc, a, z, b.texts)
  <1> DEFINE ts == Cut!RunTexts(doc, Cut!From(a, z))
  <1>1. RunsHold(doc, a, z, ts)
    BY RunTextsAre
  <1>2. b = [texts |-> ts, title |-> title, first |-> first, last |-> last] /\ b.texts = ts
    BY DEF Cut!Block
  <1> HIDE DEF ts
  <1>3. b \in BlockSet /\ b.title = title /\ b.first = first /\ b.last = last
    BY <1>1, <1>2 DEF BlockSet, RunsHold
  <1>4. QED
    BY <1>1, <1>2, <1>3 DEF ts

\* Rtf: one block, without headings.
LEMMA RtfWhole ==
    ASSUME Measures, NEW doc, FileDoc(doc)
    PROVE  Whole("rtf", doc, Cut!Cut(doc, Cut!Rtf(doc)))
  <1> DEFINE N == Len(doc)
             b == Cut!Block(Cut!RunTexts(doc, Cut!From(1, N)), 0, 0, 0)
  <1>1. Cut!Rtf(doc) = <<b>> /\ doc \in Docs /\ N \in Nat /\ 1 <= N + 1
    BY DEF Cut!Rtf, FileDoc
  <1>2. b = b /\ N <= Len(doc)
    BY <1>1
  <1> HIDE DEF b, N
  <1>3. b \in BlockSet /\ b.title = 0 /\ b.last = 0 /\ b.texts = Cut!RunTexts(doc, Cut!From(1, N))
    <2> DEFINE a == 1
               none == 0
    <2>1. /\ b = Cut!Block(Cut!RunTexts(doc, Cut!From(a, N)), none, none, none)
          /\ a \in Nat \ {0} /\ a <= N + 1 /\ none \in Nat /\ none \in Int
      BY <1>1 DEF b
    <2> HIDE DEF a, none
    <2>2. b \in BlockSet /\ b.title = none /\ b.last = none /\ b.texts = Cut!RunTexts(doc, Cut!From(a, N))
      BY <1>1, <1>2, <2>1, RunLines
    <2>3. QED
      BY <2>2 DEF a, none
  <1>4. ASSUME NEW p \in PieceSet, OfBlock(p, b) PROVE p \in Fine("rtf", doc)
    BY <1>3, <1>4 DEF OfBlock, Fine, Cut!RightlyCited, Cut!RightlyTitled, Cut!OneHeading
  <1>5. <<b>> \in Seq(FineBlocks("rtf", doc)) /\ Among(b, <<b>>)
    BY <1>3, <1>4, AmongOne DEF FineBlocks
  <1>6. ASSUME NEW n \in 1 .. Len(doc)
        PROVE  Cut!LeftOut("rtf", doc, n) \/ doc[n].len = 0 \/ InBlock(doc, b, n)
    <2> DEFINE B == Breaks("rtf")
    <2>1. \A k \in 1 .. N : doc[k].kind \in B => doc[k].kind = "blank"
      BY DEF Breaks
    <2>2. n \in 1 .. N /\ N = Len(doc) /\ 1 \in Nat \ {0} /\ "rtf" \in {"markdown", "pdf", "djvu", "rtf"}
      BY DEF N
    <2> HIDE DEF B
    <2>3. QED
      BY <1>1, <1>2, <1>3, <2>1, <2>2, LineKept DEF B
  <1>7. QED
    BY <1>1, <1>5, <1>6, BlocksWhole

\* A line of a section, of which the paragraphs are a block.
LEMMA SectionKept ==
    ASSUME Measures, NEW doc, FileDoc(doc), NEW s, Under(doc, s),
           NEW f \in {"markdown", "pdf", "djvu"},
           NEW b, b.texts = Cut!RunTexts(doc, s.lines), NEW n \in s.title + 1 .. s.last
    PROVE  Cut!LeftOut(f, doc, n) \/ doc[n].len = 0 \/ InBlock(doc, b, n)
  <1> DEFINE a == s.title + 1
             z == s.last
             B == Breaks(f)
  <1>1. /\ s.title \in Nat /\ a \in Nat \ {0} /\ z \in Nat /\ a <= z + 1 /\ z <= Len(doc) /\ Len(doc) \in Nat
        /\ s.lines = Cut!From(a, z) /\ n \in a .. z /\ a - 1 = s.title
    BY DEF Under, FileDoc
  <1>2. \A k \in 1 .. Len(doc) : doc[k].kind \in B <=> doc[k].kind = "blank" \/ k \in Heads(doc)
    BY DEF Breaks, Heads
  <1>3. ASSUME NEW k \in a .. z, doc[k].kind \in B PROVE doc[k].kind = "blank"
    <2>1. k \in 1 .. Len(doc) /\ ~(k <= s.title) /\ ~(s.last < k)
      BY <1>1
    <2>2. k \notin Heads(doc)
      BY <2>1 DEF Under
    <2>3. QED
      BY <1>2, <1>3, <2>1, <2>2
  <1>4. a = 1 \/ doc[a - 1].kind \in B
    <2>1. CASE s.title = 0
      BY <2>1
    <2>2. CASE s.title # 0
      <3>1. s.title \in Heads(doc) /\ s.title \in 1 .. Len(doc)
        BY <2>2 DEF Under, Heads
      <3>2. QED
        BY <1>1, <1>2, <3>1
    <2>3. QED
      BY <2>1, <2>2
  <1>5. z = Len(doc) \/ doc[z + 1].kind \in B
    <2>1. CASE z # Len(doc)
      <3>1. z + 1 \in Heads(doc) /\ z + 1 \in 1 .. Len(doc)
        BY <2>1 DEF Under, Heads
      <3>2. QED
        BY <1>2, <3>1
    <2>2. QED
      BY <2>1
  <1>6. f \in {"markdown", "pdf", "djvu", "rtf"} /\ B = Breaks(f) /\ b.texts = Cut!RunTexts(doc, Cut!From(a, z))
    BY <1>1
  <1> HIDE DEF a, z, B
  <1>7. QED
    BY <1>1, <1>3, <1>4, <1>5, <1>6, LineKept

\* A passage of a section and its lines.
LEMMA RunsRight ==
    ASSUME NEW doc, FileDoc(doc), NEW s, Under(doc, s), NEW b \in BlockSet,
           b.title = 0 \/ b.title = s.title,
           NEW a \in s.title .. s.last + 1, NEW z \in s.title .. s.last, RunsHold(doc, a, z, b.texts),
           NEW p \in PieceSet, OfBlock(p, b), NEW f
    PROVE  /\ Cut!RightlyTitled(f, doc, p) /\ Cut!LinesOf(p) \subseteq a .. z /\ Cut!LinesOf(p) # {}
           /\ p.first = b.first /\ p.last = b.last
  <1>1. s.title \in Nat /\ s.last \in Nat
    BY DEF Under
  <1>2. \A u \in UnitsIn(b.texts) : \E n \in a .. z : u \in LineUnits(doc, n)
    BY DEF RunsHold
  <1>3. \A n \in a .. z : n \in s.title .. s.last
    BY <1>1
  <1>4. \A u \in UnitsIn(b.texts) : \E n \in s.title .. s.last : u \in LineUnits(doc, n)
    BY <1>2, <1>3
  <1>5. Cut!RightlyTitled(f, doc, p) /\ UnitsOf(p.text) # {} /\ p.first = b.first /\ p.last = b.last
    BY <1>4, BlockRight
  <1>6. OfLines(doc, p.text, a .. z) /\ p.text \in Text
    BY <1>2 DEF OfBlock, OfLines, PieceSet
  <1>7. Cut!LinesOf(p) = {u[1] : u \in UnitsOf(p.text)} /\ Cut!LinesOf(p) \subseteq a .. z
    BY <1>6, LinesAre
  <1>8. QED
    BY <1>5, <1>7

\* A bare heading has nothing under it.
LEMMA BareIs ==
    ASSUME NEW doc, FileDoc(doc), NEW s, Under(doc, s)
    PROVE  /\ Cut!Bare(doc, s) <=> \A n \in s.title + 1 .. s.last : doc[n].kind = "blank"
           /\ Cut!Bare(doc, s) /\ s.title # 0 => Cut!BareHeading(doc, s.title)
  <1>1. doc \in Docs
    BY DEF FileDoc
  <1>2. /\ s.lines \in Seq(1 .. Len(doc)) /\ Len(doc) \in Nat
        /\ s.title \in Nat /\ s.last \in Nat /\ s.title <= s.last /\ s.last <= Len(doc)
        /\ \A i \in 1 .. Len(s.lines) : s.lines[i] \in s.title + 1 .. s.last
        /\ \A n \in s.title + 1 .. s.last : Among(n, s.lines)
    BY <1>1, SectionLines
  <1>3. DOMAIN s.lines = 1 .. Len(s.lines)
    BY <1>2
  <1>4. Cut!Bare(doc, s) <=> \A n \in s.title + 1 .. s.last : doc[n].kind = "blank"
    BY <1>2, <1>3 DEF Cut!Bare, Among
  <1>5. ASSUME Cut!Bare(doc, s), s.title # 0 PROVE Cut!BareHeading(doc, s.title)
    <2>1. doc[s.title].kind = Cut!Opening /\ s.title \in Nat
      BY <1>5 DEF Under, Heads
    <2>2. ASSUME NEW m \in s.title + 1 .. Len(doc), doc[m].kind # "blank"
          PROVE  \E k \in s.title + 1 .. m : doc[k].kind = Cut!Opening
      <3>1. s.last < m
        BY <1>2, <1>4, <1>5, <2>2
      <3>2. s.last # Len(doc) /\ s.last + 1 \in s.title + 1 .. m
        BY <1>2, <3>1
      <3>3. s.last + 1 \in Heads(doc)
        BY <3>2 DEF Under
      <3>4. QED
        BY <3>2, <3>3 DEF Heads
    <2>3. QED
      BY <2>1, <2>2 DEF Cut!BareHeading
  <1>6. QED
    BY <1>4, <1>5
=============================================================================
