------------------------------ MODULE Passages ------------------------------
(***************************************************************************)
(* How a file is cut into passages (rtfm/parsers).  A parser never sees    *)
(* the index: it is a function from a document to the passages that can    *)
(* be found, and what it leaves out cannot be found at all.                *)
(*                                                                         *)
(* A document is a sequence of lines, of which only the part they play and *)
(* their length count; the lengths are the code's divided by some hundred  *)
(* characters.  A text is a sequence of units, each known by the line and  *)
(* the place in it that it comes from, or white space: what a cut loses or *)
(* gives the wrong line shows in it.                                       *)
(***************************************************************************)
EXTENDS Integers, Sequences, SequencesExt, FiniteSets, FiniteSetsExt

CONSTANTS
    TARGET_CHUNK_CHARS,
    MIN_CHUNK_CHARS,
    MAX_CHUNK_CHARS,
    SHORT,           \* the 20 characters a paragraph must exceed
    Formats,
    Lines,           \* what a line may be: a bound
    MaxLines         \* length of a document: a bound

\* What a line is: it opens a section, a page, a function or a key; it is text in it;
\* it closes it (ends a sentence, closes a brace, is the last of a body); it
\* is a comment, or what else a parser passes over; it is blank.
Opening == "head"
Closing == "last"
Kinds == {Opening, "text", Closing, "note", "blank"}
Documents == UNION {[1 .. n -> Lines] : n \in 1 .. MaxLines}

\* The formats a parser is registered for: those of texts, and the others.  A
\* python file with a syntax error, an array in json and an object that the user
\* has a mapping for are read in a way of their own.
TextFormats == {"markdown", "docx", "odt", "fb2", "epub", "mobi", "pdf", "djvu", "rtf"}
OtherFormats ==
    {"plaintext", "python", "python_error", "shell", "latex", "yaml", "json", "array", "mapped",
     "toml", "jupyter", "csv", "xlsx", "sqlite", "html", "legifrance"}

\* What the constants are.
PassagesAssumption ==
    /\ {SHORT, MIN_CHUNK_CHARS, TARGET_CHUNK_CHARS, MAX_CHUNK_CHARS} \subseteq Nat
    /\ Formats \subseteq TextFormats \cup OtherFormats
    /\ 0 < SHORT /\ SHORT < MIN_CHUNK_CHARS /\ MIN_CHUNK_CHARS < TARGET_CHUNK_CHARS
    /\ TARGET_CHUNK_CHARS < MAX_CHUNK_CHARS
    /\ Lines \subseteq [kind : Kinds, len : Nat]
    /\ \A l \in Lines : l.kind = "blank" <=> l.len = 0
    /\ MaxLines \in Nat \ {0}

VARIABLE
    reading         \* the file being read: format, document, passages
-----------------------------------------------------------------------------
(* Texts. *)

LineText(doc, n) == [i \in 1 .. doc[n].len |-> <<n, i>>]
White == <<0, 0>>
Glue(texts) ==
    IF texts = <<>> THEN <<>>
    ELSE FoldLeft(LAMBDA a, b : a \o <<White>> \o b, Head(texts), Tail(texts))
TextOf(doc, ns) == Glue([i \in DOMAIN ns |-> LineText(doc, ns[i])])
From(a, b) == [i \in 1 .. b - a + 1 |-> a + i - 1]

\* The i-th has i - 1 below it.
Ascending(S) ==
    [i \in 1 .. Cardinality(S) |-> CHOOSE x \in S : Cardinality({y \in S : y < x}) = i - 1]
Keep(s, Test(_)) ==
    LET kept == Ascending({i \in DOMAIN s : Test(s[i])})
    IN  [k \in DOMAIN kept |-> s[kept[k]]]

Solid(t) == {i \in DOMAIN t : t[i] # White}
Blank(t) == Solid(t) = {}
Strip(t) == IF Blank(t) THEN <<>> ELSE SubSeq(t, Min(Solid(t)), Max(Solid(t)))
RStrip(t) == IF Blank(t) THEN <<>> ELSE SubSeq(t, 1, Max(Solid(t)))
LStrip(t) == IF Blank(t) THEN <<>> ELSE SubSeq(t, Min(Solid(t)), Len(t))

\* titles: the headings a passage is filed under.  last = 0: no lines to point at.
Passage(t, titles, first, last) ==
    [text |-> t, titles |-> titles, first |-> first, last |-> last]
Title(n) == IF n = 0 THEN {} ELSE {n}
NonBlank(ps) == Keep(ps, LAMBDA p : ~Blank(p.text))
-----------------------------------------------------------------------------
(* Text formats: paragraphs, merged when short and split when long. *)

\* A paragraph is a run of lines that are not blank.
Runs(doc, ns) ==
    LET full == {i \in DOMAIN ns : doc[ns[i]].kind # "blank"}
        EndOf(i) == Max({j \in full : i .. j \subseteq full})
        starts == Ascending({i \in full : i - 1 \notin full})
    IN  [k \in DOMAIN starts |-> SubSeq(ns, starts[k], EndOf(starts[k]))]

RunTexts(doc, ns) ==
    LET runs == Runs(doc, ns)
    IN  [i \in DOMAIN runs |-> TextOf(doc, runs[i])]

\* split_into_paragraphs: the short ones are dropped, unless all are.
Paragraphs(all) ==
    LET long == Keep(all, LAMBDA p : Len(p) > SHORT)
    IN  IF long # <<>> THEN long
        ELSE IF all # <<>> THEN <<Glue(all)>> ELSE <<>>

EndsSentence(doc, t, i) ==
    /\ t[i] # White /\ doc[t[i][1]].kind = Closing
    /\ i = Len(t) \/ t[i + 1] = White
SentenceEnds(doc, t) == Ascending({i \in DOMAIN t : EndsSentence(doc, t, i)})

\* Whole sentences up to the limit; the last piece takes what is left.
SentencePieces(doc, t, max) ==
    LET step(acc, end) ==
            IF end - acc.start > max /\ acc.prev > acc.start
            THEN [out |-> Append(acc.out, Strip(SubSeq(t, acc.start + 1, acc.prev))),
                  start |-> acc.prev, prev |-> end]
            ELSE [acc EXCEPT !.prev = end]
        acc == FoldLeft(step, [out |-> <<>>, start |-> 0, prev |-> 0], SentenceEnds(doc, t))
        rest == Strip(SubSeq(t, acc.start + 1, Len(t)))
    IN  acc.out \o (IF rest = <<>> THEN <<>> ELSE <<rest>>)

\* split_on_sentence: where no sentence ends, one cut at the limit.
SplitOnSentence(doc, t, max) ==
    IF Len(t) <= max THEN <<t>>
    ELSE IF SentenceEnds(doc, t) = <<>>
         THEN <<Strip(SubSeq(t, 1, max)), Strip(SubSeq(t, max + 1, Len(t)))>>
         ELSE SentencePieces(doc, t, max)

\* merge_short_paragraphs.
MergeStep(doc, acc, p) ==
    LET buffer == IF acc.buffer = <<>> THEN p ELSE Glue(<<acc.buffer, p>>)
        pieces == SplitOnSentence(doc, buffer, MAX_CHUNK_CHARS)
    IN  IF Len(buffer) < TARGET_CHUNK_CHARS THEN [acc EXCEPT !.buffer = buffer]
        ELSE IF Len(buffer) > MAX_CHUNK_CHARS
             THEN [out |-> acc.out \o Front(pieces), buffer |-> Last(pieces)]
             ELSE [out |-> Append(acc.out, buffer), buffer |-> <<>>]
Mutant_MergeShort(doc, paragraphs) ==            \* the remainder forgotten
    FoldLeft(LAMBDA acc, p : MergeStep(doc, acc, p), [out |-> <<>>, buffer |-> <<>>],
             paragraphs).out
MergeShort(doc, paragraphs) ==
    LET acc == FoldLeft(LAMBDA a, p : MergeStep(doc, a, p),
                        [out |-> <<>>, buffer |-> <<>>], paragraphs)
    IN  IF acc.buffer = <<>> THEN acc.out
        ELSE IF acc.out # <<>> /\ Len(acc.buffer) < MIN_CHUNK_CHARS
             THEN [acc.out EXCEPT ![Len(acc.out)] = Glue(<<@, acc.buffer>>)]
             ELSE Append(acc.out, acc.buffer)

\* A file cut at its headings: title 0 before the first of them.
Sections(doc) ==
    LET heads == {n \in DOMAIN doc : doc[n].kind = Opening}
        NextOf(n) == Min({h \in heads : h > n} \cup {Len(doc) + 1})
        Section(n) == [title |-> n, lines |-> From(n + 1, NextOf(n) - 1),
                       first |-> n + 1, last |-> NextOf(n) - 1]
    IN  [i \in 1 .. Cardinality(heads) + 1 |->
            Section(IF i = 1 THEN 0 ELSE Ascending(heads)[i - 1])]
Bare(doc, section) == \A i \in DOMAIN section.lines : doc[section.lines[i]].kind = "blank"

\* What a text format hands to the cut: the texts found in one place.
Block(texts, title, first, last) ==
    [texts |-> texts, title |-> title, first |-> first, last |-> last]
Cut(doc, blocks) ==
    LET Pieces(b) == LET cut == MergeShort(doc, Paragraphs(b.texts))
                     IN  [i \in DOMAIN cut |-> Passage(cut[i], Title(b.title), b.first, b.last)]
    IN  FlattenSeq([i \in DOMAIN blocks |-> Pieces(blocks[i])])
EachSection(doc, Made(_)) ==
    LET sections == Sections(doc)
    IN  FlattenSeq([i \in DOMAIN sections |-> Made(sections[i])])

\* Markdown: a heading with nothing under it is a passage of its own.
Markdown(doc) ==
    EachSection(doc, LAMBDA s :
        <<Block(RunTexts(doc, IF Bare(doc, s) /\ s.title # 0 THEN <<s.title>> ELSE s.lines),
                s.title, s.first, s.last)>>)

\* docx, odt: every block is a paragraph, a heading with nothing under it is
\* left out, and there are no lines to point at.
Filled(doc, ns) == Keep(ns, LAMBDA n : doc[n].kind # "blank")
EachLine(doc, ns) ==
    LET filled == Filled(doc, ns)
    IN  [i \in DOMAIN filled |-> LineText(doc, filled[i])]
Docx(doc) ==
    EachSection(doc, LAMBDA s : <<Block(EachLine(doc, s.lines), s.title, 0, 0)>>)
Odt(doc) == Docx(doc)

\* fb2: the same, of what is in a section.
Fb2(doc) ==
    EachSection(doc, LAMBDA s : IF s.title = 0 THEN <<>>
                                ELSE <<Block(EachLine(doc, s.lines), s.title, 0, 0)>>)

\* epub, mobi: chapter by chapter, its headings included.  Of a chapter with
\* headings, paragraphs, items, quotations or code, only these are read; of one
\* that has nothing but cells or divisions (the notes), the whole, as one text.
WithTitle(s) == (IF s.title = 0 THEN <<>> ELSE <<s.title>>) \o s.lines
Spoken(doc, s) ==
    LET read == EachLine(doc, Keep(WithTitle(s), LAMBDA n : doc[n].kind # "note"))
        all == Filled(doc, WithTitle(s))
    IN  IF read # <<>> \/ all = <<>> THEN read ELSE <<TextOf(doc, all)>>
Epub(doc) == EachSection(doc, LAMBDA s : <<Block(Spoken(doc, s), s.title, 0, 0)>>)
Mobi(doc) == EachSection(doc, LAMBDA s : <<Block(Spoken(doc, s), 0, 0, 0)>>)

\* pdf: page by page, an opening line being the break before a page.
PageOf(doc, n) == Cardinality({h \in 1 .. n : doc[h].kind = Opening})
Pdf(doc) ==
    EachSection(doc, LAMBDA s :
        <<Block(RunTexts(doc, s.lines), 0, PageOf(doc, s.title), PageOf(doc, s.title))>>)

\* djvu: empty pages go first, and the others are numbered without them.
Djvu(doc) ==
    LET pages == Keep(Sections(doc), LAMBDA s : ~Bare(doc, s))
    IN  [i \in DOMAIN pages |-> Block(RunTexts(doc, pages[i].lines), 0, i, i)]

\* rtf: the whole text.
Rtf(doc) == <<Block(RunTexts(doc, From(1, Len(doc))), 0, 0, 0)>>

TextBlocks(f, doc) ==
    CASE f = "markdown"        -> Markdown(doc)
      [] f \in {"docx", "odt"} -> Odt(doc)
      [] f = "fb2"             -> Fb2(doc)
      [] f = "epub"            -> Epub(doc)
      [] f = "mobi"            -> Mobi(doc)
      [] f = "pdf"             -> Pdf(doc)
      [] f = "djvu"            -> Djvu(doc)
      [] f = "rtf"             -> Rtf(doc)
-----------------------------------------------------------------------------
(* Lines of text and of code nothing is known about: _chunk_lines. *)

\* A full buffer is one passage; one too long is cut at the limit, and what
\* remains starts the next with the line that did not fit.
Flushed(acc, n) ==
    LET t == Glue(acc.buffer)
        cuts == IF Len(t) > MAX_CHUNK_CHARS THEN (Len(t) - 1) \div MAX_CHUNK_CHARS ELSE 0
        rest == SubSeq(t, cuts * MAX_CHUNK_CHARS + 1, Len(t))
        Piece(k) == SubSeq(t, (k - 1) * MAX_CHUNK_CHARS + 1, k * MAX_CHUNK_CHARS)
    IN  IF cuts = 0
        THEN [out |-> Append(acc.out, Passage(t, {}, acc.start, n - 1)),
              buffer |-> <<>>, len |-> 0, start |-> n]
        ELSE [out |-> acc.out \o [k \in 1 .. cuts |-> Passage(Piece(k), {}, acc.start, n - 1)],
              buffer |-> IF Blank(rest) THEN <<>> ELSE <<rest>>,
              len |-> IF Blank(rest) THEN 0 ELSE Len(rest), start |-> n]
ChunkLines(doc) ==
    LET step(acc, n) ==
            LET full == acc.buffer # <<>> /\ acc.len + doc[n].len + 1 > TARGET_CHUNK_CHARS
                a == IF full THEN Flushed(acc, n) ELSE acc
            IN  [a EXCEPT !.buffer = Append(@, LineText(doc, n)), !.len = @ + doc[n].len + 1]
        acc == FoldLeft(step, [out |-> <<>>, buffer |-> <<>>, len |-> 0, start |-> 1],
                        From(1, Len(doc)))
        rest == Glue(acc.buffer)
    IN  NonBlank(
            IF acc.out # <<>> /\ Len(rest) < MIN_CHUNK_CHARS
            THEN [acc.out EXCEPT ![Len(acc.out)].text = Glue(<<@, rest>>),
                                 ![Len(acc.out)].last = Len(doc)]
            ELSE Append(acc.out, Passage(rest, {}, acc.start, Len(doc))))
-----------------------------------------------------------------------------
(* Source code and structured files: blocks, merged when small and cut when *)
(* long, at a blank line or at the end of one.                              *)

LineEnds(t) == {i \in 1 .. Len(t) : t[i] = White /\ i <= MAX_CHUNK_CHARS}
BlankLines(t) == {i \in LineEnds(t) : i + 1 \in LineEnds(t)}
Before(found) == Max({i - 1 : i \in found} \cup {0})
CutPoint(t, at) ==
    LET blank == IF "blank" \in at THEN Before(BlankLines(t)) ELSE 0
        line == IF "line" \in at THEN Before(LineEnds(t)) ELSE 0
    IN  IF blank >= MIN_CHUNK_CHARS THEN blank
        ELSE IF line >= MIN_CHUNK_CHARS THEN line ELSE MAX_CHUNK_CHARS
CutLong(t, at) ==
    LET cut[rest \in Seq(Nat \X Nat)] ==
            IF Len(rest) <= MAX_CHUNK_CHARS THEN IF Blank(rest) THEN <<>> ELSE <<rest>>
            ELSE LET c == CutPoint(rest, at)
                 IN  <<RStrip(SubSeq(rest, 1, c))>>
                     \o cut[LStrip(SubSeq(rest, c + 1, Len(rest)))]
    IN  cut[t]
SplitLong(ps, at) ==
    FlattenSeq([i \in DOMAIN ps |->
        LET texts == CutLong(ps[i].text, at)
        IN  [k \in DOMAIN texts |-> [ps[i] EXCEPT !.text = texts[k]]]])

\* Python.  The nodes of the tree: a function with its body, a statement.
BodyEnd(doc, n) ==
    Max({k \in n .. Len(doc) :
            /\ k = n \/ doc[k].kind \in {"text", Closing}
            /\ \A j \in n + 1 .. k : /\ doc[j].kind # Opening
                                     /\ j < k => doc[j].kind # Closing})
Defs(doc) == {n \in DOMAIN doc : doc[n].kind = Opening}
InBody(doc) == UNION {n .. BodyEnd(doc, n) : n \in Defs(doc)}
Statements(doc) ==
    {n \in DOMAIN doc \ InBody(doc) : doc[n].kind \in {"text", Closing}}
Nodes(doc) == Ascending(Defs(doc) \cup Statements(doc))

ModuleBlock(doc, a, b) ==
    LET t == IF a > b THEN <<>> ELSE Strip(TextOf(doc, From(a, b)))
    IN  IF t = <<>> THEN <<>> ELSE <<Passage(t, {}, a, b)>>
PythonBlocks(doc) ==
    LET nodes == Nodes(doc)
        EndOf(n) == IF n \in Defs(doc) THEN BodyEnd(doc, n) ELSE n
        Function(n) == Passage(TextOf(doc, From(n, BodyEnd(doc, n))), {n}, n, BodyEnd(doc, n))
        Past(i) == IF i = 0 THEN 1 ELSE EndOf(nodes[i]) + 1
        Piece(i) == ModuleBlock(doc, Past(i - 1), nodes[i] - 1)
                    \o (IF nodes[i] \in Defs(doc) THEN <<Function(nodes[i])>> ELSE <<>>)
    IN  FlattenSeq([i \in DOMAIN nodes |-> Piece(i)])
        \o ModuleBlock(doc, Past(Len(nodes)), Len(doc))
MergeModules(ps) ==
    LET step(acc, p) ==
            IF acc # <<>> /\ Last(acc).titles = {} /\ p.titles = {}
            THEN [acc EXCEPT ![Len(acc)].text = Glue(<<@, p.text>>), ![Len(acc)].last = p.last]
            ELSE Append(acc, p)
    IN  FoldLeft(step, <<>>, ps)
\* A file that does not compile is one block, however long.
PythonError(doc) ==
    LET t == TextOf(doc, From(1, Len(doc)))
    IN  IF Blank(t) THEN <<>> ELSE <<Passage(t, {}, 1, Len(doc))>>
Python(doc) ==
    LET blocks == NonBlank(SplitLong(MergeModules(PythonBlocks(doc)), {"blank", "line"}))
        whole == Strip(TextOf(doc, From(1, Len(doc))))
    IN  IF blocks = <<>> /\ whole # <<>> THEN <<Passage(whole, {}, 1, Len(doc))>> ELSE blocks

\* Shell.  A function goes to the brace that closes it, and not below its
\* second line; what is outside every function is one block.  Tiny pieces of
\* that block are put together, but for the rest of it, which is named apart.
Depth(doc, a, b) ==
    Cardinality({n \in a .. b : doc[n].kind = Opening})
    - Cardinality({n \in a .. b : doc[n].kind = Closing})
FunctionEnd(doc, n) ==
    LET closed == {k \in n + 1 .. Len(doc) : Depth(doc, n, k) <= 0}
    IN  IF closed = {} THEN Len(doc) ELSE Min(closed)
Shell(doc) ==
    LET heads == Ascending(Defs(doc))
        used == UNION {n .. FunctionEnd(doc, n) : n \in Defs(doc)}
        global == Strip(TextOf(doc, Ascending(DOMAIN doc \ used)))
        functions == [i \in DOMAIN heads |->
                        Passage(Strip(TextOf(doc, From(heads[i], FunctionEnd(doc, heads[i])))),
                                {heads[i]}, heads[i], FunctionEnd(doc, heads[i]))]
        blocks == (IF global = <<>> THEN <<>> ELSE <<Passage(global, {}, 1, Len(doc))>>)
                  \o functions
        step(acc, p) ==
            IF /\ acc # <<>> /\ Len(p.text) < MIN_CHUNK_CHARS
               /\ p.titles = {} /\ Last(acc).titles = {}
               /\ Last(p.text) # Last(global)
            THEN [acc EXCEPT ![Len(acc)].text = Glue(<<@, p.text>>)]
            ELSE Append(acc, p)
    IN  FoldLeft(step, <<>>, SplitLong(blocks, {"line"}))

\* LaTeX.  Comments go, a short preamble too, a section without a body is its
\* title; only long sections are cut, and only between sentences.
Uncommented(doc) ==
    [n \in DOMAIN doc |-> IF doc[n].kind = "note" THEN [kind |-> "note", len |-> 0]
                          ELSE doc[n]]
LaTeX(doc) ==
    LET section(s) ==
            LET t == Strip(TextOf(Uncommented(doc), s.lines))
                body == IF t = <<>> /\ s.title # 0 THEN LineText(doc, s.title) ELSE t
            IN  IF body = <<>> \/ (s.title = 0 /\ Defs(doc) # {} /\ Len(body) < MIN_CHUNK_CHARS)
                THEN <<>>
                ELSE <<Passage(body, Title(s.title), IF s.title = 0 THEN 1 ELSE s.title,
                               IF s.last = Len(doc) THEN s.last ELSE s.last + 1)>>
        Pieces(p) ==
            LET texts == IF Len(p.text) > MAX_CHUNK_CHARS
                         THEN SentencePieces(doc, p.text, MAX_CHUNK_CHARS) ELSE <<p.text>>
            IN  [i \in DOMAIN texts |-> [p EXCEPT !.text = texts[i]]]
        kept == EachSection(doc, section)
    IN  FlattenSeq([i \in DOMAIN kept |-> Pieces(kept[i])])

-----------------------------------------------------------------------------
(* Keys, elements, cells and rows: whole pieces, gathered up to a limit. *)

Batches(items, Size(_), limit) ==
    LET total(batch) == FoldLeft(LAMBDA sum, x : sum + Size(x), 0, batch)
        step(acc, x) == IF acc # <<>> /\ total(Last(acc)) + Size(x) <= limit
                        THEN [acc EXCEPT ![Len(acc)] = Append(@, x)]
                        ELSE Append(acc, <<x>>)
    IN  FoldLeft(step, <<>>, items)

Joined(ps) == Passage(Glue([i \in DOMAIN ps |-> ps[i].text]),
                      UNION {ps[i].titles : i \in DOMAIN ps}, 0, 0)
\* What is left at the end goes with the batch before it when it is tiny.
TailMerged(ps) ==
    IF Len(ps) > 1 /\ Len(Last(ps).text) < MIN_CHUNK_CHARS
    THEN Append(SubSeq(ps, 1, Len(ps) - 2), Joined(SubSeq(ps, Len(ps) - 1, Len(ps))))
    ELSE ps
TopLevel(doc) ==
    NonBlank(EachSection(doc, LAMBDA s :
        <<Passage(Strip(TextOf(doc, WithTitle(s))), Title(s.title), 0, 0)>>))
Gathered(ps) ==
    LET batches == Batches(ps, LAMBDA p : Len(p.text), TARGET_CHUNK_CHARS)
    IN  [i \in DOMAIN batches |-> Joined(batches[i])]

Yaml(doc) == SplitLong(TailMerged(Gathered(TopLevel(doc))), {"line"})
Json(doc) == Yaml(doc)
\* What the chunks of the mapping render of each item, in one piece: the notes
\* are the fields that none of them names.
Mapped(doc) == TopLevel(Uncommented(doc))
TomlBlocks(doc) == Gathered(TopLevel(Uncommented(doc)))
Toml(doc) == SplitLong(TomlBlocks(doc), {"line"})
Array(doc) == TailMerged(Gathered(TopLevel(doc)))
Jupyter(doc) == SplitLong(TopLevel(doc), {"line"})

\* Tables: every row, under the header of its table.  The rows are numbered.
Rows(doc, head, last) ==
    LET batches == Batches(From(head + 1, last), LAMBDA n : doc[n].len + 1, MAX_CHUNK_CHARS)
    IN  [i \in DOMAIN batches |->
            Passage(TextOf(doc, <<head>> \o batches[i]), {head},
                    Head(batches[i]) - head, Last(batches[i]) - head)]
Schema(doc, head) == Passage(LineText(doc, head), {}, 0, 0)
Csv(doc) == <<Schema(doc, 1)>> \o Rows(doc, 1, Len(doc))
Xlsx(doc) ==
    EachSection(doc, LAMBDA s : IF s.title = 0 THEN <<>>
                                ELSE <<Schema(doc, s.title)>> \o Rows(doc, s.title, s.last))
\* A statement longer than a passage is truncated; rows are not numbered.  A
\* table whose name ends like those FTS5 keeps for itself (_data, _content: a note
\* under it) is passed over, whoever's it is.
Internal(doc, n) == n < Len(doc) /\ doc[n + 1].kind = "note"
Sqlite(doc) ==
    EachSection(doc, LAMBDA s :
        IF s.title = 0 \/ Internal(doc, s.title) THEN <<>>
        ELSE LET batches == Batches(s.lines, LAMBDA n : doc[n].len + 1, MAX_CHUNK_CHARS)
                 schema == LineText(doc, s.title)
             IN  <<Passage(SubSeq(schema, 1, Min({Len(schema), MAX_CHUNK_CHARS})), {}, 0, 0)>>
                 \o [i \in DOMAIN batches |-> Passage(TextOf(doc, batches[i]), {}, 0, 0)])

\* HTML: what stands before the first heading goes under it, and a heading
\* with nothing under it goes.  The lines of a section are sentences.
HtmlContent(doc, section) ==
    Keep(section.lines, LAMBDA n : doc[n].kind \notin {"note", "blank"})
HtmlSections(doc) ==
    LET all == Sections(doc)
        under(i) == IF i = 2 THEN HtmlContent(doc, all[1]) \o HtmlContent(doc, all[2])
                    ELSE HtmlContent(doc, all[i])
        section(i) == [title |-> all[i].title, lines |-> under(i)]
    IN  IF Len(all) = 1 THEN <<section(1)>>
        ELSE [i \in 1 .. Len(all) - 1 |-> section(i + 1)]
HtmlPieces(doc, section) ==
    LET cuts == Batches(section.lines, LAMBDA n : doc[n].len + 1, MAX_CHUNK_CHARS + 1)
    IN  [k \in DOMAIN cuts |-> Passage(TextOf(doc, cuts[k]), Title(section.title), 0, 0)]
Html(doc) ==
    LET sections == HtmlSections(doc)
    IN  FlattenSeq([i \in DOMAIN sections |-> HtmlPieces(doc, sections[i])])

\* Legifrance: one passage for each article.  The stack of the sections is cut
\* to the depth of the new one and not below it: a section's first sibling
\* stays on it.
LegifrancePath(doc, n) ==
    LET above == {h \in Defs(doc) : h < n}
    IN  IF above = {} THEN {} ELSE {Min(above), Max(above)}
Legifrance(doc) ==
    LET articles == Ascending({n \in DOMAIN doc : doc[n].kind \in {"text", Closing}})
    IN  [i \in DOMAIN articles |->
            Passage(LineText(doc, articles[i]), LegifrancePath(doc, articles[i]), 0, 0)]
-----------------------------------------------------------------------------
(* The parser of each format, and its one step. *)

Parse(f, doc) ==
    CASE f \in TextFormats  -> Cut(doc, TextBlocks(f, doc))
      [] f = "plaintext"  -> ChunkLines(doc)
      [] f = "python"     -> Python(doc)
      [] f = "python_error" -> PythonError(doc)
      [] f = "shell"      -> Shell(doc)
      [] f = "latex"      -> LaTeX(doc)
      [] f = "yaml"       -> Yaml(doc)
      [] f = "json"       -> Json(doc)
      [] f = "toml"       -> Toml(doc)
      [] f = "array"      -> Array(doc)
      [] f = "mapped"     -> Mapped(doc)
      [] f = "jupyter"    -> Jupyter(doc)
      [] f = "csv"        -> Csv(doc)
      [] f = "xlsx"       -> Xlsx(doc)
      [] f = "sqlite"     -> Sqlite(doc)
      [] f = "html"       -> Html(doc)
      [] f = "legifrance" -> Legifrance(doc)

\* What a file of the format can be: a table has its header, JSON no comments.
\* (JSON that does not parse and a database that does not open have no passages.)
Fits(f, doc) ==
    /\ f \in {"csv", "xlsx", "sqlite", "json", "array", "mapped", "pdf", "djvu"} =>
          doc[1].kind = Opening
    /\ f = "sqlite" => \A n \in DOMAIN doc : doc[n].kind = "note" => doc[n - 1].kind = Opening
    /\ f \in {"json", "array"} => \A n \in DOMAIN doc : doc[n].kind # "note"
    /\ f = "legifrance" => \A n \in DOMAIN doc : doc[n].kind # "note"

Init ==
    \E f \in Formats, doc \in Documents :
        Fits(f, doc) /\ reading = [format |-> f, document |-> doc, read |-> FALSE,
                                  passages |-> <<>>]
Next ==
    /\ ~reading.read
    /\ reading' = [reading EXCEPT !.read = TRUE,
                                  !.passages = Parse(reading.format, reading.document)]
-----------------------------------------------------------------------------
(* Properties. *)

\* Each unit of the line is in the text of a passage, or the line is a heading
\* that a passage is filed under.
Held(doc, ps, n) ==
    \/ \A i \in 1 .. doc[n].len : \E k \in DOMAIN ps : <<n, i>> \in Range(ps[k].text)
    \/ \E k \in DOMAIN ps : n \in ps[k].titles

\* The lines of a paragraph: a heading is none, but in rtf, which has no headings.
Paragraph(f, doc, n) ==
    LET breaks == IF f = "rtf" THEN {"blank"} ELSE {Opening, "blank"}
    IN  {m \in DOMAIN doc : \A k \in Min({m, n}) .. Max({m, n}) : doc[k].kind \notin breaks}
BareHeading(doc, n) ==
    /\ doc[n].kind = Opening
    /\ \A m \in n + 1 .. Len(doc) :
          \/ doc[m].kind \in {"blank", "note"}
          \/ \E k \in n + 1 .. m : doc[k].kind = Opening

\* A paragraph of 20 characters or less is dropped beside longer ones.
Dropped(f, doc, n) ==
    \/ /\ f \in {"markdown", "pdf", "djvu", "rtf"} /\ Paragraph(f, doc, n) # {}
       /\ Len(TextOf(doc, Ascending(Paragraph(f, doc, n)))) <= SHORT
    \/ f \in {"docx", "odt", "fb2", "epub", "mobi"} /\ doc[n].len <= SHORT

\* No heading between them.
Together(doc, m, n) == \A k \in Min({m, n}) + 1 .. Max({m, n}) : doc[k].kind # Opening
ShortPreamble(doc, n) ==
    /\ Defs(doc) # {} /\ n < Min(Defs(doc))
    /\ Len(Strip(TextOf(Uncommented(doc), From(1, Min(Defs(doc)) - 1)))) < MIN_CHUNK_CHARS

\* What else the parsers are known to leave out: headings with nothing under
\* them; in fb2 what is in no section; comments, the fields a mapping does not
\* name, and in a book what is beside the paragraphs of a chapter; the breaks
\* between pages; the statements of a Python file, but of one that has nothing
\* else; a short preamble; tables named like FTS5's, and the end of a long
\* statement.
LeftOut(f, doc, n) ==
    \/ Dropped(f, doc, n)
    \/ f \in {"docx", "odt", "fb2", "html", "legifrance"} /\ BareHeading(doc, n)
    \/ f = "fb2" /\ \A h \in Defs(doc) : n < h
    \/ f \in {"html", "latex", "toml", "mapped"} /\ doc[n].kind = "note"
    \/ /\ f \in {"epub", "mobi"} /\ doc[n].kind = "note"
       /\ \E m \in DOMAIN doc : doc[m].kind \notin {"note", "blank"} /\ Together(doc, m, n)
    \/ f \in {"pdf", "djvu"} /\ doc[n].kind = Opening
    \/ f = "python" /\ n \in Statements(doc)
                     /\ \E m \in DOMAIN doc : doc[m].kind \in {Opening, "note"}
    \/ f = "latex" /\ ShortPreamble(doc, n)
    \/ f = "sqlite" /\ doc[n].kind = Opening /\ doc[n].len > MAX_CHUNK_CHARS
    \/ f = "sqlite" /\ \E h \in 1 .. n : Internal(doc, h) /\ Together(doc, h, n)

\* The lines a passage points at: those of a page; those of rows, with the
\* header.
Cited(f, doc, p) ==
    CASE f \in {"pdf", "djvu"} -> {n \in DOMAIN doc : PageOf(doc, n) \in p.first .. p.last}
      [] f \in {"csv", "xlsx"} ->
            p.titles \cup UNION {h + p.first .. h + p.last : h \in p.titles}
      [] OTHER -> p.first .. p.last
\* Known to be wrong: after a line longer than a passage, what is cut off it
\* takes the numbers of the lines after it; the passage of a bare heading has
\* its range on the next line; after an empty page, djvu is a page behind.
LinesOf(p) == {p.text[i][1] : i \in Solid(p.text)}
RightlyCited(f, doc, p) ==
    \/ p.last = 0
    \/ LinesOf(p) \subseteq Cited(f, doc, p)
    \/ f = "plaintext" /\ \E n \in DOMAIN doc : n <= Max(LinesOf(p)) /\ doc[n].len > MAX_CHUNK_CHARS
    \/ f = "markdown" /\ \E n \in LinesOf(p) : BareHeading(doc, n)
    \/ f = "djvu" /\ \E n \in DOMAIN doc : n < Max(LinesOf(p)) /\ BareHeading(doc, n)
\* The formats whose passages stand under one heading, or belong to one table, and
\* legifrance, where it is a path of sections.  Known to be wrong: the first
\* section stays on the path of those after it.  (In html what stands before
\* the first heading goes under it; a shell function may hold another; the
\* other formats put several keys or items in one passage.)
OneHeading == {"markdown", "docx", "odt", "fb2", "epub", "python", "latex", "jupyter", "csv", "xlsx",
               "legifrance"}
RightlyTitled(f, doc, p) ==
    f \in OneHeading =>
        \A h \in p.titles :
            \/ \E n \in LinesOf(p) : n >= h /\ \A k \in h + 1 .. n : doc[k].kind # Opening
            \/ f = "legifrance" /\ h = Min(Defs(doc))

\* A parser leaves nothing of a file out that it is not known to leave out, and
\* each passage points at the lines, and is filed under the heading, its text
\* comes from: what is in a file can be found, and is cited where it stands.
\* The cuts and merges of paragraphs, lines, blocks, keys and rows by length
\* (rtfm/parsers, _chunking.py) are what could lose a piece or its place.
PassagesHoldTheFile ==
    LET f == reading.format
        doc == reading.document
        ps == reading.passages
    IN  reading.read =>
        /\ \A n \in DOMAIN doc : Held(doc, ps, n) \/ LeftOut(f, doc, n)
        /\ \A i \in DOMAIN ps : RightlyCited(f, doc, ps[i]) /\ RightlyTitled(f, doc, ps[i])

\* The module code of a Python file is found: "Module-level code (imports,
\* constants, top-level statements) is grouped into an "module" chunk"
\* (rtfm/parsers/python.py).
ModuleCodeKept ==
    reading.read /\ reading.format = "python" =>
        \A n \in Statements(reading.document) :
            Held(reading.document, reading.passages, n)

\* The rows of every table of a database are found: "data chunks covering **every
\* row**" (rtfm/parsers/sqlite_parser.py).
EveryRow ==
    reading.read /\ reading.format = "sqlite" =>
        \A n \in DOMAIN reading.document :
            reading.document[n].kind \in {"text", Closing} =>
                Held(reading.document, reading.passages, n)

\* What two parsers say of themselves that they keep.
PromisesKept == ModuleCodeKept /\ EveryRow
=============================================================================
