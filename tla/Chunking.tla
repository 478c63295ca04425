------------------------------ MODULE Chunking -------------------------------
(***************************************************************************)
(* From the layout of a document to its knowledge chunks: PageStructurer   *)
(* (worker/ingestion/structurer.py) and Chunker (worker/ingestion/         *)
(* chunker.py), one action for each step of the import.                    *)
(*                                                                         *)
(* A character is its class and an identity, so that one can say where the *)
(* characters of the document have gone; what the code inserts itself has  *)
(* identity 0.  Markers such as "[HEADING]" and "[formula]" are left out.  *)
(***************************************************************************)
EXTENDS Integers, Sequences, SequencesExt, FiniteSetsExt

CONSTANTS
    Documents,       \* sequences of pages, a page being a sequence of blocks
    QuestionPages,   \* pages of the exam questions handed to the chunker
    target_chars, max_chars, overlap_chars, min_merge_chars

Class == {"letter", "stop", "newline", "blank"}
Char == [class : Class, id : Nat]

\* level: what _is_heading makes of the block, 0 if it is no heading; tagged:
\* the parser has marked it as one.
Block ==
    [kind : {"text", "formula", "table", "figure"}, level : 0 .. 4, tagged : BOOLEAN,
     text : Seq(Char)]

\* Only a text block is a heading (structure does not ask _is_heading of the
\* other kinds), and a text does not have the same character at two places:
\* that is what identities are for.  The target is positive, or HardCut would
\* not advance.
ASSUME ChunkingAssumption ==
    /\ \A document \in Documents :
          /\ document \in Seq(Seq(Block))
          /\ \A p \in DOMAIN document : \A b \in DOMAIN document[p] :
                /\ document[p][b].kind # "text" => document[p][b].level = 0
                /\ \A n, m \in DOMAIN document[p][b].text :
                      document[p][b].text[n] = document[p][b].text[m] => n = m
    /\ target_chars \in Nat \ {0}
    /\ max_chars \in Nat /\ max_chars >= target_chars
    /\ overlap_chars \in Nat
    /\ min_merge_chars \in Nat

VARIABLES
    layout,      \* the parsed document
    direct,      \* the chunker is given the parsed pages, not structured ones
    pc,          \* the step that comes next
    structured,  \* for each page its sections
    segments,    \* the result of _flatten_pages
    pieces,      \* ... of _split_segments
    merged,      \* ... of _merge_short_chunks
    chunks       \* ... of _add_overlap and _finalize

results == <<structured, segments, pieces, merged, chunks>>
chunkingVars == <<layout, direct, pc, results>>

-----------------------------------------------------------------------------
(* Texts                                                                   *)

IsWhite(char) == char.class \in {"newline", "blank"}
IsBreak(char) == char.class \in {"stop", "newline"}
Newline == [class |-> "newline", id |-> 0]

Solid(text) == {n \in DOMAIN text : ~IsWhite(text[n])}

Strip(text) ==
    IF Solid(text) = {} THEN <<>>
    ELSE SubSeq(text, Min(Solid(text)), Max(Solid(text)))

LStrip(text) ==
    LET kept == {n \in DOMAIN text : text[n].class = "letter"}
    IN  IF kept = {} THEN <<>> ELSE SubSeq(text, Min(kept), Len(text))

IsBlank(text) == Strip(text) = <<>>

\* The sequences one after the other.
Concat(seqs) ==
    LET upTo[n \in 0 .. Len(seqs)] == IF n = 0 THEN <<>> ELSE upTo[n - 1] \o seqs[n]
    IN  upTo[Len(seqs)]

-----------------------------------------------------------------------------
(* PageStructurer.structure                                                *)

\* No section yet has no heading either.
NoSection == [heading |-> <<>>, paragraphs |-> <<>>, formulas |-> <<>>]

\* One block: a heading of level 1 or 2 opens a section, and closes the current
\* one if that has paragraphs; everything else becomes a paragraph, a formula
\* is kept as a formula too, and tables and figures are put aside.
AddBlock(page, block) ==
    CASE block.kind \in {"table", "figure"} -> page
      [] block.level \in {1, 2} ->
           [sections |-> IF page.current.paragraphs # <<>>
                         THEN Append(page.sections, page.current) ELSE page.sections,
            current |-> [NoSection EXCEPT !.heading = block.text]]
      [] block.kind = "formula" ->
           [page EXCEPT !.current =
              [heading |-> @.heading, paragraphs |-> Append(@.paragraphs, block.text),
               formulas |-> Append(@.formulas, block.text)]]
      [] OTHER -> [page EXCEPT !.current.paragraphs = Append(@, block.text)]

SectionsOf(blocks) ==
    LET page[n \in 0 .. Len(blocks)] ==
            IF n = 0 THEN [sections |-> <<>>, current |-> NoSection]
                     ELSE AddBlock(page[n - 1], blocks[n])
        end == page[Len(blocks)]
    IN  IF end.current = NoSection THEN end.sections ELSE Append(end.sections, end.current)

-----------------------------------------------------------------------------
(* Chunker: pages to segments                                              *)

Segment(text, page, exam, heading, material) ==
    [text |-> text, page |-> page, exam |-> exam, heading |-> heading, material |-> material]

\* _flatten_pages looks for a page number that an exam question does not have,
\* and files all of them under page 0; pages are numbered from 1.
InExamRange(page) == page = 0 /\ page \in QuestionPages

SegmentsOfSection(section, page) ==
    LET plain(text, heading, material) == Segment(text, page, FALSE, heading, material)
    IN  (IF section.heading = <<>> THEN <<>> ELSE <<plain(section.heading, TRUE, "text")>>)
        \o Concat([n \in DOMAIN section.paragraphs |->
                      IF IsBlank(section.paragraphs[n]) THEN <<>>
                      ELSE <<plain(section.paragraphs[n], FALSE, "text")>>])
        \o [n \in DOMAIN section.formulas |-> plain(section.formulas[n], FALSE, "formula")]

SegmentsOfStructured(sections, page) ==
    Concat([n \in DOMAIN sections |-> SegmentsOfSection(sections[n], page)])

SegmentsOfLayout(blocks, page) ==
    LET exam == InExamRange(page)
        material(block) == CASE block.kind = "formula" -> "formula"
                             [] exam -> "exam"
                             [] OTHER -> "text"
    IN  Concat([n \in DOMAIN blocks |->
                   IF IsBlank(blocks[n].text) THEN <<>>
                   ELSE <<Segment(blocks[n].text, page, exam, blocks[n].tagged,
                                  material(blocks[n]))>>])

-----------------------------------------------------------------------------
(* Chunker: segments to pieces                                             *)

\* Mutation: a cut every max_chars, each of target_chars.
HardCutSwapped(text) ==
    [k \in 1 .. (Len(text) + max_chars - 1) \div max_chars |->
        LET from == (k - 1) * max_chars
        IN  SubSeq(text, from + 1, Min({from + target_chars, Len(text)}))]

\* Pieces of a text without any breakpoint: a cut every target_chars, each of
\* up to max_chars.
HardCut(text) ==
    [k \in 1 .. (Len(text) + target_chars - 1) \div target_chars |->
        LET from == (k - 1) * target_chars
        IN  SubSeq(text, from + 1, Min({from + max_chars, Len(text)}))]

Breakpoints(text) == {n \in DOMAIN text : IsBreak(text[n])}

\* Mutation: without a breakpoint near the target, all the rest.
BestBreakOrEnd(text, pos) ==
    LET near == {b \in Breakpoints(text) :
                    pos + target_chars <= b /\ b <= pos + max_chars}
    IN  IF near # {} THEN Min(near) ELSE Len(text)

\* The first breakpoint between target and maximum, else the first one at all
\* before twice the target, else twice the target.
BestBreak(text, pos) ==
    LET limit == Min({pos + 2 * target_chars, Len(text)})
        near == {b \in Breakpoints(text) :
                    pos + target_chars <= b /\ b <= pos + max_chars}
        early == {b \in Breakpoints(text) : pos < b /\ b < limit}
    IN  IF near # {} THEN Min(near) ELSE IF early # {} THEN Min(early) ELSE limit

SoftCut(text) ==
    LET pos[k \in 0 .. Len(text)] == IF k = 0 THEN 0 ELSE BestBreak(text, pos[k - 1])
        piece(k) == Strip(SubSeq(text, pos[k - 1] + 1, pos[k]))
    IN  Concat([k \in DOMAIN text |-> IF piece(k) = <<>> THEN <<>> ELSE <<piece(k)>>])

Cut(text) == IF Breakpoints(text) = {} THEN HardCut(text) ELSE SoftCut(text)

SplitSegment(segment) ==
    IF segment.exam \/ Len(segment.text) <= max_chars THEN <<segment>>
    ELSE LET texts == Cut(segment.text)
         IN  [k \in DOMAIN texts |-> [segment EXCEPT !.text = texts[k]]]

SplitSegments(segs) == Concat([n \in DOMAIN segs |-> SplitSegment(segs[n])])

-----------------------------------------------------------------------------
(* Chunker: pieces to chunks                                               *)

\* Mutation: the page is not looked at.
MayMergePages(buffer, piece) ==
    /\ Len(buffer.text) < min_merge_chars
    /\ ~buffer.heading /\ ~buffer.exam /\ ~piece.exam
    /\ buffer.material = piece.material
    /\ Len(buffer.text) + Len(piece.text) <= max_chars

\* The buffer must not be a heading; the piece may be one.
MayMerge(buffer, piece) ==
    /\ Len(buffer.text) < min_merge_chars
    /\ ~buffer.heading /\ ~buffer.exam /\ ~piece.exam
    /\ buffer.page = piece.page
    /\ buffer.material = piece.material
    /\ Len(buffer.text) + Len(piece.text) <= max_chars

\* Formulas are joined by a newline.
Joined(buffer, piece) ==
    [buffer EXCEPT !.text =
        @ \o (IF buffer.material = "formula" THEN <<Newline>> ELSE <<>>) \o piece.text]

Kept(piece) == IF IsBlank(piece.text) THEN <<>> ELSE <<piece>>

MergeNext(state, piece) ==
    IF MayMerge(state.buffer, piece)
    THEN [state EXCEPT !.buffer = Joined(@, piece)]
    ELSE [done |-> state.done \o Kept(state.buffer), buffer |-> piece]

MergeShortChunks(raw) ==
    LET state[n \in DOMAIN raw] ==
            IF n = 1 THEN [done |-> <<>>, buffer |-> raw[1]]
                     ELSE MergeNext(state[n - 1], raw[n])
        end == state[Len(raw)]
    IN  IF raw = <<>> THEN <<>> ELSE end.done \o Kept(end.buffer)

\* The end of a text that the next one starts with: without leading
\* punctuation, unless less than half would be left.
OverlapOf(text) ==
    LET tail == SubSeq(text, Max({1, Len(text) - overlap_chars + 1}), Len(text))
    IN  IF Len(LStrip(tail)) < overlap_chars \div 2 THEN tail ELSE LStrip(tail)

AddOverlap(list) ==
    IF overlap_chars = 0 THEN list
    ELSE [n \in DOMAIN list |->
            IF n = 1 THEN list[n]
            ELSE [list[n] EXCEPT !.text = OverlapOf(list[n - 1].text) \o <<Newline>> \o @]]

-----------------------------------------------------------------------------
(* The specification                                                       *)

ChunkingInit ==
    /\ layout \in Documents
    /\ direct \in BOOLEAN
    /\ pc = IF direct THEN "flatten" ELSE "structure"
    /\ structured = <<>> /\ segments = <<>> /\ pieces = <<>>
    /\ merged = <<>> /\ chunks = <<>>

StepsTo(from, to) == pc = from /\ pc' = to /\ UNCHANGED <<layout, direct>>

Structure ==
    /\ StepsTo("structure", "flatten")
    /\ structured' = [p \in DOMAIN layout |-> SectionsOf(layout[p])]
    /\ UNCHANGED <<segments, pieces, merged, chunks>>

FlattenPages ==
    /\ StepsTo("flatten", "split")
    /\ segments' = Concat([p \in DOMAIN layout |->
                       IF direct THEN SegmentsOfLayout(layout[p], p)
                                 ELSE SegmentsOfStructured(structured[p], p)])
    /\ UNCHANGED <<structured, pieces, merged, chunks>>

Split ==
    /\ StepsTo("split", "merge")
    /\ pieces' = SplitSegments(segments)
    /\ UNCHANGED <<structured, segments, merged, chunks>>

Merge ==
    /\ StepsTo("merge", "overlap")
    /\ merged' = MergeShortChunks(pieces)
    /\ UNCHANGED <<structured, segments, pieces, chunks>>

Overlap ==
    /\ StepsTo("overlap", "done")
    /\ chunks' = AddOverlap(merged)
    /\ UNCHANGED <<structured, segments, pieces, merged>>

ChunkingNext == Structure \/ FlattenPages \/ Split \/ Merge \/ Overlap

ChunkingSpec == ChunkingInit /\ [][ChunkingNext]_chunkingVars

-----------------------------------------------------------------------------
(* Properties                                                              *)

Ids(text) == {text[n].id : n \in Solid(text)} \ {0}

\* The texts of a page that must be found again: headings of the levels 1 and 2
\* may be dropped, tables and figures are (when the page is structured).
Searchable(block) == direct \/ block.kind = "formula" \/ (block.kind = "text" /\ block.level \notin {1, 2})

\* Whatever is cut, stripped, merged and dropped on the way: no character of a
\* paragraph or formula is lost, all are in chunks of their own page, and what
\* a chunk has of other pages is no more than the overlap.
NothingLost ==
    pc = "done" =>
        LET chunksOf(p) == {n \in DOMAIN chunks : chunks[n].page = p}
            ofPage(p) == UNION {Ids(layout[p][b].text) : b \in DOMAIN layout[p]}
        IN  \A p \in DOMAIN layout :
               /\ \A b \in DOMAIN layout[p] : Searchable(layout[p][b]) =>
                     Ids(layout[p][b].text) \subseteq UNION {Ids(chunks[n].text) : n \in chunksOf(p)}
               /\ \A n \in chunksOf(p) :
                     LET own == Len(chunks[n].text) - Len(merged[n].text)
                     IN  \A m \in Solid(chunks[n].text) :
                            chunks[n].text[m].id \notin ofPage(p) \union {0} => m < own /\ own <= overlap_chars + 1

\* The pieces of a text follow each other: each begins after the one before it
\* begins, and none leaves anything but white space between them; where there
\* are breakpoints they do not repeat anything either.  (The piece of an empty
\* text, which only a formula can be, begins nowhere.)
PiecesFollow ==
    pc = "merge" =>
        \A s \in {n \in DOMAIN segments : segments[n].text # <<>>} :
            LET text == segments[s].text
                cut == SplitSegment(segments[s])
                starts(k) == CHOOSE n \in DOMAIN text : text[n] = cut[k].text[1]
                ends(k) == starts(k) + Len(cut[k].text) - 1
            IN  \A k \in DOMAIN cut :
                   /\ cut[k].text = SubSeq(text, starts(k), ends(k))
                   /\ k > 1 => /\ starts(k - 1) < starts(k)
                               /\ IsBlank(SubSeq(text, ends(k - 1) + 1, starts(k) - 1))
                               /\ Breakpoints(text) # {} => ends(k - 1) < starts(k)

\* _merge_short_chunks leaves no two neighbours that may be merged, though it
\* looks at each pair once and from left to right.  Only a blank piece (a blank
\* formula, or white space that a cut without breakpoints has put alone) that it
\* drops can bring two such neighbours together.  And nothing becomes longer than
\* the maximum, or than twice the target, where a cut goes to a breakpoint beyond
\* the maximum (and a newline and the overlap).
WellSized ==
    /\ pc = "overlap" /\ (\A n \in DOMAIN pieces : ~IsBlank(pieces[n].text)) =>
          \A n \in DOMAIN merged \ {1} : ~MayMerge(merged[n - 1], merged[n])
    /\ pc = "done" =>
          \A n \in DOMAIN chunks :
              Len(chunks[n].text) <= Max({max_chars + 1, 2 * target_chars}) + overlap_chars + 1

\* "Each block should not exceed max_chars plus tolerance" (test_chunker.py).
WithinMaximum ==
    pc = "done" =>
        \A n \in DOMAIN chunks : Len(chunks[n].text) <= max_chars + overlap_chars + 1

=============================================================================
