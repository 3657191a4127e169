----------------------------- MODULE PageChunks -----------------------------
(***************************************************************************)
(* From the tagged segments of a partset to the pages of its part PDFs: a  *)
(* user sets page breaks and line spacing on the preview page, then a      *)
(* generation cuts the segments out of the score's pages (one process per  *)
(* page), collects every part's segments, divides them into pages, and     *)
(* draws each part on letter and on A4 paper (one process per PDF).  The   *)
(* preview divides the same segments into pages in the browser.            *)
(*                                                                         *)
(* Lengths on paper are in units of 1/600 inch, half a pixel of the        *)
(* highres images; positions on a score page in tenths of a percent, as    *)
(* the editor rounds them; line spacing in steps of the preview's slider,  *)
(* 1/40 inch.  Widths, labels, headers and fonts are left out.             *)
(*                                                                         *)
(* A part is the set of names it plays, {n} unless it is a combined one.   *)
(* The names in Cues are those that end in " cue".                         *)
(***************************************************************************)
EXTENDS Integers, SequencesExt

CONSTANTS
  Names, Cues, All,     \* instruments, those that are cues, and the tag "all"
  Documents,            \* what the segment editor may have left
  Spacings,             \* positions of the slider
  MaxEdits              \* bound: changes on the preview page

\* A tagged segment.
Row == [page : Nat, top : 0..1000, bottom : 0..1000, tags : SUBSET (Names \cup {All})]

\* orientation, the height in pixels of every page of the score, the tagged
\* segments ordered by page and top, and the combined parts.
ASSUME PageChunksAssumption ==
  /\ Cues \subseteq Names /\ All \notin Names /\ MaxEdits \in Nat /\ Spacings \subseteq 0..46
  /\ \A d \in Documents :
       /\ d.orientation \in {"portrait", "landscape"}
       /\ d.rows \in Seq(Row)
       /\ \A p \in DOMAIN d.px : d.px[p] \in Nat \ {0}
       /\ \A i \in DOMAIN d.rows : d.rows[i].tags # {} /\ d.rows[i].top <= d.rows[i].bottom
       /\ \A P \in d.combined : P \subseteq Names

VARIABLES
  doc,        \* the document
  breaks,     \* part -> positions in the part a page ends after, from 0
  spacing,    \* part -> line spacing
  edits,
  phase,      \* "edit", "cut", "paste", "done", "failed"
  height,     \* segment -> pixels of its cut image, 0 before it is cut
  pdf         \* <<part, paper>> -> whether it is drawn, and its pages

layoutVars == <<doc, breaks, spacing, edits, phase, height, pdf>>

Papers == {"letter", "a4"}

(***************************************************************************)
(* The paper (paste_layout.py).                                            *)
(***************************************************************************)
PageSize(paper) == IF paper = "letter" THEN <<5100, 6600>> ELSE <<4962, 7014>>
PageHeight(paper, orientation) ==
  PageSize(paper)[IF orientation = "landscape" THEN 1 ELSE 2]

FooterBand == 150
ContentStartOffset == 420

\* Top and bottom margins, measured from the bottom of the page.
Margins(paper, orientation) ==
  LET h == PageHeight(paper, orientation)
  IN IF orientation = "landscape" THEN [bottom |-> 240, top |-> h - 300]
     ELSE [bottom |-> (h - 6300) \div 2, top |-> (h - 6300) \div 2 + 6300]

ContentHeight(paper, orientation) ==
  LET m == Margins(paper, orientation)
  IN (m.top - ContentStartOffset) - (m.bottom + FooterBand)

\* Letter in landscape is taller than A4: the A4 zone is centred on it.
PackingPad(paper, orientation) ==
  IF paper = "letter" /\ orientation = "landscape"
  THEN (ContentHeight("letter", "landscape") - ContentHeight("a4", "landscape")) \div 2 ELSE 0
PackingBand(paper, orientation) ==
  ContentHeight(paper, orientation) - 2 * PackingPad(paper, orientation)

\* In pixels, truncated; in landscape the float product falls just short of 1926.
PageChunkMax(orientation) ==
  LET m == Min({ContentHeight(paper, orientation) : paper \in Papers})
  IN IF orientation = "landscape" THEN m \div 2 - 1 ELSE m \div 2

(***************************************************************************)
(* Cutting (cut_segments.py).                                              *)
(***************************************************************************)
\* Truncated; three float products fall just short of their value.
Percent2Abs(p, scale) ==
  (p * scale) \div 1000 - IF scale = 3300 /\ p \in {290, 570, 580} THEN 1 ELSE 0

SegmentCutHeight(row, px) ==
  LET top == Percent2Abs(row.top, px) IN Max({Percent2Abs(row.bottom, px), top + 1}) - top

(***************************************************************************)
(* The parts (cutpaste.py).  A segment of a page that is not in the        *)
(* partset any more drops out of the join of pages and segments.           *)
(***************************************************************************)
Segments(d) == {i \in DOMAIN d.rows : d.rows[i].page \in DOMAIN d.px}
Tagged(d, n) == {i \in Segments(d) : n \in d.rows[i].tags}

\* Mutant: a segment for all goes to the parts that have none of their own.
AllForOthers(d) ==
  [P \in {{n} : n \in {m \in Names : Tagged(d, m) # {}}} |-> UNION {Tagged(d, n) : n \in P}]

\* build_part_segment_map: "all" goes to every part that has a segment.
SegmentMap(d) ==
  [P \in {{n} : n \in {m \in Names : Tagged(d, m) # {}}} |->
     Tagged(d, All) \cup UNION {Tagged(d, n) : n \in P}]

\* apply_combined_parts, and the segments of a part in their order.
PartSegments(d, P) ==
  LET of == UNION {SegmentMap(d)[{n}] : n \in {m \in P : {m} \in DOMAIN SegmentMap(d)}}
  IN FoldLeftDomain(LAMBDA merged, i : IF i \in of THEN Append(merged, i) ELSE merged, <<>>, d.rows)

HasSegments(d, P) == P \in DOMAIN SegmentMap(d) \cup d.combined

ComputeCues(d, P) ==
  LET of(ns) == UNION {SegmentMap(d)[{n}] : n \in {m \in ns : {m} \in DOMAIN SegmentMap(d)}}
  IN of(P \cap Cues) \ of(P \ Cues)

\* The part rows: a name of any committed segment, and the combined parts.
PartRows(d) ==
  {{n} : n \in Names \cap UNION {d.rows[i].tags : i \in DOMAIN d.rows}} \cup d.combined

(***************************************************************************)
(* The division into pages, in Python and in the browser.                  *)
(***************************************************************************)
\* 300 pixels to the inch: round() takes a half to the even number, Math.round up.
SpacingPx(k) == LET low == (15 * k) \div 2
                IN IF k % 2 = 0 THEN low ELSE low + (low % 2)
\* Mutant: fortieths of an inch taken for pixels.
SpacingUnscaled(k) == k
SpacingHighres(k) == (15 * k + 1) \div 2

\* Mutant: the space between the segments is forgotten.
StackWithoutSpace(chunk, heights, gap) == FoldLeft(LAMBDA sum, i : sum + heights[i], 0, chunk)

ChunkStackHeight(chunk, heights, gap) ==
  FoldLeft(LAMBDA sum, i : sum + heights[i], 0, chunk) + gap * Max({Len(chunk) - 1, 0})

\* Mutant: a page that would be filled exactly is not.
LeaveRoom(current, next, heights, gap, max) ==
  current = <<>> \/ ChunkStackHeight(Append(current, next), heights, gap) < max

Fits(current, next, heights, gap, max) ==
  current = <<>> \/ ChunkStackHeight(Append(current, next), heights, gap) <= max

\* i counts from 0; no page is left empty by a break before the first segment.
BreakAfterPrevious(i, brks, current) == i - 1 \in brks /\ current # <<>>

\* The k-th segment goes on the current page or begins the next one.
Place(done, k, segments, heights, gap, brks, max) ==
  LET broken == BreakAfterPrevious(k - 1, brks, done.current)
      chunks == IF broken THEN Append(done.chunks, done.current) ELSE done.chunks
      current == IF broken THEN <<>> ELSE done.current
  IN IF Fits(current, segments[k], heights, gap, max)
     THEN [chunks |-> chunks, current |-> Append(current, segments[k])]
     ELSE [chunks |-> Append(chunks, current), current |-> <<segments[k]>>]

Divide(segments, heights, gap, brks, max) ==
  LET end == FoldLeftDomain(LAMBDA done, k : Place(done, k, segments, heights, gap, brks, max),
                            [chunks |-> <<>>, current |-> <<>>], segments)
  IN IF end.current = <<>> THEN end.chunks ELSE Append(end.chunks, end.current)

Chunks(P) == Divide(PartSegments(doc, P), height, SpacingPx(spacing[P]), breaks[P],
                    PageChunkMax(doc.orientation))

\* The preview measures the same cuts of the highres pages.
CutHeights(d) == [i \in DOMAIN d.rows |->
                    IF i \in Segments(d) THEN SegmentCutHeight(d.rows[i], d.px[d.rows[i].page])
                                         ELSE 0]
PreviewChunks(P) ==
  Divide(PartSegments(doc, P), CutHeights(doc), SpacingHighres(spacing[P]), breaks[P],
         PageChunkMax(doc.orientation))

(***************************************************************************)
(* Drawing (paste_segments.py): from the top of the band down, an image    *)
(* that does not fit is scaled to the room that is left.                   *)
(***************************************************************************)
\* Mutant: an image that does not fit is an error.
RaiseTall(page, j, chunk, heights, k, cues) ==
  LET h == Min({2 * heights[chunk[j]], page.room})
  IN [images |-> Append(page.images, [seg |-> chunk[j], height |-> h, cue |-> chunk[j] \in cues]),
      room |-> page.room - h - IF j < Len(chunk) THEN 15 * k ELSE 0,
      overflow |-> page.overflow \/ 2 * heights[chunk[j]] > page.room]

AddImage(page, j, chunk, heights, k, cues) ==
  LET h == Min({2 * heights[chunk[j]], page.room})
  IN [images |-> Append(page.images, [seg |-> chunk[j], height |-> h, cue |-> chunk[j] \in cues]),
      room |-> page.room - h - IF j < Len(chunk) THEN 15 * k ELSE 0,
      overflow |-> page.overflow \/ (2 * heights[chunk[j]] > page.room /\ page.room <= 0)]

AddImages(chunk, heights, k, band, cues) ==
  FoldLeftDomain(LAMBDA page, j : AddImage(page, j, chunk, heights, k, cues),
                 [images |-> <<>>, room |-> band, overflow |-> FALSE], chunk)

CreatePart(P, paper) ==
  LET chunks == Chunks(P)
  IN [j \in DOMAIN chunks |-> AddImages(chunks[j], height, spacing[P], PackingBand(paper, doc.orientation),
                                        ComputeCues(doc, P))]

(***************************************************************************)
(* The steps.                                                              *)
(***************************************************************************)
LayoutInit ==
  /\ doc \in Documents
  /\ breaks = [P \in PartRows(doc) |-> {}]
  /\ spacing = [P \in PartRows(doc) |-> 4]
  /\ edits = 0
  /\ phase = "edit"
  /\ height = [i \in DOMAIN doc.rows |-> 0]
  /\ pdf = [job \in PartRows(doc) \X Papers |-> [drawn |-> FALSE, pages |-> <<>>]]

\* The preview lists the parts that have segments; save_layout stores all of it.
Edit(P) == /\ phase = "edit" /\ HasSegments(doc, P)
           /\ edits < MaxEdits /\ edits' = edits + 1
           /\ UNCHANGED <<doc, phase, height, pdf>>

ToggleBreak(P, i) ==
  /\ Edit(P)
  /\ i \in 0..Len(PartSegments(doc, P)) - 1
  /\ breaks' = [breaks EXCEPT ![P] = (@ \ {i}) \cup ({i} \ @)]
  /\ UNCHANGED spacing

SetSpacing(P, k) == /\ Edit(P)
                    /\ spacing' = [spacing EXCEPT ![P] = k]
                    /\ UNCHANGED breaks

Generate == /\ phase = "edit"
            /\ phase' = "cut"
            /\ UNCHANGED <<doc, breaks, spacing, edits, height, pdf>>

Uncut(p) == {i \in Segments(doc) : doc.rows[i].page = p /\ height[i] = 0}

\* One process cuts the segments of one page.
CutPage(p) ==
  /\ phase = "cut" /\ Uncut(p) # {}
  /\ height' = [i \in DOMAIN height |->
                  IF i \in Uncut(p) THEN SegmentCutHeight(doc.rows[i], doc.px[p]) ELSE height[i]]
  /\ UNCHANGED <<doc, breaks, spacing, edits, phase, pdf>>

\* When all are cut; a part row without segments is an error.
Paste == /\ phase = "cut"
         /\ \A p \in DOMAIN doc.px : Uncut(p) = {}
         /\ phase' = IF \E P \in PartRows(doc) : ~HasSegments(doc, P) THEN "failed" ELSE "paste"
         /\ UNCHANGED <<doc, breaks, spacing, edits, height, pdf>>

\* One process draws one PDF; the error of any of them is the generation's.
Draw(P, paper) ==
  /\ phase = "paste" /\ ~pdf[<<P, paper>>].drawn
  /\ pdf' = [pdf EXCEPT ![<<P, paper>>] = [drawn |-> TRUE, pages |-> CreatePart(P, paper)]]
  /\ phase' = IF \E j \in DOMAIN CreatePart(P, paper) : CreatePart(P, paper)[j].overflow
              THEN "failed"
              ELSE IF \A job \in DOMAIN pdf \ {<<P, paper>>} : pdf[job].drawn THEN "done"
              ELSE "paste"
  /\ UNCHANGED <<doc, breaks, spacing, edits, height>>

LayoutNext ==
  \/ \E P \in DOMAIN spacing :
       \/ \E i \in 0..Len(doc.rows) : ToggleBreak(P, i)
       \/ \E k \in Spacings : SetSpacing(P, k)
       \/ \E paper \in Papers : Draw(P, paper)
  \/ \E p \in DOMAIN doc.px : CutPage(p)
  \/ Generate \/ Paste

LayoutSpec == LayoutInit /\ [][LayoutNext]_layoutVars
-----------------------------------------------------------------------------
(***************************************************************************)
(* Properties.                                                             *)
(***************************************************************************)
Drawn(job) == pdf[job].drawn
PdfPages(job) == pdf[job].pages
PagesOf(job) ==
  [j \in DOMAIN PdfPages(job) |->
     [i \in DOMAIN PdfPages(job)[j].images |-> PdfPages(job)[j].images[i].seg]]

\* Every PDF shows the part's music, once and in the order of the score: the
\* segments tagged with one of its names or with "all" (of a combined part, if one
\* of its names has any), faded where only its cues have them.
ShowsItsMusic ==
  \A job \in DOMAIN pdf : Drawn(job) =>
    LET P == job[1]
        music == {i \in Segments(doc) : doc.rows[i].tags \cap (P \cup {All}) # {}}
        shown == FlattenSeq(PagesOf(job))
    IN /\ \A a, b \in DOMAIN shown : a < b => shown[a] < shown[b]
       /\ ToSet(shown) = IF \E n \in P : Tagged(doc, n) # {} THEN music ELSE {}
       /\ \A j \in DOMAIN PdfPages(job) : \A i \in DOMAIN PdfPages(job)[j].images :
            LET image == PdfPages(job)[j].images[i]
                by == {n \in P : Tagged(doc, n) # {}
                                 /\ doc.rows[image.seg].tags \cap {n, All} # {}}
            IN image.cue <=> by \subseteq Cues

\* A way to divide n segments: the set of positions a page ends after.
Feasible(ends, segments, gap, max) ==
  \A a, b \in 0..Len(segments) :
    (a < b /\ a \in ends \cup {0} /\ b \in ends \cup {Len(segments)}
     /\ \A c \in a + 1..b - 1 : c \notin ends)
      => \/ b = a + 1
         \/ ChunkStackHeight(SubSeq(segments, a + 1, b), height, gap) <= max

\* A PDF has no more pages than its breaks and the height of the paper make
\* necessary, no page is empty, and every break is where the user has put it.
FewestPages ==
  \A job \in DOMAIN pdf : Drawn(job) =>
    LET P == job[1]
        segments == PartSegments(doc, P)
        asked == {b + 1 : b \in breaks[P]} \cap 1..Len(segments) - 1
        ways == {ends \in SUBSET (1..Len(segments) - 1) :
                   asked \subseteq ends
                   /\ Feasible(ends, segments, SpacingPx(spacing[P]), PageChunkMax(doc.orientation))}
    IN segments # <<>> =>
         /\ Len(PdfPages(job)) = 1 + Min({Cardinality(ends) : ends \in ways})
         /\ \A j \in DOMAIN PdfPages(job) : PdfPages(job)[j].images # <<>>
         /\ \A b \in asked : \E j \in DOMAIN PdfPages(job) :
              Len(FlattenSeq(SubSeq(PagesOf(job), 1, j))) = b

\* A segment that is alone on its page is as large as fits.  One that shares its page
\* is drawn in full, but for the half pixel per line that rounding the space may hide.
FullSize ==
  \A job \in DOMAIN pdf : Drawn(job) =>
    \A j \in DOMAIN PdfPages(job) :
      LET images == PdfPages(job)[j].images IN
      \A i \in DOMAIN images :
        IF Len(images) = 1
        THEN images[i].height = Min({2 * height[images[i].seg], PackingBand(job[2], doc.orientation)})
        ELSE images[i].height >= 2 * height[images[i].seg] - (Len(images) - 1)

\* A generation fails only where a part is tagged on a page that is no longer there, or
\* where a line of hardly any height comes last on a page that others fill: at every fourth
\* position of the slider each space drawn is half a pixel wider than the one counted, and
\* "Part page layout overflow" is raised once nothing is left for a line.
FailsForCause ==
  phase = "failed" =>
    \/ \E i \in DOMAIN doc.rows : doc.rows[i].page \notin DOMAIN doc.px
    \/ \E P \in DOMAIN spacing : \E j \in DOMAIN Chunks(P) : \E m \in DOMAIN Chunks(P)[j] :
         spacing[P] % 4 = 3 /\ 2 * height[Chunks(P)[j][m]] <= m - 1

\* src/frontend/src/lib/previewUtils.ts:97, "Auto-pack segments into part pages - mirrors
\* pipeline/cutpaste.page_chunks": the preview breaks the pages where the PDFs do, except
\* at every fourth position of the spacing slider, where it rounds the other way.
PreviewShowsPages ==
  \A job \in DOMAIN pdf :
    Drawn(job) /\ spacing[job[1]] % 4 # 3 => PagesOf(job) = PreviewChunks(job[1])
============================================================================
