------------------------ MODULE ScoreAnalysisProofs ------------------------
(***************************************************************************)
(* The imports of one score, for any number of partsets, pages and faults: *)
(* the analysis they share is whole whenever the score offers it, and so   *)
(* are the rows of every partset that is complete.  The argument is that   *)
(* an import which analyses, or drops an analysis, is alone at work, and   *)
(* that imports which reuse one only add images.                           *)
(***************************************************************************)
EXTENDS ScoreAnalysis, TLAPS

Image == Orientations \cup {NoImage}

\* What an import does: it reuses an analysis, drops one, or makes one; a partset whose
\* analysis has been made is complete before the score has it.
Reusing == {"cache", "copy", "row", "touch", "check", "clearOwn", "copySegs", "copyPages", "finish"}
Dropping == {"dropSegs", "dropPages", "unmark", "unlink", "unlinkHigh"}
Handing == {"emptySegs", "fillSegs", "emptyPages", "fillPages", "analysed"}
Analysing == {"list", "clear", "read", "insert", "mark"} \cup Handing
Idle == {"none", "queued"}

Job == [pc : Idle \cup Reusing \cup Dropping \cup Analysing, orient : Orientations, first : BOOLEAN,
        analyse : BOOLEAN, todo : SUBSET Pages, seen : [Pages -> Image]]

AnalysisType ==
  /\ converted \in BOOLEAN /\ analysed \in BOOLEAN /\ stored \in Orientations
  /\ image \in [Pages -> Image] /\ origPages \in SUBSET Pages
  /\ segs = [p \in Partsets |-> segs[p]] /\ pages \in [Partsets -> SUBSET Pages]
  /\ job \in [Partsets -> Job] /\ complete \subseteq Partsets /\ edited \subseteq complete
  /\ reran \in BOOLEAN /\ overlapped \in BOOLEAN /\ torn \in BOOLEAN /\ hurried \in BOOLEAN
  /\ highres \in BOOLEAN

Some(S) == SetToBag({<<q, Inferred>> : q \in S})
Fit == analysed /\ stored = Inferred
RowsWhole(p) == segs[p] = Some(Pages) /\ pages[p] = Pages
Turned == \A q \in Pages : image[q] = Inferred

\* Where an import is tells what it has made, and what it relies on.
Conversion(r) ==
  /\ r.pc = "cache" => r.orient = stored /\ (r.first <=> ~converted)
  /\ r.pc \in Dropping => stored # Inferred
  /\ r.pc \in {"unlink", "unlinkHigh"} => ~analysed
  /\ r.pc \in {"copy", "row"} => r.orient = Inferred /\ (analysed => stored = Inferred)
  /\ r.pc = "copy" => r.todo # {} /\ \A q \in Pages \ r.todo : image[q] = Inferred
  /\ r.pc = "row" => Turned
  /\ r.pc \in {"touch", "check"} => stored = Inferred /\ Imaged # {}
  /\ r.pc \in {"check"} \cup Analysing => converted

Copying(p, r) ==
  /\ r.pc \in {"clearOwn", "copySegs", "copyPages", "finish"} => Fit
  /\ r.pc = "copySegs" => segs[p] = EmptyBag
  /\ r.pc \in {"copyPages", "finish"} => segs[p] = Some(Pages)
  /\ r.pc = "finish" => pages[p] = Pages

Analysis(p, r) ==
  /\ r.analyse <=> r.pc \in Analysing
  /\ r.pc \in Analysing => ~analysed /\ stored = Inferred /\ Turned
  /\ r.pc \in {"clear", "read"} => r.todo = Pages
  /\ r.pc = "read" => segs[p] = EmptyBag /\ pages[p] = {}
  /\ r.pc = "insert" => /\ r.todo # {} /\ \A q \in Pages : r.seen[q] = Inferred
                        /\ segs[p] = Some(Pages \ r.todo) /\ pages[p] = Pages \ r.todo
  /\ r.pc \in {"mark"} \cup Handing => RowsWhole(p)
  /\ r.pc = "fillSegs" => origSegs = EmptyBag
  /\ r.pc \in {"emptyPages", "fillPages", "analysed"} => origSegs = Some(Pages)
  /\ r.pc = "fillPages" => origPages = {}
  /\ r.pc = "analysed" => origPages = Pages

Sound(p) ==
  /\ Conversion(job[p]) /\ Copying(p, job[p]) /\ Analysis(p, job[p])
  /\ p \in complete => job[p].pc \in Idle \cup Handing

\* The score between imports.
ScoreInv ==
  /\ analysed => converted
  /\ Fit => origSegs = Some(Pages) /\ origPages = Pages
  /\ stored = Inferred => \A q \in Pages : image[q] \in {NoImage, Inferred}

\* An incomplete set of images is being completed.
GapsInv ==
  \A q \in Pages : image[q] = NoImage /\ Imaged # {} =>
    \E p \in Partsets : At(p, "copy") /\ q \in job[p].todo

\* Imports meet only if all of them reuse an analysis that is fit for it.
MeetInv ==
  \A p, r \in Partsets : p # r /\ InWork(p) /\ InWork(r) =>
    Fit /\ job[p].pc \in Reusing /\ job[r].pc \in Reusing

Orderly ==
  /\ ScoreInv /\ GapsInv /\ MeetInv
  /\ \A p \in Partsets : Sound(p)
  /\ \A p \in Partsets : p \in complete \ edited => RowsWhole(p)

AnalysisInv == Undisturbed => Orderly

-----------------------------------------------------------------------------
(* Bags of segments. *)

LEMMA BagOfSet == ASSUME NEW S PROVE SetToBag(S) = [e \in S |-> 1]
  BY DEF SetToBag

LEMMA NoSegments == EmptyBag = SetToBag({})
  BY DEF EmptyBag

LEMMA DisjointBags ==
  ASSUME NEW S, NEW T, S \cap T = {}
  PROVE  SetToBag(S) (+) SetToBag(T) = SetToBag(S \cup T)
<1>1. DOMAIN SetToBag(S) = S /\ DOMAIN SetToBag(T) = T
  BY BagOfSet
<1>2. SetToBag(S) (+) SetToBag(T) =
        [e \in S \cup T |-> (IF e \in S THEN SetToBag(S)[e] ELSE 0)
                            + (IF e \in T THEN SetToBag(T)[e] ELSE 0)]
  BY <1>1 DEF (+)
<1>3. \A e \in S \cup T : (IF e \in S THEN SetToBag(S)[e] ELSE 0)
                          + (IF e \in T THEN SetToBag(T)[e] ELSE 0) = 1
  BY BagOfSet
<1>4. SetToBag(S) (+) SetToBag(T) = [e \in S \cup T |-> 1]
  BY <1>2, <1>3
<1> QED BY <1>4, BagOfSet

LEMMA SomeMore ==
  ASSUME NEW S, NEW q, q \notin S
  PROVE  Some(S) (+) SetToBag({<<q, Inferred>>}) = Some(S \cup {q})
<1> DEFINE A == {<<x, Inferred>> : x \in S}
<1>1. A \cap {<<q, Inferred>>} = {}
  OBVIOUS
<1>2. A \cup {<<q, Inferred>>} = {<<x, Inferred>> : x \in S \cup {q}}
  OBVIOUS
<1>3. Some(S) = SetToBag(A)
  BY DEF Some
<1> HIDE DEF A
<1> QED BY <1>1, <1>2, <1>3, DisjointBags DEF Some

LEMMA SomeFirst == ASSUME NEW S PROVE EmptyBag (+) Some(S) = Some(S)
<1> DEFINE A == {<<x, Inferred>> : x \in S}
<1>1. Some(S) = SetToBag(A)
  BY DEF Some
<1> HIDE DEF A
<1>2. {} \cap A = {} /\ {} \cup A = A
  OBVIOUS
<1> QED BY <1>1, <1>2, NoSegments, DisjointBags

LEMMA SomeNone == Some({}) = EmptyBag
  BY NoSegments DEF Some

LEMMA WholeIsSome == Whole(Inferred) = Some(Pages)
  BY DEF Whole, Some

-----------------------------------------------------------------------------
(* Types, and the moves of an import. *)
LEMMA Constants == /\ Inferred \in Orientations /\ NoImage \notin Orientations /\ Pages # {}
                   /\ Inferred # NoImage
<1>1. 1 \in Pages
  BY ScoreAnalysisAssumption DEF ScoreAnalysisAssumption, Pages
<1> QED BY <1>1, ScoreAnalysisAssumption DEF ScoreAnalysisAssumption

LEMMA NoJobType == NoJob \in Job /\ NoJob.pc = "none" /\ NoJob.analyse = FALSE
  BY Constants DEF NoJob, Job, Idle, Image

OthersStay(p) == \A r \in Partsets : r # p => job'[r] = job[r]

LEMMA JobSet ==
  ASSUME AnalysisType, NEW p \in Partsets, NEW r \in Job, job' = [job EXCEPT ![p] = r]
  PROVE  job' \in [Partsets -> Job] /\ job'[p] = r /\ OthersStay(p)
  BY DEF AnalysisType, OthersStay

LEMMA Going ==
  ASSUME AnalysisType, NEW p \in Partsets,
         NEW pc \in Idle \cup Reusing \cup Dropping \cup Analysing, Goto(p, pc)
  PROVE  /\ job' \in [Partsets -> Job] /\ OthersStay(p) /\ job'[p].pc = pc
         /\ job'[p].orient = job[p].orient /\ job'[p].first = job[p].first
         /\ job'[p].analyse = job[p].analyse /\ job'[p].todo = job[p].todo
         /\ job'[p].seen = job[p].seen
<1> DEFINE r == [job[p] EXCEPT !.pc = pc]
<1>1. /\ r \in Job /\ r.pc = pc /\ r.orient = job[p].orient /\ r.first = job[p].first
      /\ r.analyse = job[p].analyse /\ r.todo = job[p].todo /\ r.seen = job[p].seen
  BY DEF AnalysisType, Job
<1>2. job' = [job EXCEPT ![p] = r]
  BY DEF AnalysisType, Goto
<1> HIDE DEF r
<1> QED BY <1>1, <1>2, JobSet

LEMMA Ending ==
  ASSUME AnalysisType, NEW p \in Partsets, End(p)
  PROVE  /\ job' \in [Partsets -> Job] /\ OthersStay(p)
         /\ job'[p].pc = "none" /\ job'[p].analyse = FALSE
  BY NoJobType, JobSet DEF End

LEMMA Converting ==
  ASSUME AnalysisType, NEW p \in Partsets, NEW o \in Orientations, Convert(p, o)
  PROVE  /\ job' \in [Partsets -> Job] /\ OthersStay(p) /\ job'[p].pc = "copy"
         /\ job'[p].orient = o /\ job'[p].first = job[p].first
         /\ job'[p].analyse = job[p].analyse /\ job'[p].todo = Pages
<1> DEFINE r == [job[p] EXCEPT !.pc = "copy", !.orient = o, !.todo = Pages]
<1>1. /\ r \in Job /\ r.pc = "copy" /\ r.orient = o /\ r.first = job[p].first
      /\ r.analyse = job[p].analyse /\ r.todo = Pages
  BY DEF AnalysisType, Job, Reusing
<1>2. job' = [job EXCEPT ![p] = r]
  BY DEF AnalysisType, Convert
<1> HIDE DEF r
<1> QED BY <1>1, <1>2, JobSet

LEMMA Doing ==
  ASSUME AnalysisType, NEW p \in Partsets, NEW q,
         NEW pc \in Idle \cup Reusing \cup Dropping \cup Analysing, Done(p, q, pc)
  PROVE  /\ job' \in [Partsets -> Job] /\ OthersStay(p)
         /\ job'[p].pc = IF job[p].todo = {q} THEN pc ELSE job[p].pc
         /\ job'[p].orient = job[p].orient /\ job'[p].first = job[p].first
         /\ job'[p].analyse = job[p].analyse /\ job'[p].todo = job[p].todo \ {q}
         /\ job'[p].seen = job[p].seen
<1> DEFINE k == IF job[p].todo = {q} THEN pc ELSE job[p].pc
           t == job[p].todo \ {q}
           r == [job[p] EXCEPT !.todo = t, !.pc = k]
<1>1. k \in Idle \cup Reusing \cup Dropping \cup Analysing /\ t \in SUBSET Pages
  BY DEF AnalysisType, Job
<1>2. job' = [job EXCEPT ![p] = r]
  BY DEF AnalysisType, Done
<1> HIDE DEF k, t
<1>3. /\ r \in Job /\ r.pc = k /\ r.orient = job[p].orient /\ r.first = job[p].first
      /\ r.analyse = job[p].analyse /\ r.todo = t /\ r.seen = job[p].seen
  BY <1>1 DEF AnalysisType, Job
<1> HIDE DEF r
<1> QED BY <1>2, <1>3, JobSet DEF k, t

\* Moves that set more than where the import is.
LEMMA Starting ==
  ASSUME AnalysisType, NEW p \in Partsets,
         job' = [job EXCEPT ![p] = [NoJob EXCEPT !.pc = "cache", !.orient = stored, !.first = ~converted]]
  PROVE  /\ job' \in [Partsets -> Job] /\ OthersStay(p) /\ job'[p].pc = "cache"
         /\ job'[p].orient = stored /\ (job'[p].first <=> ~converted) /\ ~job'[p].analyse
<1> DEFINE f == ~converted
           r == [NoJob EXCEPT !.pc = "cache", !.orient = stored, !.first = f]
<1>1. f \in BOOLEAN
  OBVIOUS
<1>2. job' = [job EXCEPT ![p] = r]
  OBVIOUS
<1> HIDE DEF f
<1>3. r \in Job /\ r.pc = "cache" /\ r.orient = stored /\ r.first = f /\ ~r.analyse
  BY <1>1, NoJobType DEF NoJob, AnalysisType, Job, Reusing
<1> HIDE DEF r
<1>4. job'[p] = r /\ job' \in [Partsets -> Job] /\ OthersStay(p)
  BY <1>2, <1>3, JobSet
<1> QED BY <1>3, <1>4 DEF f

LEMMA Checking ==
  ASSUME AnalysisType, NEW p \in Partsets,
         job' = [job EXCEPT ![p].pc = IF analysed THEN "clearOwn" ELSE "list",
                            ![p].analyse = ~analysed]
  PROVE  /\ job' \in [Partsets -> Job] /\ OthersStay(p)
         /\ job'[p].pc = IF analysed THEN "clearOwn" ELSE "list"
         /\ job'[p].analyse <=> ~analysed
<1> DEFINE f == ~analysed
           k == IF analysed THEN "clearOwn" ELSE "list"
           r == [job[p] EXCEPT !.pc = k, !.analyse = f]
<1>1. f \in BOOLEAN /\ k \in Reusing \cup Analysing
  BY DEF Reusing, Analysing
<1>2. job' = [job EXCEPT ![p] = r]
  BY DEF AnalysisType
<1> HIDE DEF f, k
<1>3. r \in Job /\ r.pc = k /\ r.analyse = f
  BY <1>1 DEF AnalysisType, Job
<1> HIDE DEF r
<1>4. job'[p] = r /\ job' \in [Partsets -> Job] /\ OthersStay(p)
  BY <1>2, <1>3, JobSet
<1>5. job'[p].pc = IF analysed THEN "clearOwn" ELSE "list"
  BY <1>3, <1>4 DEF k
<1>6. job'[p].analyse <=> ~analysed
  BY <1>3, <1>4 DEF f
<1> QED BY <1>4, <1>5, <1>6

LEMMA Listing ==
  ASSUME AnalysisType, NEW p \in Partsets, NEW S \in SUBSET Pages,
         job' = [job EXCEPT ![p].pc = "clear", ![p].todo = S]
  PROVE  /\ job' \in [Partsets -> Job] /\ OthersStay(p) /\ job'[p].pc = "clear"
         /\ job'[p].todo = S /\ job'[p].analyse = job[p].analyse
<1> DEFINE r == [job[p] EXCEPT !.pc = "clear", !.todo = S]
<1>1. r \in Job /\ r.pc = "clear" /\ r.todo = S /\ r.analyse = job[p].analyse
  BY DEF AnalysisType, Job, Analysing
<1>2. job' = [job EXCEPT ![p] = r]
  BY DEF AnalysisType
<1> HIDE DEF r
<1> QED BY <1>1, <1>2, JobSet

LEMMA Seeing ==
  ASSUME AnalysisType, NEW p \in Partsets,
         job' = [job EXCEPT ![p].pc = "insert", ![p].seen = image]
  PROVE  /\ job' \in [Partsets -> Job] /\ OthersStay(p) /\ job'[p].pc = "insert"
         /\ job'[p].seen = image /\ job'[p].todo = job[p].todo
         /\ job'[p].analyse = job[p].analyse
<1> DEFINE r == [job[p] EXCEPT !.pc = "insert", !.seen = image]
<1>1. /\ r \in Job /\ r.pc = "insert" /\ r.seen = image /\ r.todo = job[p].todo
      /\ r.analyse = job[p].analyse
  BY DEF AnalysisType, Job, Analysing
<1>2. job' = [job EXCEPT ![p] = r]
  BY DEF AnalysisType
<1> HIDE DEF r
<1> QED BY <1>1, <1>2, JobSet

LEMMA InitAnalysis == Init => AnalysisType /\ Orderly
<1> SUFFICES ASSUME Init PROVE AnalysisType /\ Orderly
  OBVIOUS
<1>1. PICK o \in {NoImage, stored} : image = [q \in Pages |-> o]
  BY DEF Init
<1>2. \A p \in Partsets : job[p] = NoJob
  BY DEF Init
<1>3. AnalysisType
  BY <1>1, NoJobType DEF Init, AnalysisType, Image
<1>4. ScoreInv
  BY <1>1, WholeIsSome DEF Init, ScoreInv, Fit
<1>5. GapsInv
  BY <1>1 DEF GapsInv, Imaged
<1>6. MeetInv
  BY <1>2, NoJobType DEF MeetInv, InWork
<1>7. \A p \in Partsets : Sound(p)
  BY <1>2, NoJobType
  DEF Sound, Conversion, Copying, Analysis, Dropping, Analysing, Handing, Idle
<1>8. complete = {}
  BY DEF Init
<1> QED BY <1>3, <1>4, <1>5, <1>6, <1>7, <1>8 DEF Orderly

-----------------------------------------------------------------------------
(* A step of one import, and what it does to the others. *)

\* What it leaves alone.
Apart(p) ==
  /\ OthersStay(p) /\ edited' = edited
  /\ \A r \in Partsets : r # p =>
       segs'[r] = segs[r] /\ pages'[r] = pages[r] /\ (r \in complete' <=> r \in complete)

\* Beside others it changes nothing of the score but to add images.
Beside(p) ==
  Fit /\ job[p].pc \in Reusing =>
    /\ analysed' = analysed /\ stored' = stored /\ converted'
    /\ \A q \in Pages : image'[q] \in {image[q], Inferred}
    /\ job'[p].pc \in Reusing \cup Idle

LEMMA OthersSound ==
  ASSUME AnalysisType, Orderly, NEW p \in Partsets, InWork(p), Apart(p), Beside(p),
         NEW r \in Partsets, r # p
  PROVE  Sound(r)'
<1>1. /\ job'[r] = job[r] /\ segs'[r] = segs[r] /\ pages'[r] = pages[r]
      /\ r \in complete' <=> r \in complete
  BY DEF Apart, OthersStay
<1>2. Sound(r) /\ (analysed => converted)
  BY DEF Orderly, ScoreInv
<1>3. CASE InWork(r)
  <2>1. Fit /\ job[r].pc \in Reusing /\ job[p].pc \in Reusing
    BY <1>3 DEF Orderly, MeetInv
  <2>2. /\ analysed' = analysed /\ stored' = stored /\ converted' /\ converted
        /\ \A q \in Pages : image'[q] \in {image[q], Inferred}
    BY <1>2, <2>1 DEF Beside, Fit
  <2>3. Imaged # {} => Imaged' # {}
    BY <2>2, Constants DEF Imaged
  <2>4. Conversion(job[r])'
    BY <1>1, <1>2, <2>1, <2>2, <2>3
    DEF Sound, Conversion, Turned, Reusing, Dropping, Analysing, Handing
  <2>5. Copying(r, job[r])'
    BY <1>1, <1>2, <2>1, <2>2 DEF Sound, Copying, Fit
  <2>6. Analysis(r, job[r])'
    BY <1>1, <1>2, <2>1 DEF Sound, Analysis, Reusing, Analysing, Handing
  <2> QED BY <1>1, <1>2, <2>4, <2>5, <2>6 DEF Sound
<1>4. CASE ~InWork(r)
  BY <1>1, <1>2, <1>4
  DEF InWork, Sound, Conversion, Copying, Analysis, Dropping, Analysing, Handing
<1> QED BY <1>3, <1>4

LEMMA SoundStays ==
  ASSUME NEW r \in Partsets, Sound(r), job'[r] = job[r],
         UNCHANGED <<converted, stored, analysed, image, origSegs, origPages, segs, pages, complete>>
  PROVE  Sound(r)'
<1>1. Conversion(job[r])'
  BY DEF Sound, Conversion, Turned, Imaged
<1>2. Copying(r, job[r])'
  BY DEF Sound, Copying, Fit
<1>3. Analysis(r, job[r])'
  BY DEF Sound, Analysis, Turned, RowsWhole
<1> QED BY <1>1, <1>2, <1>3 DEF Sound

\* With that, a step is told by what it does to the score and to its own partset.
LEMMA InOrder ==
  ASSUME AnalysisType, Orderly, NEW p \in Partsets, InWork(p), Apart(p), Beside(p),
         ScoreInv', GapsInv', Sound(p)', p \in complete' \ edited => RowsWhole(p)'
  PROVE  Orderly'
<1>1. \A r \in Partsets : Sound(r)'
  BY OthersSound
<1>2. \A r \in Partsets : r # p => (InWork(r)' <=> InWork(r)) /\ job'[r] = job[r]
  BY DEF Apart, OthersStay, InWork
<1>3. \A r \in Partsets : r # p /\ InWork(r) /\ InWork(p)' =>
        Fit' /\ job[r].pc \in Reusing /\ job'[p].pc \in Reusing
  <2> TAKE r \in Partsets
  <2> HAVE r # p /\ InWork(r) /\ InWork(p)'
  <2>1. Fit /\ job[r].pc \in Reusing /\ job[p].pc \in Reusing
    BY DEF Orderly, MeetInv
  <2>2. Fit' /\ job'[p].pc \in Reusing
    BY <2>1 DEF Beside, Fit, InWork, Idle
  <2> QED BY <2>1, <2>2
<1>4. MeetInv'
  <2> SUFFICES ASSUME NEW r \in Partsets, NEW t \in Partsets, r # t, InWork(r)', InWork(t)'
               PROVE  Fit' /\ job'[r].pc \in Reusing /\ job'[t].pc \in Reusing
    BY DEF MeetInv
  <2>1. CASE r = p \/ t = p
    BY <1>2, <1>3, <2>1
  <2>2. CASE r # p /\ t # p
    <3>1. Fit /\ job[p].pc \in Reusing /\ job[r].pc \in Reusing /\ job[t].pc \in Reusing
      BY <1>2, <2>2 DEF Orderly, MeetInv
    <3>2. Fit'
      BY <3>1 DEF Beside, Fit
    <3> QED BY <1>2, <2>2, <3>1, <3>2
  <2> QED BY <2>1, <2>2
<1>5. \A r \in Partsets : r \in complete' \ edited' => RowsWhole(r)'
  <2> SUFFICES ASSUME NEW r \in Partsets, r # p, r \in complete' \ edited' PROVE RowsWhole(r)'
    BY DEF Apart
  <2> QED BY DEF Orderly, RowsWhole, Apart
<1> QED BY <1>1, <1>4, <1>5 DEF Orderly

LEMMA GapsStay ==
  ASSUME Orderly, NEW p \in Partsets, OthersStay(p), image' = image, job[p].pc # "copy"
  PROVE  GapsInv'
  BY DEF Orderly, GapsInv, Imaged, At, OthersStay

\* The rows of the partset in work.
LEMMA RowsOf ==
  ASSUME AnalysisType, NEW p \in Partsets
  PROVE  /\ \A b : segs' = [segs EXCEPT ![p] = b] =>
              segs'[p] = b /\ \A r \in Partsets : r # p => segs'[r] = segs[r]
         /\ \A S : pages' = [pages EXCEPT ![p] = S] =>
              pages'[p] = S /\ \A r \in Partsets : r # p => pages'[r] = pages[r]
<1>1. \A b : segs' = [segs EXCEPT ![p] = b] =>
        segs'[p] = b /\ \A r \in Partsets : r # p => segs'[r] = segs[r]
  <2>1. DOMAIN segs = Partsets
    BY DEF AnalysisType
  <2> QED BY <2>1
<1>2. DOMAIN pages = Partsets
  BY DEF AnalysisType
<1> QED BY <1>1, <1>2

-----------------------------------------------------------------------------
(* Types are kept. *)
LEMMA SegsType ==
  ASSUME AnalysisType, NEW p \in Partsets, NEW b, segs' = [segs EXCEPT ![p] = b]
  PROVE  segs' = [r \in Partsets |-> segs'[r]]
<1>1. DOMAIN segs = Partsets
  BY DEF AnalysisType
<1>2. DOMAIN segs' = Partsets
  BY <1>1
<1>3. segs' = [r \in Partsets |-> IF r = p THEN b ELSE segs[r]]
  BY <1>1
<1> QED BY <1>3

LEMMA PagesType ==
  ASSUME AnalysisType, NEW p \in Partsets, NEW S \in SUBSET Pages,
         pages' = [pages EXCEPT ![p] = S]
  PROVE  pages' \in [Partsets -> SUBSET Pages]
  BY DEF AnalysisType

\* Steps of an import, up to its analysis.
LEMMA ConvertType ==
  ASSUME AnalysisType, NEW p \in Partsets,
         \/ StartImport(p) \/ LookAtCache(p) \/ DropSegments(p) \/ DropPages(p) \/ Unmark(p)
         \/ UnlinkImages(p) \/ UnlinkHighres(p) \/ CopyImage(p) \/ UpdateScore(p)
  PROVE  AnalysisType'
<1> USE DEF Idle, Reusing, Dropping, Analysing, Handing
<1>1. CASE StartImport(p)
  <2>1. job' \in [Partsets -> Job]
    BY <1>1, Starting DEF StartImport
  <2>2. overlapped' \in BOOLEAN /\ reran' \in BOOLEAN
    BY <1>1 DEF StartImport
  <2> QED BY <1>1, <2>1, <2>2 DEF StartImport, AnalysisType, scoreVars, origVars, rowVars, ownerVars
<1>2. CASE LookAtCache(p)
  <2>1. job[p].orient \in Orientations
    BY DEF AnalysisType, Job
  <2>2. job' \in [Partsets -> Job]
    BY <1>2, <2>1, Constants, Converting, Going DEF LookAtCache
  <2> QED BY <1>2, <2>2 DEF LookAtCache, AnalysisType, scoreVars, origVars, rowVars, ownerVars, histVars
<1>3. CASE DropSegments(p) \/ DropPages(p) \/ Unmark(p)
  <2>1. job' \in [Partsets -> Job]
    BY <1>3, Going DEF DropSegments, DropPages, Unmark
  <2> QED
    BY <1>3, <2>1
    DEF DropSegments, DropPages, Unmark, AnalysisType, scoreVars, origVars, rowVars, ownerVars, histVars
<1>4. CASE UnlinkImages(p)
  <2>1. job' \in [Partsets -> Job]
    BY <1>4, Going DEF UnlinkImages
  <2>2. image' \in [Pages -> Image]
    BY <1>4 DEF UnlinkImages, Image
  <2> QED
    BY <1>4, <2>1, <2>2 DEF UnlinkImages, AnalysisType, scoreVars, origVars, rowVars, ownerVars, histVars
<1>5. CASE CopyImage(p)
  <2>1. PICK q \in job[p].todo :
          /\ image' = [image EXCEPT ![q] = job[p].orient] /\ Done(p, q, "row")
          /\ highres' = (highres \/ job[p].todo = {q})
    BY <1>5 DEF CopyImage
  <2>2. job' \in [Partsets -> Job]
    BY <2>1, Doing
  <2>3. image' \in [Pages -> Image]
    BY <2>1 DEF AnalysisType, Job, Image
  <2> QED
    BY <1>5, <2>1, <2>2, <2>3 DEF CopyImage, AnalysisType, origVars, rowVars, ownerVars, histVars
<1>6. CASE UpdateScore(p)
  <2>1. job' \in [Partsets -> Job]
    BY <1>6, Going DEF UpdateScore
  <2>2. stored' \in Orientations
    BY <1>6 DEF UpdateScore, AnalysisType, Job
  <2> QED BY <1>6, <2>1, <2>2 DEF UpdateScore, AnalysisType, origVars, rowVars, ownerVars, histVars
<1>7. CASE UnlinkHighres(p)
  <2>1. job' \in [Partsets -> Job]
    BY <1>7, Constants, Converting DEF UnlinkHighres
  <2> QED BY <1>7, <2>1 DEF UnlinkHighres, AnalysisType, origVars, rowVars, ownerVars, histVars
<1> QED BY <1>1, <1>2, <1>3, <1>4, <1>5, <1>6, <1>7

\* The analysis, and the copy of it.
LEMMA AnalyseType ==
  ASSUME AnalysisType, NEW p \in Partsets,
         \/ CheckAnalysis(p) \/ ListImages(p) \/ ClearRows(p) \/ ReadImages(p) \/ InsertPage(p)
         \/ MarkComplete(p) \/ ClearOwnRows(p) \/ CopySegments(p) \/ CopyPages(p) \/ FinishReuse(p)
  PROVE  AnalysisType'
<1> USE DEF Idle, Reusing, Dropping, Analysing, Handing
<1>1. CASE CheckAnalysis(p)
  <2>1. job' \in [Partsets -> Job]
    BY <1>1, Checking DEF CheckAnalysis
  <2> QED BY <1>1, <2>1 DEF CheckAnalysis, AnalysisType, scoreVars, origVars, rowVars, ownerVars, histVars
<1>2. CASE ListImages(p)
  <2>1. stored \in Orientations /\ Imaged \in SUBSET Pages
    BY DEF AnalysisType, Imaged
  <2>2. job' \in [Partsets -> Job]
    <3>1. CASE Convert(p, stored)
      BY <2>1, <3>1, Converting
    <3>2. CASE job' = [job EXCEPT ![p].pc = "clear", ![p].todo = Imaged]
      <4> DEFINE S == Imaged
      <4>1. S \in SUBSET Pages /\ job' = [job EXCEPT ![p].pc = "clear", ![p].todo = S]
        BY <2>1, <3>2
      <4> HIDE DEF S
      <4> QED BY <4>1, Listing
    <3>3. CASE Goto(p, "mark")
      BY <3>3, Going
    <3> QED BY <1>2, <3>1, <3>2, <3>3 DEF ListImages
  <2> QED BY <1>2, <2>2 DEF ListImages, AnalysisType, scoreVars, origVars, rowVars, ownerVars, histVars
<1>3. CASE ClearRows(p) \/ ClearOwnRows(p)
  <2>1. job' \in [Partsets -> Job]
    BY <1>3, Going DEF ClearRows, ClearOwnRows
  <2>2. segs' = [segs EXCEPT ![p] = EmptyBag] /\ pages' = [pages EXCEPT ![p] = {}]
    BY <1>3 DEF ClearRows, ClearOwnRows
  <2>3. segs' = [r \in Partsets |-> segs'[r]]
    BY <2>2, SegsType
  <2>4. pages' \in [Partsets -> SUBSET Pages]
    BY <2>2, PagesType
  <2> QED
    BY <1>3, <2>1, <2>3, <2>4
    DEF ClearRows, ClearOwnRows, AnalysisType, scoreVars, origVars, ownerVars, histVars
<1>4. CASE ReadImages(p)
  <2>1. job' \in [Partsets -> Job]
    BY <1>4, Seeing, Ending DEF ReadImages
  <2> QED BY <1>4, <2>1 DEF ReadImages, AnalysisType, scoreVars, origVars, rowVars, ownerVars, histVars
<1>5. CASE InsertPage(p)
  <2>1. UNCHANGED <<converted, analysed, stored, highres, image, origVars, complete, ownerVars, histVars>>
    BY <1>5 DEF InsertPage, scoreVars
  <2>2. /\ job' \in [Partsets -> Job] /\ pages' \in [Partsets -> SUBSET Pages]
        /\ segs' = [r \in Partsets |-> segs'[r]]
    <3>1. CASE End(p) /\ UNCHANGED <<segs, pages>>
      <4>1. job' \in [Partsets -> Job]
        BY <3>1, Ending
      <4> QED BY <3>1, <4>1 DEF AnalysisType
    <3>2. CASE \E q \in job[p].todo :
                 /\ pages' = [pages EXCEPT ![p] = @ \union {q}]
                 /\ segs' = [segs EXCEPT ![p] = @ (+) SetToBag({<<q, job[p].seen[q]>>})]
                 /\ Done(p, q, "mark")
      <4>1. PICK q \in job[p].todo :
              /\ pages' = [pages EXCEPT ![p] = @ \union {q}]
              /\ segs' = [segs EXCEPT ![p] = @ (+) SetToBag({<<q, job[p].seen[q]>>})]
              /\ Done(p, q, "mark")
        BY <3>2
      <4> DEFINE S == pages[p] \cup {q}
                 b == segs[p] (+) SetToBag({<<q, job[p].seen[q]>>})
      <4>2. S \in SUBSET Pages
        BY DEF AnalysisType, Job
      <4>3. DOMAIN segs = Partsets
        BY DEF AnalysisType
      <4>4. pages' = [pages EXCEPT ![p] = S] /\ segs' = [segs EXCEPT ![p] = b]
        BY <4>1, <4>3 DEF AnalysisType
      <4> HIDE DEF S, b
      <4>5. pages' \in [Partsets -> SUBSET Pages] /\ segs' = [r \in Partsets |-> segs'[r]]
        BY <4>2, <4>4, PagesType, SegsType
      <4>6. job' \in [Partsets -> Job]
        BY <4>1, Doing
      <4> QED BY <4>5, <4>6
    <3> QED BY <1>5, <3>1, <3>2 DEF InsertPage
  <2> QED BY <2>1, <2>2 DEF AnalysisType, origVars, ownerVars, histVars
<1>6. CASE MarkComplete(p) \/ FinishReuse(p)
  <2>1. job' \in [Partsets -> Job]
    BY <1>6, Going, Ending DEF MarkComplete, FinishReuse
  <2> QED
    BY <1>6, <2>1 DEF MarkComplete, FinishReuse, AnalysisType, scoreVars, origVars, ownerVars, histVars
<1>7. CASE CopySegments(p)
  <2>1. job' \in [Partsets -> Job]
    BY <1>7, Going DEF CopySegments
  <2> DEFINE b == segs[p] (+) origSegs
  <2>2. DOMAIN segs = Partsets
    BY DEF AnalysisType
  <2>3. segs' = [segs EXCEPT ![p] = b]
    BY <1>7, <2>2 DEF CopySegments
  <2> HIDE DEF b
  <2>4. segs' = [r \in Partsets |-> segs'[r]]
    BY <2>3, SegsType
  <2> QED BY <1>7, <2>1, <2>4 DEF CopySegments, AnalysisType, scoreVars, origVars, ownerVars, histVars
<1>8. CASE CopyPages(p)
  <2>1. job' \in [Partsets -> Job]
    BY <1>8, Going DEF CopyPages
  <2>2. pages' \in [Partsets -> SUBSET Pages]
    BY <1>8 DEF CopyPages, AnalysisType
  <2> QED BY <1>8, <2>1, <2>2 DEF CopyPages, AnalysisType, scoreVars, origVars, ownerVars, histVars
<1> QED BY <1>1, <1>2, <1>3, <1>4, <1>5, <1>6, <1>7, <1>8

\* The analysis is handed to the score; requests, the owner and faults.
LEMMA OtherType ==
  ASSUME AnalysisType, NEW p \in Partsets,
         \/ EmptySegments(p) \/ FillSegments(p) \/ EmptyPages(p) \/ FillPages(p) \/ MarkAnalysed(p)
         \/ RequestStep(p) \/ EditSegments(p) \/ KillJob(p)
  PROVE  AnalysisType'
<1> USE DEF Idle, Reusing, Dropping, Analysing, Handing
<1>1. CASE \/ EmptySegments(p) \/ FillSegments(p) \/ EmptyPages(p) \/ FillPages(p) \/ MarkAnalysed(p)
  <2>1. job' \in [Partsets -> Job]
    BY <1>1, Going, Ending DEF EmptySegments, FillSegments, EmptyPages, FillPages, MarkAnalysed
  <2>2. origPages' \in SUBSET Pages /\ analysed' \in BOOLEAN
    BY <1>1
    DEF EmptySegments, FillSegments, EmptyPages, FillPages, MarkAnalysed, AnalysisType, origVars, scoreVars
  <2>3. UNCHANGED <<converted, stored, highres, image, rowVars, ownerVars, histVars>>
    BY <1>1 DEF EmptySegments, FillSegments, EmptyPages, FillPages, MarkAnalysed, scoreVars
  <2> QED BY <2>1, <2>2, <2>3 DEF AnalysisType, rowVars, ownerVars, histVars
<1>2. CASE RequestStep(p)
  <2>1. job' \in [Partsets -> Job]
    BY <1>2, Going DEF RequestStep, ReadIncomplete, Enqueue, AnalysisType
  <2> QED
    BY <1>2, <2>1
    DEF RequestStep, ReadIncomplete, Enqueue, AnalysisType, scoreVars, origVars, rowVars, histVars
<1>3. CASE EditSegments(p)
  <2> DEFINE b == SetToBag({<<q, Own>> : q \in pages[p]})
  <2>1. segs' = [segs EXCEPT ![p] = b]
    BY <1>3 DEF EditSegments
  <2> HIDE DEF b
  <2>2. segs' = [r \in Partsets |-> segs'[r]]
    BY <2>1, SegsType
  <2>3. edited' \subseteq complete' /\ hurried' \in BOOLEAN
    BY <1>3 DEF EditSegments, AnalysisType
  <2> QED BY <1>3, <2>2, <2>3 DEF EditSegments, AnalysisType, scoreVars, origVars
<1>4. CASE KillJob(p)
  <2>1. PICK pc \in {"none", "queued"} : job' = [job EXCEPT ![p] = [NoJob EXCEPT !.pc = pc]]
    BY <1>4 DEF KillJob
  <2> DEFINE r == [NoJob EXCEPT !.pc = pc]
  <2>2. r \in Job
    BY NoJobType DEF Job
  <2> HIDE DEF r
  <2>3. job' \in [Partsets -> Job]
    BY <2>1, <2>2, JobSet DEF r
  <2>4. torn' \in BOOLEAN
    BY <1>4 DEF KillJob
  <2> QED BY <1>4, <2>3, <2>4 DEF KillJob, AnalysisType, scoreVars, origVars, rowVars
<1> QED BY <1>1, <1>2, <1>3, <1>4

LEMMA NextType == AnalysisType /\ [Next]_vars => AnalysisType'
<1> SUFFICES ASSUME AnalysisType, [Next]_vars PROVE AnalysisType'
  OBVIOUS
<1>1. CASE UNCHANGED vars
  BY <1>1 DEF vars, AnalysisType, scoreVars, origVars, rowVars, ownerVars, histVars
<1>2. CASE Next
  BY <1>2, ConvertType, AnalyseType, OtherType DEF Next, JobStep
<1> QED BY <1>1, <1>2

-----------------------------------------------------------------------------
(* The order is kept. *)


LEMMA StartOrder ==
  ASSUME AnalysisType, Orderly, NEW p \in Partsets, StartImport(p), Undisturbed'
  PROVE  Orderly'
<1> USE DEF Idle, Reusing, Dropping, Analysing, Handing
<1>1. /\ UNCHANGED <<converted, stored, analysed, image, origSegs, origPages, segs, pages, complete, edited>>
      /\ job[p].pc = "queued" /\ p \notin complete
      /\ \A r \in Partsets : r # p /\ InWork(r) => ~job[r].analyse /\ Fit
  BY DEF StartImport, Undisturbed, scoreVars, origVars, rowVars, ownerVars, At, Fit
<1>2. /\ OthersStay(p) /\ job'[p].pc = "cache" /\ job'[p].orient = stored
      /\ (job'[p].first <=> ~converted) /\ ~job'[p].analyse
  BY Starting DEF StartImport
<1>3. Sound(p)'
  BY <1>1, <1>2 DEF Sound, Conversion, Copying, Analysis
<1>4. \A r \in Partsets : r # p => Sound(r)'
  BY <1>1, <1>2, SoundStays DEF Orderly, OthersStay
<1>5. \A r \in Partsets : r # p /\ InWork(r) => Fit /\ job[r].pc \in Reusing
  <2> SUFFICES ASSUME NEW r \in Partsets, r # p, InWork(r) PROVE Fit /\ job[r].pc \in Reusing
    OBVIOUS
  <2>1. Fit /\ ~job[r].analyse /\ Sound(r) /\ job[r] \in Job
    BY <1>1 DEF Orderly, AnalysisType
  <2> QED BY <2>1 DEF Sound, Conversion, Analysis, Fit, InWork, Job
<1>6. MeetInv'
  <2>1. \A r \in Partsets : r # p => job'[r] = job[r]
    BY <1>2 DEF OthersStay
  <2> QED BY <1>1, <1>2, <1>5, <2>1 DEF Orderly, MeetInv, InWork, Fit
<1>7. GapsInv'
  BY <1>1, <1>2, GapsStay
<1>8. ScoreInv' /\ \A r \in Partsets : r \in complete' \ edited' => RowsWhole(r)'
  BY <1>1 DEF Orderly, ScoreInv, Fit, RowsWhole
<1> QED BY <1>3, <1>4, <1>6, <1>7, <1>8 DEF Orderly

\* The conversion.
LEMMA ConvertOrder ==
  ASSUME AnalysisType, Orderly, NEW p \in Partsets,
         \/ LookAtCache(p) \/ DropSegments(p) \/ DropPages(p) \/ Unmark(p) \/ UnlinkImages(p)
         \/ UnlinkHighres(p) \/ CopyImage(p) \/ UpdateScore(p)
  PROVE  Orderly'
<1> USE DEF Idle, Reusing, Dropping, Analysing, Handing
<1>1. /\ Sound(p) /\ ScoreInv /\ GapsInv /\ job[p] \in Job /\ stored \in Orientations
      /\ image \in [Pages -> Image] /\ converted \in BOOLEAN
  BY DEF Orderly, AnalysisType
<1>2. /\ InWork(p) /\ UNCHANGED <<segs, pages, complete, edited>> /\ p \notin complete
      /\ job[p].pc \in {"cache", "dropSegs", "dropPages", "unmark", "unlink", "unlinkHigh", "copy", "row", "touch"}
  BY <1>1
  DEF LookAtCache, DropSegments, DropPages, Unmark, UnlinkImages, UnlinkHighres, CopyImage, UpdateScore, At, InWork,
      rowVars, ownerVars, Sound
<1>3. ASSUME OthersStay(p), Beside(p), ScoreInv', GapsInv', Sound(p)' PROVE Orderly'
  <2>1. Apart(p)
    BY <1>2, <1>3 DEF Apart
  <2> QED BY <1>2, <1>3, <2>1, InOrder
<1>4. CASE LookAtCache(p)
  <2>1. /\ job[p].pc = "cache" /\ job[p].orient = stored /\ (job[p].first <=> ~converted)
        /\ UNCHANGED <<scoreVars, image, origVars>>
    BY <1>1, <1>4 DEF LookAtCache, At, Sound, Conversion
  <2>2. /\ OthersStay(p) /\ job'[p].pc \in {"copy", "dropSegs", "touch"} /\ ~job'[p].analyse
        /\ job'[p].pc = "copy" =>
             job'[p].orient = Inferred /\ job'[p].todo = Pages /\ (stored = Inferred \/ ~converted)
        /\ job'[p].pc = "dropSegs" => stored # Inferred
        /\ job'[p].pc = "touch" => stored = Inferred /\ Imaged # {} /\ converted
    <3>1. ~job[p].analyse
      BY <1>1, <2>1 DEF Sound, Analysis
    <3>2. CASE ~converted /\ Convert(p, Inferred)
      BY <3>1, <3>2, Constants, Converting
    <3>3. CASE stored # Inferred /\ Goto(p, "dropSegs")
      BY <3>1, <3>3, Going
    <3>4. CASE stored = Inferred /\ Convert(p, Inferred)
      BY <3>1, <3>4, Constants, Converting
    <3>5. CASE stored = Inferred /\ converted /\ Imaged # {} /\ Goto(p, "touch")
      BY <3>1, <3>5, Going
    <3> QED BY <1>4, <2>1, <3>2, <3>3, <3>4, <3>5 DEF LookAtCache
  <2>3. Sound(p)'
    BY <1>1, <1>2, <2>1, <2>2, Constants
    DEF Sound, Conversion, Copying, Analysis, Imaged, scoreVars, ScoreInv
  <2>4. Beside(p)
    BY <1>1, <2>1, <2>2 DEF Beside, Fit, scoreVars, ScoreInv
  <2>5. ScoreInv' /\ GapsInv'
    BY <1>1, <2>1, <2>2, GapsStay DEF ScoreInv, Fit, scoreVars, origVars
  <2> QED BY <1>3, <2>2, <2>3, <2>4, <2>5
<1>5. CASE DropSegments(p) \/ DropPages(p) \/ Unmark(p)
  <2>1. /\ job[p].pc \in {"dropSegs", "dropPages", "unmark"} /\ stored # Inferred
        /\ ~job[p].analyse
        /\ UNCHANGED <<converted, stored, image>> /\ (analysed' => analysed)
        /\ job[p].pc = "unmark" => ~analysed'
    BY <1>1, <1>5
    DEF DropSegments, DropPages, Unmark, At, Sound, Conversion, Analysis, scoreVars
  <2>2. /\ OthersStay(p) /\ job'[p].pc \in {"dropPages", "unmark", "unlink"} /\ ~job'[p].analyse
        /\ job'[p].pc = "unlink" => job[p].pc = "unmark"
    BY <1>5, <2>1, Going DEF DropSegments, DropPages, Unmark, At
  <2>3. Sound(p)'
    BY <1>2, <2>1, <2>2 DEF Sound, Conversion, Copying, Analysis
  <2>4. Beside(p)
    BY <2>1 DEF Beside, Fit
  <2>5. ScoreInv'
    BY <1>1, <2>1 DEF ScoreInv, Fit
  <2>6. GapsInv'
    BY <2>1, <2>2, GapsStay
  <2> QED BY <1>3, <2>2, <2>3, <2>4, <2>5, <2>6
<1>6. CASE UnlinkImages(p)
  <2>1. /\ job[p].pc = "unlink" /\ stored # Inferred /\ ~analysed /\ ~job[p].analyse
        /\ UNCHANGED <<scoreVars, origVars>> /\ image' = [q \in Pages |-> NoImage]
    BY <1>1, <1>6 DEF UnlinkImages, At, Sound, Conversion, Analysis
  <2>2. OthersStay(p) /\ job'[p].pc = "unlinkHigh" /\ ~job'[p].analyse
    BY <1>6, <2>1, Going DEF UnlinkImages
  <2>3. Sound(p)'
    BY <1>2, <2>1, <2>2, Constants DEF Sound, Conversion, Copying, Analysis, scoreVars
  <2>4. Beside(p)
    BY <2>1 DEF Beside, Fit
  <2>5. ScoreInv' /\ GapsInv'
    BY <1>1, <2>1 DEF ScoreInv, Fit, GapsInv, Imaged, scoreVars, origVars
  <2> QED BY <1>3, <2>2, <2>3, <2>4, <2>5
<1>9. CASE UnlinkHighres(p)
  <2>1. /\ job[p].pc = "unlinkHigh" /\ stored # Inferred /\ ~analysed /\ ~job[p].analyse
        /\ UNCHANGED <<converted, stored, analysed, image, origVars>>
    BY <1>1, <1>9 DEF UnlinkHighres, At, Sound, Conversion, Analysis
  <2>2. /\ OthersStay(p) /\ job'[p].pc = "copy" /\ ~job'[p].analyse
        /\ job'[p].orient = Inferred /\ job'[p].todo = Pages
    BY <1>9, <2>1, Constants, Converting DEF UnlinkHighres
  <2>3. Sound(p)'
    BY <1>2, <2>1, <2>2, Constants DEF Sound, Conversion, Copying, Analysis
  <2>4. Beside(p)
    BY <2>1 DEF Beside, Fit
  <2>5. ScoreInv'
    BY <1>1, <2>1 DEF ScoreInv, Fit, origVars
  <2>6. GapsInv'
    BY <2>1, <2>2, GapsStay
  <2> QED BY <1>3, <2>2, <2>3, <2>4, <2>5, <2>6
<1>7. CASE CopyImage(p)
  <2>1. PICK q \in job[p].todo : image' = [image EXCEPT ![q] = job[p].orient] /\ Done(p, q, "row")
    BY <1>7 DEF CopyImage
  <2>2. /\ job[p].pc = "copy" /\ job[p].orient = Inferred /\ (analysed => stored = Inferred)
        /\ ~job[p].analyse /\ q \in Pages /\ job[p].todo \subseteq Pages
        /\ \A x \in Pages \ job[p].todo : image[x] = Inferred
        /\ UNCHANGED <<converted, stored, analysed, origVars>>
    BY <1>1, <1>7 DEF CopyImage, At, Sound, Conversion, Analysis, Job
  <2>3. image'[q] = Inferred /\ \A x \in Pages : x # q => image'[x] = image[x]
    BY <1>1, <2>1, <2>2
  <2>4. /\ OthersStay(p) /\ job'[p].pc = IF job[p].todo = {q} THEN "row" ELSE "copy"
        /\ job'[p].orient = Inferred /\ ~job'[p].analyse /\ job'[p].todo = job[p].todo \ {q}
    BY <2>1, <2>2, Doing
  <2>5. Sound(p)'
    BY <1>2, <2>2, <2>3, <2>4 DEF Sound, Conversion, Copying, Analysis, Turned
  <2>6. Beside(p)
    BY <1>1, <2>2, <2>3, <2>4 DEF Beside, ScoreInv, Fit
  <2>7. ScoreInv'
    BY <1>1, <2>2, <2>3 DEF ScoreInv, Fit, origVars
  <2>8. GapsInv'
    <3> SUFFICES ASSUME NEW x \in Pages, image'[x] = NoImage, Imaged' # {}
                 PROVE  \E r \in Partsets : job'[r].pc = "copy" /\ x \in job'[r].todo
      BY DEF GapsInv, At
    <3>1. x # q /\ image[x] = NoImage
      BY <2>3, Constants
    <3>2. x \in job[p].todo
      BY <2>2, <3>1, Constants
    <3> QED BY <2>4, <3>1, <3>2
  <2> QED BY <1>3, <2>4, <2>5, <2>6, <2>7, <2>8
<1>8. CASE UpdateScore(p)
  <2>1. /\ job[p].pc \in {"row", "touch"} /\ ~job[p].analyse
        /\ converted' = TRUE /\ stored' = IF job[p].pc = "row" THEN job[p].orient ELSE stored
        /\ Goto(p, "check") /\ UNCHANGED <<analysed, image, origVars>>
    BY <1>1, <1>8 DEF UpdateScore, At, Sound, Analysis
  <2>2. stored' = Inferred /\ (analysed => stored = Inferred) /\ (job[p].pc = "row" => Turned)
    BY <1>1, <2>1 DEF Sound, Conversion
  <2>3. OthersStay(p) /\ job'[p].pc = "check" /\ ~job'[p].analyse
    BY <2>1, Going
  <2>4. Imaged' # {}
    BY <1>1, <2>1, <2>2, Constants DEF Sound, Conversion, Imaged, Turned
  <2>5. Sound(p)'
    BY <1>2, <2>1, <2>2, <2>3, <2>4 DEF Sound, Conversion, Copying, Analysis
  <2>6. Beside(p)
    BY <1>1, <2>1, <2>2, <2>3 DEF Beside, Fit
  <2>7. ScoreInv'
    BY <1>1, <2>1, <2>2 DEF ScoreInv, Fit, origVars, Sound, Conversion, Turned
  <2>8. GapsInv'
    BY <2>1, <2>3, GapsStay
  <2> QED BY <1>3, <2>3, <2>5, <2>6, <2>7, <2>8
<1> QED BY <1>4, <1>5, <1>6, <1>7, <1>8, <1>9

\* A step that leaves the score alone, its images and its analysis.
LEMMA ScoreStays ==
  ASSUME AnalysisType, Orderly, NEW p \in Partsets, InWork(p), job[p].pc # "copy", OthersStay(p),
         UNCHANGED <<converted, stored, analysed, image, origSegs, origPages, edited>>,
         Fit /\ job[p].pc \in Reusing => job'[p].pc \in Reusing \cup Idle,
         \A r \in Partsets : r # p =>
           segs'[r] = segs[r] /\ pages'[r] = pages[r] /\ (r \in complete' <=> r \in complete),
         Sound(p)', p \in complete' \ edited => RowsWhole(p)'
  PROVE  Orderly'
<1>1. Apart(p)
  BY DEF Apart
<1>2. Beside(p)
  BY DEF Beside, Orderly, ScoreInv, Fit
<1>3. ScoreInv'
  BY DEF Orderly, ScoreInv, Fit
<1>4. GapsInv'
  BY GapsStay
<1> QED BY <1>1, <1>2, <1>3, <1>4, InOrder

\* The analysis: nobody else is at work on the score, so its images are all there.
LEMMA AnalyseOrder ==
  ASSUME AnalysisType, Orderly, NEW p \in Partsets,
         \/ CheckAnalysis(p) \/ ListImages(p) \/ ClearRows(p) \/ ReadImages(p) \/ InsertPage(p)
         \/ MarkComplete(p)
  PROVE  Orderly'
<1> USE DEF Idle, Reusing, Dropping, Analysing, Handing
<1>1. Sound(p) /\ ScoreInv /\ GapsInv /\ job[p] \in Job
  BY DEF Orderly, AnalysisType
<1>2. /\ InWork(p) /\ UNCHANGED <<converted, stored, analysed, image, origSegs, origPages, edited>>
      /\ job[p].pc \in {"check", "list", "clear", "read", "insert", "mark"} /\ p \notin complete
  BY <1>1
  DEF CheckAnalysis, ListImages, ClearRows, ReadImages, InsertPage, MarkComplete, At, InWork,
      scoreVars, origVars, ownerVars, Sound
<1>3. CASE CheckAnalysis(p)
  <2>1. /\ job[p].pc = "check" /\ stored = Inferred /\ converted /\ Imaged # {}
        /\ UNCHANGED <<segs, pages, complete>>
    BY <1>1, <1>3 DEF CheckAnalysis, At, Sound, Conversion, rowVars
  <2>2. /\ OthersStay(p) /\ job'[p].pc = IF analysed THEN "clearOwn" ELSE "list"
        /\ (job'[p].analyse <=> ~analysed)
    BY <1>3, Checking DEF CheckAnalysis
  <2>3. ~analysed => Turned
    <3> SUFFICES ASSUME ~analysed, NEW q \in Pages PROVE image[q] = Inferred
      BY DEF Turned
    <3>1. image[q] # NoImage
      <4> SUFFICES ASSUME image[q] = NoImage PROVE FALSE
        OBVIOUS
      <4>1. PICK r \in Partsets : job[r].pc = "copy"
        BY <1>1, <2>1 DEF GapsInv, At
      <4> QED BY <1>2, <2>1, <4>1 DEF Orderly, MeetInv, InWork, Fit
    <3> QED BY <1>1, <2>1, <3>1 DEF ScoreInv
  <2>4. Conversion(job[p])'
    BY <1>2, <2>1, <2>2 DEF Conversion
  <2>5. Copying(p, job[p])'
    BY <1>2, <2>1, <2>2 DEF Copying, Fit
  <2>6. Analysis(p, job[p])'
    BY <1>2, <2>1, <2>2, <2>3 DEF Analysis, Turned
  <2>7. Sound(p)'
    BY <1>2, <2>1, <2>4, <2>5, <2>6 DEF Sound
  <2>8. Fit => job'[p].pc \in Reusing
    BY <2>2 DEF Fit
  <2> QED BY <1>2, <2>1, <2>2, <2>7, <2>8, ScoreStays
<1>4. CASE ListImages(p)
  <2>1. /\ job[p].pc = "list" /\ job[p].analyse /\ converted /\ ~analysed /\ stored = Inferred
        /\ Turned /\ UNCHANGED <<segs, pages, complete>>
    BY <1>1, <1>4 DEF ListImages, At, Sound, Conversion, Analysis, rowVars
  <2>2. Imaged = Pages /\ Pages # {}
    BY <2>1, Constants DEF Turned, Imaged
  <2>3. OthersStay(p) /\ job'[p].pc = "clear" /\ job'[p].todo = Pages /\ job'[p].analyse
    BY <1>4, <2>1, <2>2, Listing DEF ListImages
  <2>4. Sound(p)'
    BY <1>2, <2>1, <2>3 DEF Sound, Conversion, Copying, Analysis, Turned
  <2> QED BY <1>2, <2>1, <2>3, <2>4, ScoreStays
<1>5. CASE ClearRows(p)
  <2>1. /\ job[p].pc = "clear" /\ job[p].analyse /\ converted /\ ~analysed /\ stored = Inferred
        /\ Turned /\ job[p].todo = Pages /\ UNCHANGED complete
    BY <1>1, <1>5 DEF ClearRows, At, Sound, Conversion, Analysis
  <2>2. OthersStay(p) /\ job'[p].pc = "read" /\ job'[p].todo = Pages /\ job'[p].analyse
    BY <1>5, <2>1, Going DEF ClearRows
  <2>3. /\ segs'[p] = EmptyBag /\ \A r \in Partsets : r # p => segs'[r] = segs[r]
        /\ pages'[p] = {} /\ \A r \in Partsets : r # p => pages'[r] = pages[r]
    BY <1>5, RowsOf DEF ClearRows
  <2>4. Sound(p)'
    BY <1>2, <2>1, <2>2, <2>3 DEF Sound, Conversion, Copying, Analysis, Turned
  <2> QED BY <1>2, <2>1, <2>2, <2>3, <2>4, ScoreStays
<1>6. CASE ReadImages(p)
  <2>1. /\ job[p].pc = "read" /\ job[p].analyse /\ converted /\ ~analysed /\ stored = Inferred
        /\ Turned /\ job[p].todo = Pages /\ segs[p] = EmptyBag /\ pages[p] = {}
        /\ UNCHANGED <<segs, pages, complete>>
    BY <1>1, <1>6 DEF ReadImages, At, Sound, Conversion, Analysis, rowVars
  <2>2. Imaged = Pages
    BY <2>1, Constants DEF Turned, Imaged
  <2>3. /\ OthersStay(p) /\ job'[p].pc = "insert" /\ job'[p].todo = Pages /\ job'[p].analyse
        /\ job'[p].seen = image
    BY <1>6, <2>1, <2>2, Seeing DEF ReadImages
  <2>4. segs[p] = Some(Pages \ Pages) /\ pages[p] = Pages \ Pages
    <3>1. Pages \ Pages = {}
      OBVIOUS
    <3> QED BY <2>1, <3>1, SomeNone
  <2>5. Sound(p)'
    BY <1>2, <2>1, <2>3, <2>4, Constants DEF Sound, Conversion, Copying, Analysis, Turned
  <2> QED BY <1>2, <2>1, <2>3, <2>5, ScoreStays
<1>7. CASE InsertPage(p)
  <2>1. /\ job[p].pc = "insert" /\ job[p].analyse /\ converted /\ ~analysed /\ stored = Inferred
        /\ Turned /\ job[p].todo \subseteq Pages /\ \A q \in Pages : job[p].seen[q] = Inferred
        /\ segs[p] = Some(Pages \ job[p].todo) /\ pages[p] = Pages \ job[p].todo
        /\ UNCHANGED complete
    BY <1>1, <1>7 DEF InsertPage, At, Sound, Conversion, Analysis, Job
  <2>2. PICK q \in job[p].todo :
          /\ pages' = [pages EXCEPT ![p] = @ \union {q}]
          /\ segs' = [segs EXCEPT ![p] = @ (+) SetToBag({<<q, job[p].seen[q]>>})]
          /\ Done(p, q, "mark")
    BY <1>7, <2>1 DEF InsertPage
  <2>3. PICK todo : todo = job[p].todo
    OBVIOUS
  <2>4. /\ OthersStay(p) /\ job'[p].pc = IF todo = {q} THEN "mark" ELSE "insert"
        /\ job'[p].analyse /\ job'[p].todo = todo \ {q} /\ job'[p].seen = job[p].seen
    BY <2>1, <2>2, <2>3, Doing
  <2>5. job[p].seen[q] = Inferred /\ q \notin Pages \ todo
        /\ (Pages \ todo) \cup {q} = Pages \ (todo \ {q})
    BY <2>1, <2>3
  <2>6. segs'[p] = Some(Pages \ (todo \ {q})) /\ \A r \in Partsets : r # p => segs'[r] = segs[r]
    <3>1. DOMAIN segs = Partsets
      BY DEF AnalysisType
    <3>2. PICK b : b = segs[p] (+) SetToBag({<<q, Inferred>>})
      OBVIOUS
    <3>3. segs' = [segs EXCEPT ![p] = b]
      BY <2>2, <2>5, <3>1, <3>2
    <3>4. b = Some(Pages \ (todo \ {q}))
      BY <2>1, <2>3, <2>5, <3>2, SomeMore
    <3> QED BY <3>3, <3>4, RowsOf
  <2>7. pages'[p] = Pages \ (todo \ {q}) /\ \A r \in Partsets : r # p => pages'[r] = pages[r]
    BY <2>1, <2>2, <2>3, <2>5 DEF AnalysisType
  <2>8. todo = {q} => Pages \ (todo \ {q}) = Pages
    OBVIOUS
  <2>9. Conversion(job[p])' /\ Copying(p, job[p])'
    BY <1>2, <2>1, <2>4 DEF Conversion, Copying
  <2>10. Analysis(p, job[p])'
    <3>1. CASE todo = {q}
      BY <1>2, <2>1, <2>4, <2>6, <2>7, <2>8, <3>1 DEF Analysis, Turned, RowsWhole
    <3>2. CASE todo # {q}
      BY <1>2, <2>1, <2>2, <2>3, <2>4, <2>6, <2>7, <3>2 DEF Analysis, Turned
    <3> QED BY <3>1, <3>2
  <2>11. Sound(p)'
    BY <1>2, <2>1, <2>9, <2>10 DEF Sound
  <2> QED BY <1>2, <2>1, <2>4, <2>6, <2>7, <2>11, ScoreStays
<1>8. CASE MarkComplete(p)
  <2>1. /\ job[p].pc = "mark" /\ job[p].analyse /\ converted /\ ~analysed /\ stored = Inferred
        /\ Turned /\ RowsWhole(p) /\ UNCHANGED <<segs, pages>> /\ complete' = complete \cup {p}
    BY <1>1, <1>8 DEF MarkComplete, At, Sound, Conversion, Analysis
  <2>2. OthersStay(p) /\ job'[p].pc = "emptySegs" /\ job'[p].analyse
    BY <1>8, <2>1, Going DEF MarkComplete
  <2>3. Sound(p)' /\ RowsWhole(p)'
    BY <1>2, <2>1, <2>2 DEF Sound, Conversion, Copying, Analysis, Turned, RowsWhole
  <2> QED BY <1>2, <2>1, <2>2, <2>3, ScoreStays
<1> QED BY <1>3, <1>4, <1>5, <1>6, <1>7, <1>8

\* The analysis is handed to the score: nobody relies on it yet.
LEMMA HandOrder ==
  ASSUME AnalysisType, Orderly, NEW p \in Partsets,
         \/ EmptySegments(p) \/ FillSegments(p) \/ EmptyPages(p) \/ FillPages(p) \/ MarkAnalysed(p)
  PROVE  Orderly'
<1> USE DEF Idle, Reusing, Dropping, Analysing, Handing
<1>1. Sound(p) /\ ScoreInv /\ (p \in complete \ edited => RowsWhole(p))
  BY DEF Orderly
<1>2. /\ InWork(p) /\ UNCHANGED <<converted, stored, image, segs, pages, complete, edited>>
      /\ job[p].pc \in Handing
  BY DEF EmptySegments, FillSegments, EmptyPages, FillPages, MarkAnalysed, At, InWork,
         scoreVars, rowVars, ownerVars
<1>3. /\ job[p].analyse /\ converted /\ ~analysed /\ stored = Inferred /\ Turned
      /\ segs[p] = Some(Pages) /\ pages[p] = Pages
      /\ \A q \in Pages : image[q] \in {NoImage, Inferred}
  BY <1>1, <1>2 DEF Sound, Conversion, Analysis, RowsWhole, ScoreInv
<1>4. ASSUME OthersStay(p), Sound(p)', analysed' => origSegs' = Some(Pages) /\ origPages' = Pages
      PROVE  Orderly'
  <2>1. Apart(p) /\ Beside(p)
    BY <1>2, <1>3, <1>4 DEF Apart, Beside, Fit
  <2>2. ScoreInv'
    BY <1>2, <1>3, <1>4 DEF ScoreInv, Fit
  <2>3. GapsInv'
    BY <1>2, <1>4, GapsStay
  <2>4. p \in complete' \ edited => RowsWhole(p)'
    BY <1>2, <1>3 DEF RowsWhole
  <2> QED BY <1>2, <1>4, <2>1, <2>2, <2>3, <2>4, InOrder
<1>5. CASE EmptySegments(p)
  <2>1. UNCHANGED <<analysed, origPages>> /\ origSegs' = EmptyBag
    BY <1>5 DEF EmptySegments, scoreVars
  <2>2. OthersStay(p) /\ job'[p].pc = "fillSegs" /\ job'[p].analyse
    BY <1>3, <1>5, Going DEF EmptySegments
  <2>3. Sound(p)'
    BY <1>2, <1>3, <2>1, <2>2 DEF Sound, Conversion, Copying, Analysis, Turned, RowsWhole
  <2> QED BY <1>3, <1>4, <2>1, <2>2, <2>3
<1>6. CASE FillSegments(p)
  <2>1. UNCHANGED <<analysed, origPages>> /\ origSegs' = origSegs (+) segs[p] /\ origSegs = EmptyBag
    BY <1>1, <1>6 DEF FillSegments, scoreVars, At, Sound, Analysis
  <2>2. OthersStay(p) /\ job'[p].pc = "emptyPages" /\ job'[p].analyse
    BY <1>3, <1>6, Going DEF FillSegments
  <2>3. origSegs' = Some(Pages)
    BY <1>3, <2>1, SomeFirst
  <2>4. Sound(p)'
    BY <1>2, <1>3, <2>1, <2>2, <2>3 DEF Sound, Conversion, Copying, Analysis, Turned, RowsWhole
  <2> QED BY <1>3, <1>4, <2>1, <2>2, <2>4
<1>7. CASE EmptyPages(p)
  <2>1. UNCHANGED <<analysed, origSegs>> /\ origPages' = {} /\ origSegs = Some(Pages)
    BY <1>1, <1>7 DEF EmptyPages, scoreVars, At, Sound, Analysis
  <2>2. OthersStay(p) /\ job'[p].pc = "fillPages" /\ job'[p].analyse
    BY <1>3, <1>7, Going DEF EmptyPages
  <2>3. Sound(p)'
    BY <1>2, <1>3, <2>1, <2>2 DEF Sound, Conversion, Copying, Analysis, Turned, RowsWhole
  <2> QED BY <1>3, <1>4, <2>1, <2>2, <2>3
<1>8. CASE FillPages(p)
  <2>1. UNCHANGED <<analysed, origSegs>> /\ origSegs = Some(Pages) /\ origPages = {}
    BY <1>1, <1>8 DEF FillPages, scoreVars, At, Sound, Analysis
  <2>2. origPages' = Pages /\ Goto(p, "analysed")
    BY <1>3, <1>8, <2>1 DEF FillPages
  <2>3. OthersStay(p) /\ job'[p].pc = "analysed" /\ job'[p].analyse
    BY <1>3, <2>2, Going
  <2>4. Sound(p)'
    BY <1>2, <1>3, <2>1, <2>2, <2>3 DEF Sound, Conversion, Copying, Analysis, Turned, RowsWhole
  <2> QED BY <1>3, <1>4, <2>1, <2>3, <2>4
<1>9. CASE MarkAnalysed(p)
  <2>1. UNCHANGED <<origSegs, origPages>> /\ origSegs = Some(Pages) /\ origPages = Pages
    BY <1>1, <1>9 DEF MarkAnalysed, origVars, At, Sound, Analysis
  <2>2. OthersStay(p) /\ job'[p].pc = "none" /\ ~job'[p].analyse
    BY <1>9, Ending DEF MarkAnalysed
  <2>3. Sound(p)'
    BY <1>2, <2>2 DEF Sound, Conversion, Copying, Analysis
  <2> QED BY <1>4, <2>1, <2>2, <2>3
<1> QED BY <1>5, <1>6, <1>7, <1>8, <1>9

\* The copy of an analysis that is fit.
LEMMA ReuseOrder ==
  ASSUME AnalysisType, Orderly, NEW p \in Partsets,
         ClearOwnRows(p) \/ CopySegments(p) \/ CopyPages(p) \/ FinishReuse(p)
  PROVE  Orderly'
<1> USE DEF Idle, Reusing, Dropping, Analysing, Handing
<1>1. Sound(p) /\ ScoreInv
  BY DEF Orderly
<1>2. /\ InWork(p) /\ UNCHANGED <<converted, stored, analysed, image, origSegs, origPages, edited>>
      /\ job[p].pc \in {"clearOwn", "copySegs", "copyPages", "finish"} /\ p \notin complete
  BY <1>1
  DEF ClearOwnRows, CopySegments, CopyPages, FinishReuse, At, InWork, scoreVars, origVars, ownerVars, Sound
<1>3. /\ ~job[p].analyse /\ converted /\ analysed /\ stored = Inferred
      /\ origSegs = Some(Pages) /\ origPages = Pages
  BY <1>1, <1>2 DEF Sound, Copying, Analysis, Fit, ScoreInv
<1>4. CASE ClearOwnRows(p)
  <2>1. OthersStay(p) /\ job'[p].pc = "copySegs" /\ ~job'[p].analyse /\ complete' = complete
    BY <1>3, <1>4, Going DEF ClearOwnRows
  <2>2. /\ segs'[p] = EmptyBag /\ \A r \in Partsets : r # p => segs'[r] = segs[r]
        /\ \A r \in Partsets : r # p => pages'[r] = pages[r]
    BY <1>4, RowsOf DEF ClearOwnRows
  <2>3. Sound(p)'
    BY <1>2, <1>3, <2>1, <2>2 DEF Sound, Conversion, Copying, Analysis, Fit
  <2> QED BY <1>2, <2>1, <2>2, <2>3, ScoreStays
<1>5. CASE CopySegments(p)
  <2>1. /\ OthersStay(p) /\ job'[p].pc = "copyPages" /\ ~job'[p].analyse
        /\ UNCHANGED <<pages, complete>> /\ segs[p] = EmptyBag
    BY <1>1, <1>3, <1>5, Going DEF CopySegments, At, Sound, Copying
  <2>2. segs'[p] = Some(Pages) /\ \A r \in Partsets : r # p => segs'[r] = segs[r]
    <3>1. DOMAIN segs = Partsets
      BY DEF AnalysisType
    <3>2. PICK b : b = segs[p] (+) origSegs
      OBVIOUS
    <3>3. segs' = [segs EXCEPT ![p] = b]
      BY <1>5, <3>1, <3>2 DEF CopySegments
    <3>4. b = Some(Pages)
      BY <1>3, <2>1, <3>2, SomeFirst
    <3> QED BY <3>3, <3>4, RowsOf
  <2>3. Sound(p)'
    BY <1>2, <1>3, <2>1, <2>2 DEF Sound, Conversion, Copying, Analysis, Fit
  <2> QED BY <1>2, <2>1, <2>2, <2>3, ScoreStays
<1>6. CASE CopyPages(p)
  <2>1. /\ OthersStay(p) /\ job'[p].pc = "finish" /\ ~job'[p].analyse
        /\ UNCHANGED <<segs, complete>> /\ segs[p] = Some(Pages)
    BY <1>1, <1>3, <1>6, Going DEF CopyPages, At, Sound, Copying
  <2>2. pages'[p] = Pages /\ \A r \in Partsets : r # p => pages'[r] = pages[r]
    BY <1>3, <1>6, RowsOf DEF CopyPages
  <2>3. Sound(p)'
    BY <1>2, <1>3, <2>1, <2>2 DEF Sound, Conversion, Copying, Analysis, Fit
  <2> QED BY <1>2, <2>1, <2>2, <2>3, ScoreStays
<1>7. CASE FinishReuse(p)
  <2>1. /\ OthersStay(p) /\ job'[p].pc = "none" /\ ~job'[p].analyse
        /\ UNCHANGED <<segs, pages>> /\ complete' = complete \cup {p}
        /\ segs[p] = Some(Pages) /\ pages[p] = Pages
    BY <1>1, <1>7, Ending DEF FinishReuse, At, Sound, Copying
  <2>2. Sound(p)' /\ RowsWhole(p)'
    BY <2>1 DEF Sound, Conversion, Copying, Analysis, RowsWhole
  <2> QED BY <1>2, <2>1, <2>2, ScoreStays
<1> QED BY <1>4, <1>5, <1>6, <1>7

\* Requests, the owner and faults.
LEMMA OtherOrder ==
  ASSUME AnalysisType, Orderly, NEW p \in Partsets, Undisturbed',
         RequestStep(p) \/ EditSegments(p) \/ KillJob(p)
  PROVE  Orderly'
<1> USE DEF Idle, Reusing, Dropping, Analysing, Handing
<1>1. Sound(p) /\ ScoreInv /\ (p \in complete \ edited => RowsWhole(p))
  BY DEF Orderly
<1>2. CASE RequestStep(p)
  <2>1. UNCHANGED <<converted, stored, analysed, image, origSegs, origPages, segs, pages, complete, edited>>
    BY <1>2 DEF RequestStep, ReadIncomplete, Enqueue, scoreVars, origVars, rowVars
  <2>2. \/ job' = job
        \/ job[p].pc = "none" /\ OthersStay(p) /\ job'[p].pc = "queued" /\ job'[p].analyse = job[p].analyse
    BY <1>2, Going DEF RequestStep, ReadIncomplete, Enqueue, At
  <2>3. \A r \in Partsets : Sound(r)'
    <3>1. \A r \in Partsets : job'[r] = job[r] => Sound(r)'
      BY <2>1, SoundStays DEF Orderly
    <3>2. job'[p] # job[p] => Sound(p)'
      BY <1>1, <2>1, <2>2 DEF Sound, Conversion, Copying, Analysis
    <3> QED BY <2>2, <3>1, <3>2 DEF OthersStay
  <2>4. \A r \in Partsets : InWork(r)' => InWork(r) /\ job'[r] = job[r]
    BY <2>2 DEF InWork, OthersStay
  <2>5. MeetInv'
    BY <2>1, <2>4 DEF Orderly, MeetInv, Fit
  <2>6. GapsInv'
    BY <2>1, <2>2, GapsStay DEF Orderly, GapsInv, Imaged, At
  <2>7. ScoreInv' /\ \A r \in Partsets : r \in complete' \ edited' => RowsWhole(r)'
    BY <2>1 DEF Orderly, ScoreInv, Fit, RowsWhole
  <2> QED BY <2>3, <2>5, <2>6, <2>7 DEF Orderly
<1>3. CASE EditSegments(p)
  <2>1. /\ UNCHANGED <<converted, stored, analysed, image, origSegs, origPages, pages, complete, job>>
        /\ edited' = edited \cup {p} /\ ~InWork(p)
    BY <1>3 DEF EditSegments, scoreVars, origVars, Undisturbed
  <2>2. \A r \in Partsets : r # p => segs'[r] = segs[r]
    BY <1>3, RowsOf DEF EditSegments
  <2>3. Sound(p)'
    BY <1>1, <2>1 DEF InWork, Sound, Conversion, Copying, Analysis
  <2>4. \A r \in Partsets : r # p => Sound(r)'
    <3> SUFFICES ASSUME NEW r \in Partsets, r # p PROVE Sound(r)'
      OBVIOUS
    <3>1. Sound(r) /\ segs'[r] = segs[r]
      BY <2>2 DEF Orderly
    <3>2. Conversion(job[r])'
      BY <2>1, <3>1 DEF Sound, Conversion, Turned, Imaged
    <3>3. Copying(r, job[r])'
      BY <2>1, <3>1 DEF Sound, Copying, Fit
    <3>4. Analysis(r, job[r])'
      BY <2>1, <3>1 DEF Sound, Analysis, Turned, RowsWhole
    <3> QED BY <2>1, <3>1, <3>2, <3>3, <3>4 DEF Sound
  <2>5. ScoreInv' /\ GapsInv' /\ MeetInv'
    BY <2>1 DEF Orderly, ScoreInv, GapsInv, MeetInv, Fit, Imaged, At, InWork
  <2>6. \A r \in Partsets : r \in complete' \ edited' => RowsWhole(r)'
    BY <2>1, <2>2 DEF Orderly, RowsWhole
  <2> QED BY <2>3, <2>4, <2>5, <2>6 DEF Orderly
<1>4. CASE KillJob(p)
  <2>1. /\ UNCHANGED <<converted, stored, analysed, image, origSegs, origPages, segs, pages, complete, edited>>
        /\ InWork(p) /\ job[p].pc # "copy"
    BY <1>4 DEF KillJob, scoreVars, origVars, rowVars, Undisturbed, At
  <2>2. PICK pc \in {"none", "queued"} : job' = [job EXCEPT ![p] = [NoJob EXCEPT !.pc = pc]]
    BY <1>4 DEF KillJob
  <2>3. PICK r : r = [NoJob EXCEPT !.pc = pc]
    OBVIOUS
  <2>4. r \in Job /\ r.pc = pc /\ ~r.analyse
    BY <2>3, NoJobType DEF Job, NoJob
  <2>5. OthersStay(p) /\ job'[p].pc \in {"none", "queued"} /\ ~job'[p].analyse
    BY <2>2, <2>3, <2>4, JobSet
  <2>6. Sound(p)'
    BY <2>5 DEF Sound, Conversion, Copying, Analysis
  <2>7. p \in complete' \ edited => RowsWhole(p)'
    BY <1>1, <2>1 DEF RowsWhole
  <2> QED BY <2>1, <2>5, <2>6, <2>7, ScoreStays
<1> QED BY <1>2, <1>3, <1>4

\* What has happened stays in the histories.
LEMMA HistoryStays ==
  ASSUME NEW p \in Partsets, RequestStep(p) \/ EditSegments(p) \/ JobStep(p) \/ KillJob(p), Undisturbed'
  PROVE  Undisturbed
<1>1. CASE StartImport(p)
  BY <1>1 DEF StartImport, Undisturbed
<1>2. CASE EditSegments(p)
  BY <1>2 DEF EditSegments, Undisturbed
<1>3. CASE KillJob(p)
  BY <1>3 DEF KillJob, Undisturbed
<1>4. CASE UNCHANGED histVars
  BY <1>4 DEF histVars, Undisturbed
<1>5. RequestStep(p) => UNCHANGED histVars
  BY DEF RequestStep, ReadIncomplete, Enqueue
<1>6. JobStep(p) => StartImport(p) \/ UNCHANGED histVars
  BY DEF JobStep, LookAtCache, DropSegments, DropPages, Unmark, UnlinkImages, UnlinkHighres, CopyImage, UpdateScore,
         CheckAnalysis, ListImages, ClearRows, ReadImages, InsertPage, MarkComplete, EmptySegments,
         FillSegments, EmptyPages, FillPages, MarkAnalysed, ClearOwnRows, CopySegments, CopyPages, FinishReuse
<1> QED BY <1>1, <1>2, <1>3, <1>4, <1>5, <1>6

LEMMA NextOrder == AnalysisType /\ AnalysisInv /\ [Next]_vars => AnalysisInv'
<1> SUFFICES ASSUME AnalysisType, AnalysisInv, [Next]_vars, Undisturbed' PROVE Orderly'
  BY DEF AnalysisInv
<1>1. CASE UNCHANGED vars
  <2>1. Orderly
    BY <1>1 DEF vars, histVars, AnalysisInv, Undisturbed
  <2>2. UNCHANGED <<converted, stored, analysed, image, origSegs, origPages, segs, pages, complete, edited, job>>
    BY <1>1 DEF vars, scoreVars, origVars, rowVars, ownerVars
  <2> QED
    BY <2>1, <2>2
    DEF Orderly, ScoreInv, GapsInv, MeetInv, Fit, Imaged,
        At, InWork, Sound, Conversion, Copying, Analysis, Turned, RowsWhole
<1>2. CASE Next
  <2>1. PICK p \in Partsets : RequestStep(p) \/ EditSegments(p) \/ JobStep(p) \/ KillJob(p)
    BY <1>2 DEF Next
  <2>2. Orderly
    BY <2>1, HistoryStays DEF AnalysisInv
  <2>3. CASE RequestStep(p) \/ EditSegments(p) \/ KillJob(p)
    BY <2>2, <2>3, OtherOrder
  <2>4. CASE JobStep(p)
    BY <2>2, <2>4, StartOrder, ConvertOrder, AnalyseOrder, HandOrder, ReuseOrder DEF JobStep
  <2> QED BY <2>1, <2>3, <2>4
<1> QED BY <1>1, <1>2

LEMMA AnalysisInvariant == Spec => [](AnalysisType /\ AnalysisInv)
<1>1. Init => AnalysisType /\ AnalysisInv
  BY InitAnalysis DEF AnalysisInv
<1>2. AnalysisType /\ AnalysisInv /\ [Next]_vars => (AnalysisType /\ AnalysisInv)'
  BY NextType, NextOrder
<1> QED BY <1>1, <1>2, PTL DEF Spec

-----------------------------------------------------------------------------
(* Theorems. *)

\* Any number of partsets that import one score, with kills and retries at any point,
\* leave one whole analysis of it, with every page once: an import that copies it
\* (copy_score_segs_to_partset) never finds half of one, nor two.
THEOREM OneAnalysisIsKept == Spec => []OneAnalysis
<1>1. AnalysisType /\ AnalysisInv => OneAnalysis
  BY WholeIsSome DEF AnalysisInv, Orderly, ScoreInv, Fit, OneAnalysis
<1> QED BY <1>1, AnalysisInvariant, PTL

\* A partset whose import is complete (analysis_complete) has all its pages and each of
\* their segments once, whether it was analysed or copied, until its owner edits them.
THEOREM CompletePartsetsAreWhole == Spec => []CompleteRows
<1>1. AnalysisType /\ AnalysisInv => CompleteRows
  BY WholeIsSome DEF AnalysisType, AnalysisInv, Orderly, RowsWhole, CompleteRows
<1> QED BY <1>1, AnalysisInvariant, PTL

=============================================================================
