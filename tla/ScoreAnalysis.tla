---------------------------- MODULE ScoreAnalysis ----------------------------
(***************************************************************************)
(* The import_pipeline jobs of the partsets of one archived score.  They   *)
(* share the score's row, its page images in the local cache, and its      *)
(* analysis: original_pages and original_segments, which the first import  *)
(* computes and later ones copy.  The workers' statements commit one by    *)
(* one, so two imports of a score, a kill, and the owner of a finished     *)
(* partset come in between any two of them.                                *)
(***************************************************************************)
EXTENDS Integers, FiniteSets, Bags

CONSTANTS
  Partsets,      \* partsets of the score
  NumPages,      \* pages of the score
  Orientations,  \* portrait, landscape
  Inferred,      \* what infer_orientation_from_pdf makes of the PDF
  NoImage,       \* a page without image
  Own,           \* the mark of a segment its owner has drawn
  MaxEvents      \* bound on kills and owners' saves together

ASSUME ScoreAnalysisAssumption ==
  /\ NumPages \in Nat \ {0} /\ Inferred \in Orientations
  /\ NoImage \notin Orientations /\ Own \notin Orientations
  /\ MaxEvents \in Nat

VARIABLES
  converted, stored, analysed,  \* scores: convert_complete, orientation, analysis_complete
  image,        \* the lowres page images in the local cache, by their orientation
  highres,      \* there are highres page images in the local cache
  origSegs,     \* original_segments: a bag, it has no key but its number
  origPages,    \* original_pages: its key is (score_id, page)
  segs, pages,  \* segments and pages of each partset
  complete,     \* partsets whose analysis_complete is set
  job,          \* the import of each partset
  stale,        \* partsets that a request has read as incomplete
  edited,       \* partsets whose owner has saved segments
  faults, edits,\* counters that bound the model
  reran,        \* history: an import has begun for a partset that is complete
  overlapped,   \* history: two imports at once, and the analysis not yet fit for reuse
  torn,         \* history: an import was killed while it copied images
  hurried       \* history: an owner saved before the import had copied the analysis

scoreVars == <<converted, stored, analysed, highres>>
origVars  == <<origSegs, origPages>>
rowVars   == <<segs, pages, complete>>
ownerVars == <<stale, edited, faults, edits>>
histVars  == <<reran, overlapped, torn, hurried>>
vars == <<scoreVars, image, origVars, rowVars, job, ownerVars, histVars>>

Pages == 1..NumPages

\* orient: the orientation in which the job converts.  todo: pages to copy or insert.
\* seen: the images it analyses.  first: convert_complete was NULL.
NoJob == [pc |-> "none", orient |-> Inferred, first |-> FALSE, analyse |-> FALSE, todo |-> {},
          seen |-> [q \in Pages |-> NoImage]]

\* The segments of all pages, each once.
Whole(o) == SetToBag({<<q, o>> : q \in Pages})

\* A new score, one whose import failed in the analysis, one that is analysed; the
\* latter two may have lost their images, or carry the default orientation.
Init ==
  /\ converted \in BOOLEAN /\ analysed \in BOOLEAN /\ stored \in Orientations
  /\ analysed => converted
  /\ image \in {[q \in Pages |-> o] : o \in {NoImage, stored}}
  /\ ~converted => image = [q \in Pages |-> NoImage]
  /\ highres = (image # [q \in Pages |-> NoImage])
  /\ origSegs = IF analysed THEN Whole(stored) ELSE EmptyBag
  /\ origPages = IF analysed THEN Pages ELSE {}
  /\ segs = [p \in Partsets |-> EmptyBag] /\ pages = [p \in Partsets |-> {}]
  /\ complete = {} /\ job = [p \in Partsets |-> NoJob]
  /\ stale = {} /\ edited = {} /\ faults = 0 /\ edits = 0
  /\ reran = FALSE /\ overlapped = FALSE /\ torn = FALSE /\ hurried = FALSE

-----------------------------------------------------------------------------
(* Helpers. *)

At(p, pc)      == job[p].pc = pc
Goto(p, pc)    == job' = [job EXCEPT ![p].pc = pc]
End(p)         == job' = [job EXCEPT ![p] = NoJob]
InWork(p)      == job[p].pc \notin {"none", "queued"}
Imaged         == {q \in Pages : image[q] # NoImage}
\* One page done; the next stage comes after the last.
Done(p, q, pc) == job' = [job EXCEPT ![p].todo = @ \ {q},
                                     ![p].pc = IF job[p].todo = {q} THEN pc ELSE @]
Convert(p, o)  == job' = [job EXCEPT ![p].pc = "copy", ![p].orient = o, ![p].todo = Pages]

-----------------------------------------------------------------------------
(* Requests and owners. *)

\* Mutant: an import that has left pages counts as done.
ReadUntouched(p) ==
  /\ p \notin complete \union stale /\ pages[p] = {}
  /\ stale' = stale \union {p}
  /\ UNCHANGED <<scoreVars, image, origVars, rowVars, job, edited, faults, edits, histVars>>

\* ensure_import_if_needed and retry read the partset first and take the import
\* lock afterwards.
ReadIncomplete(p) ==
  /\ p \notin complete \union stale
  /\ stale' = stale \union {p}
  /\ UNCHANGED <<scoreVars, image, origVars, rowVars, job, edited, faults, edits, histVars>>

\* The lock is free when the last job has ended.
Enqueue(p) ==
  /\ p \in stale
  /\ stale' = stale \ {p}
  /\ IF At(p, "none") THEN Goto(p, "queued") ELSE UNCHANGED job
  /\ UNCHANGED <<scoreVars, image, origVars, rowVars, edited, faults, edits, histVars>>

\* The segment editor opens once the import is complete.
EditSegments(p) ==
  /\ p \in complete /\ faults + edits < MaxEvents
  /\ edits' = edits + 1
  /\ segs' = [segs EXCEPT ![p] = SetToBag({<<q, Own>> : q \in pages[p]})]
  /\ edited' = edited \union {p}
  /\ hurried' = (hurried \/ InWork(p))
  /\ UNCHANGED <<scoreVars, image, origVars, pages, complete, job, stale, faults, reran, overlapped, torn>>

-----------------------------------------------------------------------------
(* run_import_pipeline: conversion. *)

\* _ensure_score_pdf, infer_orientation_from_pdf and the score's row.
StartImport(p) ==
  /\ At(p, "queued")
  /\ job' = [job EXCEPT ![p] = [NoJob EXCEPT !.pc = "cache", !.orient = stored, !.first = ~converted]]
  /\ overlapped' = \/ overlapped
                    \/ \E r \in Partsets \ {p} :
                         InWork(r) /\ (job[r].analyse \/ ~analysed \/ stored # Inferred)
  /\ reran' = (reran \/ p \in complete)
  /\ UNCHANGED <<scoreVars, image, origVars, rowVars, ownerVars, torn, hurried>>

\* One lowres image makes a warm cache.  A stored orientation that the PDF contradicts
\* invalidates images and analysis.
LookAtCache(p) ==
  /\ At(p, "cache")
  /\ \/ job[p].first /\ Convert(p, Inferred)
     \/ ~job[p].first /\ job[p].orient # Inferred /\ Goto(p, "dropSegs")
     \/ /\ ~job[p].first /\ job[p].orient = Inferred
        /\ IF Imaged = {} THEN Convert(p, job[p].orient) ELSE Goto(p, "touch")
  /\ UNCHANGED <<scoreVars, image, origVars, rowVars, ownerVars, histVars>>

\* invalidate_score_analysis, then invalidate_score_pages.
DropSegments(p) ==
  /\ At(p, "dropSegs") /\ origSegs' = EmptyBag /\ Goto(p, "dropPages")
  /\ UNCHANGED <<scoreVars, image, origPages, rowVars, ownerVars, histVars>>

DropPages(p) ==
  /\ At(p, "dropPages") /\ origPages' = {} /\ Goto(p, "unmark")
  /\ UNCHANGED <<scoreVars, image, origSegs, rowVars, ownerVars, histVars>>

\* Mutant: the analysis is not taken back with the images.
UnmarkNothing(p) ==
  /\ At(p, "unmark") /\ Goto(p, "unlink")
  /\ UNCHANGED <<scoreVars, image, origVars, rowVars, ownerVars, histVars>>

Unmark(p) ==
  /\ At(p, "unmark") /\ analysed' = FALSE /\ Goto(p, "unlink")
  /\ UNCHANGED <<converted, stored, highres, image, origVars, rowVars, ownerVars, histVars>>

\* invalidate_score_pages removes the lowres images first.
UnlinkImages(p) ==
  /\ At(p, "unlink") /\ image' = [q \in Pages |-> NoImage]
  /\ Goto(p, "unlinkHigh")
  /\ UNCHANGED <<scoreVars, origVars, rowVars, ownerVars, histVars>>

UnlinkHighres(p) ==
  /\ At(p, "unlinkHigh") /\ highres' = FALSE
  /\ Convert(p, Inferred)
  /\ UNCHANGED <<converted, stored, analysed, image, origVars, rowVars, ownerVars, histVars>>

\* convert_score works in the scratch directory, copy_pages_tree page by page, the
\* highres images when all of lowres are there.
CopyImage(p) ==
  /\ At(p, "copy")
  /\ \E q \in job[p].todo :
       /\ image' = [image EXCEPT ![q] = job[p].orient] /\ Done(p, q, "row")
       /\ highres' = (highres \/ job[p].todo = {q})
  /\ UNCHANGED <<converted, stored, analysed, origVars, rowVars, ownerVars, histVars>>

\* The row of the score after a conversion; when the images were there
\* (_mark_convert_complete) the orientation is left alone.
UpdateScore(p) ==
  /\ job[p].pc \in {"row", "touch"}
  /\ converted' = TRUE
  /\ stored' = IF At(p, "row") THEN job[p].orient ELSE stored
  /\ Goto(p, IF job[p].analyse THEN "list" ELSE "check")
  /\ UNCHANGED <<analysed, highres, image, origVars, rowVars, ownerVars, histVars>>

-----------------------------------------------------------------------------
(* run_import_pipeline: analysis. *)

CheckAnalysis(p) ==
  /\ At(p, "check")
  /\ job' = [job EXCEPT ![p].pc = IF analysed THEN "clearOwn" ELSE "list", ![p].analyse = ~analysed]
  /\ UNCHANGED <<scoreVars, image, origVars, rowVars, ownerVars, histVars>>

\* ensure_lowres_files: the images there are.  Without any, they are built, unless
\* there are highres images: then nothing is listed, and the partset is complete as
\* it stands.
ListImages(p) ==
  /\ At(p, "list")
  /\ \/ Imaged # {} /\ job' = [job EXCEPT ![p].pc = "clear", ![p].todo = Imaged]
     \/ Imaged = {} /\ ~highres /\ Convert(p, stored)
     \/ Imaged = {} /\ highres /\ Goto(p, "mark")
  /\ UNCHANGED <<scoreVars, image, origVars, rowVars, ownerVars, histVars>>

\* analyze_score clears the partset's own rows ...
ClearRows(p) ==
  /\ At(p, "clear")
  /\ segs' = [segs EXCEPT ![p] = EmptyBag] /\ pages' = [pages EXCEPT ![p] = {}]
  /\ Goto(p, "read")
  /\ UNCHANGED <<scoreVars, image, origVars, complete, ownerVars, histVars>>

\* ... reads every image it has listed, an image that is gone is an exception ...
ReadImages(p) ==
  /\ At(p, "read")
  /\ IF job[p].todo \subseteq Imaged
     THEN job' = [job EXCEPT ![p].pc = "insert", ![p].seen = image]
     ELSE End(p)
  /\ UNCHANGED <<scoreVars, image, origVars, rowVars, ownerVars, histVars>>

\* ... and inserts page by page; a page that has a row already is an exception.
InsertPage(p) ==
  /\ At(p, "insert")
  /\ \E q \in job[p].todo :
       IF q \in pages[p] THEN End(p) /\ UNCHANGED <<segs, pages>>
       ELSE /\ pages' = [pages EXCEPT ![p] = @ \union {q}]
            /\ segs' = [segs EXCEPT ![p] = @ (+) SetToBag({<<q, job[p].seen[q]>>})]
            /\ Done(p, q, "mark")
  /\ UNCHANGED <<scoreVars, image, origVars, complete, ownerVars, histVars>>

MarkComplete(p) ==
  /\ At(p, "mark")
  /\ complete' = complete \union {p}
  /\ Goto(p, "emptySegs")
  /\ UNCHANGED <<scoreVars, image, origVars, segs, pages, ownerVars, histVars>>

-----------------------------------------------------------------------------
(* copy_partset_segs_to_score. *)

EmptySegments(p) ==
  /\ At(p, "emptySegs") /\ origSegs' = EmptyBag /\ Goto(p, "fillSegs")
  /\ UNCHANGED <<scoreVars, image, origPages, rowVars, ownerVars, histVars>>

FillSegments(p) ==
  /\ At(p, "fillSegs") /\ origSegs' = origSegs (+) segs[p] /\ Goto(p, "emptyPages")
  /\ UNCHANGED <<scoreVars, image, origPages, rowVars, ownerVars, histVars>>

EmptyPages(p) ==
  /\ At(p, "emptyPages") /\ origPages' = {} /\ Goto(p, "fillPages")
  /\ UNCHANGED <<scoreVars, image, origSegs, rowVars, ownerVars, histVars>>

\* The key (score_id, page) refuses a second set: the import fails after all.
FillPages(p) ==
  /\ At(p, "fillPages")
  /\ \/ origPages \intersect pages[p] # {} /\ End(p) /\ UNCHANGED origPages
     \/ /\ origPages \intersect pages[p] = {}
        /\ origPages' = origPages \union pages[p] /\ Goto(p, "analysed")
  /\ UNCHANGED <<scoreVars, image, origSegs, rowVars, ownerVars, histVars>>

MarkAnalysed(p) ==
  /\ At(p, "analysed") /\ analysed' = TRUE /\ End(p)
  /\ UNCHANGED <<converted, stored, highres, image, origVars, rowVars, ownerVars, histVars>>

-----------------------------------------------------------------------------
(* copy_score_segs_to_partset. *)

\* Mutant: the rows are copied beside those of an interrupted import.
KeepOwnRows(p) ==
  /\ At(p, "clearOwn") /\ Goto(p, "copySegs")
  /\ UNCHANGED <<scoreVars, image, origVars, rowVars, ownerVars, histVars>>

ClearOwnRows(p) ==
  /\ At(p, "clearOwn")
  /\ segs' = [segs EXCEPT ![p] = EmptyBag] /\ pages' = [pages EXCEPT ![p] = {}]
  /\ Goto(p, "copySegs")
  /\ UNCHANGED <<scoreVars, image, origVars, complete, ownerVars, histVars>>

CopySegments(p) ==
  /\ At(p, "copySegs")
  /\ segs' = [segs EXCEPT ![p] = @ (+) origSegs]
  /\ Goto(p, "copyPages")
  /\ UNCHANGED <<scoreVars, image, origVars, pages, complete, ownerVars, histVars>>

CopyPages(p) ==
  /\ At(p, "copyPages")
  /\ pages' = [pages EXCEPT ![p] = origPages]
  /\ Goto(p, "finish")
  /\ UNCHANGED <<scoreVars, image, origVars, segs, complete, ownerVars, histVars>>

FinishReuse(p) ==
  /\ At(p, "finish")
  /\ complete' = complete \union {p}
  /\ End(p)
  /\ UNCHANGED <<scoreVars, image, origVars, segs, pages, ownerVars, histVars>>

-----------------------------------------------------------------------------
\* The deadline, a lost worker (the import has failed), or a shutdown (it is requeued).
KillJob(p) ==
  /\ InWork(p)
  /\ faults + edits < MaxEvents /\ faults' = faults + 1
  /\ job' \in {[job EXCEPT ![p] = [NoJob EXCEPT !.pc = pc]] : pc \in {"none", "queued"}}
  /\ torn' = (torn \/ At(p, "copy"))
  /\ UNCHANGED <<scoreVars, image, origVars, rowVars, stale, edited, edits, reran, overlapped, hurried>>

JobStep(p) ==
  \/ StartImport(p) \/ LookAtCache(p)
  \/ DropSegments(p) \/ DropPages(p) \/ Unmark(p) \/ UnlinkImages(p) \/ UnlinkHighres(p)
  \/ CopyImage(p) \/ UpdateScore(p) \/ CheckAnalysis(p)
  \/ ListImages(p) \/ ClearRows(p) \/ ReadImages(p) \/ InsertPage(p) \/ MarkComplete(p)
  \/ EmptySegments(p) \/ FillSegments(p) \/ EmptyPages(p) \/ FillPages(p) \/ MarkAnalysed(p)
  \/ ClearOwnRows(p) \/ CopySegments(p) \/ CopyPages(p) \/ FinishReuse(p)

RequestStep(p) == ReadIncomplete(p) \/ Enqueue(p)

Next == \E p \in Partsets : RequestStep(p) \/ EditSegments(p) \/ JobStep(p) \/ KillJob(p)

Spec == Init /\ [][Next]_vars

\* Jobs go on, and the owner presses retry until the import is complete.
RetrySpec == Spec /\ \A p \in Partsets : WF_vars(JobStep(p)) /\ WF_vars(RequestStep(p))

-----------------------------------------------------------------------------
(* Properties. *)

\* What the histories name has not happened.
Undisturbed == ~reran /\ ~overlapped /\ ~torn /\ ~hurried

\* The analysis that later partsets copy is one whole analysis of the score as it is
\* converted, whatever was killed and retried, and also while imports are at work: every
\* page once, in one orientation.  (As long as the stored orientation is the contradicted
\* one, the next import drops it.)
OneAnalysis ==
  (analysed /\ stored = Inferred /\ Undisturbed) => origSegs = Whole(stored) /\ origPages = Pages

\* A partset whose import is complete has every page and each segment once, also while
\* its analysis is handed to the score.
CompleteRows ==
  Undisturbed => \A p \in complete \ edited : segs[p] = Whole(Inferred) /\ pages[p] = Pages

\* Retries complete the import of every partset, whatever a killed one left behind.
AllImported == []<>(complete = Partsets)
=============================================================================
