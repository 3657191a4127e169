---------------------------- MODULE PreviewCache ----------------------------
(***************************************************************************)
(* The preview of one partset in the local cache: the cut images of its    *)
(* labelled segments, the fingerprint of the rows they were cut from and   *)
(* the file of their heights.  Views of the preview page read the rows,    *)
(* take the cache for valid or cut again, and publish file by file into    *)
(* the one directory that all views share; saves of segments remove it     *)
(* and commit the new rows afterwards.                                     *)
(***************************************************************************)
EXTENDS Integers, FiniteSets

CONSTANTS
  Views,       \* requests for the preview that can be under way at once
  Geometries,  \* the segment rows a partset may have
  Size,        \* number of labelled segments of each geometry
  Nothing,     \* no file, no save under way
  MaxSaves,    \* bound on saves
  MaxFaults    \* bound on crashes, failed copies and evictions

ASSUME PreviewCacheAssumption ==
  /\ Size \in [Geometries -> Nat \ {0}] /\ MaxSaves \in Nat /\ MaxFaults \in Nat
  /\ Nothing \notin Geometries \cup {"empty"} /\ "empty" \notin Geometries

VARIABLES
  rows,        \* the committed segment rows
  dir,         \* the directory is there
  png,         \* s<n>.png: the geometry it was cut from
  fp, heights, \* .fingerprint and .segment_heights.json, by the geometry they are of
  view,        \* the requests
  saving,      \* geometry of the save that has removed the preview and not committed
  saves, faults, \* counters that bound the model
  overlapped,  \* history: a view built while another one, a save or an eviction was at work
  skipped      \* history: an image was not replaced and the old one kept

files == <<dir, png, fp, heights>>
hist  == <<overlapped, skipped>>
previewVars == <<rows, files, view, saving, saves, faults, hist>>

Cuts(g)  == 0..(Size[g] - 1)
Slots    == UNION {Cuts(g) : g \in Geometries}
\* geometry: of the rows read.  todo: images to publish.  got: the heights answered.
NoView   == [pc |-> "idle", geometry |-> Nothing, todo |-> {}, got |-> Nothing]
NoImages == [n \in Slots |-> Nothing]

\* A partset that has been previewed, or not.
PreviewInit ==
  /\ rows \in Geometries
  /\ \/ png = NoImages /\ fp = Nothing /\ heights = Nothing /\ dir = FALSE
     \/ png = [n \in Slots |-> IF n \in Cuts(rows) THEN rows ELSE Nothing] /\ fp = rows /\ heights = rows
        /\ dir = TRUE
  /\ view = [v \in Views |-> NoView]
  /\ saving = Nothing /\ saves = 0 /\ faults = 0
  /\ overlapped = FALSE /\ skipped = FALSE

-----------------------------------------------------------------------------
At(v, pc)    == view[v].pc = pc
Fail(v)      == view' = [view EXCEPT ![v] = NoView]
Goto(v, pc)  == view' = [view EXCEPT ![v].pc = pc]
Building(v)  == view[v].pc \in {"cut", "publish", "unlink", "stamp", "truncate", "heights"}
Others(v)    == \E w \in Views \ {v} : Building(w)
RemoveAll    == dir' = FALSE /\ png' = NoImages /\ fp' = Nothing /\ heights' = Nothing
Fault        == faults < MaxFaults /\ faults' = faults + 1

\* preview_is_valid, and a heights file; what the file holds is not looked at.
Valid(g) == fp = g /\ (\A n \in Cuts(g) : png[n] # Nothing) /\ heights # Nothing

-----------------------------------------------------------------------------
(* get_preview_data *)

ReadRows(v) ==
  /\ At(v, "idle")
  /\ view' = [view EXCEPT ![v] = [NoView EXCEPT !.pc = "rows", !.geometry = rows]]
  /\ UNCHANGED <<rows, files, saving, saves, faults, hist>>

\* An empty file is no JSON: the request fails.
ServeCached(v) ==
  /\ At(v, "rows") /\ Valid(view[v].geometry)
  /\ view' = [view EXCEPT ![v] = IF heights = "empty" THEN NoView ELSE [@ EXCEPT !.pc = "answered", !.got = heights]]
  /\ UNCHANGED <<rows, files, saving, saves, faults, hist>>

\* Pages are copied and cut in a directory of the request's own.
StartBuild(v) ==
  /\ At(v, "rows") /\ ~Valid(view[v].geometry)
  /\ view' = [view EXCEPT ![v].pc = "cut", ![v].todo = Cuts(view[v].geometry)]
  /\ overlapped' = (overlapped \/ Others(v) \/ saving # Nothing \/ view[v].geometry # rows)
  /\ UNCHANGED <<rows, files, saving, saves, faults, skipped>>

\* Mutant: the directory is taken to be there.
UseDirectory(v) ==
  /\ At(v, "cut") /\ Goto(v, "publish")
  /\ UNCHANGED <<rows, files, saving, saves, faults, hist>>

\* write_preview
MakeDirectory(v) ==
  /\ At(v, "cut") /\ Goto(v, "publish")
  /\ dir' = TRUE
  /\ UNCHANGED <<rows, png, fp, heights, saving, saves, faults, hist>>

\* Images in the order of their names, each replaced atomically.  The copy fails when
\* the directory has been removed.
PublishImage(v) ==
  /\ At(v, "publish")
  /\ \E n \in view[v].todo :
       /\ \A m \in view[v].todo : n <= m
       /\ IF dir
          THEN /\ png' = [png EXCEPT ![n] = view[v].geometry]
               /\ view' = [view EXCEPT ![v].todo = @ \ {n},
                                       ![v].pc = IF view[v].todo = {n} THEN "unlink" ELSE "publish"]
          ELSE Fail(v) /\ UNCHANGED png
  /\ UNCHANGED <<rows, dir, fp, heights, saving, saves, faults, hist>>

\* A failed copy is passed over when there is an image of that name.
SkipImage(v) ==
  /\ At(v, "publish") /\ Fault
  /\ \E n \in view[v].todo :
       /\ \A m \in view[v].todo : n <= m
       /\ IF png[n] = Nothing THEN Fail(v)
          ELSE view' = [view EXCEPT ![v].todo = @ \ {n},
                                    ![v].pc = IF view[v].todo = {n} THEN "unlink" ELSE "publish"]
       /\ skipped' = (skipped \/ png[n] # Nothing)
  /\ UNCHANGED <<rows, files, saving, saves, overlapped>>

UnlinkOthers(v) ==
  /\ At(v, "unlink") /\ Goto(v, "stamp")
  /\ png' = [n \in Slots |-> IF n \in Cuts(view[v].geometry) THEN png[n] ELSE Nothing]
  /\ UNCHANGED <<rows, dir, fp, heights, saving, saves, faults, hist>>

WriteFingerprint(v) ==
  /\ At(v, "stamp")
  /\ IF dir THEN Goto(v, "truncate") /\ fp' = view[v].geometry ELSE Fail(v) /\ UNCHANGED fp
  /\ UNCHANGED <<rows, dir, png, heights, saving, saves, faults, hist>>

\* heights_file.write_text is no replacement: it truncates, then writes.
TruncateHeights(v) ==
  /\ At(v, "truncate")
  /\ IF dir THEN Goto(v, "heights") /\ heights' = "empty" ELSE Fail(v) /\ UNCHANGED heights
  /\ UNCHANGED <<rows, dir, png, fp, saving, saves, faults, hist>>

\* What is written to a file that was removed meanwhile is lost.
WriteHeights(v) ==
  /\ At(v, "heights")
  /\ heights' = IF heights = Nothing THEN Nothing ELSE view[v].geometry
  /\ view' = [view EXCEPT ![v].pc = "answered", ![v].got = view[v].geometry]
  /\ UNCHANGED <<rows, dir, png, fp, saving, saves, faults, hist>>

Show(v) ==
  /\ At(v, "answered")
  /\ view' = [view EXCEPT ![v] = NoView]
  /\ UNCHANGED <<rows, files, saving, saves, faults, hist>>

-----------------------------------------------------------------------------
(* _finalize_segment_save: the preview is removed first, the rows committed then. *)

\* Mutant: the preview stays; its fingerprint will tell.
SaveWithoutRemoving(g) ==
  /\ saving = Nothing /\ saves < MaxSaves
  /\ saving' = g /\ saves' = saves + 1
  /\ overlapped' = (overlapped \/ \E v \in Views : Building(v))
  /\ UNCHANGED <<rows, files, view, faults, skipped>>

RemovePreview(g) ==
  /\ saving = Nothing /\ saves < MaxSaves
  /\ saving' = g /\ saves' = saves + 1
  /\ RemoveAll
  /\ overlapped' = (overlapped \/ \E v \in Views : Building(v))
  /\ UNCHANGED <<rows, view, faults, skipped>>

CommitRows ==
  /\ saving # Nothing
  /\ rows' = saving /\ saving' = Nothing
  /\ UNCHANGED <<files, view, saves, faults, hist>>

-----------------------------------------------------------------------------
(* Faults. *)

\* The API process ends between two steps of a request; a rolled back save is one
\* that was never committed.
Crash ==
  /\ Fault
  /\ \/ \E v \in Views : ~At(v, "idle") /\ Fail(v) /\ UNCHANGED saving
     \/ saving # Nothing /\ saving' = Nothing /\ UNCHANGED view
  /\ UNCHANGED <<rows, files, saves, hist>>

\* clean_cache
Evict ==
  /\ Fault /\ dir
  /\ RemoveAll
  /\ overlapped' = (overlapped \/ \E v \in Views : Building(v))
  /\ UNCHANGED <<rows, view, saving, saves, skipped>>

-----------------------------------------------------------------------------
Build(v) == \/ StartBuild(v) \/ MakeDirectory(v) \/ PublishImage(v) \/ UnlinkOthers(v) \/ WriteFingerprint(v)
            \/ TruncateHeights(v) \/ WriteHeights(v)

PreviewNext ==
  \/ \E v \in Views : ReadRows(v) \/ ServeCached(v) \/ Build(v) \/ SkipImage(v) \/ Show(v)
  \/ (\E g \in Geometries : RemovePreview(g)) \/ CommitRows \/ Crash \/ Evict

PreviewSpec == PreviewInit /\ [][PreviewNext]_previewVars

\* Requests run to their end, and a page that has failed is loaded again.
ViewSpec == /\ PreviewSpec /\ WF_previewVars(CommitRows)
            /\ \A v \in Views :
                 WF_previewVars(ReadRows(v)) /\ WF_previewVars(ServeCached(v) \/ Build(v) \/ Show(v))

-----------------------------------------------------------------------------
(* Properties. *)

\* A directory that passes for the preview of a geometry holds its images and no
\* others, whatever crashed on the way there, unless two writers met.
ValidFits ==
  (~overlapped /\ ~skipped) =>
    \A g \in Geometries : Valid(g) => png = [n \in Slots |-> IF n \in Cuts(g) THEN g ELSE Nothing]

\* The layout page places segments by the heights it is answered: they are those of
\* the rows it is answered with, unless two writers met.
HeightsFit ==
  (~overlapped /\ ~skipped) =>
    \A v \in Views : At(v, "answered") => view[v].got = view[v].geometry

\* The directory keeps the promise of a cache, unless two writers met: what passes for a
\* preview is cut from the rows as they are now, and the commit that changes them finds
\* it removed.
CachedPreview == INSTANCE ReadThroughCache WITH
  Sources <- Geometries, source <- rows,
  shown <- IF ~overlapped /\ ~skipped /\ fp # Nothing /\ Valid(fp)
           THEN {png[n] : n \in Cuts(fp)} ELSE {}
PreviewImplementsCache == CachedPreview!Spec

\* local_cache.py:1, "Local read-through cache for score pages, preview cuts, and part
\* PDFs": what the cache lacks is made again, so a view that is repeated is answered,
\* whatever a save, an eviction or a crash has left of the directory.  (But an empty
\* heights file, left by a crash between its truncation and its writing, passes for
\* valid and fails every view until the directory is removed.)
ViewsAnswered == []<>(heights = "empty" \/ \E v \in Views : At(v, "answered"))
=============================================================================
