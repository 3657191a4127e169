-------------------------- MODULE ReadThroughCache --------------------------
(***************************************************************************)
(* What the local cache of derived files is promised to be (local_cache.py,*)
(* "Local read-through cache for score pages, preview cuts, and part       *)
(* PDFs"): files are shown only if they were made from what the database   *)
(* says now, and a change of the database shows none of them any more in   *)
(* the step that makes it.  PartGen implements it twice, for the content   *)
(* of the part PDFs and for their labels, PreviewCache for the preview.    *)
(***************************************************************************)
CONSTANT Sources   \* what the files may be made from
VARIABLES
  source,          \* what the database says
  shown            \* what the files that are shown were made from

cache == <<source, shown>>

Init == source \in Sources /\ shown \in {{}, {source}}

Change   == source' \in Sources /\ shown' = {}
Publish  == shown' = {source} /\ UNCHANGED source
TakeDown == shown' = {} /\ UNCHANGED source

Next == Change \/ Publish \/ TakeDown

Spec == Init /\ [][Next]_cache
=============================================================================
