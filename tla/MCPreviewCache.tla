--------------------------- MODULE MCPreviewCache ---------------------------
(* Rows with two labelled segments and rows with one. *)
EXTENDS PreviewCache, TLC

CONSTANTS v1, v2, wide, narrow

MCSize == (wide :> 2) @@ (narrow :> 1)
=============================================================================
