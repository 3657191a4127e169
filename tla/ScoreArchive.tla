---------------------------- MODULE ScoreArchive ----------------------------
(***************************************************************************)
(* Scores and their PDFs.  A score is a row, an object in S3, a copy in    *)
(* the local cache and what was made from it: page images and analysis.    *)
(* Partsets are created from an uploaded PDF, an IMSLP edition or a known  *)
(* score, by requests that commit once at their end; imports, which may    *)
(* have to download the edition or to replace an archive that is corrupt,  *)
(* and the operator's script commit statement by statement.  PDFs of the   *)
(* same hash share a score.                                                *)
(***************************************************************************)
EXTENDS Integers, FiniteSets

CONSTANTS
  Partsets,   \* partsets, each made by one request
  Operator,   \* who runs refetch_score_pdf
  Scores,     \* score ids
  Files,      \* PDFs, told apart by their hashes
  None,       \* no file, no score
  Normal,     \* what ensure_valid_score_pdf makes of a file: itself, a repaired one, or None
  Editions,   \* PDFs that IMSLP may serve for the edition
  Legacy,     \* files that old scores of the edition are archived with
  MaxEvents   \* bound on failures of S3 and IMSLP, kills, evictions and refetches together

ASSUME ScoreArchiveAssumption ==
  /\ Operator \notin Partsets /\ None \notin Files \union Scores
  /\ Normal \in [Files -> Files \union {None}]
  /\ \A f \in Files : Normal[f] # None => Normal[Normal[f]] = Normal[f]
  /\ Editions \subseteq Files /\ Legacy \subseteq Files
  /\ MaxEvents \in Nat

VARIABLES
  row,        \* scores
  object,     \* S3: scores/<id>_score.pdf
  cached,     \* score.pdf in the local cache
  images,     \* the file the cached page images were made from
  analysed,   \* the file the analysis was made from; its row says analysis_complete
  partset,    \* partsets
  proc,       \* the request or job of each partset, and the operator's script
  faults, refetches, \* counters that bound the model
  torn        \* history: a replacement met another job of the score, or was not carried through

store == <<object, cached, images, analysed>>
cnt   == <<faults, refetches>>
vars  == <<row, store, partset, proc, cnt, torn>>

Actors   == Partsets \union {Operator}
NoRow    == [hash |-> None, s3 |-> FALSE, imslp |-> FALSE, converted |-> FALSE]
Known    == {s \in Scores : row[s].hash # None}
Valid(f) == f # None /\ Normal[f] = f
\* score: the one in work.  file: the working copy.  new: the row is yet to be inserted.
\* s3, imslp: the request sets scores.s3, scores.imslp_id.
NoProc    == [pc |-> "idle", score |-> None, file |-> None, new |-> FALSE, s3 |-> FALSE, imslp |-> FALSE]
NoPartset == [made |-> FALSE, imslp |-> FALSE, score |-> None, error |-> FALSE, complete |-> FALSE]

\* Scores that have been imported, and old ones whose archive may be corrupt.
OldRow(f, converted) == [hash |-> f, s3 |-> TRUE, imslp |-> TRUE, converted |-> converted]
Init ==
  /\ \E f \in Legacy \union {None}, converted \in BOOLEAN :
     LET s == CHOOSE t \in Scores : TRUE IN
       /\ row = [t \in Scores |-> IF t = s /\ f # None THEN OldRow(f, converted) ELSE NoRow]
       /\ object = [t \in Scores |-> IF t = s THEN f ELSE None]
       /\ cached \in {object, [t \in Scores |-> None]}
  /\ images = [s \in Scores |-> None] /\ analysed = [s \in Scores |-> None]
  /\ partset = [p \in Partsets |-> NoPartset] /\ proc = [a \in Actors |-> NoProc]
  /\ faults = 0 /\ refetches = 0 /\ torn = FALSE

-----------------------------------------------------------------------------
(* Helpers. *)

At(a, pc)    == proc[a].pc = pc
Goto(a, pc)  == proc' = [proc EXCEPT ![a].pc = pc]
With(a, pc, f) == proc' = [proc EXCEPT ![a].pc = pc, ![a].file = f]
End(a)       == proc' = [proc EXCEPT ![a] = NoProc]
Here(a)      == proc[a].score
Holds(s, f)  == row[s].hash = f
\* gen_score_id: any that is not in use.
Free         == {s \in Scores : row[s] = NoRow /\ object[s] = None /\ \A a \in Actors : proc[a].score # s}
NewId        == CHOOSE s \in Scores : s \in Free
Fault        == faults + refetches < MaxEvents /\ faults' = faults + 1 /\ UNCHANGED refetches
\* mark_partset_error; the script only prints.
SetError(a)  == partset' = IF a = Operator THEN partset ELSE [partset EXCEPT ![a].error = TRUE]
Raise(a)     == End(a) /\ SetError(a)
Reusable(s)  == row[s].converted
Repairable(f) == f # None /\ Normal[f] # None
CanRefetch(s) == row[s].imslp
\* LocalCache.ensure_score_pdf
InCache(s)   == IF cached[s] # None THEN cached[s] ELSE object[s]
InWork(s, a) == \E b \in Actors \ {a} : proc[b].score = s
Replacing(s) == \E b \in Actors : proc[b].score = s /\ proc[b].pc \in {"reset", "wipe"}

-----------------------------------------------------------------------------
(* Requests that create a partset.  They read first, put the PDF, and commit the    *)
(* rows of partset and score at the end.                                           *)

Begin(p, s, new, put, f, imslp) ==
  proc' = [proc EXCEPT ![p] = [pc |-> IF put THEN "put" ELSE "commit", score |-> s, file |-> f,
                               new |-> new, s3 |-> put /\ ~new, imslp |-> imslp]]

\* Mutant: a score that is there is taken to be archived.
TrustRow(p, f, imslp, doubtful) ==
  \/ \E s \in Known : Holds(s, f) /\ Begin(p, s, FALSE, FALSE, f, imslp)
  \/ (\A s \in Known : ~Holds(s, f)) /\ Free # {} /\ Begin(p, NewId, TRUE, TRUE, f, imslp)

\* A score of the same hash is reused; its PDF is put when the row says it is not
\* archived, or when its archive was looked at and found doubtful.
Store(p, f, imslp, doubtful) ==
  \/ \E s \in Known : /\ Holds(s, f)
                      /\ Begin(p, s, FALSE, ~Reusable(s) /\ (~row[s].s3 \/ s \in doubtful), f, imslp)
  \/ (\A s \in Known : ~Holds(s, f)) /\ Free # {} /\ Begin(p, NewId, TRUE, TRUE, f, imslp)

\* ingest_imslp_pdf_bytes, and what resolve_imslp_pdf_for_import may hand it.  The archive
\* is looked at through the local cache, which keeps what it has to fetch; what cannot be
\* fetched is doubtful too.
Inline       == {f \in Editions : Valid(f)}
Looked(f)    == {s \in Known : Holds(s, f) /\ ~Reusable(s) /\ row[s].s3}
Ingest(p, f) ==
  \/ /\ Store(p, f, TRUE, {s \in Scores : ~Valid(InCache(s))})
     /\ cached' = [s \in Scores |-> IF s \in Looked(f) THEN InCache(s) ELSE cached[s]]
     /\ UNCHANGED cnt
  \/ /\ (\E s \in Looked(f) : cached[s] = None) /\ Fault
     /\ Store(p, f, TRUE, Looked(f))
     /\ UNCHANGED cached

\* create_pdf_partset: what does not validate is refused.
CreateFromPdf(p) ==
  /\ At(p, "idle") /\ ~partset[p].made
  /\ \E f \in Files : Valid(f) /\ Store(p, f, FALSE, {})
  /\ UNCHANGED <<row, store, partset, cnt, torn>>

\* create_imslp_partset: a converted score of the edition is reused; else IMSLP answers
\* with the PDF, or with its address, and a job downloads it.
CreateFromImslp(p) ==
  /\ At(p, "idle") /\ ~partset[p].made
  /\ \/ /\ \E s \in Known : row[s].imslp /\ Reusable(s) /\ Begin(p, s, FALSE, FALSE, None, FALSE)
        /\ UNCHANGED <<partset, cached, cnt>>
     \/ /\ ~\E s \in Known : row[s].imslp /\ Reusable(s)
        /\ \/ (\E f \in Inline : Ingest(p, f)) /\ UNCHANGED partset
           \/ /\ partset' = [partset EXCEPT ![p].made = TRUE, ![p].imslp = TRUE]
              /\ UNCHANGED <<proc, cached, cnt>>
  /\ UNCHANGED <<row, object, images, analysed, torn>>

\* create_partset_from_score: an analysed score needs no import.
CreateFromScore(p) ==
  /\ At(p, "idle") /\ ~partset[p].made
  /\ \E s \in Known :
       /\ row[s].s3
       /\ partset' = [partset EXCEPT ![p].made = TRUE, ![p].score = s, ![p].complete = analysed[s] # None]
  /\ UNCHANGED <<row, store, proc, cnt, torn>>

Put(p) ==
  /\ At(p, "put") /\ Goto(p, "commit")
  /\ object' = [object EXCEPT ![Here(p)] = proc[p].file]
  /\ torn' = (torn \/ Replacing(Here(p)))
  /\ UNCHANGED <<row, cached, images, analysed, partset, cnt>>

\* The key on file_hash refuses a second score of one PDF: the request fails, and with
\* it its partset.
Commit(p) ==
  /\ At(p, "commit") /\ End(p)
  /\ LET s == Here(p)
         taken == proc[p].new /\ \E t \in Known : Holds(t, proc[p].file)
     IN  /\ row' = IF taken THEN row
                   ELSE IF proc[p].new THEN [row EXCEPT ![s] = [NoRow EXCEPT !.hash = proc[p].file, !.imslp = proc[p].imslp]]
                   ELSE [row EXCEPT ![s].s3 = @ \/ proc[p].s3, ![s].imslp = @ \/ proc[p].imslp]
         /\ partset' = IF taken THEN partset ELSE [partset EXCEPT ![p].made = TRUE, ![p].score = s]
  /\ UNCHANGED <<store, cnt, torn>>

-----------------------------------------------------------------------------
(* Jobs. *)

\* The creating request, ensure_import_if_needed, or a retry that clears the error.
Start(p) ==
  /\ partset[p].made /\ ~partset[p].complete /\ At(p, "idle")
  /\ partset' = [partset EXCEPT ![p].error = FALSE]
  /\ proc' = [proc EXCEPT ![p] = IF partset[p].score # None
                                 THEN [NoProc EXCEPT !.pc = "load", !.score = partset[p].score]
                                 ELSE [NoProc EXCEPT !.pc = "download"]]
  /\ UNCHANGED <<row, store, cnt, torn>>

\* run_imslp_import: _existing_score_for_imslp, or the download, validated.
Download(p) ==
  /\ At(p, "download")
  /\ \/ \E s \in Known : /\ row[s].imslp /\ Reusable(s)
                         /\ proc' = [proc EXCEPT ![p].pc = "attach", ![p].score = s]
                         /\ UNCHANGED partset
     \/ /\ ~\E s \in Known : row[s].imslp /\ Reusable(s)
        /\ \E f \in Editions : IF ~Repairable(f) THEN Raise(p)
                               ELSE With(p, "look", Normal[f]) /\ UNCHANGED partset
  /\ UNCHANGED <<row, store, cnt, torn>>

\* Mutant: scores are told apart by their edition only.
InsertAlways(p) ==
  /\ At(p, "look")
  /\ Free # {} /\ proc' = [proc EXCEPT ![p].pc = "insert", ![p].score = NewId]
  /\ UNCHANGED <<row, store, partset, cnt, torn>>

LookUp(p) ==
  /\ At(p, "look")
  /\ \/ \E s \in Known : /\ Holds(s, proc[p].file)
                         /\ row' = [row EXCEPT ![s].imslp = TRUE]
                         /\ proc' = [proc EXCEPT ![p].pc = "check", ![p].score = s]
     \/ /\ \A s \in Known : ~Holds(s, proc[p].file)
        /\ Free # {} /\ proc' = [proc EXCEPT ![p].pc = "insert", ![p].score = NewId]
        /\ UNCHANGED row
  /\ UNCHANGED <<store, partset, cnt, torn>>

\* _ensure_archived_pdf looks at the object itself, not at the cached copy; one that cannot
\* be fetched is archived again, like one that is no PDF.
CheckArchive(p) ==
  /\ At(p, "check")
  /\ \/ Goto(p, IF row[Here(p)].s3 /\ Repairable(object[Here(p)]) THEN "attach" ELSE "archive") /\ UNCHANGED cnt
     \/ row[Here(p)].s3 /\ Fault /\ Goto(p, "archive")
  /\ UNCHANGED <<row, store, partset, torn>>

Archive(p) ==
  /\ At(p, "archive") /\ Goto(p, "stamp")
  /\ object' = [object EXCEPT ![Here(p)] = proc[p].file]
  /\ torn' = (torn \/ Replacing(Here(p)))
  /\ UNCHANGED <<row, cached, images, analysed, partset, cnt>>

StampArchived(p) ==
  /\ At(p, "stamp") /\ Goto(p, "attach")
  /\ row' = [row EXCEPT ![Here(p)].s3 = TRUE]
  /\ UNCHANGED <<store, partset, cnt, torn>>

Insert(p) ==
  /\ At(p, "insert")
  /\ IF \E t \in Known : Holds(t, proc[p].file)
     THEN Raise(p) /\ UNCHANGED row
     ELSE /\ row' = [row EXCEPT ![Here(p)] = [NoRow EXCEPT !.hash = proc[p].file, !.imslp = TRUE]]
          /\ Goto(p, "upload") /\ UNCHANGED partset
  /\ UNCHANGED <<store, cnt, torn>>

Upload(p) ==
  /\ At(p, "upload") /\ Goto(p, "attach")
  /\ object' = [object EXCEPT ![Here(p)] = proc[p].file]
  /\ torn' = (torn \/ Replacing(Here(p)))
  /\ UNCHANGED <<row, cached, images, analysed, partset, cnt>>

Attach(p) ==
  /\ At(p, "attach") /\ Goto(p, "load")
  /\ partset' = [partset EXCEPT ![p].score = Here(p)]
  /\ UNCHANGED <<row, store, cnt, torn>>

-----------------------------------------------------------------------------
(* run_import_pipeline. *)

\* _ensure_score_pdf: a cached copy that is no PDF is what the row says, and IMSLP is
\* asked, or it is not, and the archive is.
Load(p) ==
  /\ At(p, "load")
  /\ LET s == Here(p)
         f == InCache(s)
     IN  IF f = None THEN Raise(p) /\ UNCHANGED cached
         ELSE /\ cached' = [cached EXCEPT ![s] = f]
              /\ IF Repairable(f) THEN With(p, "copy", Normal[f])
                 ELSE Goto(p, IF Holds(s, f) THEN "fetch" ELSE "reload")
              /\ UNCHANGED partset
  /\ torn' = (torn \/ Replacing(Here(p)))
  /\ UNCHANGED <<row, object, images, analysed, cnt>>

Reload(p) ==
  /\ At(p, "reload")
  /\ LET f == object[Here(p)]
     IN  IF f = None THEN Raise(p) /\ cached' = [cached EXCEPT ![Here(p)] = None]
         ELSE /\ cached' = [cached EXCEPT ![Here(p)] = f]
              /\ IF Repairable(f) THEN With(p, "copy", Normal[f]) ELSE Goto(p, "fetch")
              /\ UNCHANGED partset
  /\ UNCHANGED <<row, object, images, analysed, cnt, torn>>

\* repair_corrupt_score_pdf and replace_score_pdf_from_imslp.  A repair refuses what
\* the archive is said to hold already; the script does not.
Fetch(a) ==
  /\ At(a, "fetch")
  /\ IF ~CanRefetch(Here(a)) THEN Raise(a)
     ELSE \E f \in Editions :
            IF ~Repairable(f) \/ (a # Operator /\ Holds(Here(a), Normal[f])) THEN Raise(a)
            ELSE With(a, "replace", Normal[f]) /\ UNCHANGED partset
  /\ UNCHANGED <<row, store, cnt, torn>>

Replace(a) ==
  /\ At(a, "replace") /\ Goto(a, "reset")
  /\ object' = [object EXCEPT ![Here(a)] = proc[a].file]
  /\ torn' = (torn \/ InWork(Here(a), a))
  /\ UNCHANGED <<row, cached, images, analysed, partset, cnt>>

\* Mutant: the analysis of the old PDF is kept.
ResetConvertOnly(a) ==
  /\ At(a, "reset")
  /\ LET s == Here(a)
     IN  IF \E t \in Known \ {s} : Holds(t, proc[a].file)
         THEN Raise(a) /\ torn' = TRUE /\ UNCHANGED row
         ELSE /\ row' = [row EXCEPT ![s] = [hash |-> proc[a].file, s3 |-> TRUE, imslp |-> TRUE, converted |-> FALSE]]
              /\ Goto(a, "wipe") /\ UNCHANGED <<partset, torn>>
  /\ UNCHANGED <<store, cnt>>

\* The UPDATE of the row, with the key on file_hash, and invalidate_score_analysis.
ResetRow(a) ==
  /\ At(a, "reset")
  /\ LET s == Here(a)
     IN  IF \E t \in Known \ {s} : Holds(t, proc[a].file)
         THEN Raise(a) /\ torn' = TRUE /\ UNCHANGED <<row, analysed>>
         ELSE /\ row' = [row EXCEPT ![s] = [hash |-> proc[a].file, s3 |-> TRUE, imslp |-> TRUE, converted |-> FALSE]]
              /\ analysed' = [analysed EXCEPT ![s] = None]
              /\ Goto(a, "wipe") /\ UNCHANGED <<partset, torn>>
  /\ UNCHANGED <<object, cached, images, cnt>>

\* invalidate_score
Wipe(a) ==
  /\ At(a, "wipe")
  /\ cached' = [cached EXCEPT ![Here(a)] = None] /\ images' = [images EXCEPT ![Here(a)] = None]
  /\ torn' = (torn \/ InWork(Here(a), a))
  /\ IF a = Operator THEN End(a) ELSE Goto(a, "copy")
  /\ UNCHANGED <<row, object, analysed, partset, cnt>>

\* Images are made when they have never been or are not there.
Convert(p) ==
  /\ At(p, "copy") /\ Goto(p, "mark")
  /\ LET s == Here(p)
     IN  images' = IF row[s].converted /\ images[s] # None THEN images ELSE [images EXCEPT ![s] = proc[p].file]
  /\ UNCHANGED <<row, object, cached, analysed, partset, cnt, torn>>

MarkConverted(p) ==
  /\ At(p, "mark") /\ Goto(p, "analyse")
  /\ row' = [row EXCEPT ![Here(p)].converted = TRUE, ![Here(p)].s3 = TRUE]
  /\ UNCHANGED <<store, partset, cnt, torn>>

\* The analysis of the score is reused, or made from the images, which
\* ensure_lowres_files makes again from the cached PDF when they are gone.
Analyse(p) ==
  /\ At(p, "analyse")
  /\ LET s == Here(p)
         f == InCache(s)
         made == IF images[s] # None THEN images[s] ELSE IF f = None THEN None ELSE Normal[f]
     IN  IF analysed[s] = None /\ made = None THEN Raise(p) /\ UNCHANGED <<analysed, images>>
         ELSE /\ analysed' = IF analysed[s] # None THEN analysed ELSE [analysed EXCEPT ![s] = made]
              /\ images' = IF analysed[s] # None THEN images ELSE [images EXCEPT ![s] = made]
              /\ partset' = [partset EXCEPT ![p].complete = TRUE]
              /\ End(p)
  /\ UNCHANGED <<row, object, cached, cnt, torn>>

-----------------------------------------------------------------------------
(* The operator, and faults. *)

\* refetch_score_pdf: force_replace.
Refetch ==
  /\ At(Operator, "idle") /\ faults + refetches < MaxEvents /\ refetches' = refetches + 1
  /\ \E s \in Known : proc' = [proc EXCEPT ![Operator] = [NoProc EXCEPT !.pc = "fetch", !.score = s]]
  /\ UNCHANGED <<row, store, partset, faults, torn>>

\* call_with_s3_retries and the downloads give up; a put that is reported as failed may
\* have been carried out.
External == {"put", "archive", "upload", "replace", "load", "reload", "fetch", "download"}
Fail(a) ==
  /\ proc[a].pc \in External /\ Fault
  /\ End(a)
  /\ IF a = Operator \/ ~partset[a].made THEN UNCHANGED partset ELSE SetError(a)
  /\ \/ UNCHANGED <<object, torn>>
     \/ /\ proc[a].pc \in {"put", "archive", "upload", "replace"}
        /\ object' = [object EXCEPT ![Here(a)] = proc[a].file]
        /\ torn' = (torn \/ At(a, "replace") \/ Replacing(Here(a)))
  /\ UNCHANGED <<row, cached, images, analysed>>

\* A request is cut off, a job runs into its time limit.
Kill(a) ==
  /\ ~At(a, "idle") /\ Fault
  /\ End(a)
  /\ IF a = Operator \/ ~partset[a].made THEN UNCHANGED partset ELSE SetError(a)
  /\ torn' = (torn \/ proc[a].pc \in {"reset", "wipe"})
  /\ UNCHANGED <<row, store>>

Evict(s) ==
  /\ cached[s] # None \/ images[s] # None
  /\ Fault
  /\ cached' = [cached EXCEPT ![s] = None] /\ images' = [images EXCEPT ![s] = None]
  /\ UNCHANGED <<row, object, analysed, partset, proc, torn>>

-----------------------------------------------------------------------------
Create(p) == CreateFromPdf(p) \/ CreateFromImslp(p) \/ CreateFromScore(p)
Step(a) ==
  \/ Put(a) \/ Commit(a) \/ Download(a) \/ LookUp(a) \/ CheckArchive(a) \/ Archive(a) \/ StampArchived(a)
  \/ Insert(a) \/ Upload(a) \/ Attach(a) \/ Load(a) \/ Reload(a) \/ Fetch(a) \/ Replace(a) \/ ResetRow(a)
  \/ Wipe(a) \/ Convert(a) \/ MarkConverted(a) \/ Analyse(a)

Next ==
  \/ \E p \in Partsets : Create(p) \/ Start(p)
  \/ \E a \in Actors : Step(a) \/ Fail(a) \/ Kill(a)
  \/ Refetch
  \/ \E s \in Scores : Evict(s)

Spec == Init /\ [][Next]_vars

\* The page of a partset is kept open: an import that has failed is retried.
RetrySpec == Spec /\ (\A a \in Actors : WF_vars(Step(a))) /\ (\A p \in Partsets : WF_vars(Start(p)))

-----------------------------------------------------------------------------
(* Properties. *)

\* Whatever fails on the way: a partset with a score, and a row that says so, has a PDF
\* in S3 to be imported from.
ArchivedPdf ==
  /\ \A p \in Partsets : partset[p].score # None => object[partset[p].score] # None
  /\ \A s \in Scores : row[s].s3 => object[s] # None

\* The page images and the analysis of a score are those of the PDF its row names, when
\* no replacement is at work and none has met another job of the score, has been refused
\* or cut off.
ImagesFitRow ==
  \A s \in Scores :
    (row[s].converted /\ ~Replacing(s) /\ ~torn) => {images[s], analysed[s]} \subseteq {None, Normal[row[s].hash]}

\* The PDF that would replace a corrupt archive is another score's already.
Taken(s) == \E t \in Known \ {s}, f \in Editions : s # None /\ ~Repairable(row[s].hash) /\ Holds(t, Normal[f])

\* The ids of the instance are used up.
OutOfIds(p) == At(p, "look") /\ Free = {}

\* score_pdf_refetch.py:1, "Re-download an IMSLP-backed score PDF when the archived copy
\* is unusable": with IMSLP at hand every import that is retried comes to its end,
\* whatever was killed, evicted or replaced.  (Where the replacement has become another
\* score's, the UPDATE fails on the key of file_hash every time.)
Imported ==
  \A p \in Partsets :
    []<>(partset[p].made => partset[p].complete \/ Taken(partset[p].score) \/ OutOfIds(p))
=============================================================================
