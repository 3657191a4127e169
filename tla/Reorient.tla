------------------------------ MODULE Reorient ------------------------------
(***************************************************************************)
(* The page images of one partset whose pages are turned or split in two:  *)
(* the requests that start a reorientation, poll and retry the images and  *)
(* restart an unfinished import, the jobs reorient_partset,                *)
(* warm_partset_pages and import_pipeline that share one import lock, the  *)
(* gen_parts job that cuts parts out of the same pages without that lock,  *)
(* and the eviction of the images.                                         *)
(*                                                                         *)
(* A page image, an analysis and a set of parts are known by the mode      *)
(* (rotation_degrees and split_two_up) they were made for.                 *)
(***************************************************************************)
EXTENDS Integers, FiniteSets

CONSTANTS
  Reqs,         \* requests that can be under way at the same time
  Jobs,         \* queued and running jobs that need the import lock
  NumPages,     \* pages of the score; a split partset has twice as many
  None,         \* no image, no analysis, no holder
  MaxReorients, \* bound on the reorientations started
  MaxFaults     \* bound on exceptions, kills, shutdowns and evictions

ASSUME ReorientAssumption ==
  /\ NumPages \in Nat \ {0} /\ MaxReorients \in Nat /\ MaxFaults \in Nat
  /\ None \notin Jobs \cup {"lost", "upright", "turned", "split"} /\ "lost" \notin Jobs

VARIABLES
  mode, done, error,   \* partsets: rotation and split, import complete, error
  segs,                \* the mode in which segments and pages rows were analysed
  tagged,              \* there are parts rows: the owner has labelled segments
  ready,               \* partsets.parts_ready
  image,               \* the partset's page images in the local cache
  cacheErr,            \* partifi:partset_cache_error:<id>
  lock,                \* holder of partifi:import_lock:<id>; the key itself holds "1"
                       \* ("lost": its worker is gone)
  job, gen,            \* the jobs under the import lock; a gen_parts job is queued
  req,                 \* the requests, with the columns their session has read
  reorients, faults,   \* counters that bound the model
  astray               \* history: a lock was deleted under its holder, a job ran without it or
                       \* was enqueued for columns that had changed meanwhile, or a commit changed
                       \* the mode of a complete partset or under a job of another mode

rowVars  == <<mode, done, error, segs, tagged, ready>>
vars == <<rowVars, image, cacheErr, lock, job, gen, req, reorients, faults, astray>>

Modes  == {"upright", "turned", "split"}
Custom == Modes \ {"upright"}      \* uses_custom_pages
Slots  == 1..(2 * NumPages)
PagesOf(m) == IF m = "split" THEN Slots ELSE 1..NumPages
NoJob == [pc |-> "none", kind |-> "reorient", mode |-> "upright", todo |-> {}]
\* target: the mode of a reorientation.  rows: its DELETEs lock segment rows.
NoReq == [pc |-> "idle", mode |-> "upright", done |-> FALSE, error |-> FALSE, ready |-> FALSE,
          target |-> "upright", rows |-> FALSE]

\* An imported partset in some mode, its images there or evicted.
Init ==
  /\ mode \in Modes /\ done = TRUE /\ error = FALSE /\ segs = mode
  /\ tagged \in BOOLEAN /\ ready = FALSE
  /\ image \in {[p \in Slots |-> IF p \in s THEN mode ELSE None] :
                  s \in IF mode \in Custom THEN {{}, PagesOf(mode)} ELSE {{}}}
  /\ cacheErr = FALSE /\ lock = None
  /\ job = [j \in Jobs |-> NoJob] /\ gen = FALSE
  /\ req = [r \in Reqs |-> NoReq]
  /\ reorients = 0 /\ faults = 0 /\ astray = FALSE

-----------------------------------------------------------------------------
(* Helpers. *)

At(j, pc)    == job[j].pc = pc
Goto(j, pc)  == job' = [job EXCEPT ![j].pc = pc]
End(j)       == job' = [job EXCEPT ![j] = NoJob]
Running(j)   == job[j].pc \notin {"none", "queued"}
Free         == {j \in Jobs : At(j, "none")}
Is(r, pc)    == req[r].pc = pc
Answer(r)    == req' = [req EXCEPT ![r] = NoReq]
Unlocked     == \A r \in Reqs : ~(Is(r, "commit") /\ req[r].rows)   \* row locks
HasImages    == \E p \in Slots : image[p] # None   \* partset_has_kind: one is enough

\* Mutant: the directory that is removed is another one.
Kept == image
\* invalidate_partset_pages
Wiped == [p \in Slots |-> None]

\* Enqueue a job under the lock just taken.  An import knows no mode but upright.
Launch(kind, m, late) ==
  \E j \in Free : /\ job' = [job EXCEPT ![j] = [NoJob EXCEPT !.pc = "queued", !.kind = kind,
                                                !.mode = IF kind = "import" THEN "upright" ELSE m]]
                  /\ lock' = j
                  /\ astray' = (astray \/ late)
\* The session has read other columns than there are now.
Outdated(r) == req[r].mode # mode \/ req[r].done # done

\* Mutant: the key is not deleted.
LeaveLock(j) == UNCHANGED <<lock, astray>>
\* release_import_lock: DELETE, whoever holds the key.
Unlock(j) == lock' = None /\ astray' = (astray \/ lock \notin {None, "lost", j})

-----------------------------------------------------------------------------
(* Requests.  The session keeps the columns as it has read them. *)

Load(r) ==
  /\ req[r].pc = "idle" /\ Free # {}
  /\ req' = [req EXCEPT ![r] = [NoReq EXCEPT !.pc = "loaded", !.mode = mode, !.done = done,
                                             !.error = error, !.ready = ready]]
  /\ UNCHANGED <<rowVars, image, cacheErr, lock, job, gen, reorients, faults, astray>>

\* Mutant: every partset is taken to have pages of its own.
PollAny(r) ==
  /\ Is(r, "loaded")
  /\ IF HasImages \/ cacheErr THEN Answer(r) ELSE req' = [req EXCEPT ![r].pc = "warm"]
  /\ UNCHANGED <<rowVars, image, cacheErr, lock, job, gen, reorients, faults, astray>>

\* ensure_page_images_status.  An upright partset shows the score's pages.
Poll(r) ==
  /\ Is(r, "loaded")
  /\ LET custom == req[r].mode \in Custom
         complete == req[r].done /\ ~req[r].error IN
       /\ cacheErr' = (cacheErr /\ (custom => ~HasImages /\ complete))
       /\ IF custom /\ ~HasImages /\ complete /\ ~cacheErr
          THEN req' = [req EXCEPT ![r].pc = "warm"] ELSE Answer(r)
  /\ UNCHANGED <<rowVars, image, lock, job, gen, reorients, faults, astray>>

\* retry_partset_page_cache; the page offers it with the error.
RetryPages(r) ==
  /\ Is(r, "loaded") /\ req[r].mode \in Custom /\ cacheErr
  /\ cacheErr' = FALSE
  /\ req' = [req EXCEPT ![r].pc = "warm"]
  /\ UNCHANGED <<rowVars, image, lock, job, gen, reorients, faults, astray>>

\* _enqueue_warm_partset_pages
EnqueueWarm(r) ==
  /\ Is(r, "warm")
  /\ \/ lock # None /\ UNCHANGED <<cacheErr, lock, job, astray>>
     \/ lock = None /\ cacheErr' = FALSE /\ Launch("warm", req[r].mode, Outdated(r))
  /\ Answer(r)
  /\ UNCHANGED <<rowVars, image, gen, reorients, faults>>

\* start_reorient up to its commit: the rows are deleted in its transaction, which
\* keeps them locked, the caches at once, and the job is enqueued before the commit.
StartReorient(r, m) ==
  /\ Is(r, "loaded") /\ lock = None /\ reorients < MaxReorients
  /\ reorients' = reorients + 1
  /\ image' = Wiped
  /\ Launch("reorient", m, req[r].done # done)
  /\ req' = [req EXCEPT ![r].pc = "commit", ![r].target = m, ![r].rows = segs # None \/ tagged]
  /\ UNCHANGED <<rowVars, cacheErr, gen, faults>>

\* The commit writes the columns that differ from what the session has read: it may give
\* a partset completed meanwhile, or another job's partset, a mode they know nothing of.
CommitReorient(r) ==
  /\ Is(r, "commit")
  /\ mode'  = IF req[r].target # req[r].mode THEN req[r].target ELSE mode
  /\ done'  = (done /\ ~req[r].done)
  /\ error' = (error /\ ~req[r].error)
  /\ ready' = (ready /\ ~req[r].ready)
  /\ IF req[r].rows THEN segs' = None /\ tagged' = FALSE ELSE UNCHANGED <<segs, tagged>>
  /\ astray' = (astray \/ (mode' # mode /\ (done' \/ \E j \in Jobs : lock = j /\ job[j].mode # mode')))
  /\ Answer(r)
  /\ UNCHANGED <<image, cacheErr, lock, job, gen, reorients, faults>>

\* Mutant: an unfinished partset is always imported.
ImportJob(m) == "import"
\* partset_needs_reorient
RestartJob(m) == IF m \in Custom THEN "reorient" ELSE "import"

\* ensure_import_if_needed
EnsureImport(r) ==
  /\ Is(r, "loaded") /\ ~req[r].done /\ ~req[r].error
  /\ IF lock = None THEN Launch(RestartJob(req[r].mode), req[r].mode, Outdated(r)) ELSE UNCHANGED <<lock, job, astray>>
  /\ Answer(r)
  /\ UNCHANGED <<rowVars, image, cacheErr, gen, reorients, faults>>

\* retry_partset_pipeline, as far as it concerns the import.
RetryImport(r) ==
  /\ Is(r, "loaded") /\ ~req[r].done
  /\ error' = (error /\ ~req[r].error)
  /\ IF lock = None THEN Launch(RestartJob(req[r].mode), req[r].mode, Outdated(r)) ELSE UNCHANGED <<lock, job, astray>>
  /\ Answer(r)
  /\ UNCHANGED <<mode, done, segs, tagged, ready, image, cacheErr, gen, reorients, faults>>

-----------------------------------------------------------------------------
(* The owner, whose labels are the same every time, and part generation. *)

SaveSegments ==
  /\ done /\ segs # None /\ ~tagged /\ Unlocked
  /\ tagged' = TRUE /\ ready' = FALSE
  /\ UNCHANGED <<mode, done, error, segs, image, cacheErr, lock, job, gen, req, reorients, faults, astray>>

\* start_part_generation
StartParts ==
  /\ done /\ ~error /\ ~ready /\ tagged /\ ~gen
  /\ gen' = TRUE
  /\ UNCHANGED <<rowVars, image, cacheErr, lock, job, req, reorients, faults, astray>>

\* gen_parts, which PartGen has in detail.  Without segments and parts rows there is
\* nothing to generate and the parts count as ready.  Parts cut from the images of
\* these rows are ready too; a custom partset without images fails.
GenerateParts ==
  /\ gen /\ Unlocked
  /\ gen' = FALSE
  /\ \/ segs = None /\ ready' = (ready \/ ~tagged) /\ UNCHANGED error
     \/ segs # None /\ ready' = tagged /\ error' = (error /\ ~tagged)
     \/ segs # None /\ mode \in Custom /\ (\E p \in PagesOf(segs) : image[p] = None)
          /\ error' = (error \/ ~ready) /\ UNCHANGED ready
  /\ UNCHANGED <<mode, done, segs, tagged, image, cacheErr, lock, job, req, reorients, faults, astray>>

-----------------------------------------------------------------------------
(* The jobs under the import lock. *)

StartReorientJob(j) ==
  /\ At(j, "queued") /\ job[j].kind = "reorient"
  /\ Goto(j, "dropRows")
  /\ astray' = (astray \/ lock # j)
  /\ UNCHANGED <<rowVars, image, cacheErr, lock, gen, req, reorients, faults>>

\* run_warm_partset_pages.  Its early return does not pass the finally that unlocks.
StartWarmJob(j) ==
  /\ At(j, "queued") /\ job[j].kind = "warm"
  /\ IF job[j].mode \in Custom
     THEN job' = [job EXCEPT ![j].pc = "copy", ![j].todo = PagesOf(job[j].mode)]
     ELSE End(j)
  /\ astray' = (astray \/ lock # j)
  /\ UNCHANGED <<rowVars, image, cacheErr, lock, gen, req, reorients, faults>>

\* run_import_pipeline, which ScoreAnalysis has in detail, analyses upright pages.
StartImportJob(j) ==
  /\ At(j, "queued") /\ job[j].kind = "import"
  /\ Goto(j, "clear")
  /\ astray' = (astray \/ lock # j)
  /\ UNCHANGED <<rowVars, image, cacheErr, lock, gen, req, reorients, faults>>

\* _reset_partset_for_reorient: three DELETEs, which wait for the row locks of the
\* request, and an UPDATE.
DropRows(j) ==
  /\ At(j, "dropRows") /\ Unlocked
  /\ segs' = None /\ tagged' = FALSE
  /\ Goto(j, "resetRow")
  /\ UNCHANGED <<mode, done, error, ready, image, cacheErr, lock, gen, req, reorients, faults, astray>>

ResetRow(j) ==
  /\ At(j, "resetRow")
  /\ done' = FALSE /\ error' = FALSE /\ ready' = FALSE
  /\ Goto(j, "wipe")
  /\ UNCHANGED <<mode, segs, tagged, image, cacheErr, lock, gen, req, reorients, faults, astray>>

\* The pages are rendered, or the split PDF converted, in the job's own directory.
WipeAndRender(j) ==
  /\ At(j, "wipe")
  /\ image' = Wiped
  /\ job' = [job EXCEPT ![j].todo = IF job[j].mode \in Custom THEN PagesOf(job[j].mode) ELSE {},
                        ![j].pc = IF job[j].mode \in Custom THEN "copy" ELSE "setMode"]
  /\ UNCHANGED <<rowVars, cacheErr, lock, gen, req, reorients, faults, astray>>

\* copy_partset_pages_tree
CopyPage(j, p) ==
  /\ At(j, "copy") /\ p \in job[j].todo
  /\ image' = [image EXCEPT ![p] = job[j].mode]
  /\ job' = [job EXCEPT ![j].todo = @ \ {p},
                        ![j].pc = IF job[j].todo # {p} THEN @
                                  ELSE IF job[j].kind = "warm" THEN "clearErr" ELSE "setMode"]
  /\ UNCHANGED <<rowVars, cacheErr, lock, gen, req, reorients, faults, astray>>

ClearCacheError(j) ==
  /\ At(j, "clearErr")
  /\ cacheErr' = FALSE
  /\ Goto(j, "unlock")
  /\ UNCHANGED <<rowVars, image, lock, gen, req, reorients, faults, astray>>

SetMode(j) ==
  /\ At(j, "setMode")
  /\ mode' = job[j].mode
  /\ Goto(j, "clear")
  /\ UNCHANGED <<done, error, segs, tagged, ready, image, cacheErr, lock, gen, req, reorients, faults, astray>>

\* analyze_score: two DELETEs, and an INSERT that the pages' key refuses to a second
\* analysis of the same partset.
ClearRows(j) ==
  /\ At(j, "clear") /\ Unlocked
  /\ segs' = None
  /\ Goto(j, "insert")
  /\ UNCHANGED <<mode, done, error, tagged, ready, image, cacheErr, lock, gen, req, reorients, faults, astray>>

InsertRows(j) ==
  /\ At(j, "insert")
  /\ IF segs = None THEN segs' = job[j].mode /\ Goto(j, "complete") ELSE UNCHANGED segs /\ Goto(j, "fail")
  /\ UNCHANGED <<mode, done, error, tagged, ready, image, cacheErr, lock, gen, req, reorients, faults, astray>>

Complete(j) ==
  /\ At(j, "complete")
  /\ done' = TRUE
  /\ Goto(j, "unlock")
  /\ UNCHANGED <<mode, error, segs, tagged, ready, image, cacheErr, lock, gen, req, reorients, faults, astray>>

\* mark_partset_error passes over a partset whose parts are ready; a failed warm job
\* marks the cache instead.
Record(j) == IF job[j].kind = "warm" THEN cacheErr' = TRUE /\ UNCHANGED error
                                     ELSE error' = (error \/ ~ready) /\ UNCHANGED cacheErr

Except(j) ==
  /\ At(j, "fail")
  /\ Record(j)
  /\ Goto(j, "abort")
  /\ UNCHANGED <<mode, done, segs, tagged, ready, image, lock, gen, req, reorients, faults, astray>>

\* finally
Finally(j) ==
  /\ job[j].pc \in {"unlock", "abort"}
  /\ Unlock(j)
  /\ Goto(j, IF At(j, "unlock") THEN "exit" ELSE "again")
  /\ UNCHANGED <<rowVars, image, cacheErr, gen, req, reorients, faults>>

\* The parent process: a job that failed, or whose partset has an error for whatever
\* reason, has its locks deleted once more.
ParentExit(j) ==
  /\ job[j].pc \in {"exit", "again"}
  /\ IF At(j, "again") \/ error THEN Unlock(j) ELSE UNCHANGED <<lock, astray>>
  /\ End(j)
  /\ UNCHANGED <<rowVars, image, cacheErr, gen, req, reorients, faults>>

-----------------------------------------------------------------------------
(* Faults and evictions. *)

Fault == faults < MaxFaults /\ faults' = faults + 1
InTry(j) == Running(j) /\ job[j].pc \notin {"unlock", "abort", "exit", "again", "fail"}

\* A page cannot be rendered, a statement fails.
Raise(j) ==
  /\ InTry(j) /\ Fault
  /\ Goto(j, "fail")
  /\ UNCHANGED <<rowVars, image, cacheErr, lock, gen, req, reorients, astray>>

\* The deadline or the kernel ends the child; a worker that shuts down releases the
\* lock and requeues the job.
KillJob(j) ==
  /\ InTry(j) /\ Fault
  /\ Record(j) /\ Unlock(j)
  /\ \/ End(j)
     \/ job' = [job EXCEPT ![j].pc = "queued", ![j].todo = {}]
  /\ UNCHANGED <<mode, done, segs, tagged, ready, image, gen, req, reorients>>

\* The worker is lost; reap_stale_jobs marks the partset, whatever the job's type,
\* and leaves the lock to its expiry.
LoseWorker(j) ==
  /\ InTry(j) /\ Fault
  /\ error' = (error \/ ~ready)
  /\ lock' = IF lock = j THEN "lost" ELSE lock
  /\ End(j)
  /\ UNCHANGED <<mode, done, segs, tagged, ready, image, cacheErr, gen, req, reorients, astray>>

ExpireLock ==
  /\ lock = "lost"
  /\ lock' = None
  /\ UNCHANGED <<rowVars, image, cacheErr, job, gen, req, reorients, faults, astray>>

\* clean_cache
Evict ==
  /\ HasImages /\ Fault
  /\ image' = Wiped
  /\ UNCHANGED <<rowVars, cacheErr, lock, job, gen, req, reorients, astray>>

-----------------------------------------------------------------------------
JobStep(j) == \/ StartReorientJob(j) \/ StartWarmJob(j) \/ StartImportJob(j)
              \/ DropRows(j) \/ ResetRow(j) \/ WipeAndRender(j) \/ ClearCacheError(j)
              \/ (\E p \in Slots : CopyPage(j, p))
              \/ SetMode(j) \/ ClearRows(j) \/ InsertRows(j) \/ Complete(j)
              \/ Except(j) \/ Finally(j) \/ ParentExit(j)

Next ==
  \/ \E r \in Reqs : \/ Load(r) \/ Poll(r) \/ RetryPages(r) \/ EnqueueWarm(r)
                     \/ EnsureImport(r) \/ RetryImport(r) \/ CommitReorient(r)
                     \/ \E m \in Modes : StartReorient(r, m)
  \/ \E j \in Jobs : JobStep(j) \/ Raise(j) \/ KillJob(j) \/ LoseWorker(j)
  \/ SaveSegments \/ StartParts \/ GenerateParts \/ ExpireLock \/ Evict

Spec == Init /\ [][Next]_vars

\* Jobs run and requests that have begun to write end.  A page that is open polls
\* its images and lets an unfinished import be restarted.
PollSpec ==
  /\ Spec
  /\ WF_vars(ExpireLock) /\ \A j \in Jobs : WF_vars(JobStep(j))
  /\ \A r \in Reqs : /\ WF_vars(EnqueueWarm(r)) /\ WF_vars(CommitReorient(r))
                     /\ SF_vars(Load(r)) /\ SF_vars(Poll(r)) /\ SF_vars(EnsureImport(r))

-----------------------------------------------------------------------------
(* Properties. *)

\* A page that is shown was made for the partset's present rotation and split, and
\* so no extra page of a split partset is left, whatever jobs failed in between.
NoForeignPage ==
  (done /\ mode \in Custom /\ ~astray)
    => \A p \in Slots : image[p] \in {None, mode} /\ (p \notin PagesOf(mode) => image[p] = None)

\* A partset that is complete has the segments of its present pages.
SegmentsFitPages == (done /\ ~astray) => segs = mode

\* The lock is held for a job that will release it: no path of API or job leaves a
\* key behind that keeps the images from being warmed until it expires.
LockHasOwner == lock \in Jobs => ~At(lock, "none")

\* However jobs fail and images are evicted, a page that polls sees images, or an
\* error it can retry from.
NeverWaitsForEver ==
  []<>(error \/ cacheErr \/ (done /\ (mode = "upright" \/ HasImages)))
=============================================================================
