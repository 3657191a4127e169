# A verification of partifi-nextgen

TLA+ models of the parts of partifi-nextgen where several actors share state, with the TLC
runs that check them and TLAPS proofs about all of them. Line numbers are those of the files
under `src/`.

## The system

partifi turns a score (an uploaded PDF or one fetched from IMSLP) into instrument parts.
A **partset** is one user's work on one score; partsets of one PDF share the score.

| Component | State it keeps | Operations |
|---|---|---|
| API (FastAPI, two uvicorn workers, a thread pool) | SQLAlchemy sessions of single requests | create a partset, ensure / retry an import, save segments, layout, combined parts, metadata, reorient, start a generation, serve images and PDFs, library |
| MySQL | `scores`, `partsets` (stage timestamps, progress, `error`, `parts_ready`), `pages`, `segments`, `parts`, `breaks`, `original_*`, `users`, `favorites`, `downloads` | transactions of the API (repeatable read); single autocommitted statements of the workers, one transaction in `finalize_part_generation` |
| Redis | the lists `partifi:jobs` and `partifi:jobs:processing`, the counter `partifi:job_id`, locks per partset and per score, warm-up progress and errors | LPUSH, BRPOPLPUSH, LREM/RPUSH, SET NX EX, DEL |
| Three workers (`worker.py`) | `RUNNING`, the shutdown flag, the child process | claim, run with a deadline, acknowledge, requeue, reap |
| Jobs (`workers/jobs`) | a child process with a scratch directory | import_pipeline, imslp_import, reorient_partset, warm_partset_pages, warm_score_pages, gen_parts |
| Local cache | page PNGs, preview PNGs with a fingerprint, part PDFs, `score.pdf` | store, invalidate, evict (nightly `jobs.clean_cache`) |
| S3 | score PDFs | put before the commit, get with retries, replace, delete |
| Operator's tools | - | `refetch_score_pdf`, `delete_failed_partsets`, `purge_score_cluster` |
| Frontend (React) | polling of the progress pages, editors, preview | calls the API |

They meet in four places: the queue (API, workers), the locks (taken by the API, given back
by the job and by its parent, which do not know whose they are), the rows of partset and score
(everyone), and the cache directories (API, jobs, eviction). What is hard about them: workers
are killed by deadlines, deploys and the kernel at any statement; a job's failure is recorded
and its lock released in more than one place; locks have a TTL and no owner; the cache is
invalidated before the database commits; a job reads what it needs piece by piece while
the owner goes on editing; sessions write only the columns they changed; one image passes for
a complete set.

Correctness, per component:

* queue: no job is lost, duplicated or revived; each one is closed; a failure is shown, unless the
  partset has what the job was for;
* import lock: one import at a time per partset; no lock blocks a partset for good;
* part generation: a ready partset has PDFs, and they are those of its segments, layout,
  labels and title; the progress page ends;
* score warming, preview cache, reorientation: a reader never gets images of another
  segmentation or rotation; images that are wanted come;
* import: two imports of one score do not mix their segments; what a killed import left does
  not stop the next one; segments are of the orientation their pages have;
* archive: what the database refers to is in S3; images and analysis are of the archived PDF;
* segment saves: atomic, applied once whatever is retried; the part rows are those of the tags;
* page layout: every segment is on exactly one page, in order, at full size;
* library and removal: no row, favourite, preview or part PDF of a partset survives it; no score in
  use is removed.

`PROJECT.json` lists every component, also those that are not modelled, and the hazards of
the code, each at its line with the properties that cover it.

## Modules

| Module | What it is |
|---|---|
| `JobLedger` | what the queue promises of each job (abstract specification) |
| `JobQueue` | the queue, the workers with their children, the reaper, the import lock, ensure and retry |
| `JobQueueProofs` | type correctness, one place per job, exclusion by the import lock; the queue implements the ledger |
| `ReadThroughCache` | what a cache of derived files promises (abstract specification) |
| `PartGen` | the gen_parts job, the requests that start it, saves, eviction |
| `PartGenProofs` | type correctness, labels of ready parts, exactness of published ones; part generation implements the cache |
| `ScorePagesWarm` | page images of a score: polls, lock, progress value, builders, eviction |
| `ScoreAnalysis` | imports of one score: conversion, the shared analysis and its copies |
| `ScoreAnalysisProofs` | the shared analysis and the rows of complete partsets are whole |
| `Reorient` | page images of a rotated or split partset: reorientation, warming, restart, eviction |
| `ReorientProofs` | the import lock's owner; images, page rows and segments are of the partset's mode |
| `PreviewCache` | preview images, fingerprint and heights: views, saves, eviction |
| `ScoreArchive` | creation of partsets, scores, S3 archive, repair and refetch |
| `ScoreArchiveProofs` | what is referred to is archived; images and analysis are of the archived PDF |
| `PageSaves` | what a save of the segment editor promises (abstract specification) |
| `SegmentSave` | saves, combines and generation starts as MySQL transactions |
| `SegmentProofs` | of `SegmentSave`: exclusion of row locks, saves implement `PageSaves`, part rows follow the tags; of `PreviewCache`: a valid preview has the images and heights of its rows, and the directory implements the cache |
| `Library` | accounts, favourites, downloads, deletion, the operator's clean-up tools |
| `LibraryProofs` | who holds a partset's private key, what removals leave and spare, the download counter |
| `PageChunks` | from segments, breaks and spacing to the pages of the PDFs and of the preview |
| `PageProofs` | of `ScorePagesWarm`: type correctness, exclusion of warm jobs, completion of partial copies; of `PageChunks`: music, number of pages, sizes, failures, preview |
| `MC...` | instances for TLC: symmetry, documents, requests |

The modules share no state variables: each takes the tables, keys and directories its
operations meet in, and sums up the rest. Where two of them have the same thing in them, the
detailed one shows what the other assumes: `JobQueue` that jobs end or fail (assumed by all
others), `ScoreAnalysis` the steps that are `Convert` and `Analyse` in `ScoreArchive`,
`SegmentSave` the transaction that is a `CommitEdit` of `PartGen`, `CommitRows` of
`PreviewCache`, and `SaveSegments` of `Reorient`.

### JobQueue

A job is a number (`partifi:job_id`). `queue` is the Redis list, `processing[j]` says how
the job's entry in the processing list reads: `raw` as BRPOPLPUSH moved it, `stamped` once
it carries `started_at`. `wpc[w]` is where `main` of a worker is, `wjob[w]` the job in its
hands, `child[w]` where the subprocess is, `lock[p]` the remaining TTL of the import lock,
`error[p]`, `complete[p]` and `partsReady[p]` the columns of the partset.

* `ClaimJob` / `StampJob` are the two halves of `claim_next_job`; the reaper, a crash and a
  lost connection come between them.
* `SpawnChild`, `SeeExit`, `SeeAbort`, `SeeTimeout`, `TerminateChild`, `RecordFailure`,
  `ReleaseJobLocks` are `run_job_with_timeout`. `AckJob` and `RequeueJob` end the job; a
  requeue acknowledges first and pushes afterwards.
* `CommitResult`, `RaiseInChild`, `MarkInChild`, `Unwound`, `ReleaseInChild`,
  `RecordInChild` are the try / except / finally of the import jobs; imslp_import
  wraps a second one around import_pipeline's, so the child releases the lock twice, whether
  it fails or succeeds (`ReleaseInChild` from `closing` is the second time), and a failure
  releases it once more in the parent. The spawned child imports `worker.py` and
  with it the SIGTERM handler: a terminated child works on until it is killed
  (`TerminateChild` is that kill).
* `BeginReap`, `ReapEntry`, `FailStaleJob`, `AckStaleJob`, `EndReap` are the reaper, which
  reports the failure, does not touch the lock, and removes the entry as it had listed it.
  The reaper is asked at every twelfth empty poll; the model lets it run at any empty poll
  that finds a stale entry, so the counter only delays what it does.
* `BeginRequest`, `AcquireLock`, `LockBusy`, `EnqueueJob`, `CommitRequest` are
  `ensure_import_if_needed` and `retry_partset_pipeline`. The session's commit clears
  `error` only if it had read one. (Partset creation takes the lock and enqueues in the
  same way, without a commit afterwards.)
* `MakePartsReady`, `TakePartsDown`, `FailPartGen` are what import jobs notice of part generation
  (`PartGen` has all of it): `mark_partset_error` records nothing over `parts_ready`, and an import
  job that exits 0 and finds the error of a generation is taken for failed. `Generated` is the
  set of partsets it happens to. An import is enqueued for a complete partset when its request
  had read it before, so that parts may become ready while it is in a worker's hands; if that worker
  is lost, the reaper's report is not shown. `reported` and `shown` tell the two apart.
* `Shutdown`, `CrashWorker`, `LoseRedis`, `LoseRequest`, `KillChildOOM` are the faults.

Time is counted in ticks, and `Tick` is disabled while a step that does not wait is under
way (`Settled`). Ages stop at `AgeCap`, beyond which no guard tells them apart.

`JobLedger` is the promise: a job is submitted, taken, closed; it is given back only after
its interruption was reported; it is closed only with a result or after a report; and a report stays
unseen only if a job of the same partset has brought a result (`Served`).

### PartGen

One partset: lock, rows and cache directory are the partset's own, so partsets do not meet.
`content` is what the PDFs are made of (title, segment geometry, layout, tags, combined
parts). `marks` is the set of timestamp columns that are not NULL. `files[p]` is the content the cached
PDF of part `p` was made from, or `NoPDF`. The name of a PDF is made from the part's tag, so that
editions of a part replace one another and those of other parts stay. `Shown` are the PDFs of parts
that have a row: only they are listed.

* A request is one session. `Starting` and `Saving` keep what it read, and its commit
  writes the difference: `parts_ready = False` writes nothing when the session read False
  (`CommitEdit`). This is SQLAlchemy's unit of work; the code gives no other protection.
* Segment saves and combines write before they invalidate the cache and hold row locks from
  then on (`FlushEdit`, `Holds`); layout and title saves write at the commit only. All of
  them remove the PDFs before the commit (`InvalidateParts`).
* The job's steps are its statements, in their order: `StartJob`, `ReadSegments`,
  `StartCut`, `CompleteCut`, `ReadCombined`, `ReadLayout`, `ReadPartRows`, `StartPaste`,
  `StorePart`, `CheckParts`, `Finalize`, `DiscardParts`, `UnlockInJob`. Cutting and pasting
  images touch only its scratch directory and are no steps of their own (they are the subject
  of `PageChunks`). A row without segments raises after `paste_start` is written (`torn`).
* `StorePart` puts one PDF after the other (`left` are those to come) beside whatever the directory holds.
  A job that is cut off in between, or after a save has wiped the directory under it, leaves PDFs of two
  generations; the next one replaces those it publishes. A copy that fails over an older PDF passes
  (`store_part_file` raises only if there is none), and `part_is_cached` does not notice: `overlooked`.
* `Finalize` is the one transaction, on locked part rows: it publishes if (tag, combined) are
  those the job read, and resets the partset otherwise.
* The queue around it is summarised: a job may raise, be killed at the deadline or for a
  shutdown and requeued, or be lost with its worker and reaped (`RaiseInJob`, `KillJob`,
  `LoseWorker`, `ReapJob`).
* `EvictParts` and `RemoveParts` are `clean_cache` on the partset's directory; the size cap may pick
  a directory however fresh, so the model asks for no age.

Left out of PartGen: page images that are missing and are warmed inside the job (status
`convert`; `ScorePagesWarm` and `Reorient` have it as another builder), progress percentages,
the deadlock retry of segment saves (`SegmentSave`), deletion of a partset (`Library`).

### ScorePagesWarm

One score that is archived and has lost its images. `low` and `high` are the pages whose image
is in the cache, `progress` is `partifi:warm_progress:<score>` counted in pages.

* `Look`, `GetProgress`, `FreeLock`, `ResetProgress`, `AcquireLock`, `Enqueue` are
  `ensure_score_pages_warming`, one step per Redis command: it reads "100" as the end of a job.
* `StartWarm` ... `ReleaseLock` are `run_warm_score_pages` with `build_score_page_cache`;
  `StartOther` is gen_parts or reorient_partset building the same images without the lock.
* `CopyLow` and `CopyHigh` are `copy_pages_tree`, page by page, in place.
* `RaiseInJob`, `KillJob`, `Evict`/`RemoveKind` are the faults. `Tick` is the TTL; a running job
  meets its deadline before the lock's TTL ends, a queued one may outlive it.

### ScoreAnalysis

The imports of the partsets of one score, statement by statement, on the score's row, the page
images (each with the orientation it was made in), `original_segments` (a bag: the table has
no key but its number) and `original_pages` (keyed by page), and the partsets' own copies.

* `ReadIncomplete` and `Enqueue` are ensure and retry, which read before they take the lock,
  so that an import can be enqueued for a partset that is complete by then.
* `StartImport`, `LookAtCache`, `DropSegments`, `DropPages`, `Unmark`, `UnlinkImages`,
  `UnlinkHighres`, `CopyImage`, `UpdateScore` convert; a stored orientation the PDF contradicts drops images and
  analysis first. `highres` says that there are highres images: `ListImages` converts again only without
  them, and lists nothing when there are none but them, which completes the partset without rows
  (in races that the histories name only). `CheckAnalysis` ... `MarkAnalysed` analyse; `ClearOwnRows`, `CopySegments`,
  `CopyPages`, `FinishReuse` copy what is analysed already.
* `KillJob` ends a job anywhere; `EditSegments` is the owner of a complete partset.

### Reorient

One partset whose pages are turned or split. A page image, an analysis and a mode are compared
by the *mode* they were made for. Requests keep the columns their session has read.

* `Load`, `Poll`, `RetryPages`, `EnqueueWarm`, `StartReorient`, `CommitReorient`, `EnsureImport`,
  `RetryImport` are the routes; three kinds of jobs (`reorient`, `warm`, `import`) share the
  import lock, each with its own try / except / finally (`Except`, `Finally`, `ParentExit`).
* `DropRows`, `ResetRow`, `WipeAndRender`, `CopyPage`, `SetMode`, `ClearRows`, `InsertRows`,
  `Complete` are the jobs' statements. `GenerateParts` is gen_parts warming images itself.
* `Raise`, `KillJob`, `LoseWorker`, `ExpireLock`, `Evict` are the faults.

### PreviewCache

The preview directory of one partset: an image for each cut with the geometry it was cut
from, the fingerprint, the heights file. `ReadRows`, `ServeCached`, `StartBuild`,
`MakeDirectory`, `PublishImage`, `SkipImage`, `UnlinkOthers`, `WriteFingerprint`,
`TruncateHeights`, `WriteHeights`, `Show` are one view; `RemovePreview` and `CommitRows` are a
save, which removes the preview before it commits. `Crash` ends a view, `Evict` removes
the directory.

### ScoreArchive

A PDF is a member of `Files`, `Normal` what `ensure_valid_score_pdf` makes of it (itself, a
repaired file, nothing). `CreateFromPdf`, `CreateFromImslp`, `CreateFromScore`, `Put`, `Commit`
are the three ways a request makes a partset; `Start`, `Download`, `LookUp`, `CheckArchive`,
`Archive`, `StampArchived`, `Insert`, `Upload`, `Attach` are imslp_import, `Load`, `Reload`,
`Fetch`, `Replace`, `ResetRow`, `Wipe` the loading, repair and replacement of an archive by an
import or by the operator's `refetch_score_pdf` (`Refetch`). `Ingest` is `ingest_imslp_pdf_bytes`: it gives the
score the edition's id, which is what a later refetch needs, and it looks at an archive through the
local cache, which keeps what it had to fetch (`Looked`). `CheckArchive` takes a failed download of the
archive for a missing one and puts the PDF again. `Fail` is a call that gives up
after its retries (a put may have been carried out), `Kill` a request or a job that is cut off.

### SegmentSave

Sessions are transactions under InnoDB's REPEATABLE READ. `txn[s]` is the snapshot, the
session's own writes and what is still to be done; `held` and `waiting` are the locks: the rows
of `segments` (its index is on `partset_id` alone, so a page's DELETE locks them all), the gap
where they would be, the insert intention that waits for both, the partset's row, part rows,
page rows (`Locks`). `ahead` says which waiting sessions asked before (`Enqueue`, `Dequeue`). The
pages of a save are locked in ascending order (`Lowest`), and `written` keeps those it has replaced.
`Deadlock` rolls back any member of a cycle of waits; `Undo` and `Retry` are the rollback and
`_retry_segment_save_on_deadlock`. `base` is the snapshot's segment tags and `rows` its part rows
with the session's own writes; `Sync` is `sync_part_rows` on them, with the session's own flush in it
(`View`). Lock behaviour is MySQL's and external to `src/`; it is modelled from the statements the
code runs and the indexes of its tables.

`Owner`, `Asked` and `Answer` map it to `PageSaves`: a page's owner is the save whose rows it has.

### Library

A request reads in one step and commits in another, and remembers what it read. Children rows
(segments, breaks, parts, pages) are one set. Tools are the client `Operator`: they go through
their lists row by row. `Login`, `AddFavorite`, `RemoveFavorite`, `ReadStatus`, `Download`,
`FindScore`/`CommitCreate`, `Delete` with `DeleteRows`, `DeleteObjects`, `InvalidateCaches`,
`DeleteFailed` with `CountPartsets`, `WipeScore`, `CommitWipe`, and `Purge` with `PurgeBatch`,
`PurgeScore`, `PurgeFiles` are the operations.

Of the local cache, `cached` tells the preview and the part PDFs (`"derived"`) from the page images
of a turned or split partset (`"pages"`). `delete_partset` invalidates the former two; nothing but the
eviction removes the page images, so they outlive the partset. The tool takes the first partset
of its list as it was listed and reads the others again, because its first commit expires them: it ends if one
of those is gone, and goes on if the first is.

### PageChunks

Lengths are integers: paper in 1/600 inch (half a pixel of the highres images), score pages in
tenths of a percent, spacing in slider steps. `SegmentCutHeight`, `SegmentMap`, `PartSegments`,
`ComputeCues`, `ChunkStackHeight`, `Divide` (`page_chunks`, a fold of `Place`, the body of its loop),
`AddImages` (a fold of `AddImage`) and `CreatePart` are the pipeline's functions; `PreviewChunks` is `previewUtils.ts`. `ToggleBreak` and
`SetSpacing` are the editor, `CutPage` and `Draw` the processes of a generation. What is left of a
page is an exact number here and a float in the code, which matters only where exactly nothing is left.

### ReadThroughCache

`source` is what the database says, `shown` what is shown of the files made from it: nothing, or files
made from the source as it is; a change of the source shows none of them any more. `PartGen` maps to it
twice, for all that the PDFs are made of and for their labels alone, and shows no files where the
histories void the promise; `PreviewCache` maps its directory to it.

## Runs

All bounds are CONSTANTS. Two workers, views or jobs, or a request and a job, are where every race of the
code needs two actors; a third would repeat one of them.

| Run | Bounds | What it shows |
|---|---|---|
| `JobQueue_safety` | 1 partset whose parts are generated, 2 workers (symmetric), 1 request, 2 jobs, 1 fault; 999 000 states | `OnePlace`, `ExclusiveUntilFault`, `KeepsLedger` (the refinement of `JobLedger`) |
| `JobQueue_liveness` | the same without part generation; 484 000 states | `EveryJobCloses`, `NeverStuck` |
| `JobQueue_lock_doc` | 1 partset, 2 workers, 2 requests, 3 jobs, no fault | violated: `NoConcurrentImports` |
| `PartGen_safety` | 1 request at a time, 2 jobs, 2 sets of labels, 1 save, 1 fault; 343 000 states | `IntactStaysExact`: after an undisturbed publication a save and an eviction keep cache and flag in step; `PartsImplementCache`, `LabelsImplementCache` (refinements of `ReadThroughCache`): labels edited during a generation are not followed by ready PDFs of the old ones, whatever a job that was cut off has left; `RetryHelps` |
| `ScorePagesWarm_safety` | 1 poll, 2 pages, 2 jobs, TTL 2, 1 fault, 1 eviction; 420 000 states | `PartialIsPassing`, `ExclusiveUnlessFreed`, `Warmed` |
| `ScoreAnalysis_safety` | 2 partsets, 2 pages, 2 orientations, 1 kill or save; 886 000 states | `OneAnalysis`, `CompleteRows`, `AllImported` |
| `Reorient_safety` | 1 request at a time, 2 jobs, 1 page (2 if split), 1 reorientation, 1 fault | `NoForeignPage`, `SegmentsFitPages`, `LockHasOwner`, `NeverWaitsForEver` |
| `PreviewCache_safety` | 2 views, 2 geometries (2 cuts, 1 cut), 2 saves, 2 faults | `ValidFits`, `HeightsFit`, `ViewsAnswered`, `PreviewImplementsCache` (refinement of `ReadThroughCache`) |
| `ScoreArchive_safety` | 2 partsets, 3 scores, 4 PDFs, 1 fault or refetch; 447 000 states | `ArchivedPdf`, `ImagesFitRow`, `Imported` |
| `SegmentSave_safety` | 3 sessions, 2 pages, 2 tags, 7 requests, partset with and without segments, 2 retries, 1 lock timeout; 228 000 states | `TypeOK`, `PartsMatchTags`, `RetriesSuffice`, `SavesAreAtomic` (the refinement of `PageSaves`), `Answered` |
| `Library_safety` | 2 browsers, 2 users, 3 partsets, 2 scores, batches of 1, 3 requests, 1 fault; 1.3 million states (browsers, users, scores and the two old partsets are symmetric) | `ScoreKept`, `NothingLeft`, `AdminHadKey`, `Counted` |
| `PageChunks_safety` | 6 documents, 4 spacings, 2 edits; 35 000 states | `ShowsItsMusic`, `FewestPages`, `FullSize`, `FailsForCause`, `PreviewShowsPages` |

### Why the bounds are enough

* `JobQueue`: the ticks are scaled: a job timeout of one tick, a grace of one and a lock slack of two
  keep their order in the defaults (2700 s, 120 s, 300 s) apart from the grace, which is
  smaller than the slack in both. One partset suffices: lock, error and the
  retry guard are per partset, and jobs of other partsets only lengthen the queue, which a
  tick does too. Two jobs are a killed or lost one and its successor; or the one that completes
  the partset and one that was enqueued beside it, which is lost when the parts are ready. The liveness
  run leaves part generation out: of the steps it needs none can be disabled by `parts_ready`, and `NeverStuck`
  asks for a complete partset, which stays one.
* `PartGen`: one fault with two jobs gives a killed or lost job and its successor, which meets the PDFs the
  first has stored, some or all, before or after a save. A second set of labels is where PDFs of parts
  that are gone may lie beside those of the new ones. Requests, which run one at a time here, race with jobs
  and evictions; requests that overlap each other are covered by the theorems, which hold for any number
  of requests, jobs, saves and faults (the three safety properties were also checked with two requests
  and one set of labels, 2.1 million states, without `RetryHelps`, which takes too long there).
* `ScorePagesWarm`: two pages make a copy that is complete in part; two jobs with one poll give
  a warm job and its successor or another builder. A TTL of two lets a lock be younger than the
  job that waits for its turn.
* `ScoreAnalysis` and `ScoreArchive` count kills, saves, failures, evictions and refetches in one
  budget of one: with two actors and every initial state of score and archive, one disturbance
  meets any position of both. Three scores are an old one and two new ones, so that a duplicate is
  possible; the old one is corrupt or good, and the edition is served damaged or repaired, so that a good PDF may be
  replaced by another; a request that needs a fourth waits (`OutOfIds`).
* `Reorient`: one page in the upright modes and two in the split one tell surplus pages apart.
  With one request at a time the races are those of a request with jobs; columns that
  are stale when a session commits need a job between its read and its commit.
* `PreviewCache`: the geometries differ in their number of cuts, so that a rebuild both replaces
  and leaves over.
* `SegmentSave`: three sessions are where a victim that retries can lose again; two retries and
  three sessions decide whether the retries (`MAX_DEADLOCK_RETRIES`) suffice. Sessions are alike, so the requests are
  taken in one order.
* `Library`: a removal by a tool, a request that read before it and one that commits after it.
* `PageChunks`: the documents sit on the limits: a page that is filled exactly, one pixel more,
  lines that leave no room for one of a pixel, a segment taller than the paper, one without height, pages of two heights, landscape, "all" and
  cue tags, a tag on a page that is gone. 46 is the slider's last position, 0 its first; 1
  and 3 are those whose spacing has half a pixel, which Python and the browser round alike or not.

`JobQueue` never stops, because time does not, and neither do `Reorient` and
`PreviewCache`, whose pages are loaded again and again: their runs check deadlock. The others may
stop when their bounds are used up.

### What histories excuse

Many of these properties fail in races nobody guards against. They state what the code
does guarantee, and name what voids it in history variables, which no guard reads. TLC found
each of the conditions to be necessary: the property without it has a counterexample.

* `disturbed` (JobQueue): a fault touched the partset (its lock may have been released twice), a
  wait outlived the lock, or the second release of an IMSLP import deleted a lock taken since
  the first.
* `doubled`, `overlooked`, `intact` (PartGen): two generations ran at once; a save committed
  over a publication its session had not seen, a job that had found no parts published
  over a save of tags, or a PDF could not be copied over an older one; nobody was in the way of the
  last publication.
  With two requests `overlooked` needs 34 steps: a second start that passed its guards early runs a job over the
  ready partset, the save writes no `parts_ready`, and the job stores PDFs of the old labels and
  then fails, which `mark_partset_error` does not record over `parts_ready`.
* `interrupted`, `freed` (ScorePagesWarm): a job was cut short or met an eviction; the lock was
  deleted or ran out under its holder.
* `reran`, `overlapped`, `torn`, `hurried`, `edited` (ScoreAnalysis): an import began for a complete
  partset; two imports met before the analysis was fit for reuse; one was killed while it
  copied images; an owner saved before the analysis was copied, or at all.
* `astray` (Reorient): a lock was deleted under its holder, a job ran without it, or was
  enqueued for columns that had changed meanwhile, or the commit of a reorient request came
  after its job had begun.
* `overlapped`, `skipped` (PreviewCache): two writers met; an image could not be replaced.
* `torn` (ScoreArchive): a replacement met another job of the score, also one whose put was carried
  out though it is reported as failed, or was not carried through.
* `skewed` (SegmentSave): the last sync of the part rows read a snapshot that an earlier commit
  had outdated.
* `excused` (Library): a removal under another operation, a commit after a tool had looked, two
  downloads at once. `keys` records who has used a private id; it is the history `AdminHadKey`
  is about.

### Where code and comments disagree

One run expects a violation. **The import lock** does not exclude imports, even when nothing
fails: an IMSLP import deletes it twice, in the finally block of `run_import_pipeline` and in its own.
A request that read the partset before the import was complete takes the lock between the two, the
second deletion frees it, and the next such request enqueues a job beside the first one's
(`JobQueue_lock_doc`). After a failure the parent deletes it a third time, and a retry in between
loses it likewise. The other disagreements met while modelling are what the histories and the
excuses above stand for:

1. The stamp of a claimed entry is not atomic with its move; the reaper leaves the lock, so a retry
   may clear the error and find the lock held.
2. `finalize_part_generation` compares labels only: a layout save in the middle of a generation
   ends with a ready partset and PDFs of the old layout. An eviction, or a save that began before
   the publication and commits after it, leaves `parts_ready` without PDFs, and no start regenerates.
3. After a retry that found the lock held, `paste_start` without an error blocks
   `start_part_generation`, and the progress page of a generation spins until it retries again.
4. Warm progress reaches 100 before the images are copied, which frees the lock of a running job;
   an eviction during the copy leaves highres images only, and the score is not warmed again. The
   reaper records a lost warm job of a partset's pages as an error of the partset, complete as it is.
5. `ensure_import_if_needed` reads before it locks: an import that is enqueued for a partset that
   has become complete replaces segments the owner has drawn. Two first imports of a score insert
   `original_segments` twice.
6. A gen_parts job that warms a partset's images during a reorientation may declare ready what it
   has cut from pages of the old mode.
7. A heights file that is empty passes for valid and fails every view; a save removes the preview
   before it commits, so a view in between caches the old rows under their own fingerprint (which the
   next view rejects).
8. The refetch of an archive overwrites it before it updates the row; when the file has become
   another score's, the key on `file_hash` refuses the update every time.
9. A score's partsets are counted before its rows go, and partsets can be made in between; two users
   who claim an unclaimed partset at once are both told they own it.
10. A lost import job of a partset whose parts became ready meanwhile is reaped without a record, since
    `mark_partset_error` returns early; what it was for is there. A part PDF that cannot be replaced
    leaves the older one, which is then published. The page images of a deleted partset stay in
    `partsets/<id>` until the eviction.
11. Python rounds a spacing of half a pixel to even, the browser up: at every fourth position of the
    slider the preview may break pages elsewhere than the PDFs. At the same positions each space is
    drawn half a pixel wider than `page_chunks` has counted it, so that a line of hardly any height at
    the end of a full page finds no room and fails the generation ("Part page layout overflow").

## Fairness

* `JobQueue` (`FairSpec`): a live worker and its child's clean-up do not stand still (weak fairness of
  `LoopStep`, `ParentStep`, `UnwindStep`), Docker restarts a stopped worker
  (`restart: unless-stopped`, `StartWorker`), requests end, and time passes (strong fairness
  of `Tick`, which is disabled during short steps). A child is not assumed to finish: the
  deadline is there for it. `NeverStuck` is about an owner who keeps loading a page: that is its
  antecedent, and the specification does not assume it.
* `PartGen` (`RetrySpec`): requests and evictions end, jobs end (what `EveryJobCloses` shows of the
  queue; here the job may still raise, be killed or lost), a key expires; the page is open,
  polls, and its retry button is pressed again and again.
* `ScorePagesWarm` and `Reorient` (`PollSpec`): jobs and requests that have begun end, the lock's TTL
  runs out; an open page polls (strong fairness, since what it looks for comes and goes).
* `ScoreAnalysis` and `ScoreArchive` (`RetrySpec`): jobs go on, and the owner retries a failed import.
* `PreviewCache` (`ViewSpec`): requests end, and the page is loaded again.
* `SegmentSave` (`LiveSpec`): MySQL runs a session that is not blocked, detects deadlocks
  (`innodb_deadlock_detect` is on by default), and the retry's back-off ends.

Kills, crashes, evictions, edits, reorientations and new requests are never fair.

## Proofs

For every value of the constants that the modules' ASSUME allows. These say what the code
justifies: sets of jobs, requests and pages are sets of the kind the actions number or compare,
limits are positive, and the value `None` (`Nothing` in `PreviewCache`) that stands for an absent row, key or image is not an
orientation, a mode, a geometry or an id.

**The queue** (`JobQueueProofs`)

* `TypeCorrect`: `Spec => []TypeOK` of `JobQueue`. `TypeOK` is not inductive: that a step of the parent
  finds a job in its worker's hands rests on how program counter, job and child go together.
  `WellFormed` adds that; it is proved per action, in helper lemmas on the moves they share.
* `JobInOnePlace`: `[]OnePlace`. The invariant `PlaceInv` adds that numbers above the counter are
  unused, and that the windows of the hand-over (claimed but not stamped, acknowledged but not pushed
  back) do not overlap. Lemma `Calm` covers all steps that move no job.
* `QueueKeepsLedger`: `Spec => KeepsLedger`, the refinement of `JobLedger` under the mapping `Status`.
  `LedgerInv` relates a job's place to its status, and `ReadyIsServed` says that the parts of a partset are ready
  only after one of its jobs has brought a result, so that each step of the queue is a step of the ledger or leaves all of it as it is.
* `LockExcludes`: `[]ExclusiveUntilFault`, under `LockSlack <= StaleAfter + 1` (the defaults are 300
  and 2820 seconds). Without it the theorem is false: an entry that waits longer than the reaper's limit
  and is claimed at the moment the reaper looks is failed as stale, though no fault touched it.
  `LockInv` has four parts for partsets that are not `disturbed`: an error or a failure path shows as
  `disturbed` (`FaultsShow`); an entry of the processing list has its worker and is not stale
  (`EntriesHeld`); there is one request with the lock or one open job (`OneOwner`); and the TTL that
  is left covers what is left of the wait and of the run (`Leases`), which is the arithmetic
  behind `job_timeout_seconds + 300` in `import_lock.py`.

**Part generation** (`PartGenProofs`)

* `PartGenTypes`: `[]TypeOK`, on which the others rest.
* `ReadyHasItsLabels`: `[]LabelsFresh`, which `LabelsImplementCache` implies, so that the run of the one
  checks the other. The directory may hold leftovers, so `LabelsInv` adds what a job has replaced of them:
  `StoredIsOwn` says that the PDFs of its rows are its own once they are stored and all of them when it
  publishes; `JobsHaveRows` that over a ready partset it holds the rows of the database, so that storing changes no
  label; `FreshInv` speaks of each part with a row. `Finalize` compares the labels then.
* `PublishedStaysExact`: `[]IntactStaysExact`. `IntactInv` adds that as long as nobody was in the way every
  session that is editing has read `parts_ready`, every job at work has read what is committed, and
  each part that has a row has a PDF of it (`Exact`) unless a save about to commit has removed it.
* `PartsKeepTheCache`, `LabelsKeepTheCache`: `Spec => PartsImplementCache` and
  `Spec => LabelsImplementCache`, the refinements of `ReadThroughCache`. On top of the two invariants it is
  shown action by action that only the commit of a save changes what the files are made from, and
  that this commit leaves none of them shown.

**Page images** (`PageProofs`, `ReorientProofs`)

* `WarmJobsExclude`: `[]ExclusiveUnlessFreed` of `ScorePagesWarm`, on top of `WarmTypes`. The invariant
  `HolderInv` counts the lock's holders: as long as nothing has freed it, there is at most one among the
  polls about to enqueue and the warm jobs, and none without the key.
* `CopiesComplete`: `[]PartialIsPassing`. `CopyInv` says how far each copier has come: the pages before
  the one it is at are there, and all low ones before the first high one.
* `LockIsOwned`: `[]LockHasOwner` of `Reorient`. `OwnerInv` says that the holder has yet to pass its
  finally, and that only partsets with pages of their own get a warm job, so that the early
  return of `warm_partset_pages.py`, which would keep the lock, is never taken.
* `PagesAreOwn`, `SegmentsAreOwn`: `[]NoForeignPage` and `[]SegmentsFitPages`. `FitInv` follows the
  holder of the lock through its job: which images, page rows and segments are already of the new mode
  (`HolderInv`), and what a session that has yet to commit will change (`PendingInv`). Whatever
  escapes the lock sets `astray`.

**Imports of a score** (`ScoreAnalysisProofs`)

* `OneAnalysisIsKept`, `CompletePartsetsAreWhole`: `[]OneAnalysis` and `[]CompleteRows`. Neither is
  inductive: what an import copies, it reads several statements after it has looked at
  `analysis_complete`. `AnalysisInv` adds, as long as the histories are clear, what each import has made
  and relies on at its statement (`Sound`: in `Conversion`, `Copying` and `Analysis`), that images are
  missing from a set only while someone copies them (`GapsInv`), and that imports meet only if all of
  them reuse an analysis that is fit (`MeetInv`). From the last follows that whoever
  analyses, or drops an analysis, is alone, and that beside others an import only adds images.
  Lemma `InOrder` turns a step into what it does to the score and to its own partset.

**The archive** (`ScoreArchiveProofs`)

* `ReferredIsArchived`: `[]ArchivedPdf`. `ArchivedInv` adds what each request or job has in hand at its
  statement (`Sound`): where it needs a PDF, a row of its score, or the score in S3, that is there; another's look
  at the archive may at most bring the archived PDF into the cache (`MayFill`).
* `ImagesAreArchived`: `[]ImagesFitRow`. `FitInv` tells what an id stands for (`Told`): nothing yet, with
  one user who puts the PDF it will have (`Fresh`); a PDF that nobody replaces, with which object,
  copy, images, analysis and everybody at work on it agree (`Settled`); or one that is being replaced,
  with only newcomers beside (`Alone`). Lemmas for a step elsewhere, an arrival, a departure and a
  move carry most of the actions.

**Saves, previews and removals** (`SegmentProofs`, `LibraryProofs`)

* `LocksExclude`: `[]TypeOK` of `SegmentSave`, which says that no two transactions hold locks that
  exclude each other.
* `SavesImplementPageSaves`: `Spec => SavesAreAtomic`, the refinement of `PageSaves`. `TxnInv` says of each
  open transaction which locks it holds at its statement, and that its writes are those of the pages it
  has done; with the row locks only one transaction has any, so its commit is one step of
  the abstract save, and a rollback none.
* `PartsFollowTags`: `[]PartsMatchTags`. `MatchInv` adds what an open session's sync has seen: unless it is
  outdated, the part rows it will commit are those of the tags it will commit.
* `ValidIsExact`, `HeightsAreOwn`: `[]ValidFits` and `[]HeightsFit` of `PreviewCache`, whose specification
  is named `PreviewSpec` so that one module can extend it and `SegmentSave`. `CacheInv` describes
  the directory while its one writer is at work: as long as the fingerprint is not written, images may
  be of other rows.
* `PreviewKeepsTheCache`: `PreviewSpec => PreviewImplementsCache`, the refinement of `ReadThroughCache`,
  from the same invariant.
* `KeysAreKept`: `[]AdminHadKey` of `Library`. `KeyInv` adds the requests under way: one that will make a
  favourite an admin's has used the private id; removals, which go through the same
  records, make none.
* `RemovalsAreComplete`, `UsedScoresStay`, `DownloadsAreCounted`: `[]NothingLeft`, `[]ScoreKept`,
  `[]Counted`. `LibInv` has one part for each, on common ground: the stage a request has reached and
  what it remembers (`StageInv`), and that nothing refers to an id before it is given (`UsedInv`).

**The pages of the parts** (`PageProofs`)

The five properties of `PageChunks` are about what folds compute for lists of any length. The library's
induction rules take an operator as a parameter, which the provers cannot instantiate; so induction is done
here on sets: a set of naturals that is not empty has a least element (`Least`, from the well-foundedness of
the naturals), hence a set with 0 and with k whenever it has k - 1 has all of them (`Steps`). From that
`RecursionExists` gives, for a base and a step function on data, the function that a fold's CHOOSE picks,
`RunExists` that function along 1, 2, ... n, and each fold of the model gets a lemma that says what
it goes through (`SumsExist`, `DivideRuns`, `AddImagesRuns`, `PartSegmentsRun`).

* `DivideCuts`: the pages of `Divide` cut the list of segments in order and without a gap, none is empty, none is
  too high unless it holds one segment, and each ends at a break or before a segment that is too much (`Division`).
* `AddImagesDraws`: how much of the band is left below each image (`Page`).
* `LayoutAlways`: the invariant `LayoutInv` says that an image is as high as its segment once it is cut, that
  nothing is drawn before all are, and that a PDF which is drawn is what `create_part` makes of the document as it
  is, because breaks, spacing and heights do not change any more. The theorems follow from it state by state.
* `PartsShowTheirMusic`: `[]ShowsItsMusic`; the pages put one after the other are the list (`FlattenCuts`), and the
  list has each segment of the part once, in ascending order (`PartSegmentsList`).
* `PartsHaveFewestPages`: `[]FewestPages`. Any other way to divide the part ends a page in each of the intervals
  between two page ends of the division (`EveryPageEnds`): else it would have a page on which a whole page of the
  division and the segment that was too much for it stand together, and what stands in a stack is not
  higher than it (`StackGrows`), or it would miss a break. So it has as many pages.
* `LinesAreDrawnInFull`, `LayoutFailsForCause`: `[]FullSize` and `[]FailsForCause`; what was counted in whole pixels and
  what is left on paper differ by half a pixel per space at most (`RoomForEach`).
* `PreviewIsThePdf`: `[]PreviewShowsPages`; the cuts measured are the same, and the spacings wherever the
  position of the slider leaves no half pixel or one that both round up (`SpacingsAgree`).

The assumptions on a document are those of its types: pages have a positive height, rows a top above their
bottom, between 0 and 1000, and tags; spacings are between 0 and 46.

What the proofs showed of the models: `ExclusiveUntilFault` held in its run and was not an invariant;
the attempt led to the double release of a successful import, which needs two requests and three jobs,
one more of each than the run has, and whose counterexample is `JobQueue_lock_doc`. `LabelsFresh`,
`NoForeignPage` and `SegmentsFitPages` had been stated for states with no request or job under way; their
proofs led to the job that publishes no parts over tags it has not seen and to the reorient request
that commits after its job has begun. The histories name these races now, and the properties hold in
every state. `ImagesFitRow` held in its run too, which has one fault, and needed a condition with
more: a put that fails after S3 has carried it out, while another job replaces the same archive.

`OneAnalysis` and `CompleteRows` had been stated for scores and partsets without an import at work; the
invariant gave them for every state.

`FailsForCause` had been stated without its second condition: a generation was to fail for deleted pages
only. The proof found no room for a last line of one pixel after a space that is drawn wider than counted;
a document of that kind is in the run now.

Out of the prover's reach and therefore TLC's: every liveness property (`EveryJobCloses`, `NeverStuck`,
`RetryHelps`, `Warmed`, `AllImported`, `NeverWaitsForEver`, `ViewsAnswered`, `Imported`, `Answered`), and
`RetriesSuffice`, which is about as many sessions as its run has. Every other property of the passing runs
is stated by a theorem.

## Plan

Done: all the modules planned, with theorems about each of them.

## Not modelled

* **Progress pages of the frontend**: one browser tab that polls. What matters to the system is
  that it polls and retries, which is the fairness of `PollSpec` and `RetrySpec`; which
  page is shown then is React state that no other actor reads.
* **Search, reports and one-off scripts**: queries that write nothing, a mail of daily counts, and
  migrations that are run by hand on a stopped system.
* **Frontend rendering and editing widgets**: pixel geometry and React state of one tab. The one
  algorithm in it that must agree with the backend, the preview's page breaks, is in `PageChunks`.
* **IMSLP's HTML** (`imslp_download.py`, `services/imslp.py`): scraping of pages whose form the
  repository does not define; a download is a PDF or a failure (`Download`, `Fetch`). Its caches of
  search results hold nothing a later step depends on.
* **Image operations** (staff recognition, cutting, drawing, Ghostscript): functions of one file to
  another in a scratch directory; the models take their results as inputs.
* **The attempts inside `call_with_s3_retries`**: one caller, one key, a loop with a limit; the
  operations around it see success or failure, which is what the models take.
* **Sign-in details** (Google's check of the token, the cookie's signature), last-access stamps,
  start-up connection retries and the cron jobs `main` spawns.
