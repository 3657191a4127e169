------------------------------ MODULE PartGen ------------------------------
(***************************************************************************)
(* Part generation of one partset: the gen_parts job that cuts, pastes and *)
(* caches the part PDFs, the API requests that start it, the saves that    *)
(* change what it reads while it runs, and the eviction of the cache.      *)
(* Partsets do not meet here: lock, rows and cache directory are their     *)
(* own.  The queue is JobQueue's; of it this module keeps that a job may   *)
(* fail, be killed, requeued or lost at any step.                          *)
(*                                                                         *)
(* A request works on one SQLAlchemy session.  It reads the partset row    *)
(* once, and its commit writes only the columns it gave a value other than *)
(* the one it read: parts_ready = False writes nothing if the session read *)
(* False.                                                                  *)
(***************************************************************************)
EXTENDS Integers

CONSTANTS
  Requests,     \* API requests that can be under way at the same time
  Values,       \* what a title, a segment's geometry, a layout may be
  Labels,       \* sets of tags the segments may carry, besides no tags at all
  Combined,     \* the combined part
  NoPDF,        \* no PDF is cached
  MaxJobs,      \* bound on the jobs enqueued in a behaviour
  MaxEdits,     \* bound on the saves
  MaxFaults     \* bound on evictions, exceptions, kills, crashes, early expiries

ASSUME PartGenAssumption ==
  /\ Values # {} /\ Labels # {} /\ {} \notin Labels /\ Combined \notin UNION Labels
  /\ MaxJobs \in Nat /\ MaxEdits \in Nat /\ MaxFaults \in Nat

VARIABLES
  content,      \* what the PDFs are made of: title, segments, layout, part rows
  ready,        \* partsets.parts_ready
  error,        \* partsets.error is set
  marks,        \* the columns among Marks that are not NULL
  lock,         \* partifi:gen_parts_lock:<partset> exists
  files,        \* the cached PDF of each part: the content it was made from, or NoPDF
  lastId,       \* the last job enqueued
  job,          \* where each job is and what it has read
  req,          \* where each request is and what its session read
  sweep,        \* clean_cache is between its UPDATE and its rmtree
  edits, faults,\* counters that bound the model
  doubled,      \* history: two jobs have run at the same time
  overlooked,   \* history: a save has committed over a publication it had not seen,
                \* a publication of no parts over a save it had not seen, or a PDF
                \* that could not be stored has left an older one in its place
  intact        \* history: nobody was in the way of the last publication

dbVars   == <<content, ready, error, marks>>
histVars == <<doubled, overlooked, intact>>
vars == <<dbVars, lock, files, lastId, job, req, sweep, edits, faults, histVars>>

JobIds  == 1..MaxJobs
NoTags  == {}
Tags    == Labels \union {NoTags}
Parts   == (UNION Labels) \union {Combined}
Content == [title : Values, crop : Values, layout : Values, tags : Tags, combined : BOOLEAN]

ASSUME NoPDFAssumption == NoPDF \notin Content

Marks   == {"cut_start", "cut_complete", "paste_start", "paste_complete"}

\* The job's code, from its first read to its last statement before finally.
Working == {"segments", "count", "empty", "cut", "cutting", "combined", "layout",
            "rows", "paste", "store", "publish", "discard"}
JobPC   == Working \union {"none", "queued", "unlock", "exit0", "fail", "unlockFailed",
                           "exit1", "release", "lost", "done"}
Job     == [pc : JobPC, got : Content, left : SUBSET Parts, torn : BOOLEAN, again : BOOLEAN]

EditKind == {"segments", "layout", "combine", "title"}
Request  == [pc : {"none", "begun", "flushed", "invalid", "locked", "commit"},
             kind : EditKind \union {"generate", "retry"},
             ready : BOOLEAN, error : BOOLEAN, marks : SUBSET Marks, untagged : BOOLEAN,
             keep : BOOLEAN]

NoContent == [title |-> CHOOSE v \in Values : TRUE, crop |-> CHOOSE v \in Values : TRUE,
              layout |-> CHOOSE v \in Values : TRUE, tags |-> NoTags, combined |-> FALSE]
NoRequest == [pc |-> "none", kind |-> "generate", ready |-> FALSE, error |-> FALSE,
              marks |-> {}, untagged |-> FALSE, keep |-> FALSE]
NoJob     == [pc |-> "none", got |-> NoContent, left |-> {}, torn |-> FALSE, again |-> FALSE]
\* The directory of the partset's PDFs is gone.
NoFiles   == [p \in Parts |-> NoPDF]

\* An imported partset whose segments its owner has tagged.
Init ==
  /\ content = [NoContent EXCEPT !.tags = CHOOSE t \in Labels : TRUE]
  /\ ready = FALSE /\ error = FALSE /\ marks = {}
  /\ lock = FALSE /\ files = NoFiles /\ lastId = 0
  /\ job = [j \in JobIds |-> NoJob]
  /\ req = [r \in Requests |-> NoRequest]
  /\ sweep = FALSE /\ edits = 0 /\ faults = 0
  /\ doubled = FALSE /\ overlooked = FALSE /\ intact = FALSE

-----------------------------------------------------------------------------
(* Helpers. *)

\* The part rows: segment saves and combines keep them in step with the tags.  The
\* name of a part's PDF is its tag's, whatever the other parts are.
Rows(c) == c.tags \union IF c.combined THEN {Combined} ELSE {}

\* The PDFs of parts that have rows: only they are shown.
Shown == {files[p] : p \in {q \in Rows(content) : files[q] # NoPDF}}

\* A segment save flushes before it looks at the part rows, a combine writes its
\* row at once: from then to the commit the session holds row locks.
Locking == {"segments", "combine"}
Holds(r) == req[r].kind \in Locking /\ req[r].pc \in {"flushed", "invalid"}
RowFree(r) == \A q \in Requests \ {r} : ~Holds(q)
NobodyHolds == \A q \in Requests : ~Holds(q)

Editing(r) == req[r].kind \in EditKind /\ req[r].pc # "none"
Alive(j)   == job[j].pc \notin {"none", "queued", "done", "lost"}
InWork(j)  == job[j].pc \in Working

Fault == faults < MaxFaults /\ faults' = faults + 1

\* mark_partset_error: not over a finished generation.
MarkError == error' = (error \/ ~ready)
\* release_gen_parts_lock: DELETE of the key, whoever holds it.
ReleaseLock == lock' = FALSE

At(j, pc)   == job[j].pc = pc
Goto(j, pc) == job' = [job EXCEPT ![j].pc = pc]
\* The job has read: got is what its own variables hold now.
Read(j, pc, got) == job' = [job EXCEPT ![j].pc = pc, ![j].got = got]
\* The job's own variables are not used any more.
Leave(j, pc, again) == job' = [job EXCEPT ![j] = [NoJob EXCEPT !.pc = pc, !.again = again]]

\* A new request, with what it will still use of the row its session read.
Starting(kind) == [NoRequest EXCEPT !.pc = "begun", !.kind = kind, !.error = error,
                                    !.untagged = kind = "generate" /\ content.tags = NoTags]
Saving(kind)   == [NoRequest EXCEPT !.pc = "begun", !.kind = kind, !.ready = ready,
                                    !.marks = marks, !.error = kind = "title" /\ error]
Step(r, pc) == req' = [req EXCEPT ![r].pc = pc]
End(r)      == req' = [req EXCEPT ![r] = NoRequest]

-----------------------------------------------------------------------------
(* Requests that start a generation. *)

\* start_part_generation returns early for a partset that is ready, shows an
\* error, or is being pasted.
BeginGenerate(r) ==
  /\ req[r].pc = "none" /\ lastId < MaxJobs
  /\ ~ready /\ ~error
  /\ ~("paste_start" \in marks /\ "paste_complete" \notin marks)
  /\ req' = [req EXCEPT ![r] = Starting("generate")]
  /\ UNCHANGED <<dbVars, lock, files, lastId, job, sweep, edits, faults, histVars>>

\* Mutant: a retry has the guard of start_part_generation too.
RetryUnlessPasting(r) ==
  /\ req[r].pc = "none" /\ lastId < MaxJobs
  /\ ~ready
  /\ ~("paste_start" \in marks /\ "paste_complete" \notin marks)
  /\ req' = [req EXCEPT ![r] = Starting("retry")]
  /\ UNCHANGED <<dbVars, lock, files, lastId, job, sweep, edits, faults, histVars>>

\* retry_partset_pipeline of an imported partset: a ready one has nothing to retry.
BeginRetry(r) ==
  /\ req[r].pc = "none" /\ lastId < MaxJobs
  /\ ~ready
  /\ req' = [req EXCEPT ![r] = Starting("retry")]
  /\ UNCHANGED <<dbVars, lock, files, lastId, job, sweep, edits, faults, histVars>>

\* try_acquire_gen_parts_lock: SET NX EX.
AcquireGenPartsLock(r) ==
  /\ req[r].pc = "begun" /\ req[r].kind \in {"generate", "retry"}
  /\ \/ ~lock /\ lock' = TRUE /\ Step(r, "locked")
     \/ lock /\ req[r].kind = "generate" /\ End(r) /\ UNCHANGED lock
     \/ lock /\ req[r].kind = "retry" /\ Step(r, "commit") /\ UNCHANGED lock
  /\ UNCHANGED <<dbVars, files, lastId, job, sweep, edits, faults, histVars>>

\* start_part_generation counts the part rows its session sees; a retry does not.
RefuseUntagged(r) ==
  /\ req[r].pc = "locked" /\ req[r].untagged
  /\ ReleaseLock
  /\ End(r)
  /\ UNCHANGED <<dbVars, files, lastId, job, sweep, edits, faults, histVars>>

\* enqueue_job.  The commit that follows has something to write in a retry only.
EnqueueGenParts(r) ==
  /\ req[r].pc = "locked" /\ ~req[r].untagged
  /\ lastId < MaxJobs
  /\ lastId' = lastId + 1
  /\ job' = [job EXCEPT ![lastId + 1].pc = "queued"]
  /\ IF req[r].kind = "retry" THEN Step(r, "commit") ELSE End(r)
  /\ UNCHANGED <<dbVars, lock, files, sweep, edits, faults, histVars>>

\* The failure is cleared if the session had read one.
CommitStart(r) ==
  /\ req[r].pc = "commit"
  /\ req[r].error => RowFree(r)
  /\ error' = (error /\ ~req[r].error)
  /\ End(r)
  /\ UNCHANGED <<content, ready, marks, lock, files, lastId, job, sweep, edits, faults, histVars>>

-----------------------------------------------------------------------------
(* Saves: segments, layout, combined parts, title. *)

BeginEdit(r) ==
  /\ req[r].pc = "none" /\ edits < MaxEdits
  /\ edits' = edits + 1
  /\ \E k \in EditKind :
       /\ k = "combine" => content.tags # NoTags
       /\ req' = [req EXCEPT ![r] = Saving(k)]
  /\ UNCHANGED <<dbVars, lock, files, lastId, job, sweep, faults, histVars>>

\* The save's first write: the session waits for the row locks and keeps them.
FlushEdit(r) ==
  /\ Editing(r) /\ req[r].kind \in Locking /\ req[r].pc = "begun"
  /\ NobodyHolds
  /\ Step(r, "flushed")
  /\ UNCHANGED <<dbVars, lock, files, lastId, job, sweep, edits, faults, histVars>>

\* _partgen_in_progress, as the session sees the row and Redis the lock.
PartgenInProgress(q) ==
  /\ ~q.error /\ ~q.ready
  /\ \/ lock
     \/ "cut_start" \in q.marks /\ "cut_complete" \notin q.marks
     \/ "paste_start" \in q.marks /\ "paste_complete" \notin q.marks

\* invalidate_parts comes before the commit.  A change of the title leaves the
\* progress columns of a generation in progress alone.
InvalidateParts(r) ==
  /\ Editing(r) /\ req[r].pc = (IF req[r].kind \in Locking THEN "flushed" ELSE "begun")
  /\ files' = NoFiles
  /\ req' = [req EXCEPT ![r].pc = "invalid",
                        ![r].keep = req[r].kind = "title" /\ PartgenInProgress(req[r])]
  /\ UNCHANGED <<dbVars, lock, lastId, job, sweep, edits, faults, histVars>>

\* What a save of segments may leave behind: a combined part goes when one of its
\* tags does, and without tags there is none.
Resegmented ==
  {[content EXCEPT !.crop = v] : v \in Values}
  \union {[content EXCEPT !.tags = t] : t \in Labels \ {content.tags}}
  \union {[content EXCEPT !.tags = t, !.combined = FALSE] : t \in Tags \ {content.tags}}

\* What a save may leave behind.
Edited(kind) ==
  CASE kind = "title"   -> {[content EXCEPT !.title = v] : v \in Values \ {content.title}}
    [] kind = "layout"  -> {[content EXCEPT !.layout = v] : v \in Values}
    [] kind = "combine" -> {[content EXCEPT !.combined = c] : c \in BOOLEAN}
    [] kind = "segments" -> Resegmented

\* Mutant: the save does not reset parts_ready.
CommitEditOnly(r) ==
  /\ Editing(r) /\ req[r].pc = "invalid"
  /\ RowFree(r)
  /\ content' \in Edited(req[r].kind)
  /\ marks' = IF req[r].keep THEN marks ELSE marks \ req[r].marks
  /\ End(r)
  /\ UNCHANGED <<ready, error, lock, files, lastId, job, sweep, edits, faults, histVars>>

CommitEdit(r) ==
  /\ Editing(r) /\ req[r].pc = "invalid"
  /\ RowFree(r)
  /\ content' \in Edited(req[r].kind)
  /\ ready' = (ready /\ ~req[r].ready)
  /\ marks' = IF req[r].keep THEN marks ELSE marks \ req[r].marks
  /\ overlooked' = (overlooked \/ ready')
  /\ End(r)
  /\ UNCHANGED <<error, lock, files, lastId, job, sweep, edits, faults, doubled, intact>>

-----------------------------------------------------------------------------
(* The gen_parts job. *)

\* The claimed job's first SELECT: the partset row.
StartJob(j) ==
  /\ At(j, "queued")
  /\ Read(j, "segments", [job[j].got EXCEPT !.title = content.title])
  /\ doubled' = (doubled \/ \E i \in JobIds \ {j} : InWork(i))
  /\ UNCHANGED <<dbVars, lock, files, lastId, req, sweep, edits, faults, overlooked, intact>>

\* _fetch_segment_rows.
ReadSegments(j) ==
  /\ At(j, "segments")
  /\ Read(j, IF content.tags = NoTags THEN "count" ELSE "cut",
          [job[j].got EXCEPT !.crop = content.crop, !.tags = content.tags])
  /\ UNCHANGED <<dbVars, lock, files, lastId, req, sweep, edits, faults, histVars>>

\* No tagged segment: with no part row either, there is nothing to generate.
CountParts(j) ==
  /\ At(j, "count")
  /\ Goto(j, IF Rows(content) = {} THEN "empty" ELSE "unlock")
  /\ UNCHANGED <<dbVars, lock, files, lastId, req, sweep, edits, faults, histVars>>

\* The UPDATE does not look at the part rows again.
PublishEmpty(j) ==
  /\ At(j, "empty") /\ NobodyHolds
  /\ ready' = TRUE
  /\ intact' = FALSE
  /\ overlooked' = (overlooked \/ Rows(content) # {})
  /\ Goto(j, "unlock")
  /\ UNCHANGED <<content, error, marks, lock, files, lastId, req, sweep, edits, faults, doubled>>

StartCut(j) ==
  /\ At(j, "cut") /\ NobodyHolds
  /\ marks' = (marks \union {"cut_start"}) \ {"paste_start", "paste_complete"}
  /\ Goto(j, "cutting")
  /\ UNCHANGED <<content, ready, error, lock, files, lastId, req, sweep, edits, faults, histVars>>

CompleteCut(j) ==
  /\ At(j, "cutting") /\ NobodyHolds
  /\ marks' = marks \union {"cut_complete"}
  /\ Goto(j, "combined")
  /\ UNCHANGED <<content, ready, error, lock, files, lastId, req, sweep, edits, faults, histVars>>

\* _fetch_combined_tags, then _fetch_breaks and _fetch_spacings.
ReadCombined(j) ==
  /\ At(j, "combined")
  /\ Read(j, "layout", [job[j].got EXCEPT !.combined = content.combined])
  /\ UNCHANGED <<dbVars, lock, files, lastId, req, sweep, edits, faults, histVars>>

ReadLayout(j) ==
  /\ At(j, "layout")
  /\ Read(j, "rows", [job[j].got EXCEPT !.layout = content.layout])
  /\ UNCHANGED <<dbVars, lock, files, lastId, req, sweep, edits, faults, histVars>>

\* _fetch_part_files.  The parts are those of the rows; a row that the segments or
\* the combined tags read before do not account for ends in an exception, after
\* paste_start is written.
ReadPartRows(j) ==
  /\ At(j, "rows")
  /\ LET got == [job[j].got EXCEPT !.tags = content.tags, !.combined = content.combined]
     IN  job' = [job EXCEPT ![j].pc = "paste", ![j].got = got, ![j].left = Rows(content),
                            ![j].torn = Rows(content) # {} /\ got # job[j].got]
  /\ UNCHANGED <<dbVars, lock, files, lastId, req, sweep, edits, faults, histVars>>

StartPaste(j) ==
  /\ At(j, "paste") /\ NobodyHolds
  /\ marks' = marks \union {"paste_start"}
  /\ \/ Goto(j, "store")
     \/ job[j].torn /\ Goto(j, "fail")
  /\ UNCHANGED <<content, ready, error, lock, files, lastId, req, sweep, edits, faults, histVars>>

\* store_part_file, PDF after PDF, over an older one of the part; those of other parts
\* stay.  A copy that fails passes if there is an older one (if not, see RaiseInJob).
StorePart(j) ==
  /\ At(j, "store")
  /\ \E p \in job[j].left :
       /\ job' = [job EXCEPT ![j].left = @ \ {p}]
       /\ \/ files' = [files EXCEPT ![p] = job[j].got] /\ UNCHANGED <<faults, overlooked>>
          \/ files[p] # NoPDF /\ Fault /\ overlooked' = TRUE /\ UNCHANGED files
  /\ UNCHANGED <<dbVars, lock, lastId, req, sweep, edits, doubled, intact>>

\* part_is_cached for every expected PDF.
CheckParts(j) ==
  /\ At(j, "store") /\ job[j].left = {}
  /\ Goto(j, IF \E p \in Rows(job[j].got) : files[p] = NoPDF THEN "fail" ELSE "publish")
  /\ UNCHANGED <<dbVars, lock, files, lastId, req, sweep, edits, faults, histVars>>

\* Every part that has a row has its PDF, made from what the database says.
Exact == \A p \in Rows(content) : files[p] = content

\* Nobody else is at work on the partset and the PDFs are those the database asks for.
Undisturbed(j) ==
  /\ Exact /\ job[j].got = content
  /\ ~sweep /\ \A r \in Requests : ~Editing(r)

\* Mutant: finalize_part_generation publishes whatever the rows are.
FinalizeAnyway(j) ==
  /\ At(j, "publish") /\ NobodyHolds
  /\ ready' = TRUE /\ error' = FALSE
  /\ marks' = marks \union {"paste_complete"}
  /\ intact' = Undisturbed(j)
  /\ Goto(j, "unlock")
  /\ UNCHANGED <<content, lock, files, lastId, req, sweep, edits, faults, doubled, overlooked>>

\* finalize_part_generation: one transaction on the part rows, locked.
Finalize(j) ==
  /\ At(j, "publish") /\ NobodyHolds
  /\ \/ /\ Rows(content) # {} /\ Rows(job[j].got) = Rows(content)
        /\ ready' = TRUE /\ error' = FALSE
        /\ marks' = marks \union {"paste_complete"}
        /\ intact' = Undisturbed(j)
        /\ Goto(j, "unlock")
     \/ /\ Rows(content) = {} \/ Rows(job[j].got) # Rows(content)
        /\ ready' = FALSE /\ marks' = {}
        /\ Goto(j, "discard")
        /\ UNCHANGED <<error, intact>>
  /\ UNCHANGED <<content, lock, files, lastId, req, sweep, edits, faults, doubled, overlooked>>

DiscardParts(j) ==
  /\ At(j, "discard")
  /\ files' = NoFiles
  /\ Goto(j, "unlock")
  /\ UNCHANGED <<dbVars, lock, lastId, req, sweep, edits, faults, histVars>>

\* run_gen_parts: except marks the partset, finally gives the lock back.
FailGeneration(j) ==
  /\ At(j, "fail") /\ NobodyHolds
  /\ MarkError
  /\ Leave(j, "unlockFailed", FALSE)
  /\ UNCHANGED <<content, ready, marks, lock, files, lastId, req, sweep, edits, faults, histVars>>

UnlockInJob(j) ==
  /\ job[j].pc \in {"unlock", "unlockFailed"}
  /\ ReleaseLock
  /\ Leave(j, IF At(j, "unlock") THEN "exit0" ELSE "exit1", FALSE)
  /\ UNCHANGED <<dbVars, files, lastId, req, sweep, edits, faults, histVars>>

\* The parent: a clean exit is a success unless the partset shows an error.
SeeExit(j) ==
  /\ At(j, "exit0")
  /\ Goto(j, IF error THEN "release" ELSE "done")
  /\ UNCHANGED <<dbVars, lock, files, lastId, req, sweep, edits, faults, histVars>>

\* _record_partset_job_failure, then _release_job_locks.
RecordFailure(j) ==
  /\ At(j, "exit1") /\ NobodyHolds
  /\ MarkError
  /\ Goto(j, "release")
  /\ UNCHANGED <<content, ready, marks, lock, files, lastId, req, sweep, edits, faults, histVars>>

\* An interrupted job is then requeued.
ReleaseJobLocks(j) ==
  /\ At(j, "release")
  /\ ReleaseLock
  /\ Leave(j, IF job[j].again THEN "queued" ELSE "done", FALSE)
  /\ UNCHANGED <<dbVars, files, lastId, req, sweep, edits, faults, histVars>>

-----------------------------------------------------------------------------
(* What else happens. *)

\* An exception in the job: a page image is missing, cutting or pasting fails.
RaiseInJob(j) ==
  /\ InWork(j) /\ job[j].pc # "discard"
  /\ Fault
  /\ Leave(j, "fail", FALSE)
  /\ UNCHANGED <<dbVars, lock, files, lastId, req, sweep, edits, histVars>>

\* The child is killed: at the deadline, out of memory, or by a shutdown, after
\* which the job is requeued.
KillJob(j) ==
  /\ InWork(j) \/ job[j].pc \in {"fail", "unlock", "unlockFailed"}
  /\ Fault
  /\ \E again \in BOOLEAN : Leave(j, "exit1", again)
  /\ UNCHANGED <<dbVars, lock, files, lastId, req, sweep, edits, histVars>>

\* The worker is lost with the child; the reaper marks the partset later and does
\* not touch the lock.
LoseWorker(j) ==
  /\ Alive(j)
  /\ Fault
  /\ Leave(j, "lost", FALSE)
  /\ UNCHANGED <<dbVars, lock, files, lastId, req, sweep, edits, histVars>>

ReapJob(j) ==
  /\ At(j, "lost") /\ NobodyHolds
  /\ MarkError
  /\ Goto(j, "done")
  /\ UNCHANGED <<content, ready, marks, lock, files, lastId, req, sweep, edits, faults, histVars>>

\* The key's TTL ends.  With a job that still waits or runs this is a fault: the job
\* was enqueued too long ago.
ExpireLock ==
  /\ lock
  /\ ReleaseLock
  /\ \/ /\ \A j \in JobIds : job[j].pc \in {"none", "done"}
        /\ \A r \in Requests : req[r].pc # "locked"
        /\ UNCHANGED faults
     \/ Fault
  /\ UNCHANGED <<dbVars, files, lastId, job, req, sweep, edits, histVars>>

\* clean_cache picks the partset's directory, by age or because of the size cap.
EvictParts ==
  /\ ~sweep /\ files # NoFiles /\ NobodyHolds
  /\ Fault
  /\ sweep' = TRUE
  /\ ready' = FALSE
  /\ marks' = IF ready THEN {} ELSE marks
  /\ UNCHANGED <<content, error, lock, files, lastId, job, req, edits, histVars>>

RemoveParts ==
  /\ sweep
  /\ sweep' = FALSE /\ files' = NoFiles
  /\ UNCHANGED <<dbVars, lock, lastId, job, req, edits, faults, histVars>>

-----------------------------------------------------------------------------
StartStep(r) == AcquireGenPartsLock(r) \/ RefuseUntagged(r) \/ EnqueueGenParts(r) \/ CommitStart(r)
EditStep(r)  == FlushEdit(r) \/ InvalidateParts(r) \/ CommitEdit(r)
ReadStep(j)  ==
  \/ StartJob(j) \/ ReadSegments(j) \/ CountParts(j)
  \/ ReadCombined(j) \/ ReadLayout(j) \/ ReadPartRows(j)
WriteStep(j) ==
  \/ PublishEmpty(j) \/ StartCut(j) \/ CompleteCut(j) \/ StartPaste(j)
  \/ StorePart(j) \/ CheckParts(j) \/ Finalize(j) \/ DiscardParts(j)
EndStep(j)   ==
  \/ FailGeneration(j) \/ UnlockInJob(j) \/ SeeExit(j) \/ RecordFailure(j)
  \/ ReleaseJobLocks(j) \/ ReapJob(j)
JobStep(j)   == ReadStep(j) \/ WriteStep(j) \/ EndStep(j)

Next ==
  \/ \E r \in Requests : BeginGenerate(r) \/ BeginRetry(r) \/ BeginEdit(r)
                         \/ StartStep(r) \/ EditStep(r)
  \/ \E j \in JobIds : JobStep(j) \/ RaiseInJob(j) \/ KillJob(j) \/ LoseWorker(j)
  \/ ExpireLock \/ EvictParts \/ RemoveParts

Spec == Init /\ [][Next]_vars

\* Requests end, the queue runs its jobs to an end (JobQueue's EveryJobCloses), keys
\* expire, the eviction ends.
Fairness ==
  /\ \A r \in Requests : WF_vars(StartStep(r)) /\ WF_vars(EditStep(r))
  /\ \A j \in JobIds : WF_vars(JobStep(j))
  /\ WF_vars(ExpireLock) /\ WF_vars(RemoveParts)

\* The owner keeps loading the parts page or its progress page, and pressing the retry
\* button, which a page that has not been left since the failure offers.
RetrySpec == Spec /\ Fairness /\ \A r \in Requests : SF_vars(BeginGenerate(r)) /\ SF_vars(BeginRetry(r))

-----------------------------------------------------------------------------
(* Properties. *)

TypeOK ==
  /\ content \in Content /\ ready \in BOOLEAN /\ error \in BOOLEAN /\ marks \subseteq Marks
  /\ lock \in BOOLEAN /\ files \in [Parts -> Content \union {NoPDF}]
  /\ lastId \in 0..MaxJobs /\ job \in [JobIds -> Job] /\ req \in [Requests -> Request]
  /\ sweep \in BOOLEAN /\ edits \in 0..MaxEdits /\ faults \in 0..MaxFaults
  /\ doubled \in BOOLEAN /\ overlooked \in BOOLEAN /\ intact \in BOOLEAN

\* No save, eviction or job is under way.
Quiet ==
  /\ ~sweep /\ \A r \in Requests : ~Editing(r)
  /\ \A j \in JobIds : ~InWork(j)

\* An edit of labels or combined parts, however it is interleaved with a generation,
\* is not followed by a ready partset that shows PDFs made for the old labels, be they
\* this generation's or left over from one that was cut off: the save takes the
\* publication down, finalize discards what was made from the rows before, and a
\* generation replaces every PDF that it publishes.
LabelsFresh == ready /\ ~doubled /\ ~overlooked => \A c \in Shown : Rows(c) = Rows(content)

\* PDFs that were published with nobody in the way stay exactly those the database
\* asks for, with none missing, as long as the partset is ready: every save and every
\* eviction that follows takes ready down with them, two at a time included.
IntactStaysExact == Quiet /\ ready /\ intact /\ ~doubled => Exact

\* The same as promises of a cache, in every state and step and not only in quiet ones:
\* PDFs published with nobody in the way are shown exactly as the database asks for
\* them, and the commit that changes anything they show takes them down.
ExactCache == INSTANCE ReadThroughCache WITH
  Sources <- Content, source <- content,
  shown <- IF ready /\ intact /\ ~doubled THEN Shown ELSE {}
PartsImplementCache == ExactCache!Spec

\* The labels keep the promise whoever is in the way, as long as no commit crosses a
\* publication unseen and no copy is passed over.
LabelCache == INSTANCE ReadThroughCache WITH
  Sources <- {Rows(c) : c \in Content}, source <- Rows(content),
  shown <- IF ready /\ ~doubled /\ ~overlooked THEN {Rows(c) : c \in Shown} ELSE {}
LabelsImplementCache == LabelCache!Spec

\* No failure, kill or crash leaves the partset where no retry helps: an owner who
\* keeps retrying gets to the PDFs or to an error message, once the lock of a lost
\* job has expired.
RetryHelps == []<>(ready \/ error \/ lastId = MaxJobs \/ content.tags = NoTags)
=============================================================================
