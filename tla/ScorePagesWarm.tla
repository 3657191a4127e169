--------------------------- MODULE ScorePagesWarm ---------------------------
(***************************************************************************)
(* The page images of one archived score: the API's polls that start a     *)
(* warm_score_pages job, the job and the other jobs that build the same    *)
(* images, the lock and the progress value in Redis that poll and job      *)
(* share, and the eviction of the score's directory.                       *)
(*                                                                         *)
(* The progress value serves two purposes: a percentage for the page, and, *)
(* at 100, the sign that a job has ended.  It counts converted pages here. *)
(***************************************************************************)
EXTENDS Integers, FiniteSets

CONSTANTS
  Polls,      \* status requests that can be under way at the same time
  NumPages,   \* pages of the score
  LockTTL,    \* ticks until the lock's key expires
  MaxJobs,    \* bound on the jobs queued or running at the same time
  MaxFaults,  \* bound on kills and exceptions
  MaxSweeps   \* bound on evictions

ASSUME ScorePagesWarmAssumption ==
  NumPages \in Nat \ {0} /\ LockTTL \in Nat \ {0} /\ MaxJobs \in Nat
  /\ MaxFaults \in Nat /\ MaxSweeps \in Nat

VARIABLES
  low, high,  \* pages whose lowres / highres image is in the cache
  lock,       \* remaining ticks of partifi:score_pages_lock:<score>, 0 without key, -1 for ever
  progress,   \* partifi:warm_progress:<score>, in pages; NumPages is 100 percent
  job,        \* the jobs that build the images
  poll,       \* where each request is
  sweep,      \* the kinds an eviction has still to remove
  faults, sweeps, \* counters that bound the model
  interrupted,\* history: a job was cut short, or ran during an eviction
  freed       \* history: a poll deleted the lock under a job, or it expired under one

vars == <<low, high, lock, progress, job, poll, sweep, faults, sweeps, interrupted, freed>>
histVars == <<interrupted, freed>>

Pages  == 1..NumPages
JobIds == 1..MaxJobs
Kinds  == {"low", "high"}
JobPC  == {"none", "queued", "reset", "build", "convert", "copyLow", "copyHigh",
           "full", "unlock"}
PollPC == {"idle", "looked", "free", "reset", "lock", "enqueue"}

\* warm: a warm_score_pages job.  Other jobs (gen_parts, reorient_partset) build
\* the images on their way, without lock.  page: the one being converted or copied.
NoJob == [pc |-> "none", warm |-> FALSE, page |-> 1]

Init ==
  /\ low = {} /\ high = {}
  /\ lock = 0 /\ progress = 0
  /\ job = [j \in JobIds |-> NoJob]
  /\ poll = [r \in Polls |-> "idle"]
  /\ sweep = {} /\ faults = 0 /\ sweeps = 0
  /\ interrupted = FALSE /\ freed = FALSE

-----------------------------------------------------------------------------
(* Helpers. *)

Running(j)  == job[j].pc \notin {"none", "queued"}
InFlight(j) == job[j].warm
Fresh       == {j \in JobIds : job[j].pc = "none" /\ \A i \in 1..(j - 1) : job[i].pc # "none"}

End(j)            == job' = [job EXCEPT ![j] = NoJob]
At(j, pc)         == job[j].pc = pc
Goto(j, pc)       == job' = [job EXCEPT ![j].pc = pc]
\* To the next page, or with the first one to the next stage.
Advance(j, pc)    == job' = [job EXCEPT ![j].page = IF @ = NumPages THEN 1 ELSE @ + 1,
                                        ![j].pc = IF job[j].page = NumPages THEN pc ELSE @]
HeldByPoll        == \E r \in Polls : poll[r] = "enqueue"

-----------------------------------------------------------------------------
(* ensure_score_pages_warming: the status request of the segment and preview *)
(* pages, which poll it until it answers images_ready.                       *)

\* One page image is enough for images_ready.
Look(r) ==
  /\ poll[r] = "idle" /\ low = {} /\ Fresh # {}
  /\ poll' = [poll EXCEPT ![r] = "looked"]
  /\ UNCHANGED <<low, high, lock, progress, job, sweep, faults, sweeps, histVars>>

GetProgress(r) ==
  /\ poll[r] = "looked"
  /\ poll' = [poll EXCEPT ![r] = IF progress >= NumPages THEN "free" ELSE "lock"]
  /\ UNCHANGED <<low, high, lock, progress, job, sweep, faults, sweeps, histVars>>

\* "Warm job finished (or failed) but page PNGs are still missing - retry."
FreeLock(r) ==
  /\ poll[r] = "free"
  /\ lock' = 0
  /\ freed' = (freed \/ (lock # 0 /\ (HeldByPoll \/ \E j \in JobIds : InFlight(j))))
  /\ poll' = [poll EXCEPT ![r] = "reset"]
  /\ UNCHANGED <<low, high, progress, job, sweep, faults, sweeps, interrupted>>

ResetProgress(r) ==
  /\ poll[r] = "reset"
  /\ progress' = 0
  /\ poll' = [poll EXCEPT ![r] = "lock"]
  /\ UNCHANGED <<low, high, lock, job, sweep, faults, sweeps, histVars>>

\* Mutant: SET NX without EX.
AcquireForEver(r) ==
  /\ poll[r] = "lock"
  /\ IF lock = 0 THEN lock' = -1 ELSE UNCHANGED lock
  /\ poll' = [poll EXCEPT ![r] = IF lock = 0 THEN "enqueue" ELSE "idle"]
  /\ UNCHANGED <<low, high, progress, job, sweep, faults, sweeps, histVars>>

\* Mutant: SET without NX.
AcquireAnyway(r) ==
  /\ poll[r] = "lock"
  /\ lock' = LockTTL
  /\ poll' = [poll EXCEPT ![r] = "enqueue"]
  /\ UNCHANGED <<low, high, progress, job, sweep, faults, sweeps, histVars>>

\* try_acquire_score_pages_lock: SET NX EX.
AcquireLock(r) ==
  /\ poll[r] = "lock"
  /\ lock' = IF lock = 0 THEN LockTTL ELSE lock
  /\ poll' = [poll EXCEPT ![r] = IF lock = 0 THEN "enqueue" ELSE "idle"]
  /\ UNCHANGED <<low, high, progress, job, sweep, faults, sweeps, histVars>>

Enqueue(r) ==
  /\ poll[r] = "enqueue"
  /\ \E j \in Fresh : job' = [job EXCEPT ![j] = [NoJob EXCEPT !.pc = "queued", !.warm = TRUE]]
  /\ poll' = [poll EXCEPT ![r] = "idle"]
  /\ UNCHANGED <<low, high, lock, progress, sweep, faults, sweeps, histVars>>

-----------------------------------------------------------------------------
(* The jobs. *)

\* gen_parts and reorient_partset build the images of a score themselves.
StartOther ==
  /\ \E j \in Fresh : job' = [job EXCEPT ![j].pc = "build"]
  /\ UNCHANGED <<low, high, lock, progress, poll, sweep, faults, sweeps, histVars>>

\* run_warm_score_pages has nothing to do once there is one page image.
StartWarm(j) ==
  /\ At(j, "queued")
  /\ Goto(j, IF low # {} THEN "unlock" ELSE "reset")
  /\ UNCHANGED <<low, high, lock, progress, poll, sweep, faults, sweeps, histVars>>

ResetInJob(j) ==
  /\ At(j, "reset")
  /\ progress' = 0
  /\ Goto(j, "build")
  /\ UNCHANGED <<low, high, lock, poll, sweep, faults, sweeps, histVars>>

\* build_score_page_cache looks at the highres images.
Build(j) ==
  /\ At(j, "build")
  /\ Goto(j, IF high # {} THEN "full" ELSE "convert")
  /\ UNCHANGED <<low, high, lock, progress, poll, sweep, faults, sweeps, histVars>>

\* A pool of processes converts the pages into the scratch directory; each one
\* adds its share to the progress.
ConvertPage(j) ==
  /\ At(j, "convert")
  /\ Advance(j, "copyLow")
  /\ progress' = IF progress >= NumPages THEN NumPages ELSE progress + 1
  /\ UNCHANGED <<low, high, lock, poll, sweep, faults, sweeps, histVars>>

\* Mutant: a page that cannot be copied is passed over.
CopyMostLow(j) ==
  /\ At(j, "copyLow")
  /\ low' \in {low, low \union {job[j].page}} /\ Advance(j, "copyHigh")
  /\ UNCHANGED <<high, lock, progress, poll, sweep, faults, sweeps, histVars>>

\* copy_pages_tree: every file is put in place atomically, one after the other.
CopyLow(j) ==
  /\ At(j, "copyLow")
  /\ low' = low \union {job[j].page} /\ Advance(j, "copyHigh")
  /\ UNCHANGED <<high, lock, progress, poll, sweep, faults, sweeps, histVars>>

CopyHigh(j) ==
  /\ At(j, "copyHigh")
  /\ high' = high \union {job[j].page} /\ Advance(j, "full")
  /\ UNCHANGED <<low, lock, progress, poll, sweep, faults, sweeps, histVars>>

\* The scores row, then 100 for good measure; other jobs go on with their own work.
SetProgress(j) ==
  /\ At(j, "full")
  /\ progress' = IF job[j].warm THEN NumPages ELSE progress
  /\ IF job[j].warm THEN Goto(j, "unlock") ELSE End(j)
  /\ UNCHANGED <<low, high, lock, poll, sweep, faults, sweeps, histVars>>

\* finally: DELETE of the key, whoever holds it.
ReleaseLock(j) ==
  /\ At(j, "unlock")
  /\ lock' = 0
  /\ freed' = (freed \/ (lock # 0 /\ (HeldByPoll \/ \E i \in JobIds \ {j} : InFlight(i))))
  /\ End(j)
  /\ UNCHANGED <<low, high, progress, poll, sweep, faults, sweeps, interrupted>>

-----------------------------------------------------------------------------
(* Faults. *)

Fault == faults < MaxFaults /\ faults' = faults + 1

\* A conversion or a copy fails; the error is the job's, not a partset's.
RaiseInJob(j) ==
  /\ job[j].pc \in {"convert", "copyLow", "copyHigh", "full"}
  /\ Fault /\ interrupted' = TRUE
  /\ job' = [job EXCEPT ![j] = IF @.warm THEN [@ EXCEPT !.pc = "unlock", !.page = 1] ELSE NoJob]
  /\ UNCHANGED <<low, high, lock, progress, poll, sweep, sweeps, freed>>

\* The deadline, the kernel or a lost worker: _release_job_locks knows the locks
\* of imports and of gen_parts, not this one.  A worker that shuts down requeues.
KillJob(j) ==
  /\ Running(j)
  /\ Fault /\ interrupted' = TRUE
  /\ \/ End(j)
     \/ job[j].warm /\ job' = [job EXCEPT ![j].pc = "queued", ![j].page = 1]
  /\ UNCHANGED <<low, high, lock, progress, poll, sweep, sweeps, freed>>

\* clean_cache and invalidate_score_pages: rmtree, one kind after the other.
Evict ==
  /\ sweep = {} /\ low \union high # {}
  /\ sweeps < MaxSweeps /\ sweeps' = sweeps + 1
  /\ sweep' = Kinds
  /\ UNCHANGED <<low, high, lock, progress, job, poll, faults, histVars>>

RemoveKind(k) ==
  /\ k \in sweep
  /\ sweep' = sweep \ {k}
  /\ low'  = IF k = "low" THEN {} ELSE low
  /\ high' = IF k = "high" THEN {} ELSE high
  /\ interrupted' = (interrupted \/ \E j \in JobIds : Running(j))
  /\ UNCHANGED <<lock, progress, job, poll, faults, sweeps, freed>>

\* Time passes; a running job meets its deadline before the lock's TTL ends.
Tick ==
  /\ lock > 0
  /\ \A j \in JobIds : ~Running(j)
  /\ lock' = lock - 1
  /\ freed' = (freed \/ (lock = 1 /\ (HeldByPoll \/ \E j \in JobIds : InFlight(j))))
  /\ UNCHANGED <<low, high, progress, job, poll, sweep, faults, sweeps, interrupted>>

-----------------------------------------------------------------------------
EnsureStep(r) == \/ GetProgress(r) \/ FreeLock(r) \/ ResetProgress(r) \/ AcquireLock(r) \/ Enqueue(r)
JobStep(j) == \/ StartWarm(j) \/ ResetInJob(j) \/ Build(j) \/ ConvertPage(j) \/ CopyLow(j)
              \/ CopyHigh(j) \/ SetProgress(j) \/ ReleaseLock(j)

Next ==
  \/ \E r \in Polls : Look(r) \/ EnsureStep(r)
  \/ \E j \in JobIds : JobStep(j) \/ RaiseInJob(j) \/ KillJob(j)
  \/ StartOther \/ Evict \/ Tick
  \/ \E k \in Kinds : RemoveKind(k)

Spec == Init /\ [][Next]_vars

\* Requests, jobs and evictions end, time passes.
Progress ==
  /\ \A r \in Polls : WF_vars(EnsureStep(r))
  /\ \A j \in JobIds : WF_vars(JobStep(j))
  /\ \A k \in Kinds : WF_vars(RemoveKind(k))
  /\ SF_vars(Tick)

\* A page that is open polls until the images are there.
PollSpec == Spec /\ Progress /\ \A r \in Polls : SF_vars(Look(r))

-----------------------------------------------------------------------------
(* Properties. *)

\* The values every variable takes.
TypeOK ==
  /\ low \subseteq Pages /\ high \subseteq Pages
  /\ lock \in 0..LockTTL
  /\ progress \in 0..NumPages
  /\ job \in [JobIds -> [pc : JobPC, warm : BOOLEAN, page : Pages]]
  /\ poll \in [Polls -> PollPC]
  /\ sweep \subseteq Kinds
  /\ faults \in 0..MaxFaults /\ sweeps \in 0..MaxSweeps
  /\ interrupted \in BOOLEAN /\ freed \in BOOLEAN

\* Images that are there in part are being copied: without a kill, an exception or
\* an eviction under a job, no reader takes an incomplete set for the score for good,
\* although one image counts as images_ready and several jobs may copy at once.
PartialIsPassing ==
  \/ interrupted
  \/ low \in {{}, Pages} /\ high \in {{}, Pages}
  \/ \E j \in JobIds : At(j, "copyLow") \/ At(j, "copyHigh")

\* The lock keeps warm jobs apart unless it was deleted or ran out under one.
ExclusiveUnlessFreed ==
  (~interrupted /\ ~freed) => Cardinality({j \in JobIds : InFlight(j)}) <= 1

\* README.md:34, "no cached PNGs are warmed on first segment/preview visit": a page
\* that keeps polling gets images again and again, although killed jobs leave their
\* lock, failed ones any progress value, and evictions take images away under a copy.
\* (An eviction that leaves highres images only is left as it is: the warm job looks
\* for lowres images, build_score_page_cache for highres ones.)
Warmed == []<>(low # {} \/ (sweeps > 0 /\ high # {}))
=============================================================================
