------------------------------ MODULE JobQueue ------------------------------
(***************************************************************************)
(* The import job queue of the workers: the Redis list partifi:jobs, the   *)
(* processing list, the worker processes with the child process each one   *)
(* watches, the stale-job reaper, the import lock (a Redis key with a TTL  *)
(* and no owner), and the API requests that take the lock and enqueue.     *)
(* The jobs are the pipeline jobs of a partset that is being imported      *)
(* (import_pipeline, imslp_import, reorient_partset): one lock, the same   *)
(* try / except / finally, which imslp_import wraps around import_pipeline *)
(* a second time.                                                          *)
(*                                                                         *)
(* Time is counted in coarse ticks.  A step of a worker, a child or a      *)
(* request that does not wait takes no tick: Tick is disabled while one is *)
(* under way.                                                              *)
(***************************************************************************)
EXTENDS Integers, Sequences, FiniteSets

CONSTANTS
  Partsets,     \* partset ids
  Generated,    \* the partsets whose parts are generated once they are imported
  Workers,      \* worker containers
  Requests,     \* API requests that can be under way at the same time
  MaxJobs,      \* bound on the jobs enqueued in a behaviour
  Timeout,      \* job_timeout_seconds
  Grace,        \* REAPER_GRACE_SECONDS
  LockSlack,    \* what the lock's TTL adds to job_timeout_seconds
  MaxFaults     \* bound on crashes, signals, lost connections, failed jobs

ASSUME JobQueueAssumption ==
  /\ Partsets # {} /\ Generated \subseteq Partsets
  /\ 0 \notin Workers
  /\ MaxJobs \in Nat /\ MaxFaults \in Nat
  /\ Timeout \in Nat \ {0} /\ Grace \in Nat
  /\ LockSlack \in Nat \ {0}

VARIABLES
  queue,        \* partifi:jobs, oldest first
  processing,   \* partifi:jobs:processing: how each job's entry reads
  lastId,       \* partifi:job_id
  target,       \* payload.partset_id of each job
  age,          \* ticks since enqueued_at
  ran,          \* ticks since started_at
  lock,         \* remaining TTL of partifi:import_lock:<partset>; 0 when free
  error,        \* partsets.error is set
  complete,     \* partsets.analysis_complete is set
  partsReady,   \* partsets.parts_ready is set
  wpc,          \* where each worker is
  wjob,         \* the job in its hands, or the entry it is reaping; 0 if none
  seen,         \* how the entry read when the reaper listed it
  outcome,      \* JobOutcome of the job in its hands
  running,      \* RUNNING
  abort,        \* _shutdown_requested
  child,        \* the job subprocess
  rpc,          \* where each API request is
  rkind,        \* ensure_import_if_needed or retry_partset_pipeline
  rpset,        \* the partset it is about
  rsaw,         \* partset.error as its session read it
  faults,       \* number of faults so far (bounds the model)
  done,         \* history: jobs whose child committed its result
  reported,     \* history: jobs of which a failure was reported to the partset
  shown,        \* history: those of which the partset took the report
  disturbed     \* history: partsets a fault has touched

redisVars  == <<queue, processing, lastId, target, age, ran>>
dbVars     == <<error, complete, partsReady>>
workerVars == <<wpc, wjob, seen, outcome, running, abort, child>>
apiVars    == <<rpc, rkind, rpset, rsaw>>
histVars   == <<done, reported, shown, disturbed>>
vars == <<redisVars, lock, dbVars, workerVars, apiVars, faults, histVars>>

JobIds     == 1..MaxJobs
LockTTL    == Timeout + LockSlack
StaleAfter == Timeout + Grace
\* Ages beyond the cap are not told apart by any guard.
AgeCap     == IF StaleAfter + 1 > LockTTL THEN StaleAfter + 1 ELSE LockTTL

Entry     == {"no", "raw", "stamped"}
WorkerPC  == {"off", "scan", "reapMark", "reapAck", "idle", "claimed", "stamped",
              "watch", "term", "record", "release", "ack", "push"}
Outcome   == {"success", "failed", "interrupted"}
ChildLive == {"run", "committed", "closing", "raised", "marked", "reraised", "remarked",
              "unwound"}
ChildPC   == ChildLive \union {"none", "exit0", "exit1"}
RequestPC == {"none", "loaded", "locked", "commit"}

Init ==
  /\ queue = <<>> /\ lastId = 0
  /\ processing = [j \in JobIds |-> "no"]
  /\ target = [j \in JobIds |-> CHOOSE p \in Partsets : TRUE]
  /\ age = [j \in JobIds |-> 0] /\ ran = [j \in JobIds |-> 0]
  /\ lock = [p \in Partsets |-> 0]
  /\ error = [p \in Partsets |-> FALSE] /\ complete = [p \in Partsets |-> FALSE]
  /\ partsReady = [p \in Partsets |-> FALSE]
  /\ wpc = [w \in Workers |-> "off"] /\ wjob = [w \in Workers |-> 0]
  /\ seen = [w \in Workers |-> "no"] /\ outcome = [w \in Workers |-> "success"]
  /\ running = [w \in Workers |-> FALSE] /\ abort = [w \in Workers |-> FALSE]
  /\ child = [w \in Workers |-> "none"]
  /\ rpc = [r \in Requests |-> "none"] /\ rkind = [r \in Requests |-> "ensure"]
  /\ rpset = [r \in Requests |-> CHOOSE p \in Partsets : TRUE]
  /\ rsaw = [r \in Requests |-> FALSE]
  /\ faults = 0 /\ done = {} /\ reported = {} /\ shown = {} /\ disturbed = {}

-----------------------------------------------------------------------------
(* Helpers. *)

InQueue(j)  == \E i \in 1..Len(queue) : queue[i] = j
\* Mutant: an entry without started_at is never stale.
IsStaleStampedOnly(j) == processing[j] = "stamped" /\ ran[j] > StaleAfter
\* Entries the reaper treats as lost: started_at, or enqueued_at without it.
IsStale(j)  == \/ processing[j] = "stamped" /\ ran[j] > StaleAfter
               \/ processing[j] = "raw" /\ age[j] > StaleAfter
\* The worker has a job in its hands (an idle or reaping worker has none).
InHand(w)   == wpc[w] \in {"claimed", "stamped", "watch", "term", "record",
                           "release", "ack", "push"}
ChildAlive(w) == child[w] \in ChildLive
\* The job's code is running and has not given the lock back yet.
AtWork(w)   == child[w] \in {"run", "committed", "raised", "marked"}
Pset(w)     == target[wjob[w]]
\* while RUNNING: the worker polls again, or its loop ends.
AfterLoop(w) == IF running[w] THEN "idle" ELSE "off"

Fault(p) ==
  /\ faults < MaxFaults
  /\ faults' = faults + 1
  /\ disturbed' = disturbed \union {p}

\* release_import_lock: DELETE of the key, whoever holds it.
ReleaseImportLock(p) == lock' = [lock EXCEPT ![p] = 0]
\* mark_partset_error: a partset whose parts are ready takes no error.
MarkPartsetError(p) == error' = [error EXCEPT ![p] = @ \/ ~partsReady[p]]
\* A job's failure is reported: mark_partset_error, or _record_partset_job_failure
\* in front of it, which leaves an error that is there.
ReportFailure(j) ==
  /\ MarkPartsetError(target[j])
  /\ reported' = reported \union {j}
  /\ shown' = IF partsReady[target[j]] THEN shown ELSE shown \union {j}

-----------------------------------------------------------------------------
(* Requests of the API. *)

\* The request ends; what its session held is gone with it.
EndRequest(r) ==
  /\ rpc' = [rpc EXCEPT ![r] = "none"]
  /\ rkind' = [rkind EXCEPT ![r] = "ensure"]
  /\ rsaw' = [rsaw EXCEPT ![r] = FALSE]
  /\ UNCHANGED rpset

\* The request has read the partset.  ensure_import_if_needed returns at once
\* for a complete partset or one with an error; retry_partset_pipeline clears
\* the failure in its session and goes on.  A retry of a complete partset is
\* about part generation: here it only clears the failure, and with the parts
\* ready not even that (ValueError before the commit).
BeginRequest(r) ==
  /\ rpc[r] = "none"
  /\ lastId + Cardinality({q \in Requests : rpc[q] \in {"loaded", "locked"}}) < MaxJobs
  /\ \E p \in Partsets :
       /\ rpset' = [rpset EXCEPT ![r] = p]
       /\ rsaw' = [rsaw EXCEPT ![r] = error[p]]
       /\ \/ /\ ~complete[p] /\ ~error[p]
             /\ rpc' = [rpc EXCEPT ![r] = "loaded"]
             /\ rkind' = [rkind EXCEPT ![r] = "ensure"]
          \/ /\ ~(complete[p] /\ partsReady[p])
             /\ rpc' = [rpc EXCEPT ![r] = IF complete[p] THEN "commit" ELSE "loaded"]
             /\ rkind' = [rkind EXCEPT ![r] = "retry"]
  /\ UNCHANGED <<redisVars, lock, dbVars, workerVars, faults, histVars>>

\* Mutant: SET without NX.
AcquireLockAlways(r) ==
  /\ rpc[r] = "loaded"
  /\ lock' = [lock EXCEPT ![rpset[r]] = LockTTL]
  /\ rpc' = [rpc EXCEPT ![r] = "locked"]
  /\ UNCHANGED <<redisVars, dbVars, workerVars, rkind, rpset, rsaw, faults, histVars>>

\* try_acquire_import_lock: SET NX EX.
AcquireLock(r) ==
  /\ rpc[r] = "loaded"
  /\ lock[rpset[r]] = 0
  /\ lock' = [lock EXCEPT ![rpset[r]] = LockTTL]
  /\ rpc' = [rpc EXCEPT ![r] = "locked"]
  /\ UNCHANGED <<redisVars, dbVars, workerVars, rkind, rpset, rsaw, faults, histVars>>

\* Mutant: an attempt that finds the lock held renews it.
RenewLock(r) ==
  /\ rpc[r] = "loaded"
  /\ lock[rpset[r]] > 0
  /\ lock' = [lock EXCEPT ![rpset[r]] = LockTTL]
  /\ \/ rkind[r] = "ensure" /\ EndRequest(r)
     \/ /\ rkind[r] = "retry"
        /\ rpc' = [rpc EXCEPT ![r] = "commit"]
        /\ UNCHANGED <<rkind, rpset, rsaw>>
  /\ UNCHANGED <<redisVars, dbVars, workerVars, faults, histVars>>

\* The lock is taken: ensure has nothing to do, retry commits the cleared error.
LockBusy(r) ==
  /\ rpc[r] = "loaded"
  /\ lock[rpset[r]] > 0
  /\ \/ rkind[r] = "ensure" /\ EndRequest(r)
     \/ /\ rkind[r] = "retry"
        /\ rpc' = [rpc EXCEPT ![r] = "commit"]
        /\ UNCHANGED <<rkind, rpset, rsaw>>
  /\ UNCHANGED <<redisVars, lock, dbVars, workerVars, faults, histVars>>

\* enqueue_job: INCR, LPUSH.
EnqueueJob(r) ==
  /\ rpc[r] = "locked"
  /\ lastId < MaxJobs
  /\ lastId' = lastId + 1
  /\ target' = [target EXCEPT ![lastId + 1] = rpset[r]]
  /\ queue' = Append(queue, lastId + 1)
  /\ rpc' = [rpc EXCEPT ![r] = "commit"]
  /\ UNCHANGED <<processing, age, ran, lock, dbVars, workerVars, rkind, rpset, rsaw,
                 faults, histVars>>

\* db.commit: the cleared error is written if the session had read one.
CommitRequest(r) ==
  /\ rpc[r] = "commit"
  /\ error' = IF rkind[r] = "retry" /\ rsaw[r] THEN [error EXCEPT ![rpset[r]] = FALSE]
              ELSE error
  /\ EndRequest(r)
  /\ UNCHANGED <<redisVars, lock, complete, partsReady, workerVars, faults, histVars>>

\* The API process dies under the request: Redis keeps what it did, the
\* transaction is rolled back.
LoseRequest(r) ==
  /\ rpc[r] # "none"
  /\ Fault(rpset[r])
  /\ EndRequest(r)
  /\ UNCHANGED <<redisVars, lock, dbVars, workerVars, done, reported, shown>>

-----------------------------------------------------------------------------
(* A worker's loop: start-up, claiming, the reaper. *)

StartWorker(w) ==
  /\ wpc[w] = "off"
  /\ wpc' = [wpc EXCEPT ![w] = "scan"]
  /\ running' = [running EXCEPT ![w] = TRUE]
  /\ abort' = [abort EXCEPT ![w] = FALSE]
  /\ UNCHANGED <<redisVars, lock, dbVars, wjob, seen, outcome, child, apiVars, faults,
                 histVars>>

\* The signal came while the worker was blocked in its poll: the poll ends empty.
StopWorker(w) ==
  /\ wpc[w] = "idle" /\ ~running[w]
  /\ wpc' = [wpc EXCEPT ![w] = "off"]
  /\ UNCHANGED <<redisVars, lock, dbVars, wjob, seen, outcome, running, abort, child,
                 apiVars, faults, histVars>>

\* claim_next_job, first half: BRPOPLPUSH.  A call that was blocked when the
\* signal came may still return a job.
ClaimJob(w) ==
  /\ wpc[w] = "idle" /\ queue # <<>>
  /\ queue' = Tail(queue)
  /\ processing' = [processing EXCEPT ![Head(queue)] = "raw"]
  /\ wjob' = [wjob EXCEPT ![w] = Head(queue)]
  /\ wpc' = [wpc EXCEPT ![w] = "claimed"]
  /\ UNCHANGED <<lastId, target, age, ran, lock, dbVars, seen, outcome, running, abort,
                 child, apiVars, faults, histVars>>

\* claim_next_job, second half: MULTI, LREM of the raw entry (which may be gone),
\* RPUSH of the stamped one.
StampJob(w) ==
  /\ wpc[w] = "claimed"
  /\ processing' = [processing EXCEPT ![wjob[w]] = "stamped"]
  /\ ran' = [ran EXCEPT ![wjob[w]] = 0]
  /\ wpc' = [wpc EXCEPT ![w] = "stamped"]
  /\ UNCHANGED <<queue, lastId, target, age, lock, dbVars, wjob, seen, outcome, running,
                 abort, child, apiVars, faults, histVars>>

\* run_job_with_timeout: the shutdown flag is reset, the subprocess spawned.
SpawnChild(w) ==
  /\ wpc[w] = "stamped"
  /\ wpc' = [wpc EXCEPT ![w] = "watch"]
  /\ abort' = [abort EXCEPT ![w] = FALSE]
  /\ child' = [child EXCEPT ![w] = "run"]
  /\ outcome' = [outcome EXCEPT ![w] = "success"]
  /\ UNCHANGED <<redisVars, lock, dbVars, wjob, seen, running, apiVars, faults, histVars>>

\* A poll that found no job lets the worker list the processing entries (the code
\* does so at every twelfth one).
BeginReap(w) ==
  /\ wpc[w] = "idle" /\ queue = <<>>
  /\ \E j \in JobIds : IsStale(j)
  /\ wpc' = [wpc EXCEPT ![w] = "scan"]
  /\ UNCHANGED <<redisVars, lock, dbVars, wjob, seen, outcome, running, abort, child,
                 apiVars, faults, histVars>>

ReapEntry(w) ==
  /\ wpc[w] = "scan"
  /\ \E j \in JobIds :
       /\ IsStale(j)
       /\ wjob' = [wjob EXCEPT ![w] = j]
       /\ seen' = [seen EXCEPT ![w] = processing[j]]
  /\ wpc' = [wpc EXCEPT ![w] = "reapMark"]
  /\ UNCHANGED <<redisVars, lock, dbVars, outcome, running, abort, child, apiVars, faults,
                 histVars>>

\* Mutant: the reaper only removes the entry.
SkipStaleJob(w) ==
  /\ wpc[w] = "reapMark"
  /\ wpc' = [wpc EXCEPT ![w] = "reapAck"]
  /\ UNCHANGED <<redisVars, lock, dbVars, wjob, seen, outcome, running, abort, child,
                 apiVars, faults, histVars>>

\* _fail_stale_job: the partset is marked first (the lock is left alone) ...
FailStaleJob(w) ==
  /\ wpc[w] = "reapMark"
  /\ ReportFailure(wjob[w])
  /\ wpc' = [wpc EXCEPT ![w] = "reapAck"]
  /\ UNCHANGED <<redisVars, lock, complete, partsReady, wjob, seen, outcome, running,
                 abort, child, apiVars, faults, done, disturbed>>

\* ... then LREM of the entry as it was listed.
AckStaleJob(w) ==
  /\ wpc[w] = "reapAck"
  /\ processing' = [processing EXCEPT ![wjob[w]] = IF @ = seen[w] THEN "no" ELSE @]
  /\ wpc' = [wpc EXCEPT ![w] = "scan"]
  /\ wjob' = [wjob EXCEPT ![w] = 0]
  /\ seen' = [seen EXCEPT ![w] = "no"]
  /\ UNCHANGED <<queue, lastId, target, age, ran, lock, dbVars, outcome, running, abort,
                 child, apiVars, faults, histVars>>

\* An entry that was claimed after the list was read is not in it.
EndReap(w) ==
  /\ wpc[w] = "scan"
  /\ \A j \in JobIds : IsStale(j) => \E v \in Workers : InHand(v) /\ wjob[v] = j
  /\ wpc' = [wpc EXCEPT ![w] = AfterLoop(w)]
  /\ UNCHANGED <<redisVars, lock, dbVars, wjob, seen, outcome, running, abort, child,
                 apiVars, faults, histVars>>

-----------------------------------------------------------------------------
(* The job subprocess. *)

\* The handler's last effect that anyone sees: the analysis is complete.  It
\* never clears the partset's error.
CommitResult(w) ==
  /\ child[w] = "run"
  /\ complete' = [complete EXCEPT ![Pset(w)] = TRUE]
  /\ done' = done \union {wjob[w]}
  /\ child' = [child EXCEPT ![w] = "committed"]
  /\ UNCHANGED <<redisVars, lock, error, partsReady, wpc, wjob, seen, outcome, running,
                 abort, apiVars, faults, reported, shown, disturbed>>

\* Where an exception leads: into the except clause, or past it when it is raised
\* outside of the try, by the except clause or by the release in the finally clause.
Raised(at) == IF at \in {"run", "committed"} THEN {"raised", "unwound"} ELSE {"unwound"}

\* The handler, its last UPDATE (last_access) or its finally clause raises.
RaiseInChild(w) ==
  /\ ChildAlive(w) /\ child[w] # "unwound"
  /\ Fault(Pset(w))
  /\ \E to \in Raised(child[w]) : child' = [child EXCEPT ![w] = to]
  /\ UNCHANGED <<redisVars, lock, dbVars, wpc, wjob, seen, outcome, running, abort, apiVars,
                 done, reported, shown>>

\* except: mark_partset_error; raise.
MarkInChild(w) ==
  /\ child[w] \in {"raised", "reraised"}
  /\ ReportFailure(wjob[w])
  /\ child' = [child EXCEPT ![w] = IF @ = "raised" THEN "marked" ELSE "remarked"]
  /\ UNCHANGED <<redisVars, lock, complete, partsReady, wpc, wjob, seen, outcome, running,
                 abort, apiVars, faults, done, disturbed>>

\* Where a finally clause leads: out, or into the clauses of imslp_import.
Unwound(at) ==
  CASE at = "committed" -> {"exit0", "closing"}
    [] at = "closing"   -> {"exit0"}
    [] at = "marked"    -> {"unwound", "reraised"}
    [] OTHER            -> {"unwound"}

\* finally: release_import_lock.  The second release of an imslp_import may find the
\* lock of a request that had read the partset before the import was complete.
ReleaseInChild(w) ==
  /\ child[w] \in {"committed", "closing", "marked", "remarked"}
  /\ ReleaseImportLock(Pset(w))
  /\ \E to \in Unwound(child[w]) : child' = [child EXCEPT ![w] = to]
  /\ disturbed' = IF child[w] = "closing" /\ lock[Pset(w)] > 0 THEN disturbed \union {Pset(w)}
                  ELSE disturbed
  /\ UNCHANGED <<redisVars, dbVars, wpc, wjob, seen, outcome, running, abort, apiVars,
                 faults, done, reported, shown>>

\* _child_entry: report the failure, exit 1.
RecordInChild(w) ==
  /\ child[w] = "unwound"
  /\ ReportFailure(wjob[w])
  /\ child' = [child EXCEPT ![w] = "exit1"]
  /\ UNCHANGED <<redisVars, lock, complete, partsReady, wpc, wjob, seen, outcome, running,
                 abort, apiVars, faults, done, disturbed>>

\* The subprocess is killed from outside (out of memory): no finally runs.
KillChildOOM(w) ==
  /\ ChildAlive(w) /\ Fault(Pset(w))
  /\ child' = [child EXCEPT ![w] = "exit1"]
  /\ UNCHANGED <<redisVars, lock, dbVars, wpc, wjob, seen, outcome, running, abort, apiVars,
                 done, reported, shown>>

-----------------------------------------------------------------------------
(* run_job_with_timeout: the parent watches the subprocess. *)

\* Exit code 0 is a success unless the partset carries an error; then the lock
\* is released once more.  Another exit code is reported first.
SeeExit(w) ==
  /\ wpc[w] = "watch" /\ child[w] \in {"exit0", "exit1"}
  /\ \/ /\ child[w] = "exit0" /\ ~error[Pset(w)]
        /\ wpc' = [wpc EXCEPT ![w] = "ack"]
        /\ UNCHANGED outcome
     \/ /\ child[w] = "exit0" /\ error[Pset(w)]
        /\ wpc' = [wpc EXCEPT ![w] = "release"]
        /\ outcome' = [outcome EXCEPT ![w] = "failed"]
     \/ /\ child[w] = "exit1"
        /\ wpc' = [wpc EXCEPT ![w] = "record"]
        /\ outcome' = [outcome EXCEPT ![w] = "failed"]
  /\ child' = [child EXCEPT ![w] = "none"]
  /\ UNCHANGED <<redisVars, lock, dbVars, wjob, seen, running, abort, apiVars, faults,
                 histVars>>

\* A shutdown request is noticed while the subprocess is alive.
SeeAbort(w) ==
  /\ wpc[w] = "watch" /\ abort[w] /\ ChildAlive(w)
  /\ wpc' = [wpc EXCEPT ![w] = "term"]
  /\ outcome' = [outcome EXCEPT ![w] = "interrupted"]
  /\ UNCHANGED <<redisVars, lock, dbVars, wjob, seen, running, abort, child, apiVars,
                 faults, histVars>>

\* The deadline passes.  The job failed: a fault the environment chose.
SeeTimeout(w) ==
  /\ wpc[w] = "watch" /\ ~abort[w] /\ ChildAlive(w)
  /\ ran[wjob[w]] >= Timeout
  /\ wpc' = [wpc EXCEPT ![w] = "term"]
  /\ outcome' = [outcome EXCEPT ![w] = "failed"]
  /\ disturbed' = disturbed \union {Pset(w)}
  /\ UNCHANGED <<redisVars, lock, dbVars, wjob, seen, running, abort, child, apiVars,
                 faults, done, reported, shown>>

\* _terminate_proc: terminate, ten seconds to join, kill.  The spawned child has
\* imported worker.py and its SIGTERM handler with it, so until the kill it
\* works on and may even finish.  What the exit code is no longer matters.
TerminateChild(w) ==
  /\ wpc[w] = "term"
  /\ child' = [child EXCEPT ![w] = "none"]
  /\ wpc' = [wpc EXCEPT ![w] = "record"]
  /\ UNCHANGED <<redisVars, lock, dbVars, wjob, seen, outcome, running, abort, apiVars,
                 faults, histVars>>

\* _record_partset_job_failure.
RecordFailure(w) ==
  /\ wpc[w] = "record"
  /\ ReportFailure(wjob[w])
  /\ wpc' = [wpc EXCEPT ![w] = "release"]
  /\ UNCHANGED <<redisVars, lock, complete, partsReady, wjob, seen, outcome, running,
                 abort, child, apiVars, faults, done, disturbed>>

\* _release_job_locks.
ReleaseJobLocks(w) ==
  /\ wpc[w] = "release"
  /\ ReleaseImportLock(Pset(w))
  /\ wpc' = [wpc EXCEPT ![w] = "ack"]
  /\ UNCHANGED <<redisVars, dbVars, wjob, seen, outcome, running, abort, child, apiVars,
                 faults, histVars>>

\* The worker has no job in its hands any more.
PutDown(w) ==
  /\ wpc' = [wpc EXCEPT ![w] = AfterLoop(w)]
  /\ wjob' = [wjob EXCEPT ![w] = 0]
  /\ outcome' = [outcome EXCEPT ![w] = "success"]

\* Mutant: requeue_job leaves the entry in the processing list.
AckUnlessRequeued(w) ==
  /\ wpc[w] = "ack"
  /\ \/ /\ outcome[w] = "interrupted"
        /\ wpc' = [wpc EXCEPT ![w] = "push"]
        /\ UNCHANGED <<wjob, outcome, processing>>
     \/ /\ outcome[w] # "interrupted"
        /\ PutDown(w)
        /\ processing' = [processing EXCEPT ![wjob[w]] = "no"]
  /\ UNCHANGED <<queue, lastId, target, age, ran, lock, dbVars, seen, running, abort,
                 child, apiVars, faults, histVars>>

\* ack_job: LREM of the stamped entry.  requeue_job starts with it too.
AckJob(w) ==
  /\ wpc[w] = "ack"
  /\ processing' = [processing EXCEPT ![wjob[w]] = "no"]
  /\ \/ /\ outcome[w] = "interrupted"
        /\ wpc' = [wpc EXCEPT ![w] = "push"]
        /\ UNCHANGED <<wjob, outcome>>
     \/ outcome[w] # "interrupted" /\ PutDown(w)
  /\ UNCHANGED <<queue, lastId, target, age, ran, lock, dbVars, seen, running, abort,
                 child, apiVars, faults, histVars>>

\* requeue_job: LPUSH without started_at.  The loop then ends.
RequeueJob(w) ==
  /\ wpc[w] = "push"
  /\ queue' = Append(queue, wjob[w])
  /\ PutDown(w)
  /\ UNCHANGED <<processing, lastId, target, age, ran, lock, dbVars, seen, running, abort,
                 child, apiVars, faults, histVars>>

-----------------------------------------------------------------------------
(* Part generation, as far as the import jobs notice it (PartGen has it all).  *)

\* A gen_parts job publishes: finalize_part_generation clears the error, the way
\* out for a partset without labels leaves it.
MakePartsReady(p) ==
  /\ complete[p] /\ ~partsReady[p]
  /\ partsReady' = [partsReady EXCEPT ![p] = TRUE]
  /\ error' \in {error, [error EXCEPT ![p] = FALSE]}
  /\ UNCHANGED <<redisVars, lock, complete, workerVars, apiVars, faults, histVars>>

\* An edit, or the eviction of the part PDFs.
TakePartsDown(p) ==
  /\ partsReady[p]
  /\ partsReady' = [partsReady EXCEPT ![p] = FALSE]
  /\ UNCHANGED <<redisVars, lock, error, complete, workerVars, apiVars, faults, histVars>>

\* A gen_parts job fails: the import job of the partset exits 0 and finds an error.
FailPartGen(p) ==
  /\ complete[p] /\ Fault(p)
  /\ MarkPartsetError(p)
  /\ UNCHANGED <<redisVars, lock, complete, partsReady, workerVars, apiVars, done, reported,
                 shown>>

-----------------------------------------------------------------------------
(* The environment: signals, crashes, lost connections, time. *)

\* SIGTERM: RUNNING and _shutdown_requested change under whatever main is doing.
Shutdown(w) ==
  /\ wpc[w] # "off" /\ running[w]
  /\ faults < MaxFaults
  /\ faults' = faults + 1
  /\ running' = [running EXCEPT ![w] = FALSE]
  /\ abort' = [abort EXCEPT ![w] = TRUE]
  /\ disturbed' = IF InHand(w) THEN disturbed \union {Pset(w)} ELSE disturbed
  /\ UNCHANGED <<redisVars, lock, dbVars, wpc, wjob, seen, outcome, child, apiVars, done,
                 reported, shown>>

\* The container dies (SIGKILL after the stop grace period, an uncaught MySQL
\* error, the host): the child with it, what Redis and MySQL hold stays.
CrashWorker(w) ==
  /\ wpc[w] # "off"
  /\ faults < MaxFaults
  /\ faults' = faults + 1
  /\ disturbed' = IF InHand(w) THEN disturbed \union {Pset(w)} ELSE disturbed
  /\ wpc' = [wpc EXCEPT ![w] = "off"]
  /\ wjob' = [wjob EXCEPT ![w] = 0]
  /\ outcome' = [outcome EXCEPT ![w] = "success"]
  /\ seen' = [seen EXCEPT ![w] = "no"]
  /\ child' = [child EXCEPT ![w] = "none"]
  /\ running' = [running EXCEPT ![w] = FALSE]
  /\ abort' = [abort EXCEPT ![w] = FALSE]
  /\ UNCHANGED <<redisVars, lock, dbVars, apiVars, done, reported, shown>>

\* A Redis connection error: main drops the job it holds and polls again.  A
\* reply lost after its command took effect is the loss at the next command.
LoseRedis(w) ==
  /\ wpc[w] \in {"claimed", "stamped", "release", "ack", "push", "reapAck"}
  /\ Fault(Pset(w))
  /\ PutDown(w)
  /\ seen' = [seen EXCEPT ![w] = "no"]
  /\ UNCHANGED <<redisVars, lock, dbVars, running, abort, child, apiVars, done,
                 reported, shown>>

\* Nothing that does not wait is under way.
Settled ==
  /\ \A r \in Requests : rpc[r] = "none"
  /\ \A w \in Workers :
       \/ wpc[w] = "off"
       \/ wpc[w] = "idle" /\ running[w] /\ queue = <<>> /\ \A j \in JobIds : ~IsStale(j)
       \/ /\ wpc[w] = "watch" /\ child[w] = "run" /\ ~abort[w]
          /\ ran[wjob[w]] < Timeout

InRedis(j) == InQueue(j) \/ processing[j] # "no"
Older(n)   == IF n < AgeCap THEN n + 1 ELSE n
\* Waiting in the queue for longer than the lock's slack disturbs a partset: the
\* lock may expire before the job has run.
Overdue    == {target[j] : j \in {i \in JobIds : InQueue(i) /\ age'[i] >= LockSlack}}

Tick ==
  /\ Settled
  /\ age' = [j \in JobIds |-> IF InRedis(j) THEN Older(age[j]) ELSE age[j]]
  /\ ran' = [j \in JobIds |-> IF processing[j] = "stamped" THEN Older(ran[j]) ELSE ran[j]]
  /\ lock' = [p \in Partsets |-> IF lock[p] > 0 THEN lock[p] - 1 ELSE 0]
  /\ disturbed' = disturbed \union Overdue
  /\ UNCHANGED <<queue, processing, lastId, target, dbVars, workerVars, apiVars, faults,
                 done, reported, shown>>

-----------------------------------------------------------------------------
ApiStep(r) ==
  \/ AcquireLock(r) \/ LockBusy(r) \/ EnqueueJob(r) \/ CommitRequest(r)

\* What a live worker does next on its own.
LoopStep(w) ==
  \/ StopWorker(w) \/ ClaimJob(w) \/ StampJob(w) \/ SpawnChild(w)
  \/ BeginReap(w) \/ ReapEntry(w) \/ FailStaleJob(w) \/ AckStaleJob(w) \/ EndReap(w)
ParentStep(w) ==
  \/ SeeExit(w) \/ SeeAbort(w) \/ SeeTimeout(w) \/ TerminateChild(w)
  \/ RecordFailure(w) \/ ReleaseJobLocks(w) \/ AckJob(w) \/ RequeueJob(w)
\* What the child does once its fate is decided.
UnwindStep(w) ==
  MarkInChild(w) \/ ReleaseInChild(w) \/ RecordInChild(w)
ChildStep(w) ==
  CommitResult(w) \/ RaiseInChild(w) \/ UnwindStep(w) \/ KillChildOOM(w)
Environment(w) ==
  StartWorker(w) \/ Shutdown(w) \/ CrashWorker(w) \/ LoseRedis(w)

PartsStep(p) == MakePartsReady(p) \/ TakePartsDown(p) \/ FailPartGen(p)

Next ==
  \/ \E r \in Requests : BeginRequest(r) \/ ApiStep(r) \/ LoseRequest(r)
  \/ \E w \in Workers : LoopStep(w) \/ ParentStep(w) \/ ChildStep(w) \/ Environment(w)
  \/ \E p \in Generated : PartsStep(p)
  \/ Tick

Spec == Init /\ [][Next]_vars

\* A request runs to its end, a live worker and its child do not stand still,
\* Docker restarts a stopped worker (restart: unless-stopped), time passes.  A
\* child need not finish: the deadline is there for it.
Fairness ==
  /\ \A r \in Requests : WF_vars(ApiStep(r))
  /\ \A w \in Workers :
       /\ WF_vars(LoopStep(w)) /\ WF_vars(ParentStep(w)) /\ WF_vars(UnwindStep(w))
       /\ WF_vars(StartWorker(w))
  /\ SF_vars(Tick)

FairSpec == Spec /\ Fairness

-----------------------------------------------------------------------------
(* Properties. *)

\* The values every variable takes.
TypeOK ==
  /\ queue \in Seq(JobIds) /\ processing \in [JobIds -> Entry]
  /\ lastId \in Nat /\ target \in [JobIds -> Partsets]
  /\ age \in [JobIds -> Nat] /\ ran \in [JobIds -> Nat]
  /\ lock \in [Partsets -> 0..LockTTL]
  /\ error \in [Partsets -> BOOLEAN] /\ complete \in [Partsets -> BOOLEAN]
  /\ partsReady \in [Partsets -> BOOLEAN]
  /\ wpc \in [Workers -> WorkerPC] /\ wjob \in [Workers -> 0..MaxJobs]
  /\ seen \in [Workers -> Entry] /\ outcome \in [Workers -> Outcome]
  /\ running \in [Workers -> BOOLEAN] /\ abort \in [Workers -> BOOLEAN]
  /\ child \in [Workers -> ChildPC]
  /\ rpc \in [Requests -> RequestPC] /\ rkind \in [Requests -> {"ensure", "retry"}]
  /\ rpset \in [Requests -> Partsets] /\ rsaw \in [Requests -> BOOLEAN]
  /\ faults \in 0..MaxFaults /\ disturbed \subseteq Partsets
  /\ done \subseteq JobIds /\ reported \subseteq JobIds /\ shown \subseteq JobIds

\* Where a job is: a job in no list and in no worker's hands is closed.
Status(j) ==
  IF j > lastId THEN "new"
  ELSE IF InQueue(j) THEN "queued"
  ELSE IF processing[j] # "no" \/ \E w \in Workers : InHand(w) /\ wjob[w] = j THEN "held"
  ELSE "closed"

Ledger == INSTANCE JobLedger WITH
  Jobs <- JobIds, Owners <- Partsets, status <- [j \in JobIds |-> Status(j)],
  owner <- target, succeeded <- done, failed <- reported, shown <- shown

\* No job disappears without a result or a reported failure, the partset shows the
\* failure unless a job has brought it a result, and no job is run again on its own:
\* the queue, the processing list, the reaper and the requeue of an interrupted job
\* implement the ledger.
KeepsLedger == Ledger!Spec

\* A job is in one place: at most once in the queue, and then neither in the
\* processing list nor in a worker's hands; no two workers hold the same job,
\* though a reaper, a stamp and a requeue may be interleaved on its entry.
OnePlace ==
  /\ \A a, b \in 1..Len(queue) : queue[a] = queue[b] => a = b
  /\ \A j \in JobIds : InQueue(j) =>
       /\ processing[j] = "no"
       /\ \A w \in Workers : InHand(w) => wjob[w] # j
  /\ \A v, w \in Workers : InHand(v) /\ InHand(w) /\ wjob[v] = wjob[w] => v = w

\* The import lock excludes concurrent import jobs of a partset, queueing included,
\* until the first fault that touches the partset: a failed, timed-out, killed or
\* interrupted job, a lost worker, connection or request, or a wait in the queue
\* that uses up the lock's slack over the job timeout; or until the second release of
\* an imslp_import deletes the lock that a request has taken since the first.
ExclusiveUntilFault == \A v, w \in Workers :
  AtWork(v) /\ AtWork(w) /\ Pset(v) = Pset(w) /\ v # w => Pset(v) \in disturbed

\* api/app/services/import_lock.py: "Prevent concurrent import jobs (imslp_import /
\* import_pipeline) for the same partset."
NoConcurrentImports == \A v, w \in Workers :
  AtWork(v) /\ AtWork(w) /\ Pset(v) = Pset(w) => v = w

\* Every job that is enqueued is closed in the end: run, failed, or reaped.  (A closed
\* job stays closed, and there are MaxJobs at most.)
EveryJobCloses == []<>(\A j \in JobIds : j <= lastId => Status(j) = "closed")

\* No lock is left behind for good: if the owner keeps coming back, a partset is
\* complete or shows an error again and again, whatever crash, lost connection or
\* lost request left its lock in Redis with no job behind it.
NeverStuck ==
  (\A r \in Requests : WF_vars(BeginRequest(r))) =>
    \A p \in Partsets : []<>(complete[p] \/ error[p] \/ lastId = MaxJobs)
=============================================================================
