--------------------------- MODULE JobQueueProofs ---------------------------
(* Theorems about JobQueue, for every value of its constants. *)
EXTENDS JobQueue, TLAPS

\* The constants' types, as the proofs cite them.
LEMMA ConstantTypes ==
  /\ MaxJobs \in Nat /\ MaxFaults \in Nat /\ Timeout \in Nat \ {0} /\ Grace \in Nat
  /\ LockSlack \in Nat \ {0} /\ LockTTL \in Nat \ {0} /\ StaleAfter \in Nat
  /\ AgeCap \in Nat \ {0} /\ AgeCap >= LockTTL /\ AgeCap >= StaleAfter + 1
BY JobQueueAssumption DEF JobQueueAssumption, LockTTL, StaleAfter, AgeCap

LEMMA AfterLoopType == ASSUME NEW w PROVE AfterLoop(w) \in {"idle", "off"}
BY DEF AfterLoop

\* Where exceptions and finally clauses lead are places of the subprocess.
LEMMA ChildPlaces ==
  /\ ChildPC = {"none", "run", "committed", "closing", "raised", "marked", "reraised",
                "remarked", "unwound", "exit0", "exit1"}
  /\ \A at : Raised(at) \subseteq ChildPC \ {"none", "committed", "closing", "exit0"}
  /\ \A at : Unwound(at) \subseteq ChildPC \ {"none", "committed"}
  /\ \A at : at \notin {"committed", "closing"} => Unwound(at) \subseteq {"unwound", "reraised"}
BY DEF ChildPC, ChildLive, Raised, Unwound

\* A fault keeps its counter and the disturbed partsets in their types.
LEMMA FaultType ==
  ASSUME TypeOK, NEW p \in Partsets, Fault(p)
  PROVE  faults' \in 0..MaxFaults /\ disturbed' \subseteq Partsets
BY ConstantTypes DEF TypeOK, Fault

-----------------------------------------------------------------------------
(* Type correctness.  It is inductive together with what a worker holds. *)

\* A worker that holds or reaps a job names it; a subprocess exists only while its
\* parent watches or terminates it.
HandsOK == \A w \in Workers :
  /\ InHand(w) \/ wpc[w] \in {"reapMark", "reapAck"} => wjob[w] \in JobIds
  /\ child[w] # "none" => wpc[w] \in {"watch", "term"}

WellFormed == TypeOK /\ HandsOK

LEMMA JobNumbers == \A j \in JobIds : j \in 0..MaxJobs
  BY ConstantTypes DEF JobIds

LEMMA InitWellFormed == Init => WellFormed
<1> SUFFICES ASSUME Init PROVE WellFormed
  OBVIOUS
<1>1. (CHOOSE p \in Partsets : TRUE) \in Partsets
  BY JobQueueAssumption DEF JobQueueAssumption
<1> QED
  BY <1>1, ConstantTypes
  DEF Init, WellFormed, TypeOK, HandsOK, InHand, JobIds, Entry, WorkerPC, Outcome, ChildPC,
      RequestPC, ChildLive

\* What a busy or reaping worker works on.
LEMMA HeldJob ==
  ASSUME WellFormed, NEW w \in Workers,
         InHand(w) \/ wpc[w] \in {"reapMark", "reapAck"} \/ child[w] # "none"
  PROVE  wjob[w] \in JobIds /\ Pset(w) \in Partsets
<1>1. wjob[w] \in JobIds
  BY DEF WellFormed, HandsOK, InHand
<1> QED
  BY <1>1 DEF WellFormed, TypeOK, Pset

LEMMA HeadAndTail ==
  ASSUME NEW S, NEW q \in Seq(S), q # <<>>
  PROVE  Head(q) \in S /\ Tail(q) \in Seq(S)
OBVIOUS

LEMMA PutDownType ==
  ASSUME TypeOK, NEW w \in Workers, PutDown(w)
  PROVE  /\ wpc' \in [Workers -> WorkerPC] /\ wjob' \in [Workers -> 0..MaxJobs]
         /\ outcome' \in [Workers -> Outcome]
BY ConstantTypes, AfterLoopType DEF TypeOK, PutDown, WorkerPC, Outcome

LEMMA PutDownHands ==
  ASSUME WellFormed, NEW w \in Workers, PutDown(w), wpc[w] \notin {"watch", "term"},
         UNCHANGED child
  PROVE  HandsOK'
BY AfterLoopType DEF WellFormed, TypeOK, HandsOK, PutDown, InHand

LEMMA ErrorType ==
  ASSUME WellFormed, NEW p \in Partsets, MarkPartsetError(p)
  PROVE  error' \in [Partsets -> BOOLEAN]
<1>1. error \in [Partsets -> BOOLEAN]
  BY DEF WellFormed, TypeOK
<1>2. (error[p] \/ ~partsReady[p]) \in BOOLEAN
  OBVIOUS
<1>3. error' = [error EXCEPT ![p] = error[p] \/ ~partsReady[p]]
  BY DEF MarkPartsetError
<1> QED
  BY <1>1, <1>2, <1>3

\* Only the partset that is marked may show an error that it did not show before.
LEMMA MarkShows ==
  ASSUME WellFormed, NEW p \in Partsets, MarkPartsetError(p)
  PROVE  \A q \in Partsets : error'[q] => error[q] \/ q = p
<1>1. error \in [Partsets -> BOOLEAN]
  BY DEF WellFormed, TypeOK
<1>2. \A q \in Partsets : q # p => error'[q] = error[q]
  BY <1>1 DEF MarkPartsetError
<1> QED
  BY <1>2

LEMMA ReportType ==
  ASSUME WellFormed, NEW j \in JobIds, ReportFailure(j)
  PROVE  /\ error' \in [Partsets -> BOOLEAN]
         /\ reported' \subseteq JobIds /\ shown' \subseteq JobIds
<1>1. target[j] \in Partsets
  BY DEF WellFormed, TypeOK
<1>2. error' \in [Partsets -> BOOLEAN]
  BY <1>1, ErrorType DEF ReportFailure
<1>3. reported' \subseteq JobIds /\ shown' \subseteq JobIds
  BY DEF ReportFailure, WellFormed, TypeOK
<1> QED
  BY <1>2, <1>3

LEMMA LockType ==
  ASSUME WellFormed, NEW p \in Partsets, ReleaseImportLock(p)
  PROVE  lock' \in [Partsets -> 0..LockTTL]
BY ConstantTypes DEF WellFormed, TypeOK, ReleaseImportLock

LEMMA RequestWellFormed ==
  ASSUME WellFormed, NEW r \in Requests,
         BeginRequest(r) \/ ApiStep(r) \/ LoseRequest(r)
  PROVE  WellFormed'
<1>0. /\ rpc \in [Requests -> RequestPC] /\ rkind \in [Requests -> {"ensure", "retry"}]
      /\ rpset \in [Requests -> Partsets] /\ rsaw \in [Requests -> BOOLEAN]
  BY DEF WellFormed, TypeOK
<1>1. CASE BeginRequest(r)
  <2>1. PICK p \in Partsets :
          /\ rpset' = [rpset EXCEPT ![r] = p]
          /\ rsaw' = [rsaw EXCEPT ![r] = error[p]]
    BY <1>1, Zenon DEF BeginRequest
  <2>2. error[p] \in BOOLEAN
    BY Zenon DEF WellFormed, TypeOK
  <2>3. rsaw' \in [Requests -> BOOLEAN]
    BY <1>0, <2>1, <2>2
  <2>4. rpset' \in [Requests -> Partsets]
    BY <1>0, <2>1
  <2>5. rpc' \in [Requests -> RequestPC] /\ rkind' \in [Requests -> {"ensure", "retry"}]
    BY <1>0, <1>1 DEF BeginRequest, RequestPC
  <2> QED
    BY <1>1, <2>3, <2>4, <2>5
    DEF BeginRequest, WellFormed, TypeOK, HandsOK, InHand, redisVars, dbVars, workerVars,
        histVars
<1>2. CASE AcquireLock(r)
  BY <1>2, ConstantTypes
  DEF AcquireLock, WellFormed, TypeOK, HandsOK, InHand, redisVars, dbVars, workerVars,
      histVars, RequestPC
<1>3. CASE LockBusy(r)
  BY <1>3
  DEF LockBusy, EndRequest, WellFormed, TypeOK, HandsOK, InHand, redisVars, dbVars,
      workerVars, histVars, RequestPC
<1>4. CASE EnqueueJob(r)
  <2>1. lastId + 1 \in JobIds /\ lastId + 1 \in Nat
    BY <1>4, ConstantTypes DEF EnqueueJob, JobIds, WellFormed, TypeOK
  <2>2. /\ queue' \in Seq(JobIds) /\ target' \in [JobIds -> Partsets]
        /\ rpc' \in [Requests -> RequestPC] /\ lastId' \in 0..MaxJobs
    BY <1>4, <2>1, JobNumbers DEF EnqueueJob, WellFormed, TypeOK, RequestPC
  <2>3. HandsOK'
    BY <1>4 DEF EnqueueJob, WellFormed, HandsOK, InHand, workerVars
  <2>4. lastId' \in Nat
    BY <1>4, <2>1 DEF EnqueueJob
  <2>5. UNCHANGED <<processing, age, ran, lock, error, complete, partsReady, wpc, wjob, seen, outcome,
                    running, abort, child, rkind, rpset, rsaw, faults, done, reported, shown, disturbed>>
    BY <1>4 DEF EnqueueJob, dbVars, workerVars, histVars
  <2>6. TypeOK'
    BY <2>2, <2>4, <2>5 DEF WellFormed, TypeOK
  <2> QED
    BY <2>3, <2>6 DEF WellFormed
<1>5. CASE CommitRequest(r)
  BY <1>5
  DEF CommitRequest, EndRequest, WellFormed, TypeOK, HandsOK, InHand, redisVars, workerVars,
      histVars, RequestPC
<1>6. CASE LoseRequest(r)
  <2>1. faults' \in 0..MaxFaults /\ disturbed' \subseteq Partsets
    BY <1>0, <1>6, FaultType DEF LoseRequest, WellFormed
  <2> QED
    BY <1>6, <2>1
    DEF LoseRequest, EndRequest, WellFormed, TypeOK, HandsOK, InHand, redisVars, dbVars,
        workerVars, RequestPC
<1> QED
  BY <1>1, <1>2, <1>3, <1>4, <1>5, <1>6 DEF ApiStep

LEMMA LoopWellFormed ==
  ASSUME WellFormed, NEW w \in Workers, LoopStep(w) \/ StartWorker(w)
  PROVE  WellFormed'
<1> USE DEF WellFormed, TypeOK, HandsOK, InHand, dbVars, apiVars, histVars
<1>1. CASE StartWorker(w)
  BY <1>1 DEF StartWorker, redisVars, WorkerPC
<1>2. CASE StopWorker(w)
  BY <1>2 DEF StopWorker, redisVars, WorkerPC
<1>3. CASE ClaimJob(w)
  <2>1. Head(queue) \in JobIds /\ Tail(queue) \in Seq(JobIds) /\ Head(queue) \in 0..MaxJobs
    <3>1. queue \in Seq(JobIds) /\ queue # <<>>
      BY <1>3 DEF ClaimJob
    <3>2. Head(queue) \in JobIds /\ Tail(queue) \in Seq(JobIds)
      BY <3>1, HeadAndTail
    <3> QED
      BY <3>2, JobNumbers
  <2>2. processing' \in [JobIds -> Entry]
    BY <1>3, <2>1 DEF ClaimJob, Entry
  <2>3. wpc' \in [Workers -> WorkerPC] /\ wjob' \in [Workers -> 0..MaxJobs]
    BY <1>3, <2>1 DEF ClaimJob, WorkerPC
  <2>4. HandsOK'
    <3> SUFFICES ASSUME NEW v \in Workers
                 PROVE  /\ InHand(v)' \/ wpc'[v] \in {"reapMark", "reapAck"} => wjob'[v] \in JobIds
                        /\ child'[v] # "none" => wpc'[v] \in {"watch", "term"}
      OBVIOUS
    <3>1. CASE v = w
      BY <1>3, <2>1, <3>1 DEF ClaimJob
    <3>2. CASE v # w
      BY <1>3, <3>2 DEF ClaimJob
    <3> QED
      BY <3>1, <3>2
  <2> QED
    BY <1>3, <2>1, <2>2, <2>3, <2>4 DEF ClaimJob
<1>4. CASE StampJob(w)
  BY <1>4 DEF StampJob, Entry, WorkerPC
<1>5. CASE SpawnChild(w)
  BY <1>5, ChildPlaces DEF SpawnChild, redisVars, WorkerPC, Outcome
<1>6. CASE BeginReap(w)
  BY <1>6 DEF BeginReap, redisVars, WorkerPC
<1>7. CASE ReapEntry(w)
  <2>1. PICK j \in JobIds :
          /\ wjob' = [wjob EXCEPT ![w] = j] /\ seen' = [seen EXCEPT ![w] = processing[j]]
    BY <1>7 DEF ReapEntry
  <2>2. j \in 0..MaxJobs /\ processing[j] \in Entry
    BY ConstantTypes DEF JobIds
  <2>3. wjob' \in [Workers -> 0..MaxJobs] /\ seen' \in [Workers -> Entry]
    BY <2>1, <2>2
  <2>4. HandsOK'
    BY <1>7, <2>1 DEF ReapEntry
  <2> QED
    BY <1>7, <2>3, <2>4 DEF ReapEntry, redisVars, WorkerPC
<1>8. CASE FailStaleJob(w)
  <2>1. wjob[w] \in JobIds /\ Pset(w) \in Partsets
    BY <1>8, HeldJob DEF FailStaleJob
  <2>2. error' \in [Partsets -> BOOLEAN] /\ reported' \subseteq JobIds /\ shown' \subseteq JobIds
    BY <1>8, <2>1, ReportType DEF FailStaleJob
  <2> QED
    BY <1>8, <2>1, <2>2 DEF FailStaleJob, redisVars, WorkerPC
<1>9. CASE AckStaleJob(w)
  <2>1. wjob[w] \in JobIds
    BY <1>9, HeldJob DEF AckStaleJob
  <2>2. processing' \in [JobIds -> Entry]
    BY <1>9, <2>1 DEF AckStaleJob, Entry
  <2>3. /\ wpc' \in [Workers -> WorkerPC] /\ wjob' \in [Workers -> 0..MaxJobs]
        /\ seen' \in [Workers -> Entry]
    BY <1>9, ConstantTypes DEF AckStaleJob, WorkerPC, Entry
  <2>4. HandsOK'
    BY <1>9 DEF AckStaleJob
  <2> QED
    BY <1>9, <2>2, <2>3, <2>4 DEF AckStaleJob
<1>10. CASE EndReap(w)
  <2>1. AfterLoop(w) \in WorkerPC /\ AfterLoop(w) \in {"idle", "off"}
    BY AfterLoopType DEF WorkerPC
  <2>2. wpc' = [wpc EXCEPT ![w] = AfterLoop(w)] /\ UNCHANGED <<wjob, child>> /\ wpc[w] = "scan"
    BY <1>10 DEF EndReap
  <2>3. HandsOK' /\ wpc' \in [Workers -> WorkerPC]
    BY <2>1, <2>2
  <2> QED
    BY <1>10, <2>3 DEF EndReap, redisVars
<1> QED
  BY <1>1, <1>2, <1>3, <1>4, <1>5, <1>6, <1>7, <1>8, <1>9, <1>10 DEF LoopStep

LEMMA ChildMoves ==
  ASSUME WellFormed, NEW w \in Workers, NEW to \in ChildPC, child[w] # "none",
         child' = [child EXCEPT ![w] = to], UNCHANGED <<wpc, wjob>>
  PROVE  child' \in [Workers -> ChildPC] /\ HandsOK'
BY DEF WellFormed, TypeOK, HandsOK, InHand

LEMMA ChildWellFormed ==
  ASSUME WellFormed, NEW w \in Workers, ChildStep(w)
  PROVE  WellFormed'
<1> USE DEF WellFormed, TypeOK, HandsOK, InHand, redisVars, apiVars
<1>0. wjob[w] \in JobIds /\ Pset(w) \in Partsets /\ child[w] # "none"
  <2>1. child[w] # "none"
    BY DEF ChildStep, UnwindStep, CommitResult, RaiseInChild, MarkInChild, ReleaseInChild,
           RecordInChild, KillChildOOM, ChildAlive, ChildLive
  <2> QED
    BY <2>1, HeldJob
<1>1. CASE CommitResult(w)
  <2>0. child' \in [Workers -> ChildPC] /\ HandsOK'
    BY <1>0, <1>1, ChildPlaces, ChildMoves DEF CommitResult
  <2>1. complete' \in [Partsets -> BOOLEAN] /\ done' \subseteq JobIds
    BY <1>0, <1>1 DEF CommitResult
  <2> QED
    BY <1>0, <1>1, <2>0, <2>1 DEF CommitResult
<1>2. CASE RaiseInChild(w)
  <2>0. child' \in [Workers -> ChildPC] /\ HandsOK'
    BY <1>0, <1>2, ChildPlaces, ChildMoves DEF RaiseInChild
  <2>1. faults' \in 0..MaxFaults /\ disturbed' \subseteq Partsets
    BY <1>0, <1>2, FaultType DEF RaiseInChild
  <2> QED
    BY <1>0, <1>2, <2>0, <2>1 DEF RaiseInChild, dbVars
<1>3. CASE MarkInChild(w)
  <2>0. child' \in [Workers -> ChildPC] /\ HandsOK'
    BY <1>0, <1>3, ChildPlaces, ChildMoves DEF MarkInChild
  <2>1. error' \in [Partsets -> BOOLEAN] /\ reported' \subseteq JobIds /\ shown' \subseteq JobIds
    BY <1>0, <1>3, ReportType DEF MarkInChild
  <2> QED
    BY <1>0, <1>3, <2>0, <2>1 DEF MarkInChild, histVars
<1>4. CASE ReleaseInChild(w)
  <2>0. child' \in [Workers -> ChildPC] /\ HandsOK'
    BY <1>0, <1>4, ChildPlaces, ChildMoves DEF ReleaseInChild
  <2>1. lock' \in [Partsets -> 0..LockTTL]
    BY <1>0, <1>4, LockType DEF ReleaseInChild
  <2> QED
    BY <1>0, <1>4, <2>0, <2>1 DEF ReleaseInChild, dbVars, histVars
<1>5. CASE RecordInChild(w)
  <2>0. child' \in [Workers -> ChildPC] /\ HandsOK'
    BY <1>0, <1>5, ChildPlaces, ChildMoves DEF RecordInChild
  <2>1. error' \in [Partsets -> BOOLEAN] /\ reported' \subseteq JobIds /\ shown' \subseteq JobIds
    BY <1>0, <1>5, ReportType DEF RecordInChild
  <2> QED
    BY <1>0, <1>5, <2>0, <2>1 DEF RecordInChild, histVars
<1>6. CASE KillChildOOM(w)
  <2>0. child' \in [Workers -> ChildPC] /\ HandsOK'
    BY <1>0, <1>6, ChildPlaces, ChildMoves DEF KillChildOOM
  <2>1. faults' \in 0..MaxFaults /\ disturbed' \subseteq Partsets
    BY <1>0, <1>6, FaultType DEF KillChildOOM
  <2> QED
    BY <1>0, <1>6, <2>0, <2>1 DEF KillChildOOM, dbVars
<1> QED
  BY <1>1, <1>2, <1>3, <1>4, <1>5, <1>6 DEF ChildStep, UnwindStep

LEMMA ParentWellFormed ==
  ASSUME WellFormed, NEW w \in Workers, ParentStep(w)
  PROVE  WellFormed'
<1> USE DEF WellFormed, TypeOK, HandsOK, InHand, dbVars, apiVars, histVars, WorkerPC
<1>0. wjob[w] \in JobIds /\ Pset(w) \in Partsets
  <2>1. InHand(w)
    BY DEF ParentStep, SeeExit, SeeAbort, SeeTimeout, TerminateChild, RecordFailure,
           ReleaseJobLocks, AckJob, RequeueJob
  <2> QED
    BY <2>1, HeldJob
<1>1. CASE SeeExit(w)
  <2>1. wpc' \in [Workers -> WorkerPC] /\ outcome' \in [Workers -> Outcome]
    BY <1>1 DEF SeeExit, Outcome
  <2>2. child' \in [Workers -> ChildPC]
    BY <1>1, ChildPlaces DEF SeeExit
  <2>3. HandsOK'
    BY <1>0, <1>1 DEF SeeExit
  <2> QED
    BY <1>1, <2>1, <2>2, <2>3 DEF SeeExit, redisVars
<1>2. CASE SeeAbort(w)
  <2>1. wpc' \in [Workers -> WorkerPC] /\ outcome' \in [Workers -> Outcome]
    BY <1>2 DEF SeeAbort, Outcome
  <2>2. HandsOK'
    BY <1>0, <1>2 DEF SeeAbort
  <2> QED
    BY <1>2, <2>1, <2>2 DEF SeeAbort, redisVars
<1>3. CASE SeeTimeout(w)
  BY <1>0, <1>3 DEF SeeTimeout, redisVars, Outcome
<1>4. CASE TerminateChild(w)
  BY <1>4, ChildPlaces DEF TerminateChild, redisVars
<1>5. CASE RecordFailure(w)
  <2>1. error' \in [Partsets -> BOOLEAN] /\ reported' \subseteq JobIds /\ shown' \subseteq JobIds
    BY <1>0, <1>5, ReportType DEF RecordFailure
  <2> QED
    BY <1>0, <1>5, <2>1 DEF RecordFailure, redisVars
<1>6. CASE ReleaseJobLocks(w)
  <2>1. lock' \in [Partsets -> 0..LockTTL]
    BY <1>0, <1>6, LockType DEF ReleaseJobLocks
  <2> QED
    BY <1>6, <2>1 DEF ReleaseJobLocks, redisVars
<1>7. CASE AckJob(w)
  <2>1. processing' \in [JobIds -> Entry]
    BY <1>0, <1>7 DEF AckJob, Entry
  <2>2. /\ wpc' \in [Workers -> WorkerPC] /\ wjob' \in [Workers -> 0..MaxJobs]
        /\ outcome' \in [Workers -> Outcome]
    <3>1. CASE outcome[w] = "interrupted"
      BY <1>7, <3>1 DEF AckJob
    <3>2. CASE outcome[w] # "interrupted"
      BY <1>7, <3>2, PutDownType DEF AckJob
    <3> QED
      BY <3>1, <3>2
  <2>3. HandsOK'
    <3>1. CASE outcome[w] = "interrupted"
      BY <1>0, <1>7, <3>1 DEF AckJob
    <3>2. CASE outcome[w] # "interrupted"
      BY <1>7, <3>2, PutDownHands DEF AckJob
    <3> QED
      BY <3>1, <3>2
  <2> QED
    BY <1>7, <2>1, <2>2, <2>3 DEF AckJob
<1>8. CASE RequeueJob(w)
  <2>1. queue' \in Seq(JobIds)
    BY <1>0, <1>8 DEF RequeueJob
  <2>2. /\ wpc' \in [Workers -> WorkerPC] /\ wjob' \in [Workers -> 0..MaxJobs]
        /\ outcome' \in [Workers -> Outcome]
    BY <1>8, PutDownType DEF RequeueJob
  <2>3. HandsOK'
    BY <1>8, PutDownHands DEF RequeueJob
  <2> QED
    BY <1>8, <2>1, <2>2, <2>3 DEF RequeueJob
<1> QED
  BY <1>1, <1>2, <1>3, <1>4, <1>5, <1>6, <1>7, <1>8 DEF ParentStep

LEMMA EnvironmentWellFormed ==
  ASSUME WellFormed, NEW w \in Workers, Shutdown(w) \/ CrashWorker(w) \/ LoseRedis(w)
  PROVE  WellFormed'
<1> USE DEF WellFormed, TypeOK, HandsOK, redisVars, dbVars, apiVars
<1>1. CASE Shutdown(w)
  <2>1. disturbed' \subseteq Partsets
    BY <1>1, HeldJob DEF Shutdown
  <2>2. faults' \in 0..MaxFaults
    BY <1>1, ConstantTypes DEF Shutdown
  <2>3. running' \in [Workers -> BOOLEAN] /\ abort' \in [Workers -> BOOLEAN]
    BY <1>1 DEF Shutdown
  <2>4. HandsOK'
    BY <1>1 DEF Shutdown, InHand
  <2> QED
    BY <1>1, <2>1, <2>2, <2>3, <2>4 DEF Shutdown
<1>2. CASE CrashWorker(w)
  <2>1. disturbed' \subseteq Partsets
    BY <1>2, HeldJob DEF CrashWorker
  <2>2. faults' \in 0..MaxFaults
    BY <1>2, ConstantTypes DEF CrashWorker
  <2>3. running' \in [Workers -> BOOLEAN] /\ abort' \in [Workers -> BOOLEAN]
    BY <1>2 DEF CrashWorker
  <2>4. /\ wpc' \in [Workers -> WorkerPC] /\ wjob' \in [Workers -> 0..MaxJobs]
        /\ outcome' \in [Workers -> Outcome] /\ seen' \in [Workers -> Entry]
        /\ child' \in [Workers -> ChildPC]
    BY <1>2, ConstantTypes DEF CrashWorker, WorkerPC, Outcome, Entry, ChildPC
  <2>5. HandsOK'
    BY <1>2 DEF CrashWorker, InHand
  <2> QED
    BY <1>2, <2>1, <2>2, <2>3, <2>4, <2>5 DEF CrashWorker
<1>3. CASE LoseRedis(w)
  <2>1. Pset(w) \in Partsets /\ Fault(Pset(w)) /\ wpc[w] \notin {"watch", "term"}
    BY <1>3, HeldJob DEF LoseRedis, InHand
  <2>2. faults' \in 0..MaxFaults /\ disturbed' \subseteq Partsets
    BY <2>1, FaultType
  <2>3. /\ wpc' \in [Workers -> WorkerPC] /\ wjob' \in [Workers -> 0..MaxJobs]
        /\ outcome' \in [Workers -> Outcome] /\ seen' \in [Workers -> Entry]
    BY <1>3, ConstantTypes, PutDownType DEF LoseRedis, Entry
  <2>4. HandsOK'
    BY <1>3, <2>1, AfterLoopType DEF LoseRedis, PutDown, InHand
  <2> QED
    BY <1>3, <2>2, <2>3, <2>4 DEF LoseRedis
<1> QED
  BY <1>1, <1>2, <1>3

LEMMA TickWellFormed == ASSUME WellFormed, Tick PROVE WellFormed'
<1>1. age' \in [JobIds -> Nat] /\ ran' \in [JobIds -> Nat]
  BY DEF WellFormed, TypeOK, Tick, Older
<1>2. lock' \in [Partsets -> 0..LockTTL]
  BY ConstantTypes DEF WellFormed, TypeOK, Tick
<1>3. Overdue \subseteq Partsets
  BY DEF WellFormed, TypeOK, Overdue
<1> QED
  BY <1>1, <1>2, <1>3
  DEF WellFormed, TypeOK, HandsOK, InHand, Tick, dbVars, workerVars, apiVars

LEMMA PartsWellFormed ==
  ASSUME WellFormed, NEW p \in Partsets, PartsStep(p)
  PROVE  WellFormed'
<1> USE DEF WellFormed, TypeOK, HandsOK, InHand, redisVars, workerVars, apiVars, histVars
<1>1. CASE MakePartsReady(p)
  <2>1. [error EXCEPT ![p] = FALSE] \in [Partsets -> BOOLEAN]
    OBVIOUS
  <2>2. error' \in [Partsets -> BOOLEAN] /\ partsReady' \in [Partsets -> BOOLEAN]
    BY <1>1, <2>1 DEF MakePartsReady
  <2> QED
    BY <1>1, <2>2 DEF MakePartsReady
<1>2. CASE TakePartsDown(p)
  BY <1>2 DEF TakePartsDown
<1>3. CASE FailPartGen(p)
  <2>1. error' \in [Partsets -> BOOLEAN]
    BY <1>3, ErrorType DEF FailPartGen
  <2>2. faults' \in 0..MaxFaults /\ disturbed' \subseteq Partsets
    BY <1>3, FaultType DEF FailPartGen
  <2> QED
    BY <1>3, <2>1, <2>2 DEF FailPartGen
<1> QED
  BY <1>1, <1>2, <1>3 DEF PartsStep

LEMMA GeneratedArePartsets == Generated \subseteq Partsets
BY JobQueueAssumption DEF JobQueueAssumption

LEMMA StepWellFormed == ASSUME WellFormed, [Next]_vars PROVE WellFormed'
<1>1. CASE UNCHANGED vars
  BY <1>1 DEF WellFormed, TypeOK, HandsOK, InHand, vars, redisVars, dbVars, workerVars,
              apiVars, histVars
<1>2. CASE Tick
  BY <1>2, TickWellFormed
<1>3. ASSUME NEW r \in Requests, BeginRequest(r) \/ ApiStep(r) \/ LoseRequest(r)
      PROVE  WellFormed'
  BY <1>3, RequestWellFormed
<1>4. ASSUME NEW w \in Workers, LoopStep(w) \/ ParentStep(w) \/ ChildStep(w) \/ Environment(w)
      PROVE  WellFormed'
  BY <1>4, LoopWellFormed, ParentWellFormed, ChildWellFormed, EnvironmentWellFormed
  DEF Environment
<1>5. ASSUME NEW p \in Generated, PartsStep(p) PROVE WellFormed'
  BY <1>5, GeneratedArePartsets, PartsWellFormed
<1> QED
  BY <1>1, <1>2, <1>3, <1>4, <1>5 DEF Next

\* Every variable keeps its type, and workers and their subprocesses fit together.
THEOREM AlwaysWellFormed == Spec => []WellFormed
BY InitWellFormed, StepWellFormed, PTL DEF Spec

\* The type invariant of the queue.
THEOREM TypeCorrect == Spec => []TypeOK
BY AlwaysWellFormed, PTL DEF WellFormed
-----------------------------------------------------------------------------
(* A job is in one place.  Inductive with what is known of jobs that do not   *)
(* exist yet and of a job between the two halves of its requeue.              *)

\* A job that has not been enqueued is nowhere; one on its way back to the queue
\* has left the processing list.
PlaceInv ==
  /\ OnePlace
  /\ \A j \in JobIds : j > lastId =>
       ~InQueue(j) /\ processing[j] = "no" /\ \A w \in Workers : InHand(w) => wjob[w] # j
  /\ \A w \in Workers : wpc[w] = "push" => processing[wjob[w]] = "no"

\* A step that queues nothing, lists nothing and puts nothing into a worker's hands.
Calm ==
  /\ UNCHANGED <<queue, lastId>>
  /\ \A j \in JobIds : processing'[j] \in {processing[j], "no"}
  /\ \A v \in Workers : InHand(v)' =>
       /\ InHand(v) /\ wjob'[v] = wjob[v]
       /\ wpc'[v] = "push" => wpc[v] = "push" \/ processing'[wjob[v]] = "no"

LEMMA CalmKeepsPlace == ASSUME WellFormed, PlaceInv, Calm PROVE PlaceInv'
<1>1. \A w \in Workers : InHand(w) => wjob[w] \in JobIds
  BY DEF WellFormed, HandsOK
<1>2. OnePlace'
  <2>1. \A j \in JobIds : InQueue(j)' <=> InQueue(j)
    BY DEF Calm, InQueue
  <2>2. (\A a, b \in 1..Len(queue) : queue[a] = queue[b] => a = b)'
    BY DEF Calm, PlaceInv, OnePlace
  <2>3. ASSUME NEW j \in JobIds, InQueue(j)
        PROVE  processing'[j] = "no" /\ \A w \in Workers : InHand(w)' => wjob'[w] # j
    BY <2>3 DEF Calm, PlaceInv, OnePlace
  <2>4. ASSUME NEW v \in Workers, NEW w \in Workers, InHand(v)', InHand(w)', wjob'[v] = wjob'[w]
        PROVE  v = w
    BY <2>4 DEF Calm, PlaceInv, OnePlace
  <2> QED
    BY <2>1, <2>2, <2>3, <2>4 DEF OnePlace
<1>3. ASSUME NEW j \in JobIds, j > lastId
      PROVE  ~InQueue(j)' /\ processing'[j] = "no" /\ \A w \in Workers : InHand(w)' => wjob'[w] # j
  BY <1>3 DEF Calm, PlaceInv, InQueue
<1>4. ASSUME NEW w \in Workers, wpc'[w] = "push" PROVE processing'[wjob'[w]] = "no"
  <2>1. InHand(w)'
    BY <1>4 DEF InHand
  <2>2. InHand(w) /\ wjob'[w] = wjob[w] /\ wjob[w] \in JobIds
    BY <1>1, <2>1 DEF Calm
  <2> QED
    BY <1>4, <2>1, <2>2 DEF Calm, PlaceInv
<1> QED
  BY <1>2, <1>3, <1>4 DEF PlaceInv, Calm

LEMMA RequestIsCalm ==
  ASSUME NEW r \in Requests,
         \/ BeginRequest(r) \/ AcquireLock(r) \/ LockBusy(r) \/ CommitRequest(r)
         \/ LoseRequest(r)
  PROVE  Calm
<1>1. UNCHANGED <<queue, processing, lastId, wpc, wjob>>
  BY DEF BeginRequest, AcquireLock, LockBusy, CommitRequest, LoseRequest, redisVars, workerVars
<1> QED
  BY <1>1 DEF Calm, InHand

LEMMA PartsAreCalm == ASSUME NEW p, PartsStep(p) PROVE Calm
<1>1. UNCHANGED <<queue, processing, lastId, wpc, wjob>>
  BY DEF PartsStep, MakePartsReady, TakePartsDown, FailPartGen, redisVars, workerVars
<1> QED
  BY <1>1 DEF Calm, InHand

LEMMA TickIsCalm == ASSUME Tick PROVE Calm
BY DEF Tick, workerVars, Calm, InHand

LEMMA ChildIsCalm == ASSUME NEW w \in Workers, ChildStep(w) PROVE Calm
<1>1. UNCHANGED <<queue, processing, lastId, wpc, wjob>>
  BY DEF ChildStep, UnwindStep, CommitResult, RaiseInChild, MarkInChild, ReleaseInChild,
         RecordInChild, KillChildOOM, redisVars
<1> QED
  BY <1>1 DEF Calm, InHand

LEMMA LoopIsCalm ==
  ASSUME WellFormed, NEW w \in Workers,
         \/ StartWorker(w) \/ StopWorker(w) \/ SpawnChild(w) \/ BeginReap(w) \/ ReapEntry(w)
         \/ FailStaleJob(w) \/ AckStaleJob(w) \/ EndReap(w)
  PROVE  Calm
<1> USE DEF Calm, InHand, redisVars
<1>0. wpc \in [Workers -> WorkerPC] /\ wjob \in [Workers -> 0..MaxJobs]
      /\ processing \in [JobIds -> Entry]
  BY DEF WellFormed, TypeOK
<1>1. CASE StartWorker(w)
  BY <1>0, <1>1 DEF StartWorker
<1>2. CASE StopWorker(w)
  BY <1>0, <1>2 DEF StopWorker
<1>3. CASE SpawnChild(w)
  BY <1>0, <1>3 DEF SpawnChild
<1>4. CASE BeginReap(w)
  BY <1>0, <1>4 DEF BeginReap
<1>5. CASE ReapEntry(w)
  BY <1>0, <1>5 DEF ReapEntry
<1>6. CASE FailStaleJob(w)
  BY <1>0, <1>6 DEF FailStaleJob
<1>7. CASE AckStaleJob(w)
  BY <1>0, <1>7 DEF AckStaleJob
<1>8. CASE EndReap(w)
  BY <1>0, <1>8, AfterLoopType DEF EndReap
<1> QED
  BY <1>1, <1>2, <1>3, <1>4, <1>5, <1>6, <1>7, <1>8

LEMMA ParentIsCalm ==
  ASSUME WellFormed, NEW w \in Workers, ParentStep(w), ~RequeueJob(w)
  PROVE  Calm
<1> USE DEF Calm, InHand, redisVars
<1>0. wpc \in [Workers -> WorkerPC] /\ wjob \in [Workers -> 0..MaxJobs]
      /\ processing \in [JobIds -> Entry]
  BY DEF WellFormed, TypeOK
<1>1. CASE SeeExit(w)
  BY <1>0, <1>1 DEF SeeExit
<1>2. CASE SeeAbort(w)
  BY <1>0, <1>2 DEF SeeAbort
<1>3. CASE SeeTimeout(w)
  BY <1>0, <1>3 DEF SeeTimeout
<1>4. CASE TerminateChild(w)
  BY <1>0, <1>4 DEF TerminateChild
<1>5. CASE RecordFailure(w)
  BY <1>0, <1>5 DEF RecordFailure
<1>6. CASE ReleaseJobLocks(w)
  BY <1>0, <1>6 DEF ReleaseJobLocks
<1>7. CASE AckJob(w)
  <2>1. wjob[w] \in JobIds
    BY <1>7 DEF AckJob, WellFormed, HandsOK
  <2>2. \A j \in JobIds : processing'[j] \in {processing[j], "no"}
    BY <1>0, <1>7, <2>1 DEF AckJob
  <2>3. processing'[wjob[w]] = "no"
    BY <1>0, <1>7, <2>1 DEF AckJob
  <2>4. CASE outcome[w] = "interrupted"
    BY <1>0, <1>7, <2>2, <2>3, <2>4 DEF AckJob
  <2>5. CASE outcome[w] # "interrupted"
    BY <1>0, <1>7, <2>2, <2>5, AfterLoopType DEF AckJob, PutDown
  <2> QED
    BY <2>4, <2>5
<1> QED
  BY <1>1, <1>2, <1>3, <1>4, <1>5, <1>6, <1>7 DEF ParentStep

LEMMA EnvironmentIsCalm ==
  ASSUME WellFormed, NEW w \in Workers, Shutdown(w) \/ CrashWorker(w) \/ LoseRedis(w)
  PROVE  Calm
<1> USE DEF Calm, InHand, redisVars
<1>0. wpc \in [Workers -> WorkerPC] /\ wjob \in [Workers -> 0..MaxJobs]
  BY DEF WellFormed, TypeOK
<1>1. CASE Shutdown(w)
  BY <1>0, <1>1 DEF Shutdown
<1>2. CASE CrashWorker(w)
  BY <1>0, <1>2 DEF CrashWorker
<1>3. CASE LoseRedis(w)
  BY <1>0, <1>3, AfterLoopType DEF LoseRedis, PutDown
<1> QED
  BY <1>1, <1>2, <1>3

\* Appending a job that is nowhere, or that a worker puts down, keeps it in one place.
LEMMA AppendToQueue ==
  ASSUME NEW q \in Seq(JobIds), NEW j \in JobIds
  PROVE  /\ Append(q, j) \in Seq(JobIds) /\ Len(Append(q, j)) = Len(q) + 1
         /\ \A i \in 1..Len(q) : Append(q, j)[i] = q[i]
         /\ Append(q, j)[Len(q) + 1] = j
OBVIOUS

LEMMA AppendKeepsPlace ==
  ASSUME WellFormed, PlaceInv, NEW j \in JobIds, queue' = Append(queue, j), ~InQueue(j)
  PROVE  /\ \A i \in JobIds : InQueue(i)' <=> InQueue(i) \/ i = j
         /\ \A a, b \in 1..Len(queue') : queue'[a] = queue'[b] => a = b
<1>1. /\ queue \in Seq(JobIds) /\ Len(queue) \in Nat /\ Len(queue') = Len(queue) + 1
      /\ \A i \in 1..Len(queue) : queue'[i] = queue[i]
      /\ queue'[Len(queue) + 1] = j
  BY AppendToQueue DEF WellFormed, TypeOK
<1>2. \A i \in 1..Len(queue') : i \in 1..Len(queue) \/ i = Len(queue) + 1
  BY <1>1
<1>3. \A i \in JobIds : InQueue(i)' <=> InQueue(i) \/ i = j
  BY <1>1, <1>2 DEF InQueue
<1>4. ASSUME NEW a \in 1..Len(queue'), NEW b \in 1..Len(queue'), queue'[a] = queue'[b]
      PROVE  a = b
  BY <1>1, <1>2, <1>4 DEF InQueue, PlaceInv, OnePlace
<1> QED
  BY <1>3, <1>4

\* Taking the head leaves every other job where it was.
LEMMA TailKeepsPlace ==
  ASSUME WellFormed, PlaceInv, queue # <<>>, queue' = Tail(queue)
  PROVE  /\ \A i \in JobIds : InQueue(i)' => InQueue(i) /\ i # Head(queue)
         /\ \A a, b \in 1..Len(queue') : queue'[a] = queue'[b] => a = b
         /\ InQueue(Head(queue)) /\ Head(queue) \in JobIds
<1>1. /\ queue \in Seq(JobIds) /\ Len(queue) \in Nat \ {0} /\ Len(queue') = Len(queue) - 1
      /\ \A i \in 1..Len(queue') : queue'[i] = queue[i + 1]
      /\ Head(queue) = queue[1] /\ Head(queue) \in JobIds
  BY HeadAndTail DEF WellFormed, TypeOK
<1>2. \A i \in 1..Len(queue') : i + 1 \in 1..Len(queue) /\ i + 1 # 1 /\ 1 \in 1..Len(queue)
  BY <1>1
<1>3. ASSUME NEW i \in JobIds, InQueue(i)' PROVE InQueue(i) /\ i # Head(queue)
  <2>1. PICK n \in 1..Len(queue') : queue'[n] = i
    BY <1>3 DEF InQueue
  <2> QED
    BY <1>1, <1>2, <2>1 DEF InQueue, PlaceInv, OnePlace
<1>4. ASSUME NEW a \in 1..Len(queue'), NEW b \in 1..Len(queue'), queue'[a] = queue'[b]
      PROVE  a = b
  BY <1>1, <1>2, <1>4 DEF PlaceInv, OnePlace
<1>5. InQueue(Head(queue))
  BY <1>1 DEF InQueue
<1> QED
  BY <1>1, <1>3, <1>4, <1>5

LEMMA EnqueueKeepsPlace ==
  ASSUME WellFormed, PlaceInv, NEW r \in Requests, EnqueueJob(r)
  PROVE  PlaceInv'
<1>1. lastId \in Nat /\ lastId + 1 \in JobIds /\ lastId' = lastId + 1
      /\ queue' = Append(queue, lastId + 1) /\ UNCHANGED <<processing, wpc, wjob>>
  BY ConstantTypes DEF EnqueueJob, WellFormed, TypeOK, JobIds, workerVars
<1>2. /\ ~InQueue(lastId + 1) /\ processing[lastId + 1] = "no"
      /\ \A w \in Workers : InHand(w) => wjob[w] # lastId + 1
  BY <1>1 DEF PlaceInv
<1>3. /\ \A i \in JobIds : InQueue(i)' <=> InQueue(i) \/ i = lastId + 1
      /\ \A a, b \in 1..Len(queue') : queue'[a] = queue'[b] => a = b
  BY <1>1, <1>2, AppendKeepsPlace
<1>4. \A w \in Workers : InHand(w)' <=> InHand(w)
  BY <1>1 DEF InHand
<1>5. OnePlace'
  BY <1>1, <1>2, <1>3, <1>4 DEF PlaceInv, OnePlace
<1>6. \A j \in JobIds : j > lastId + 1 => j > lastId /\ j # lastId + 1
  BY <1>1 DEF JobIds
<1> QED
  BY <1>1, <1>3, <1>4, <1>5, <1>6 DEF PlaceInv

LEMMA RequeueKeepsPlace ==
  ASSUME WellFormed, PlaceInv, NEW w \in Workers, RequeueJob(w)
  PROVE  PlaceInv'
<1>1. /\ InHand(w) /\ wjob[w] \in JobIds /\ processing[wjob[w]] = "no" /\ ~InQueue(wjob[w])
      /\ queue' = Append(queue, wjob[w]) /\ UNCHANGED <<processing, lastId>>
  BY DEF RequeueJob, WellFormed, HandsOK, InHand, PlaceInv, OnePlace
<1>2. /\ ~InHand(w)' /\ wpc'[w] # "push"
      /\ \A v \in Workers : v # w => wpc'[v] = wpc[v] /\ wjob'[v] = wjob[v]
  BY AfterLoopType DEF RequeueJob, PutDown, WellFormed, TypeOK, InHand
<1>3. \A v \in Workers : InHand(v)' => InHand(v) /\ v # w /\ wjob'[v] = wjob[v]
  BY <1>2 DEF InHand
<1>4. /\ \A i \in JobIds : InQueue(i)' <=> InQueue(i) \/ i = wjob[w]
      /\ \A a, b \in 1..Len(queue') : queue'[a] = queue'[b] => a = b
  BY <1>1, AppendKeepsPlace
<1>5. OnePlace'
  BY <1>1, <1>3, <1>4 DEF PlaceInv, OnePlace
<1>6. ~(wjob[w] > lastId)
  BY <1>1 DEF PlaceInv
<1> QED
  BY <1>1, <1>2, <1>3, <1>4, <1>5, <1>6 DEF PlaceInv

LEMMA ClaimKeepsPlace ==
  ASSUME WellFormed, PlaceInv, NEW w \in Workers, ClaimJob(w)
  PROVE  PlaceInv'
<1> DEFINE j == Head(queue)
<1>1. /\ \A i \in JobIds : InQueue(i)' => InQueue(i) /\ i # j
      /\ \A a, b \in 1..Len(queue') : queue'[a] = queue'[b] => a = b
      /\ InQueue(j) /\ j \in JobIds
  BY TailKeepsPlace DEF ClaimJob
<1>2. /\ \A i \in JobIds : i # j => processing'[i] = processing[i]
      /\ wpc'[w] = "claimed" /\ wjob'[w] = j
      /\ \A v \in Workers : v # w => wpc'[v] = wpc[v] /\ wjob'[v] = wjob[v]
      /\ UNCHANGED lastId
  BY <1>1 DEF ClaimJob, WellFormed, TypeOK
<1>3. \A v \in Workers : InHand(v) => wjob[v] # j
  BY <1>1 DEF PlaceInv, OnePlace
<1>4. \A v \in Workers : InHand(v)' => v = w \/ (InHand(v) /\ wjob'[v] = wjob[v])
  BY <1>2 DEF InHand
<1> HIDE DEF j
<1>5. OnePlace'
  BY <1>1, <1>2, <1>3, <1>4 DEF PlaceInv, OnePlace
<1>6. ~(j > lastId)
  BY <1>1 DEF PlaceInv
<1>7. \A v \in Workers : wpc'[v] = "push" =>
        v # w /\ wpc[v] = "push" /\ wjob'[v] = wjob[v] /\ InHand(v) /\ wjob[v] \in JobIds
  BY <1>2 DEF InHand, WellFormed, HandsOK
<1> QED
  BY <1>1, <1>2, <1>3, <1>4, <1>5, <1>6, <1>7 DEF PlaceInv

LEMMA StampKeepsPlace ==
  ASSUME WellFormed, PlaceInv, NEW w \in Workers, StampJob(w)
  PROVE  PlaceInv'
<1>1. InHand(w) /\ wjob[w] \in JobIds
  BY DEF StampJob, InHand, WellFormed, HandsOK
<1>2. /\ \A i \in JobIds : i # wjob[w] => processing'[i] = processing[i]
      /\ wpc'[w] = "stamped"
      /\ \A v \in Workers : v # w => wpc'[v] = wpc[v]
      /\ UNCHANGED <<queue, lastId, wjob>>
  BY <1>1 DEF StampJob, WellFormed, TypeOK
<1>3. \A v \in Workers : InHand(v)' => InHand(v)
  BY <1>1, <1>2 DEF InHand
<1>4. \A i \in JobIds : InQueue(i)' <=> InQueue(i)
  BY <1>2 DEF InQueue
<1>5. ~InQueue(wjob[w]) /\ ~(wjob[w] > lastId)
  BY <1>1 DEF PlaceInv, OnePlace
<1>6. OnePlace'
  BY <1>1, <1>2, <1>3, <1>4, <1>5 DEF PlaceInv, OnePlace
<1>7. \A v \in Workers : wpc'[v] = "push" =>
        /\ v # w /\ wpc[v] = "push" /\ InHand(v) /\ wjob[v] \in JobIds
        /\ wjob[v] # wjob[w]
  BY <1>1, <1>2 DEF InHand, WellFormed, HandsOK, PlaceInv, OnePlace
<1> QED
  BY <1>1, <1>2, <1>3, <1>4, <1>5, <1>6, <1>7 DEF PlaceInv

LEMMA InitPlace == Init => PlaceInv
BY DEF Init, PlaceInv, OnePlace, InQueue, InHand

LEMMA StepPlace == ASSUME WellFormed, PlaceInv, [Next]_vars PROVE PlaceInv'
<1>1. CASE UNCHANGED vars
  <2>1. Calm
    BY <1>1 DEF vars, redisVars, workerVars, Calm, InHand
  <2> QED
    BY <2>1, CalmKeepsPlace
<1>2. CASE Tick
  BY <1>2, TickIsCalm, CalmKeepsPlace
<1>3. ASSUME NEW r \in Requests, BeginRequest(r) \/ ApiStep(r) \/ LoseRequest(r)
      PROVE  PlaceInv'
  BY <1>3, EnqueueKeepsPlace, RequestIsCalm, CalmKeepsPlace DEF ApiStep
<1>4. ASSUME NEW w \in Workers, LoopStep(w) PROVE PlaceInv'
  BY <1>4, ClaimKeepsPlace, StampKeepsPlace, LoopIsCalm, CalmKeepsPlace DEF LoopStep
<1>5. ASSUME NEW w \in Workers, ParentStep(w) PROVE PlaceInv'
  BY <1>5, RequeueKeepsPlace, ParentIsCalm, CalmKeepsPlace
<1>6. ASSUME NEW w \in Workers, ChildStep(w) \/ Environment(w) PROVE PlaceInv'
  BY <1>6, ChildIsCalm, LoopIsCalm, EnvironmentIsCalm, CalmKeepsPlace DEF Environment
<1>7. ASSUME NEW p \in Generated, PartsStep(p) PROVE PlaceInv'
  BY <1>7, PartsAreCalm, CalmKeepsPlace
<1> QED
  BY <1>1, <1>2, <1>3, <1>4, <1>5, <1>6, <1>7 DEF Next

\* At every moment a job is in one place only: the queue, the processing list with
\* at most one worker holding it, or nowhere.
THEOREM JobInOnePlace == Spec => []OnePlace
<1>1. PlaceInv => OnePlace
  BY DEF PlaceInv
<1> QED
  BY <1>1, InitPlace, StepPlace, AlwaysWellFormed, PTL DEF Spec

-----------------------------------------------------------------------------
(* The import lock.  Until a partset is disturbed the lock has one owner: a     *)
(* request between the SET and the LPUSH, the queued job, or the worker that     *)
(* runs it; and what is left of the TTL covers what the owner still has to do.   *)
(* Everything that could take the lock away from its owner (a second release, a *)
(* failure path, the reaper, the TTL) has disturbed the partset before.          *)

\* The worker has a job whose lock is still needed.
Busy(w) == wpc[w] \in {"claimed", "stamped"} \/ AtWork(w)
\* The job needs the lock that was taken for it.
Open(j) == InQueue(j) \/ \E w \in Workers : Busy(w) /\ wjob[w] = j

\* The worker or its subprocess is on a path that follows a fault, or is reaping.
Late(w) ==
  \/ wpc[w] \in {"term", "record", "release", "push", "reapMark", "reapAck"}
  \/ wpc[w] = "watch" /\ abort[w]
  \/ wpc[w] \in {"watch", "ack"} /\ outcome[w] = "interrupted"
  \/ child[w] \in {"raised", "marked", "reraised", "remarked", "unwound", "exit1"}

FaultsShow ==
  /\ \A p \in Partsets : error[p] => p \in disturbed
  /\ \A w \in Workers : Late(w) => Pset(w) \in disturbed

\* An entry of the processing list has a worker behind it and is not stale.
EntriesHeld ==
  /\ \A j \in JobIds : j > lastId => age[j] = 0
  /\ \A w \in Workers : wpc[w] \in {"reapMark", "reapAck"} => wjob[w] <= lastId
  /\ \A j \in JobIds : target[j] \notin disturbed /\ processing[j] = "raw" =>
       age[j] < LockSlack /\ \E w \in Workers : wpc[w] = "claimed" /\ wjob[w] = j
  /\ \A j \in JobIds : target[j] \notin disturbed /\ processing[j] = "stamped" =>
       /\ ran[j] <= Timeout
       /\ \E w \in Workers : wpc[w] \in {"stamped", "watch", "ack"} /\ wjob[w] = j
  /\ \A w \in Workers : wpc[w] \in {"stamped", "watch"} /\ Pset(w) \notin disturbed =>
       processing[wjob[w]] = "stamped"

OneOwner ==
  /\ \A r \in Requests : rpc[r] = "locked" /\ rpset[r] \notin disturbed =>
       /\ lock[rpset[r]] = LockTTL
       /\ \A q \in Requests : rpc[q] = "locked" /\ rpset[q] = rpset[r] => q = r
       /\ \A j \in JobIds : Open(j) => target[j] # rpset[r]
  /\ \A i, j \in JobIds :
       Open(i) /\ Open(j) /\ target[i] = target[j] /\ target[i] \notin disturbed => i = j

\* What is left of the lock covers what is left of the wait and of the job.
Leases ==
  /\ \A j \in JobIds : InQueue(j) /\ target[j] \notin disturbed =>
       age[j] < LockSlack /\ lock[target[j]] + age[j] >= LockTTL
  /\ \A w \in Workers : wpc[w] = "claimed" /\ Pset(w) \notin disturbed =>
       age[wjob[w]] < LockSlack /\ lock[Pset(w)] + age[wjob[w]] >= LockTTL
  /\ \A w \in Workers : (wpc[w] = "stamped" \/ AtWork(w)) /\ Pset(w) \notin disturbed =>
       ran[wjob[w]] <= Timeout /\ lock[Pset(w)] + ran[wjob[w]] > Timeout

LockInv == FaultsShow /\ EntriesHeld /\ OneOwner /\ Leases

LEMMA InitLock == Init => LockInv
BY DEF Init, LockInv, FaultsShow, EntriesHeld, OneOwner, Leases, Late, Open, Busy, AtWork,
       InQueue

\* A worker whose job's lock is needed holds the job, and its job has been enqueued.
LEMMA BusyHolds ==
  ASSUME WellFormed, PlaceInv, NEW w \in Workers, Busy(w)
  PROVE  InHand(w) /\ wjob[w] \in JobIds /\ wjob[w] <= lastId /\ Open(wjob[w])
<1>1. InHand(w)
  BY DEF Busy, AtWork, InHand, WellFormed, HandsOK
<1>2. wjob[w] \in JobIds /\ wjob[w] \in Nat /\ lastId \in Nat
  BY <1>1, ConstantTypes DEF WellFormed, TypeOK, HandsOK, JobIds
<1> QED
  BY <1>1, <1>2 DEF PlaceInv, Open

\* No other worker is touched by a worker's step, and no request.
OthersSame(w) ==
  /\ \A v \in Workers \ {w} :
       /\ wpc'[v] = wpc[v] /\ wjob'[v] = wjob[v] /\ child'[v] = child[v]
       /\ abort'[v] = abort[v] /\ outcome'[v] = outcome[v]
  /\ UNCHANGED <<target, lastId, age, rpc, rpset>>
  /\ disturbed \subseteq disturbed'

LEMMA StepIsLocal ==
  ASSUME WellFormed, NEW w \in Workers,
         LoopStep(w) \/ ParentStep(w) \/ ChildStep(w) \/ Environment(w)
  PROVE  OthersSame(w)
<1> USE DEF OthersSame, redisVars, dbVars, apiVars, histVars, PutDown, Fault
<1>0. /\ wpc \in [Workers -> WorkerPC] /\ wjob \in [Workers -> 0..MaxJobs]
      /\ child \in [Workers -> ChildPC] /\ abort \in [Workers -> BOOLEAN]
      /\ outcome \in [Workers -> Outcome]
  BY DEF WellFormed, TypeOK
<1>1. CASE LoopStep(w)
  BY <1>0, <1>1
  DEF LoopStep, StopWorker, ClaimJob, StampJob, SpawnChild, BeginReap, ReapEntry,
      FailStaleJob, AckStaleJob, EndReap
<1>2. CASE ParentStep(w)
  <2>1. CASE AckJob(w)
    BY <1>0, <2>1 DEF AckJob
  <2>2. CASE ~AckJob(w)
    BY <1>0, <1>2, <2>2
    DEF ParentStep, SeeExit, SeeAbort, SeeTimeout, TerminateChild, RecordFailure,
        ReleaseJobLocks, RequeueJob
  <2> QED
    BY <2>1, <2>2
<1>3. CASE ChildStep(w)
  BY <1>0, <1>3
  DEF ChildStep, UnwindStep, CommitResult, RaiseInChild, MarkInChild, ReleaseInChild,
      RecordInChild, KillChildOOM
<1>4. CASE Environment(w)
  BY <1>0, <1>4 DEF Environment, StartWorker, Shutdown, CrashWorker, LoseRedis
<1> QED
  BY <1>1, <1>2, <1>3, <1>4

\* A step that leaves the queue and the processing list alone.  What a worker still holds it held before; a job
\* that it lets go of or gives up belongs to a disturbed partset.
Plain(w) ==
  /\ UNCHANGED <<queue, processing, ran>>
  /\ \A p \in Partsets : error'[p] => error[p] \/ p \in disturbed'
  /\ Late(w)' => Pset(w)' \in disturbed'
  /\ wpc'[w] \in {"reapMark", "reapAck"} => wjob'[w] <= lastId
  /\ wpc'[w] = "claimed" => wpc[w] = "claimed" /\ wjob'[w] = wjob[w]
  /\ wpc'[w] = "stamped" \/ AtWork(w)' =>
       (wpc[w] = "stamped" \/ AtWork(w)) /\ wjob'[w] = wjob[w]
  /\ wpc'[w] \in {"stamped", "watch"} =>
       wpc[w] \in {"stamped", "watch"} /\ wjob'[w] = wjob[w]
  /\ wpc[w] = "claimed" =>
       (wpc'[w] = "claimed" /\ wjob'[w] = wjob[w]) \/ Pset(w) \in disturbed'
  /\ wpc[w] \in {"stamped", "watch", "ack"} =>
       \/ wpc'[w] \in {"stamped", "watch", "ack"} /\ wjob'[w] = wjob[w]
       \/ Pset(w) \in disturbed'

\* A lock is taken away from a disturbed partset only, or when nobody needs it.
LockLeft == \A p \in Partsets : p \notin disturbed' =>
  \/ lock'[p] = lock[p]
  \/ /\ \A r \in Requests : rpc[r] = "locked" => rpset[r] # p
     /\ \A j \in JobIds : Open(j)' => target[j] # p

\* Faults stay visible when the actor's own paths and marks follow one.
LEMMA KeepFaults ==
  ASSUME WellFormed, FaultsShow, NEW w \in Workers, OthersSame(w),
         \A p \in Partsets : error'[p] => error[p] \/ p \in disturbed',
         Late(w)' => Pset(w)' \in disturbed'
  PROVE  FaultsShow'
<1>1. \A v \in Workers \ {w} : (Late(v)' <=> Late(v)) /\ Pset(v)' = Pset(v)
  BY DEF OthersSame, Late, Pset
<1>2. \A v \in Workers : Late(v)' => Pset(v)' \in disturbed'
  BY <1>1 DEF FaultsShow, OthersSame
<1>3. \A p \in Partsets : error'[p] => p \in disturbed'
  BY DEF FaultsShow, OthersSame
<1> QED
  BY <1>2, <1>3 DEF FaultsShow

LEMMA PlainOpens ==
  ASSUME WellFormed, NEW w \in Workers, OthersSame(w), Plain(w)
  PROVE  \A j \in JobIds : Open(j)' => Open(j)
<1>1. \A v \in Workers : Busy(v)' => Busy(v) /\ wjob'[v] = wjob[v]
  BY DEF OthersSame, Plain, Busy, AtWork
<1> QED
  BY <1>1 DEF Open, InQueue, Plain

LEMMA PlainKeepsLock ==
  ASSUME WellFormed, PlaceInv, LockInv, NEW w \in Workers,
         OthersSame(w), Plain(w), LockLeft
  PROVE  LockInv'
<1>1. FaultsShow'
  BY KeepFaults DEF LockInv, Plain
<1>2. EntriesHeld'
  <2>1. \A v \in Workers : wpc'[v] \in {"reapMark", "reapAck"} => wjob'[v] <= lastId
    BY DEF LockInv, EntriesHeld, OthersSame, Plain
  <2>2. ASSUME NEW j \in JobIds, target[j] \notin disturbed', processing[j] = "raw"
        PROVE  age[j] < LockSlack /\ \E v \in Workers : wpc'[v] = "claimed" /\ wjob'[v] = j
    <3>1. PICK v \in Workers : wpc[v] = "claimed" /\ wjob[v] = j
      BY <2>2 DEF LockInv, EntriesHeld, OthersSame
    <3>2. wpc'[v] = "claimed" /\ wjob'[v] = j
      BY <2>2, <3>1 DEF OthersSame, Plain, Pset
    <3> QED
      BY <2>2, <3>2 DEF LockInv, EntriesHeld, OthersSame
  <2>3. ASSUME NEW j \in JobIds, target[j] \notin disturbed', processing[j] = "stamped"
        PROVE  /\ ran[j] <= Timeout
               /\ \E v \in Workers : wpc'[v] \in {"stamped", "watch", "ack"} /\ wjob'[v] = j
    <3>1. PICK v \in Workers : wpc[v] \in {"stamped", "watch", "ack"} /\ wjob[v] = j
      BY <2>3 DEF LockInv, EntriesHeld, OthersSame
    <3>2. wpc'[v] \in {"stamped", "watch", "ack"} /\ wjob'[v] = j
      BY <2>3, <3>1 DEF OthersSame, Plain, Pset
    <3> QED
      BY <2>3, <3>2 DEF LockInv, EntriesHeld, OthersSame
  <2>4. ASSUME NEW v \in Workers, wpc'[v] \in {"stamped", "watch"}, Pset(v)' \notin disturbed'
        PROVE  processing[wjob'[v]] = "stamped"
    <3>1. wpc[v] \in {"stamped", "watch"} /\ wjob'[v] = wjob[v]
      BY <2>4 DEF OthersSame, Plain
    <3> QED
      BY <2>4, <3>1 DEF LockInv, EntriesHeld, OthersSame, Pset
  <2>5. (\A j \in JobIds : j > lastId => age[j] = 0)'
    BY DEF LockInv, EntriesHeld, OthersSame
  <2> QED
    BY <2>1, <2>2, <2>3, <2>4, <2>5 DEF EntriesHeld, OthersSame, Plain
<1>3. \A j \in JobIds : target[j] \in Partsets
  BY DEF WellFormed, TypeOK
<1>4. OneOwner'
  <2>1. \A r \in Requests : rpc[r] = "locked" /\ rpset[r] \notin disturbed' =>
          lock'[rpset[r]] = lock[rpset[r]]
    BY DEF LockLeft, WellFormed, TypeOK
  <2> QED
    BY <2>1, PlainOpens DEF LockInv, OneOwner, OthersSame
<1>5. Leases'
  <2>1. \A j \in JobIds : Open(j)' /\ target[j] \notin disturbed' =>
          lock'[target[j]] = lock[target[j]]
    BY <1>3 DEF LockLeft
  <2>2. ASSUME NEW j \in JobIds, InQueue(j)', target[j] \notin disturbed'
        PROVE  age[j] < LockSlack /\ lock'[target[j]] + age[j] >= LockTTL
    BY <2>1, <2>2 DEF LockInv, Leases, OthersSame, Plain, InQueue, Open
  <2>3. ASSUME NEW v \in Workers, Pset(v)' \notin disturbed', Busy(v)'
        PROVE  /\ Busy(v) /\ wjob'[v] = wjob[v] /\ Pset(v)' = Pset(v)
               /\ wpc'[v] = "claimed" => wpc[v] = "claimed"
               /\ wpc'[v] = "stamped" \/ AtWork(v)' => wpc[v] = "stamped" \/ AtWork(v)
               /\ lock'[Pset(v)] = lock[Pset(v)]
    <3>1. /\ Busy(v) /\ wjob'[v] = wjob[v] /\ Pset(v)' = Pset(v)
          /\ wpc'[v] = "claimed" => wpc[v] = "claimed"
          /\ wpc'[v] = "stamped" \/ AtWork(v)' => wpc[v] = "stamped" \/ AtWork(v)
      BY <2>3 DEF OthersSame, Plain, AtWork, Busy, Pset
    <3>2. wjob[v] \in JobIds /\ Open(wjob[v])'
      BY <2>3, <3>1, BusyHolds DEF Open
    <3> QED
      BY <2>1, <2>3, <3>1, <3>2 DEF Pset, OthersSame
  <2> QED
    BY <2>2, <2>3 DEF LockInv, Leases, OthersSame, Plain, Busy
<1> QED
  BY <1>1, <1>2, <1>4, <1>5 DEF LockInv

\* The reaper finds nothing stale of an undisturbed partset: a job in the queue has not
\* waited for as long as the slack, a job that is watched has not run over its deadline.
LEMMA StaleIsDisturbed ==
  ASSUME WellFormed, PlaceInv, LockInv, LockSlack <= StaleAfter + 1,
         NEW j \in JobIds, IsStale(j)
  PROVE  target[j] \in disturbed /\ j <= lastId
<1>1. /\ age[j] \in Nat /\ ran[j] \in Nat /\ StaleAfter \in Nat /\ LockSlack \in Nat
      /\ Timeout \in Nat /\ StaleAfter >= Timeout /\ j \in Nat /\ lastId \in Nat
  BY ConstantTypes, JobQueueAssumption
  DEF WellFormed, TypeOK, StaleAfter, JobQueueAssumption, JobIds
<1>2. processing[j] # "no"
  BY DEF IsStale
<1>3. j <= lastId
  BY <1>1, <1>2 DEF PlaceInv
<1>4. target[j] \in disturbed
  BY <1>1 DEF IsStale, LockInv, EntriesHeld
<1> QED
  BY <1>3, <1>4

LEMMA LoopIsPlain ==
  ASSUME WellFormed, PlaceInv, LockInv, LockSlack <= StaleAfter + 1, NEW w \in Workers,
         \/ StartWorker(w) \/ StopWorker(w) \/ SpawnChild(w) \/ BeginReap(w) \/ ReapEntry(w)
         \/ FailStaleJob(w) \/ EndReap(w)
  PROVE  Plain(w)
<1> USE DEF Plain, Late, AtWork, redisVars, dbVars
<1>0. /\ wpc \in [Workers -> WorkerPC] /\ wjob \in [Workers -> 0..MaxJobs]
      /\ child \in [Workers -> ChildPC] /\ abort \in [Workers -> BOOLEAN]
      /\ outcome \in [Workers -> Outcome]
      /\ disturbed \subseteq disturbed' /\ lastId \in Nat
      /\ child[w] # "none" => wpc[w] \in {"watch", "term"}
  BY StepIsLocal DEF WellFormed, TypeOK, HandsOK, OthersSame, LoopStep, Environment
<1>1. CASE StartWorker(w)
  BY <1>0, <1>1 DEF StartWorker
<1>2. CASE StopWorker(w)
  BY <1>0, <1>2 DEF StopWorker
<1>3. CASE SpawnChild(w)
  BY <1>0, <1>3 DEF SpawnChild
<1>4. CASE BeginReap(w)
  BY <1>0, <1>4 DEF BeginReap
<1>5. CASE ReapEntry(w)
  <2>1. PICK j \in JobIds : IsStale(j) /\ wjob' = [wjob EXCEPT ![w] = j]
    BY <1>5 DEF ReapEntry
  <2>2. target[j] \in disturbed /\ j <= lastId
    BY <2>1, StaleIsDisturbed
  <2>3. wjob'[w] = j /\ wpc'[w] = "reapMark" /\ Pset(w)' = target[j]
    BY <1>0, <1>5, <2>1 DEF ReapEntry, Pset
  <2> QED
    BY <1>0, <1>5, <2>2, <2>3 DEF ReapEntry
<1>6. CASE FailStaleJob(w)
  <2>1. Pset(w) \in disturbed /\ wjob[w] <= lastId /\ Pset(w)' = Pset(w)
    BY <1>6 DEF FailStaleJob, LockInv, FaultsShow, EntriesHeld, Pset
  <2>2. \A p \in Partsets : error'[p] => error[p] \/ p \in disturbed'
    <3>1. Pset(w) \in Partsets
      BY <1>6, HeldJob DEF FailStaleJob
    <3>2. \A p \in Partsets : error'[p] => error[p] \/ p = Pset(w)
      BY <1>6, <3>1, MarkShows DEF FailStaleJob, ReportFailure, Pset
    <3> QED
      BY <1>0, <2>1, <3>2
  <2> QED
    BY <1>0, <1>6, <2>1, <2>2 DEF FailStaleJob
<1>7. CASE EndReap(w)
  BY <1>0, <1>7, AfterLoopType DEF EndReap
<1> QED
  BY <1>1, <1>2, <1>3, <1>4, <1>5, <1>6, <1>7

LEMMA ChildIsPlain ==
  ASSUME WellFormed, LockInv, NEW w \in Workers, ChildStep(w), ~ReleaseInChild(w)
  PROVE  Plain(w)
<1> USE DEF Plain, AtWork, redisVars, dbVars
<1>0. /\ wpc \in [Workers -> WorkerPC] /\ child \in [Workers -> ChildPC]
      /\ abort \in [Workers -> BOOLEAN] /\ error \in [Partsets -> BOOLEAN]
      /\ Late(w) => Pset(w) \in disturbed
      /\ disturbed \subseteq disturbed' /\ UNCHANGED <<wpc, wjob, abort, outcome>>
      /\ Pset(w)' = Pset(w)
      /\ UNCHANGED <<queue, processing, ran, lock>>
      /\ child[w] # "none" /\ wpc[w] \in {"watch", "term"}
  <2>1. child[w] # "none"
    BY DEF ChildStep, UnwindStep, CommitResult, RaiseInChild, MarkInChild, ReleaseInChild,
           RecordInChild, KillChildOOM, ChildAlive, ChildLive
  <2>2. UNCHANGED <<wpc, wjob, abort, outcome>> /\ UNCHANGED <<queue, processing, ran, lock>>
    BY DEF ChildStep, UnwindStep, CommitResult, RaiseInChild, MarkInChild, RecordInChild,
           KillChildOOM
  <2> QED
    BY <2>1, <2>2, StepIsLocal
    DEF WellFormed, TypeOK, HandsOK, OthersSame, LockInv, FaultsShow, Pset
<1>1. CASE CommitResult(w)
  BY <1>0, <1>1 DEF CommitResult, Late
<1>2. CASE RaiseInChild(w) \/ KillChildOOM(w)
  <2>1. Pset(w) \in disturbed' /\ UNCHANGED error
    BY <1>2 DEF RaiseInChild, KillChildOOM, Fault
  <2>2. child'[w] \in {"raised", "unwound", "exit1"}
    BY <1>0, <1>2 DEF RaiseInChild, KillChildOOM, Raised
  <2>3. AtWork(w)' => AtWork(w)
    BY <1>0, <1>2 DEF RaiseInChild, KillChildOOM, Raised
  <2> QED
    BY <1>0, <2>1, <2>2, <2>3
<1>3. CASE MarkInChild(w) \/ RecordInChild(w)
  <2>1. Pset(w) \in disturbed
    BY <1>0, <1>3 DEF MarkInChild, RecordInChild, Late
  <2>2. \A p \in Partsets : error'[p] => error[p] \/ p = Pset(w)
    <3>1. Pset(w) \in Partsets
      BY <1>0, HeldJob DEF InHand
    <3> QED
      BY <1>3, <3>1, MarkShows DEF MarkInChild, RecordInChild, ReportFailure, Pset
  <2>3. AtWork(w)' => AtWork(w)
    BY <1>0, <1>3 DEF MarkInChild, RecordInChild
  <2> QED
    BY <1>0, <2>1, <2>2, <2>3
<1> QED
  BY <1>1, <1>2, <1>3 DEF ChildStep, UnwindStep

LEMMA ParentIsPlain ==
  ASSUME WellFormed, LockInv, NEW w \in Workers, ParentStep(w), ~ReleaseJobLocks(w),
         ~AckJob(w), ~RequeueJob(w)
  PROVE  Plain(w)
<1> USE DEF Plain, AtWork, Late, ChildAlive, ChildLive
<1>0. /\ wpc \in [Workers -> WorkerPC] /\ child \in [Workers -> ChildPC]
      /\ abort \in [Workers -> BOOLEAN] /\ error \in [Partsets -> BOOLEAN]
      /\ outcome \in [Workers -> Outcome] /\ wjob \in [Workers -> 0..MaxJobs]
      /\ disturbed \subseteq disturbed'
      /\ UNCHANGED <<queue, processing, ran, lock, wjob, abort>> /\ Pset(w)' = Pset(w)
      /\ child[w] # "none" => wpc[w] \in {"watch", "term"}
      /\ Pset(w) \in Partsets
  <2>1. InHand(w) /\ UNCHANGED <<queue, processing, ran, lock, wjob, abort>>
    BY DEF ParentStep, SeeExit, SeeAbort, SeeTimeout, TerminateChild, RecordFailure, InHand,
           redisVars
  <2> QED
    BY <2>1, StepIsLocal, HeldJob DEF WellFormed, TypeOK, HandsOK, OthersSame, Pset
<1>1. Late(w) => Pset(w) \in disturbed
  BY DEF LockInv, FaultsShow
<1>2. \A p \in Partsets : error[p] => p \in disturbed
  BY DEF LockInv, FaultsShow
<1>3. CASE SeeExit(w)
  <2>1. CASE child[w] = "exit0" /\ ~error[Pset(w)]
    <3>1. wpc'[w] = "ack" /\ UNCHANGED <<outcome, error>> /\ child'[w] = "none"
      BY <1>0, <1>3, <2>1 DEF SeeExit, dbVars
    <3> QED
      BY <1>0, <1>1, <1>3, <3>1 DEF SeeExit
  <2>2. CASE child[w] = "exit0" /\ error[Pset(w)]
    BY <1>0, <1>2, <1>3, <2>2 DEF SeeExit, dbVars
  <2>3. CASE child[w] = "exit1"
    BY <1>0, <1>1, <1>3, <2>3 DEF SeeExit, dbVars
  <2> QED
    BY <1>3, <2>1, <2>2, <2>3 DEF SeeExit
<1>4. CASE SeeAbort(w)
  BY <1>0, <1>1, <1>4 DEF SeeAbort, dbVars
<1>5. CASE SeeTimeout(w)
  BY <1>0, <1>5 DEF SeeTimeout, dbVars
<1>6. CASE TerminateChild(w)
  BY <1>0, <1>1, <1>6 DEF TerminateChild, dbVars
<1>7. CASE RecordFailure(w)
  <2>1. Pset(w) \in disturbed
    BY <1>1, <1>7 DEF RecordFailure
  <2>2. \A p \in Partsets : error'[p] => error[p] \/ p = Pset(w)
    <3>1. Pset(w) \in Partsets
      BY <1>7, HeldJob DEF RecordFailure, InHand
    <3> QED
      BY <1>7, <3>1, MarkShows DEF RecordFailure, ReportFailure, Pset
  <2> QED
    BY <1>0, <1>7, <2>1, <2>2 DEF RecordFailure
<1> QED
  BY <1>3, <1>4, <1>5, <1>6, <1>7 DEF ParentStep

LEMMA EnvironmentIsPlain ==
  ASSUME WellFormed, LockInv, NEW w \in Workers, Shutdown(w) \/ CrashWorker(w) \/ LoseRedis(w)
  PROVE  Plain(w)
<1> USE DEF Plain, AtWork, Late, redisVars, dbVars
<1>0. /\ wpc \in [Workers -> WorkerPC] /\ child \in [Workers -> ChildPC]
      /\ abort \in [Workers -> BOOLEAN] /\ outcome \in [Workers -> Outcome]
      /\ wjob \in [Workers -> 0..MaxJobs] /\ disturbed \subseteq disturbed'
      /\ child[w] # "none" => wpc[w] \in {"watch", "term"}
      /\ Late(w) => Pset(w) \in disturbed
      /\ wpc[w] \in {"reapMark", "reapAck"} => wjob[w] <= lastId
  BY StepIsLocal
  DEF WellFormed, TypeOK, HandsOK, OthersSame, Environment, LockInv, FaultsShow, EntriesHeld
<1>1. CASE Shutdown(w)
  <2>1. InHand(w) => Pset(w) \in disturbed'
    BY <1>1 DEF Shutdown
  <2>2. UNCHANGED <<wpc, wjob, child, outcome>> /\ Pset(w)' = Pset(w)
    BY <1>1 DEF Shutdown, Pset
  <2>3. Late(w)' => Pset(w)' \in disturbed'
    BY <1>0, <2>1, <2>2 DEF InHand
  <2> QED
    BY <1>0, <1>1, <2>2, <2>3 DEF Shutdown
<1>2. CASE CrashWorker(w)
  <2>1. InHand(w) => Pset(w) \in disturbed'
    BY <1>2 DEF CrashWorker
  <2>2. wpc'[w] = "off" /\ child'[w] = "none"
    BY <1>0, <1>2 DEF CrashWorker
  <2> QED
    BY <1>2, <2>1, <2>2 DEF CrashWorker, InHand
<1>3. CASE LoseRedis(w)
  <2>1. Pset(w) \in disturbed'
    BY <1>3 DEF LoseRedis, Fault
  <2>2. wpc'[w] \in {"idle", "off"} /\ child'[w] = "none"
    BY <1>0, <1>3, AfterLoopType DEF LoseRedis, PutDown
  <2> QED
    BY <1>3, <2>1, <2>2 DEF LoseRedis
<1> QED
  BY <1>1, <1>2, <1>3

\* ClaimJob moves the head of the queue into the worker's hands: the same owner.
LEMMA ClaimKeepsLock ==
  ASSUME WellFormed, PlaceInv, LockInv, NEW w \in Workers, ClaimJob(w)
  PROVE  LockInv'
<1> DEFINE h == Head(queue)
<1>0. /\ OthersSame(w) /\ UNCHANGED <<lock, error, ran, disturbed, abort, child, outcome>>
      /\ wpc[w] = "idle" /\ child[w] = "none"
  BY StepIsLocal
  DEF LoopStep, ClaimJob, WellFormed, TypeOK, HandsOK, dbVars, histVars
<1>1. /\ \A i \in JobIds : InQueue(i)' => InQueue(i) /\ i # h
      /\ InQueue(h) /\ h \in JobIds /\ processing[h] = "no" /\ h <= lastId
  <2>1. /\ \A i \in JobIds : InQueue(i)' => InQueue(i) /\ i # h
        /\ InQueue(h) /\ h \in JobIds
    BY TailKeepsPlace DEF ClaimJob
  <2>2. h \in Nat /\ lastId \in Nat
    BY <2>1, ConstantTypes DEF WellFormed, TypeOK, JobIds
  <2> HIDE DEF h
  <2> QED
    BY <2>1, <2>2 DEF PlaceInv, OnePlace
<1>2. /\ \A i \in JobIds : i # h => processing'[i] = processing[i]
      /\ processing'[h] = "raw" /\ wpc'[w] = "claimed" /\ wjob'[w] = h
  BY <1>1 DEF ClaimJob, WellFormed, TypeOK
<1>3. \A i \in JobIds : ~InQueue(i) \/ \A v \in Workers : InHand(v) => wjob[v] # i
  BY DEF PlaceInv, OnePlace
<1> HIDE DEF h
<1>4. FaultsShow'
  <2>1. ~Late(w)'
    BY <1>0, <1>2 DEF Late
  <2> QED
    BY <1>0, <2>1, KeepFaults DEF LockInv
<1>5. EntriesHeld'
  <2>1. \A v \in Workers : wpc'[v] \in {"reapMark", "reapAck"} => wjob'[v] <= lastId
    BY <1>0, <1>2 DEF LockInv, EntriesHeld, OthersSame
  <2>2. ASSUME NEW j \in JobIds, target[j] \notin disturbed, processing'[j] = "raw"
        PROVE  age[j] < LockSlack /\ \E v \in Workers : wpc'[v] = "claimed" /\ wjob'[v] = j
    <3>1. CASE j = h
      BY <1>1, <1>2, <2>2, <3>1 DEF LockInv, Leases
    <3>2. CASE j # h
      <4>1. PICK v \in Workers : wpc[v] = "claimed" /\ wjob[v] = j
        BY <1>2, <2>2, <3>2 DEF LockInv, EntriesHeld
      <4> QED
        BY <1>0, <1>2, <2>2, <3>2, <4>1 DEF OthersSame, LockInv, EntriesHeld
    <3> QED
      BY <3>1, <3>2
  <2>3. ASSUME NEW j \in JobIds, target[j] \notin disturbed, processing'[j] = "stamped"
        PROVE  /\ ran[j] <= Timeout
               /\ \E v \in Workers : wpc'[v] \in {"stamped", "watch", "ack"} /\ wjob'[v] = j
    <3>1. PICK v \in Workers : wpc[v] \in {"stamped", "watch", "ack"} /\ wjob[v] = j
      BY <1>2, <2>3 DEF LockInv, EntriesHeld
    <3> QED
      BY <1>0, <1>2, <2>3, <3>1 DEF OthersSame, LockInv, EntriesHeld
  <2>4. ASSUME NEW v \in Workers, wpc'[v] \in {"stamped", "watch"}, Pset(v)' \notin disturbed
        PROVE  processing'[wjob'[v]] = "stamped"
    <3>1. v # w /\ wpc[v] \in {"stamped", "watch"} /\ wjob'[v] = wjob[v] /\ InHand(v)
      BY <1>0, <1>2, <2>4 DEF OthersSame, InHand
    <3>2. wjob[v] \in JobIds /\ wjob[v] # h /\ Pset(v)' = Pset(v)
      BY <1>0, <1>1, <1>3, <3>1 DEF WellFormed, HandsOK, Pset, OthersSame
    <3> QED
      BY <1>2, <2>4, <3>1, <3>2 DEF LockInv, EntriesHeld
  <2> QED
    BY <1>0, <2>1, <2>2, <2>3, <2>4 DEF EntriesHeld, OthersSame, LockInv
<1>6. OneOwner'
  <2>1. \A v \in Workers : Busy(v)' => v = w \/ (Busy(v) /\ wjob'[v] = wjob[v])
    BY <1>0 DEF OthersSame, Busy, AtWork
  <2>2. \A j \in JobIds : Open(j)' => Open(j)
    BY <1>1, <1>2, <2>1 DEF Open
  <2> QED
    BY <1>0, <2>2 DEF LockInv, OneOwner, OthersSame
<1>7. Leases'
  <2>1. \A v \in Workers : v # w => Pset(v)' = Pset(v)
    BY <1>0 DEF OthersSame, Pset
  <2>2. Pset(w)' = target[h] /\ ~AtWork(w)'
    BY <1>0, <1>2 DEF OthersSame, Pset, AtWork
  <2> QED
    BY <1>0, <1>1, <1>2, <2>1, <2>2 DEF LockInv, Leases, OthersSame, AtWork
<1> QED
  BY <1>4, <1>5, <1>6, <1>7 DEF LockInv

\* StampJob: the wait is over, and what is left of the lock is more than the timeout.
LEMMA StampKeepsLock ==
  ASSUME WellFormed, PlaceInv, LockInv, NEW w \in Workers, StampJob(w)
  PROVE  LockInv'
<1> DEFINE j == wjob[w]
<1>0. /\ OthersSame(w)
      /\ UNCHANGED <<queue, lock, error, disturbed, abort, child, outcome, wjob>>
      /\ wpc[w] = "claimed" /\ child[w] = "none" /\ Busy(w)
  BY StepIsLocal
  DEF LoopStep, StampJob, WellFormed, TypeOK, HandsOK, dbVars, histVars, Busy
<1>1. j \in JobIds /\ InHand(w) /\ Open(j)
  BY <1>0, BusyHolds
<1>2. /\ \A i \in JobIds : i # j => processing'[i] = processing[i] /\ ran'[i] = ran[i]
      /\ processing'[j] = "stamped" /\ ran'[j] = 0 /\ wpc'[w] = "stamped"
  BY <1>1 DEF StampJob, WellFormed, TypeOK
<1>3. \A v \in Workers : InHand(v) /\ wjob[v] = j => v = w
  BY <1>1 DEF PlaceInv, OnePlace
<1>4. \A v \in Workers : v # w /\ InHand(v) => wjob[v] \in JobIds /\ wjob[v] # j
  BY <1>3 DEF WellFormed, HandsOK
<1> HIDE DEF j
<1>5. \A v \in Workers : v # w => wpc'[v] = wpc[v]
  BY <1>0 DEF OthersSame
<1>6. \A v \in Workers : Pset(v)' = Pset(v) /\ wjob'[v] = wjob[v] /\ child'[v] = child[v]
  BY <1>0 DEF OthersSame, Pset
<1>7. FaultsShow'
  <2>1. ~Late(w)'
    BY <1>0, <1>2 DEF Late
  <2> QED
    BY <1>0, <2>1, KeepFaults DEF LockInv
<1>8. EntriesHeld'
  <2>1. \A v \in Workers : wpc'[v] \in {"reapMark", "reapAck"} => wjob'[v] <= lastId
    BY <1>2, <1>5, <1>6 DEF LockInv, EntriesHeld
  <2>2. ASSUME NEW i \in JobIds, target[i] \notin disturbed, processing'[i] = "raw"
        PROVE  age[i] < LockSlack /\ \E v \in Workers : wpc'[v] = "claimed" /\ wjob'[v] = i
    <3>1. i # j /\ processing[i] = "raw"
      BY <1>2, <2>2
    <3>2. PICK v \in Workers : wpc[v] = "claimed" /\ wjob[v] = i
      BY <2>2, <3>1 DEF LockInv, EntriesHeld
    <3>3. v # w
      BY <3>1, <3>2 DEF j
    <3> QED
      BY <1>5, <1>6, <2>2, <3>1, <3>2, <3>3 DEF LockInv, EntriesHeld
  <2>3. ASSUME NEW i \in JobIds, target[i] \notin disturbed, processing'[i] = "stamped"
        PROVE  /\ ran'[i] <= Timeout
               /\ \E v \in Workers : wpc'[v] \in {"stamped", "watch", "ack"} /\ wjob'[v] = i
    <3>1. CASE i = j
      BY <1>2, <1>6, <3>1, ConstantTypes DEF j
    <3>2. CASE i # j
      <4>1. PICK v \in Workers : wpc[v] \in {"stamped", "watch", "ack"} /\ wjob[v] = i
        BY <1>2, <2>3, <3>2 DEF LockInv, EntriesHeld
      <4> QED
        BY <1>0, <1>2, <1>5, <1>6, <2>3, <3>2, <4>1 DEF LockInv, EntriesHeld
    <3> QED
      BY <3>1, <3>2
  <2>4. ASSUME NEW v \in Workers, wpc'[v] \in {"stamped", "watch"}, Pset(v)' \notin disturbed
        PROVE  processing'[wjob'[v]] = "stamped"
    <3>1. CASE v = w
      BY <1>2, <1>6, <3>1 DEF j
    <3>2. CASE v # w
      BY <1>2, <1>4, <1>5, <1>6, <2>4, <3>2 DEF LockInv, EntriesHeld, InHand
    <3> QED
      BY <3>1, <3>2
  <2> QED
    BY <1>0, <2>1, <2>2, <2>3, <2>4 DEF EntriesHeld, OthersSame, LockInv
<1>9. OneOwner'
  <2>1. \A v \in Workers : Busy(v)' => Busy(v)
    BY <1>0, <1>5, <1>6 DEF Busy, AtWork
  <2>2. \A i \in JobIds : Open(i)' => Open(i)
    BY <1>0, <1>6, <2>1 DEF Open, InQueue
  <2> QED
    BY <1>0, <2>2 DEF LockInv, OneOwner, OthersSame
<1>10. Leases'
  <2>1. Pset(w) \notin disturbed => lock[Pset(w)] + ran'[j] > Timeout /\ ran'[j] <= Timeout
    <3>1. /\ lock[Pset(w)] \in Nat /\ age[j] \in Nat /\ LockTTL = Timeout + LockSlack
          /\ LockSlack \in Nat /\ Timeout \in Nat
      BY <1>1, HeldJob, ConstantTypes DEF WellFormed, TypeOK, LockTTL
    <3>2. Pset(w) \notin disturbed => age[j] < LockSlack /\ lock[Pset(w)] + age[j] >= LockTTL
      BY <1>0 DEF LockInv, Leases, j
    <3>3. ran'[j] = 0
      BY <1>2
    <3> QED
      BY <3>1, <3>2, <3>3
  <2>2. ASSUME NEW i \in JobIds, InQueue(i)', target'[i] \notin disturbed'
        PROVE  age'[i] < LockSlack /\ lock'[target'[i]] + age'[i] >= LockTTL
    BY <1>0, <2>2 DEF LockInv, Leases, InQueue, OthersSame
  <2>3. ASSUME NEW v \in Workers, wpc'[v] = "claimed", Pset(v)' \notin disturbed'
        PROVE  age'[wjob'[v]] < LockSlack /\ lock'[Pset(v)'] + age'[wjob'[v]] >= LockTTL
    BY <1>0, <1>2, <1>5, <1>6, <2>3 DEF LockInv, Leases, OthersSame
  <2>4. ASSUME NEW v \in Workers, (wpc[v] = "stamped" \/ AtWork(v))', Pset(v)' \notin disturbed'
        PROVE  ran'[wjob'[v]] <= Timeout /\ lock'[Pset(v)'] + ran'[wjob'[v]] > Timeout
    <3>1. CASE v = w
      BY <1>0, <1>6, <2>1, <2>4, <3>1 DEF j
    <3>2. CASE v # w
      <4>1. wpc[v] = "stamped" \/ AtWork(v)
        BY <1>5, <1>6, <2>4, <3>2 DEF AtWork
      <4>2. InHand(v)
        BY <4>1, BusyHolds DEF Busy
      <4>3. ran'[wjob[v]] = ran[wjob[v]]
        BY <1>2, <1>4, <3>2, <4>2
      <4> QED
        BY <1>0, <1>6, <2>4, <4>1, <4>3 DEF LockInv, Leases
    <3> QED
      BY <3>1, <3>2
  <2> QED
    BY <2>2, <2>3, <2>4 DEF Leases
<1> QED
  BY <1>7, <1>8, <1>9, <1>10 DEF LockInv

\* A subprocess releases the lock of its own job, a free one, or one of a disturbed partset.
LEMMA ReleaseInChildKeepsLock ==
  ASSUME WellFormed, PlaceInv, LockInv, NEW w \in Workers, ReleaseInChild(w)
  PROVE  LockInv'
<1> DEFINE p == Pset(w)
<1>0. /\ OthersSame(w)
      /\ UNCHANGED <<queue, processing, ran, error, wpc, wjob, abort, outcome>>
      /\ p \in Partsets /\ child \in [Workers -> ChildPC]
      /\ lock \in [Partsets -> 0..LockTTL] /\ lock' = [lock EXCEPT ![p] = 0]
      /\ child[w] \in {"committed", "closing", "marked", "remarked"}
      /\ wpc[w] \in {"watch", "term"} /\ wjob[w] \in JobIds
  <2>1. child[w] # "none"
    BY DEF ReleaseInChild
  <2> QED
    BY <2>1, StepIsLocal, HeldJob
    DEF ChildStep, UnwindStep, ReleaseInChild, WellFormed, TypeOK, HandsOK, ReleaseImportLock,
        redisVars, dbVars
<1>1. /\ child'[w] \in {"exit0", "closing", "unwound", "reraised"}
      /\ child'[w] \in {"unwound", "reraised"} => child[w] \in {"marked", "remarked"}
  BY <1>0 DEF ReleaseInChild, Unwound
<1>2. child[w] \in {"marked", "remarked"} => p \in disturbed
  BY DEF LockInv, FaultsShow, Late
<1>3. Plain(w)
  BY <1>0, <1>1, <1>2 DEF Plain, Late, AtWork, LockInv, FaultsShow, Pset, OthersSame
<1>4. LockLeft
  <2> SUFFICES ASSUME NEW q \in Partsets, q \notin disturbed'
               PROVE  \/ lock'[q] = lock[q]
                      \/ /\ \A r \in Requests : rpc[r] = "locked" => rpset[r] # q
                         /\ \A j \in JobIds : Open(j)' => target[j] # q
    BY DEF LockLeft, WellFormed, TypeOK
  <2>1. CASE q # p
    BY <1>0, <2>1
  <2>2. CASE q = p /\ child[w] # "committed"
    BY <1>0, <1>2, <2>2 DEF ReleaseInChild, OthersSame
  <2>3. CASE q = p /\ child[w] = "committed"
    <3>1. Busy(w) /\ InHand(w) /\ q \notin disturbed
      BY <1>0, <2>3, BusyHolds DEF Busy, AtWork, OthersSame
    <3>2. \A r \in Requests : rpc[r] = "locked" => rpset[r] # q
      BY <1>0, <2>3, <3>1, BusyHolds DEF LockInv, OneOwner, Pset
    <3>3. ASSUME NEW j \in JobIds, Open(j)', target[j] = q PROVE FALSE
      <4>1. j = wjob[w]
        BY <1>0, <1>3, <2>3, <3>1, <3>3, BusyHolds, PlainOpens DEF LockInv, OneOwner, Pset
      <4>2. ~InQueue(j)'
        BY <1>0, <3>1, <4>1 DEF PlaceInv, OnePlace, InQueue
      <4>3. PICK v \in Workers : Busy(v)' /\ wjob'[v] = j
        BY <3>3, <4>2 DEF Open
      <4>4. Busy(v) /\ wjob[v] = j
        BY <1>0, <1>1, <4>3 DEF OthersSame, Busy, AtWork
      <4>5. v = w
        BY <3>1, <4>1, <4>4, BusyHolds DEF PlaceInv, OnePlace
      <4> QED
        BY <1>0, <1>1, <2>3, <4>3, <4>5 DEF Busy, AtWork
    <3> QED
      BY <3>2, <3>3
  <2> QED
    BY <2>1, <2>2, <2>3
<1> QED
  BY <1>0, <1>3, <1>4, PlainKeepsLock

\* The parent releases a lock on the path of a failure only.
LEMMA ReleaseJobLocksKeepsLock ==
  ASSUME WellFormed, PlaceInv, LockInv, NEW w \in Workers, ReleaseJobLocks(w)
  PROVE  LockInv'
<1>0. /\ OthersSame(w) /\ wpc \in [Workers -> WorkerPC]
      /\ lock \in [Partsets -> 0..LockTTL] /\ lock' = [lock EXCEPT ![Pset(w)] = 0]
      /\ UNCHANGED <<queue, processing, ran, error, wjob, child, abort, outcome, disturbed>>
      /\ wpc[w] = "release" /\ wpc'[w] = "ack"
  BY StepIsLocal
  DEF ParentStep, ReleaseJobLocks, WellFormed, TypeOK, ReleaseImportLock, redisVars, dbVars,
      histVars
<1>1. Pset(w) \in disturbed /\ child[w] = "none"
  BY <1>0 DEF LockInv, FaultsShow, Late, WellFormed, HandsOK
<1>2. Plain(w)
  BY <1>0, <1>1 DEF Plain, Late, AtWork, Pset, OthersSame
<1>3. LockLeft
  BY <1>0, <1>1 DEF LockLeft
<1> QED
  BY <1>0, <1>2, <1>3, PlainKeepsLock

\* Taking an entry off the processing list: its own by the worker that is done with it,
\* a stale one by the reaper.
LEMMA DropEntryKeepsLock ==
  ASSUME WellFormed, PlaceInv, LockInv, NEW w \in Workers, AckStaleJob(w) \/ AckJob(w)
  PROVE  LockInv'
<1> DEFINE j == wjob[w]
<1>0. /\ OthersSame(w) /\ UNCHANGED <<queue, ran, lock, error, child, abort, disturbed>>
      /\ wpc[w] \in {"reapAck", "ack"} /\ child[w] = "none" /\ j \in JobIds
      /\ wpc[w] = "reapAck" => Pset(w) \in disturbed
  BY StepIsLocal
  DEF LoopStep, ParentStep, AckStaleJob, AckJob, WellFormed, TypeOK, HandsOK, InHand, dbVars,
      histVars, LockInv, FaultsShow, Late
<1>1. /\ \A i \in JobIds : i # j => processing'[i] = processing[i]
      /\ processing'[j] \in {processing[j], "no"} /\ (wpc[w] = "ack" => processing'[j] = "no")
  BY <1>0 DEF AckStaleJob, AckJob, WellFormed, TypeOK
<1>2. /\ wpc'[w] \in {"scan", "push", "idle", "off"}
      /\ wpc'[w] = "push" => Pset(w) \in disturbed /\ wjob'[w] = wjob[w]
  <2>1. CASE AckStaleJob(w)
    BY <2>1 DEF AckStaleJob, WellFormed, TypeOK
  <2>2. CASE AckJob(w) /\ outcome[w] = "interrupted"
    BY <2>2 DEF AckJob, WellFormed, TypeOK, LockInv, FaultsShow, Late
  <2>3. CASE AckJob(w) /\ outcome[w] # "interrupted"
    BY <2>3, AfterLoopType DEF AckJob, PutDown, WellFormed, TypeOK
  <2> QED
    BY <2>1, <2>2, <2>3
<1>3. \A v \in Workers : v # w /\ InHand(v) /\ wjob[v] = j => wpc[w] = "reapAck"
  BY <1>0 DEF PlaceInv, OnePlace, InHand
<1> HIDE DEF j
<1>4. \A v \in Workers \ {w} :
        Pset(v)' = Pset(v) /\ wpc'[v] = wpc[v] /\ wjob'[v] = wjob[v] /\ child'[v] = child[v]
  BY <1>0 DEF OthersSame, Pset
<1>5. FaultsShow'
  <2>1. Late(w)' => Pset(w)' \in disturbed'
    BY <1>0, <1>2 DEF Late, Pset, OthersSame
  <2> QED
    BY <1>0, <2>1, KeepFaults DEF LockInv
<1>6. EntriesHeld'
  <2>1. \A v \in Workers : wpc'[v] \in {"reapMark", "reapAck"} => wjob'[v] <= lastId
    BY <1>2, <1>4 DEF LockInv, EntriesHeld
  <2>2. ASSUME NEW i \in JobIds, target[i] \notin disturbed, processing'[i] = "raw"
        PROVE  age[i] < LockSlack /\ \E v \in Workers : wpc'[v] = "claimed" /\ wjob'[v] = i
    BY <1>0, <1>1, <1>4, <2>2 DEF LockInv, EntriesHeld
  <2>3. ASSUME NEW i \in JobIds, target[i] \notin disturbed, processing'[i] = "stamped"
        PROVE  /\ ran[i] <= Timeout
               /\ \E v \in Workers : wpc'[v] \in {"stamped", "watch", "ack"} /\ wjob'[v] = i
    <3>1. processing[i] = "stamped"
      BY <1>1, <2>3
    <3>2. PICK v \in Workers : wpc[v] \in {"stamped", "watch", "ack"} /\ wjob[v] = i
      BY <2>3, <3>1 DEF LockInv, EntriesHeld
    <3>3. v # w
      BY <1>0, <1>1, <2>3, <3>2 DEF j
    <3> QED
      BY <1>4, <2>3, <3>1, <3>2, <3>3 DEF LockInv, EntriesHeld
  <2>4. ASSUME NEW v \in Workers, wpc'[v] \in {"stamped", "watch"}, Pset(v)' \notin disturbed
        PROVE  processing'[wjob'[v]] = "stamped"
    <3>1. v # w /\ InHand(v) /\ wjob[v] \in JobIds
      BY <1>2, <1>4, <2>4 DEF InHand, WellFormed, HandsOK
    <3>2. wjob[v] # j
      BY <1>0, <1>3, <1>4, <2>4, <3>1 DEF Pset, j
    <3> QED
      BY <1>1, <1>4, <2>4, <3>1, <3>2 DEF LockInv, EntriesHeld
  <2> QED
    BY <1>0, <2>1, <2>2, <2>3, <2>4 DEF EntriesHeld, OthersSame, LockInv
<1>7. \A v \in Workers : Busy(v)' =>
        /\ v # w /\ Busy(v) /\ wjob'[v] = wjob[v] /\ Pset(v)' = Pset(v)
        /\ wpc'[v] = wpc[v] /\ (AtWork(v)' <=> AtWork(v))
  BY <1>0, <1>2, <1>4 DEF Busy, AtWork
<1>8. OneOwner'
  <2>1. \A i \in JobIds : Open(i)' => Open(i)
    BY <1>0, <1>7 DEF Open, InQueue
  <2> QED
    BY <1>0, <2>1 DEF LockInv, OneOwner, OthersSame
<1>9. Leases'
  BY <1>0, <1>7 DEF LockInv, Leases, OthersSame, Busy, InQueue
<1> QED
  BY <1>5, <1>6, <1>8, <1>9 DEF LockInv

\* An interrupted job goes back to the queue: its partset is disturbed.
LEMMA RequeueKeepsLock ==
  ASSUME WellFormed, PlaceInv, LockInv, NEW w \in Workers, RequeueJob(w)
  PROVE  LockInv'
<1> DEFINE j == wjob[w]
<1>0. /\ OthersSame(w)
      /\ UNCHANGED <<processing, ran, lock, error, child, abort, disturbed>>
      /\ wpc[w] = "push" /\ child[w] = "none" /\ j \in JobIds /\ Pset(w) \in disturbed
      /\ ~InQueue(j) /\ queue' = Append(queue, j)
  BY StepIsLocal
  DEF ParentStep, RequeueJob, WellFormed, TypeOK, HandsOK, InHand, dbVars, histVars, LockInv,
      FaultsShow, Late, PlaceInv, OnePlace
<1>1. wpc'[w] \in {"idle", "off"}
  BY AfterLoopType DEF RequeueJob, PutDown, WellFormed, TypeOK
<1>2. \A i \in JobIds : InQueue(i)' <=> InQueue(i) \/ i = j
  BY <1>0, AppendKeepsPlace
<1>3. target[j] \in disturbed
  BY <1>0 DEF Pset
<1> HIDE DEF j
<1>4. \A v \in Workers \ {w} :
        Pset(v)' = Pset(v) /\ wpc'[v] = wpc[v] /\ wjob'[v] = wjob[v] /\ child'[v] = child[v]
  BY <1>0 DEF OthersSame, Pset
<1>5. FaultsShow'
  <2>1. ~Late(w)'
    BY <1>0, <1>1 DEF Late
  <2> QED
    BY <1>0, <2>1, KeepFaults DEF LockInv
<1>6. EntriesHeld'
  <2>1. \A v \in Workers : wpc'[v] \in {"reapMark", "reapAck"} => wjob'[v] <= lastId
    BY <1>1, <1>4 DEF LockInv, EntriesHeld
  <2>2. ASSUME NEW i \in JobIds, target[i] \notin disturbed, processing[i] = "raw"
        PROVE  age[i] < LockSlack /\ \E v \in Workers : wpc'[v] = "claimed" /\ wjob'[v] = i
    BY <1>0, <1>4, <2>2 DEF LockInv, EntriesHeld
  <2>3. ASSUME NEW i \in JobIds, target[i] \notin disturbed, processing[i] = "stamped"
        PROVE  /\ ran[i] <= Timeout
               /\ \E v \in Workers : wpc'[v] \in {"stamped", "watch", "ack"} /\ wjob'[v] = i
    BY <1>0, <1>4, <2>3 DEF LockInv, EntriesHeld
  <2>4. ASSUME NEW v \in Workers, wpc'[v] \in {"stamped", "watch"}, Pset(v)' \notin disturbed
        PROVE  processing[wjob'[v]] = "stamped"
    BY <1>1, <1>4, <2>4 DEF LockInv, EntriesHeld
  <2> QED
    BY <1>0, <2>1, <2>2, <2>3, <2>4 DEF EntriesHeld, OthersSame, LockInv
<1>7. \A v \in Workers : Busy(v)' =>
        /\ v # w /\ Busy(v) /\ wjob'[v] = wjob[v] /\ Pset(v)' = Pset(v)
        /\ wpc'[v] = wpc[v] /\ (AtWork(v)' <=> AtWork(v))
  BY <1>0, <1>1, <1>4 DEF Busy, AtWork
<1>8. \A i \in JobIds : Open(i)' => Open(i) \/ i = j
  BY <1>2, <1>7 DEF Open
<1>9. OneOwner'
  BY <1>0, <1>3, <1>8 DEF LockInv, OneOwner, OthersSame
<1>10. Leases'
  BY <1>0, <1>2, <1>3, <1>7 DEF LockInv, Leases, OthersSame, Busy
<1> QED
  BY <1>5, <1>6, <1>9, <1>10 DEF LockInv

\* An owner's lock has not expired.
LEMMA OwnedIsLocked ==
  ASSUME WellFormed, PlaceInv, LockInv, NEW j \in JobIds, Open(j), target[j] \notin disturbed
  PROVE  lock[target[j]] > 0
<1>1. /\ lock[target[j]] \in Nat /\ age[j] \in Nat /\ ran[j] \in Nat /\ Timeout \in Nat
      /\ LockSlack \in Nat /\ LockTTL = Timeout + LockSlack
  BY ConstantTypes DEF WellFormed, TypeOK, LockTTL
<1>2. CASE InQueue(j)
  BY <1>1, <1>2 DEF LockInv, Leases
<1>3. ASSUME NEW w \in Workers, Busy(w), wjob[w] = j PROVE lock[target[j]] > 0
  <2>1. CASE wpc[w] = "claimed"
    BY <1>1, <1>3, <2>1 DEF LockInv, Leases, Pset
  <2>2. CASE wpc[w] = "stamped" \/ AtWork(w)
    BY <1>1, <1>3, <2>2 DEF LockInv, Leases, Pset
  <2> QED
    BY <1>3, <2>1, <2>2 DEF Busy
<1> QED
  BY <1>2, <1>3 DEF Open

\* A request that leaves the jobs alone, as the workers see it.
JobsSame ==
  /\ UNCHANGED <<redisVars, workerVars>> /\ disturbed \subseteq disturbed'
  /\ \A p \in Partsets : error'[p] => error[p] \/ p \in disturbed'

LEMMA JobsSameKeeps ==
  ASSUME WellFormed, LockInv, JobsSame
  PROVE  FaultsShow' /\ EntriesHeld' /\ \A j \in JobIds : Open(j)' <=> Open(j)
<1>1. FaultsShow'
  BY DEF LockInv, FaultsShow, JobsSame, Late, Pset, redisVars, workerVars
<1>2. EntriesHeld'
  BY DEF LockInv, EntriesHeld, JobsSame, Pset, redisVars, workerVars
<1>3. \A j \in JobIds : Open(j)' <=> Open(j)
  BY DEF JobsSame, Open, Busy, AtWork, InQueue, redisVars, workerVars
<1> QED
  BY <1>1, <1>2, <1>3

LEMMA RequestKeepsLock ==
  ASSUME WellFormed, LockInv, NEW r \in Requests,
         BeginRequest(r) \/ LockBusy(r) \/ CommitRequest(r) \/ LoseRequest(r)
  PROVE  LockInv'
<1>0. /\ rpc \in [Requests -> RequestPC] /\ rpset \in [Requests -> Partsets]
      /\ error \in [Partsets -> BOOLEAN] /\ rsaw \in [Requests -> BOOLEAN]
      /\ rkind \in [Requests -> {"ensure", "retry"}]
  BY DEF WellFormed, TypeOK
<1>1. JobsSame /\ UNCHANGED lock
  <2>1. CASE CommitRequest(r)
    <3>1. \A p \in Partsets : error'[p] => error[p]
      <4>1. CASE rkind[r] = "retry" /\ rsaw[r]
        BY <1>0, <2>1, <4>1 DEF CommitRequest
      <4>2. CASE ~(rkind[r] = "retry" /\ rsaw[r])
        BY <2>1, <4>2 DEF CommitRequest
      <4> QED
        BY <4>1, <4>2
    <3> QED
      BY <2>1, <3>1 DEF CommitRequest, JobsSame, histVars
  <2>2. CASE BeginRequest(r) \/ LockBusy(r) \/ LoseRequest(r)
    BY <2>2 DEF BeginRequest, LockBusy, LoseRequest, JobsSame, Fault, dbVars, histVars
  <2> QED
    BY <2>1, <2>2
<1>2. \A q \in Requests : rpc'[q] = "locked" => rpc[q] = "locked" /\ rpset'[q] = rpset[q]
  <2>1. CASE BeginRequest(r)
    BY <1>0, <2>1 DEF BeginRequest
  <2>2. CASE LockBusy(r) \/ CommitRequest(r) \/ LoseRequest(r)
    BY <1>0, <2>2 DEF LockBusy, CommitRequest, LoseRequest, EndRequest
  <2> QED
    BY <2>1, <2>2
<1>3. OneOwner'
  BY <1>1, <1>2, JobsSameKeeps DEF LockInv, OneOwner, JobsSame, redisVars
<1>4. Leases'
  BY <1>1 DEF LockInv, Leases, JobsSame, redisVars, workerVars, InQueue, Pset, AtWork
<1> QED
  BY <1>1, <1>3, <1>4, JobsSameKeeps DEF LockInv

\* Part generation shows an error of a partset that it has disturbed.
LEMMA PartsKeepLock ==
  ASSUME WellFormed, LockInv, NEW p \in Partsets, PartsStep(p)
  PROVE  LockInv'
<1>1. \A q \in Partsets : error'[q] => error[q] \/ q \in disturbed'
  <2>1. CASE MakePartsReady(p)
    <3>1. \A q \in Partsets : [error EXCEPT ![p] = FALSE][q] => error[q]
      BY DEF WellFormed, TypeOK
    <3> QED
      BY <2>1, <3>1 DEF MakePartsReady
  <2>2. CASE TakePartsDown(p)
    BY <2>2 DEF TakePartsDown
  <2>3. CASE FailPartGen(p)
    BY <2>3, MarkShows DEF FailPartGen, Fault
  <2> QED
    BY <2>1, <2>2, <2>3 DEF PartsStep
<1>2. UNCHANGED <<redisVars, workerVars, lock, rpc, rpset>> /\ disturbed \subseteq disturbed'
  BY DEF PartsStep, MakePartsReady, TakePartsDown, FailPartGen, Fault, apiVars, histVars
<1>3. JobsSame
  BY <1>1, <1>2 DEF JobsSame
<1>4. OneOwner'
  BY <1>2, <1>3, JobsSameKeeps DEF LockInv, OneOwner, redisVars
<1>5. Leases'
  BY <1>2 DEF LockInv, Leases, redisVars, workerVars, InQueue, Pset, AtWork
<1> QED
  BY <1>3, <1>4, <1>5, JobsSameKeeps DEF LockInv

\* SET NX: the key is free, so nobody needs it; the request is its owner now.
LEMMA AcquireKeepsLock ==
  ASSUME WellFormed, PlaceInv, LockInv, NEW r \in Requests, AcquireLock(r)
  PROVE  LockInv'
<1> DEFINE p == rpset[r]
<1>0. /\ rpc \in [Requests -> RequestPC] /\ p \in Partsets /\ lock[p] = 0
      /\ lock \in [Partsets -> 0..LockTTL] /\ LockTTL \in Nat /\ LockTTL > 0
      /\ lock' = [lock EXCEPT ![p] = LockTTL] /\ rpc' = [rpc EXCEPT ![r] = "locked"]
      /\ UNCHANGED <<error, rpset, disturbed>> /\ rpc[r] # "locked"
      /\ \A j \in JobIds : target[j] \in Partsets
  BY ConstantTypes DEF WellFormed, TypeOK, AcquireLock, dbVars, histVars
<1>1. JobsSame
  BY <1>0 DEF AcquireLock, JobsSame
<1>2. p \notin disturbed => \A j \in JobIds : Open(j) => target[j] # p
  BY <1>0, OwnedIsLocked
<1>3. p \notin disturbed => \A q \in Requests : rpc[q] = "locked" => rpset[q] # p
  BY <1>0 DEF LockInv, OneOwner
<1> HIDE DEF p
<1>4. OneOwner'
  <2>1. ASSUME NEW q \in Requests, rpc'[q] = "locked", rpset[q] \notin disturbed
        PROVE  /\ lock'[rpset[q]] = LockTTL
               /\ \A s \in Requests : rpc'[s] = "locked" /\ rpset[s] = rpset[q] => s = q
               /\ \A j \in JobIds : Open(j) => target[j] # rpset[q]
    <3>1. CASE q = r
      BY <1>0, <1>2, <1>3, <2>1, <3>1 DEF p
    <3>2. CASE q # r
      BY <1>0, <1>3, <2>1, <3>2 DEF LockInv, OneOwner, p
    <3> QED
      BY <3>1, <3>2
  <2> QED
    BY <1>0, <1>1, <2>1, JobsSameKeeps DEF LockInv, OneOwner, JobsSame, redisVars
<1>5. Leases'
  <2>1. \A j \in JobIds : Open(j) /\ target[j] \notin disturbed => lock'[target[j]] = lock[target[j]]
    BY <1>0, <1>2
  <2>2. \A w \in Workers : Busy(w) =>
          wjob[w] \in JobIds /\ (Pset(w) \notin disturbed => lock'[Pset(w)] = lock[Pset(w)])
    BY <2>1, BusyHolds DEF Pset
  <2>3. \A w \in Workers : Pset(w)' = Pset(w) /\ (AtWork(w)' <=> AtWork(w)) /\ wpc'[w] = wpc[w]
                           /\ wjob'[w] = wjob[w]
    BY <1>1 DEF JobsSame, redisVars, workerVars, Pset, AtWork
  <2>4. \A j \in JobIds : InQueue(j)' => InQueue(j) /\ Open(j)
    BY <1>1 DEF JobsSame, redisVars, InQueue, Open
  <2> QED
    BY <1>0, <1>1, <2>1, <2>2, <2>3, <2>4 DEF LockInv, Leases, Busy, JobsSame, redisVars
<1> QED
  BY <1>1, <1>4, <1>5, JobsSameKeeps DEF LockInv

\* LPUSH hands the lock, as it was taken, from the request to the job.
LEMMA EnqueueKeepsLock ==
  ASSUME WellFormed, PlaceInv, LockInv, NEW r \in Requests, EnqueueJob(r)
  PROVE  LockInv'
<1> DEFINE n == lastId + 1
           p == rpset[r]
<1>0. /\ rpc \in [Requests -> RequestPC] /\ p \in Partsets /\ n \in JobIds
      /\ lastId \in Nat /\ lastId < n /\ lastId' = n /\ rpc[r] = "locked"
      /\ rpc' = [rpc EXCEPT ![r] = "commit"] /\ target' = [target EXCEPT ![n] = p]
      /\ target \in [JobIds -> Partsets] /\ queue' = Append(queue, n)
      /\ UNCHANGED <<processing, age, ran, lock, error, rpset, disturbed, wpc, wjob, outcome,
                     abort, child>>
  <2>1. n \in JobIds /\ lastId \in Nat /\ lastId < n
    BY ConstantTypes DEF WellFormed, TypeOK, EnqueueJob, JobIds
  <2> QED
    BY <2>1 DEF WellFormed, TypeOK, EnqueueJob, dbVars, workerVars, histVars
<1>1. /\ ~InQueue(n) /\ processing[n] = "no" /\ \A w \in Workers : InHand(w) => wjob[w] # n
      /\ age[n] = 0
  BY <1>0 DEF PlaceInv, LockInv, EntriesHeld
<1>2. \A i \in JobIds : InQueue(i)' <=> InQueue(i) \/ i = n
  BY <1>0, <1>1, AppendKeepsPlace
<1>3. /\ target'[n] = p /\ \A i \in JobIds : i # n => target'[i] = target[i]
      /\ \A q \in Requests : rpc'[q] = "locked" => rpc[q] = "locked" /\ q # r
  BY <1>0
<1>4. /\ LockTTL \in Nat /\ LockSlack > 0 /\ \A j \in JobIds : j \in Nat
      /\ \A w \in Workers : wjob[w] \in Nat
  BY ConstantTypes DEF JobIds, WellFormed, TypeOK
<1>5. p \notin disturbed =>
        /\ lock[p] = LockTTL
        /\ \A q \in Requests : rpc[q] = "locked" /\ rpset[q] = p => q = r
        /\ \A j \in JobIds : Open(j) => target[j] # p
  BY <1>0 DEF LockInv, OneOwner
<1> HIDE DEF n, p
<1>6. \A w \in Workers : (InHand(w) \/ wpc[w] \in {"reapMark", "reapAck"} \/ Late(w)) =>
        Pset(w)' = Pset(w) /\ wjob[w] \in JobIds /\ wjob[w] # n
  <2> SUFFICES ASSUME NEW w \in Workers,
                      InHand(w) \/ wpc[w] \in {"reapMark", "reapAck"} \/ Late(w)
               PROVE  Pset(w)' = Pset(w) /\ wjob[w] \in JobIds /\ wjob[w] # n
    OBVIOUS
  <2>1. InHand(w) \/ wpc[w] \in {"reapMark", "reapAck"}
    BY DEF Late, InHand, WellFormed, HandsOK
  <2>2. wjob[w] \in JobIds
    BY <2>1 DEF WellFormed, HandsOK
  <2>3. wjob[w] # n
    BY <1>0, <1>1, <1>4, <2>1 DEF LockInv, EntriesHeld
  <2> QED
    BY <1>0, <1>3, <2>2, <2>3 DEF Pset
<1>7. \A w \in Workers : (Late(w)' <=> Late(w)) /\ (Busy(w)' <=> Busy(w)) /\ (AtWork(w)' <=> AtWork(w))
  BY <1>0 DEF Late, Busy, AtWork
<1>8. FaultsShow'
  BY <1>0, <1>6, <1>7 DEF LockInv, FaultsShow
<1>9. EntriesHeld'
  <2>1. (\A j \in JobIds : j > lastId => age[j] = 0)'
    BY <1>0, <1>4 DEF LockInv, EntriesHeld
  <2>2. (\A w \in Workers : wpc[w] \in {"reapMark", "reapAck"} => wjob[w] <= lastId)'
    BY <1>0, <1>4 DEF LockInv, EntriesHeld
  <2>3. \A j \in JobIds : processing[j] # "no" => j # n /\ target'[j] = target[j]
    BY <1>1, <1>3
  <2>4. \A w \in Workers : wpc[w] \in {"stamped", "watch"} => Pset(w)' = Pset(w)
    BY <1>6 DEF InHand
  <2> QED
    BY <1>0, <2>1, <2>2, <2>3, <2>4 DEF LockInv, EntriesHeld
<1>10. \A j \in JobIds : Open(j)' <=> Open(j) \/ j = n
  BY <1>0, <1>2, <1>7 DEF Open
<1>11. ~Open(n)
  BY <1>1, BusyHolds DEF Open
<1>12. OneOwner'
  <2>1. ASSUME NEW q \in Requests, rpc'[q] = "locked", rpset[q] \notin disturbed
        PROVE  /\ lock[rpset[q]] = LockTTL
               /\ \A s \in Requests : rpc'[s] = "locked" /\ rpset[s] = rpset[q] => s = q
               /\ \A j \in JobIds : Open(j)' => target'[j] # rpset[q]
    <3>1. rpc[q] = "locked" /\ rpset[q] # p
      BY <1>3, <1>5, <2>1 DEF p
    <3> QED
      BY <1>3, <1>10, <1>11, <2>1, <3>1 DEF LockInv, OneOwner
  <2>2. ASSUME NEW i \in JobIds, NEW j \in JobIds, Open(i)', Open(j)', target'[i] = target'[j],
               target'[i] \notin disturbed
        PROVE  i = j
    <3>1. CASE i = n
      BY <1>3, <1>5, <1>10, <2>2, <3>1
    <3>2. CASE j = n
      BY <1>3, <1>5, <1>10, <2>2, <3>2
    <3>3. CASE i # n /\ j # n
      BY <1>3, <1>10, <2>2, <3>3 DEF LockInv, OneOwner
    <3> QED
      BY <3>1, <3>2, <3>3
  <2> QED
    BY <1>0, <2>1, <2>2 DEF OneOwner
<1>13. Leases'
  <2>1. ASSUME NEW j \in JobIds, InQueue(j)', target'[j] \notin disturbed
        PROVE  age[j] < LockSlack /\ lock[target'[j]] + age[j] >= LockTTL
    <3>1. CASE j = n
      BY <1>1, <1>3, <1>4, <1>5, <2>1, <3>1
    <3>2. CASE j # n
      BY <1>2, <1>3, <2>1, <3>2 DEF LockInv, Leases
    <3> QED
      BY <3>1, <3>2
  <2>2. \A w \in Workers : Busy(w) => Pset(w)' = Pset(w)
    BY <1>6, BusyHolds
  <2> QED
    BY <1>0, <1>7, <2>1, <2>2 DEF LockInv, Leases, Busy
<1> QED
  BY <1>8, <1>9, <1>12, <1>13 DEF LockInv

\* Time passes for the owner and for the lock alike: a wait that has used up the slack
\* disturbs the partset, and a job that is watched has met no deadline yet.
LEMMA TickKeepsLock ==
  ASSUME WellFormed, PlaceInv, LockInv, Tick
  PROVE  LockInv'
<1>0. /\ UNCHANGED <<queue, processing, lastId, target, error, wpc, wjob, outcome, abort, child,
                     rpc, rpset>>
      /\ disturbed' = disturbed \union Overdue
      /\ age \in [JobIds -> Nat] /\ ran \in [JobIds -> Nat]
      /\ lock \in [Partsets -> 0..LockTTL] /\ target \in [JobIds -> Partsets]
      /\ lastId \in Nat /\ JobIds \subseteq Nat
  BY DEF Tick, WellFormed, TypeOK, dbVars, workerVars, apiVars, JobIds
<1>1. /\ LockTTL \in Nat /\ LockTTL = Timeout + LockSlack /\ Timeout \in Nat \ {0}
      /\ LockSlack \in Nat \ {0} /\ AgeCap \in Nat /\ AgeCap >= LockTTL
  BY ConstantTypes DEF LockTTL
<1>2. /\ \A r \in Requests : rpc[r] = "none"
      /\ \A w \in Workers :
           /\ wpc[w] \in {"off", "idle", "watch"}
           /\ wpc[w] = "watch" => child[w] = "run" /\ ran[wjob[w]] < Timeout
           /\ wpc[w] # "watch" => child[w] = "none"
  BY DEF Tick, Settled, WellFormed, HandsOK
<1>3. /\ \A j \in JobIds : age'[j] = IF InRedis(j) THEN Older(age[j]) ELSE age[j]
      /\ \A j \in JobIds :
           ran'[j] = IF processing[j] = "stamped" THEN Older(ran[j]) ELSE ran[j]
      /\ \A p \in Partsets : lock'[p] = IF lock[p] > 0 THEN lock[p] - 1 ELSE 0
  BY DEF Tick
<1>4. \A w \in Workers : (Late(w)' <=> Late(w)) /\ Pset(w)' = Pset(w)
        /\ (AtWork(w)' <=> AtWork(w)) /\ (Busy(w)' <=> Busy(w))
  BY <1>0 DEF Late, Pset, AtWork, Busy
<1>5. \A j \in JobIds : (InQueue(j)' <=> InQueue(j)) /\ (Open(j)' <=> Open(j))
  BY <1>0, <1>4 DEF InQueue, Open
<1>6. FaultsShow'
  BY <1>0, <1>4 DEF LockInv, FaultsShow
<1>7. EntriesHeld'
  <2>1. \A j \in JobIds : j > lastId => age'[j] = 0
    BY <1>0, <1>3 DEF LockInv, EntriesHeld, PlaceInv, InRedis
  <2>2. ASSUME NEW j \in JobIds, target[j] \notin disturbed', processing[j] = "raw" PROVE FALSE
    BY <1>0, <1>2, <2>2 DEF LockInv, EntriesHeld
  <2>3. ASSUME NEW j \in JobIds, target[j] \notin disturbed', processing[j] = "stamped"
        PROVE  /\ ran'[j] <= Timeout
               /\ \E w \in Workers : wpc[w] \in {"stamped", "watch", "ack"} /\ wjob[w] = j
    <3>1. PICK w \in Workers : wpc[w] \in {"stamped", "watch", "ack"} /\ wjob[w] = j
      BY <1>0, <2>3 DEF LockInv, EntriesHeld
    <3>2. ran[j] < Timeout
      BY <1>2, <3>1
    <3> QED
      BY <1>0, <1>1, <1>3, <3>1, <3>2 DEF Older
  <2> QED
    BY <1>0, <1>4, <2>1, <2>2, <2>3 DEF LockInv, EntriesHeld
<1>8. OneOwner'
  BY <1>0, <1>2, <1>5 DEF LockInv, OneOwner
<1>9. Leases'
  <2>1. ASSUME NEW j \in JobIds, InQueue(j), target[j] \notin disturbed'
        PROVE  age'[j] < LockSlack /\ lock'[target[j]] + age'[j] >= LockTTL
    <3>1. ~(age'[j] >= LockSlack)
      BY <1>0, <2>1 DEF Overdue
    <3>2. age[j] < LockSlack /\ lock[target[j]] + age[j] >= LockTTL
      BY <1>0, <2>1 DEF LockInv, Leases
    <3>3. age[j] \in Nat /\ lock[target[j]] \in Nat /\ age'[j] = age[j] + 1
      BY <1>0, <1>1, <1>3, <2>1, <3>2 DEF InRedis, Older
    <3>4. lock'[target[j]] = lock[target[j]] - 1
      BY <1>0, <1>1, <1>3, <3>2, <3>3
    <3> QED
      BY <1>1, <3>1, <3>2, <3>3, <3>4
  <2>2. ASSUME NEW w \in Workers, AtWork(w), Pset(w) \notin disturbed'
        PROVE  ran'[wjob[w]] <= Timeout /\ lock'[Pset(w)] + ran'[wjob[w]] > Timeout
    <3>1. wpc[w] = "watch" /\ ran[wjob[w]] < Timeout /\ wjob[w] \in JobIds
      BY <1>2, <2>2, BusyHolds DEF Busy, AtWork
    <3>2. processing[wjob[w]] = "stamped"
      BY <1>0, <2>2, <3>1 DEF LockInv, EntriesHeld
    <3>3. /\ lock[Pset(w)] + ran[wjob[w]] > Timeout /\ ran[wjob[w]] \in Nat
          /\ lock[Pset(w)] \in Nat /\ Pset(w) \in Partsets
      <4>1. Pset(w) \in Partsets
        BY <1>0, <3>1 DEF Pset
      <4>2. ran[wjob[w]] \in Nat
        BY <1>0, <3>1
      <4>3. \A p \in Partsets : lock[p] \in Nat
        BY <1>0, <1>1
      <4>4. lock[Pset(w)] + ran[wjob[w]] > Timeout
        BY <1>0, <2>2 DEF LockInv, Leases
      <4> QED
        BY <4>1, <4>2, <4>3, <4>4
    <3>4. ran'[wjob[w]] = ran[wjob[w]] + 1
      BY <1>1, <1>3, <3>1, <3>2, <3>3 DEF Older
    <3>5. lock'[Pset(w)] = lock[Pset(w)] - 1
      BY <1>1, <1>3, <3>1, <3>3
    <3> QED
      BY <1>1, <3>1, <3>3, <3>4, <3>5
  <2>3. \A w \in Workers : wpc[w] \notin {"claimed", "stamped"}
    BY <1>2
  <2> QED
    BY <1>0, <1>4, <1>5, <2>1, <2>2, <2>3 DEF Leases
<1> QED
  BY <1>6, <1>7, <1>8, <1>9 DEF LockInv

LEMMA StepLock ==
  ASSUME WellFormed, PlaceInv, LockInv, LockSlack <= StaleAfter + 1, [Next]_vars
  PROVE  LockInv'
<1>1. CASE UNCHANGED vars
  BY <1>1
  DEF vars, redisVars, dbVars, workerVars, apiVars, histVars, LockInv, FaultsShow, EntriesHeld,
      OneOwner, Leases, Late, Open, Busy, AtWork, InQueue, Pset
<1>2. CASE Tick
  BY <1>2, TickKeepsLock
<1>3. ASSUME NEW r \in Requests, BeginRequest(r) \/ ApiStep(r) \/ LoseRequest(r)
      PROVE  LockInv'
  BY <1>3, RequestKeepsLock, AcquireKeepsLock, EnqueueKeepsLock DEF ApiStep
<1>4. ASSUME NEW w \in Workers, LoopStep(w) \/ ParentStep(w) \/ ChildStep(w) \/ Environment(w)
      PROVE  LockInv'
  <2>1. OthersSame(w)
    BY <1>4, StepIsLocal
  <2>2. CASE ClaimJob(w) \/ StampJob(w) \/ AckStaleJob(w) \/ AckJob(w) \/ RequeueJob(w)
    BY <2>2, ClaimKeepsLock, StampKeepsLock, DropEntryKeepsLock, RequeueKeepsLock
  <2>3. CASE ReleaseInChild(w) \/ ReleaseJobLocks(w)
    BY <2>3, ReleaseInChildKeepsLock, ReleaseJobLocksKeepsLock
  <2>4. CASE \/ StartWorker(w) \/ StopWorker(w) \/ SpawnChild(w) \/ BeginReap(w)
             \/ ReapEntry(w) \/ FailStaleJob(w) \/ EndReap(w)
    <3>1. LockLeft
      BY <2>4
      DEF LockLeft, StartWorker, StopWorker, SpawnChild, BeginReap, ReapEntry, FailStaleJob,
          EndReap
    <3> QED
      BY <2>1, <2>4, <3>1, LoopIsPlain, PlainKeepsLock
  <2>5. CASE ChildStep(w) /\ ~ReleaseInChild(w)
    <3>1. LockLeft
      BY <2>5
      DEF LockLeft, ChildStep, UnwindStep, CommitResult, RaiseInChild, MarkInChild,
          RecordInChild, KillChildOOM
    <3> QED
      BY <2>1, <2>5, <3>1, ChildIsPlain, PlainKeepsLock
  <2>6. CASE ParentStep(w) /\ ~ReleaseJobLocks(w) /\ ~AckJob(w) /\ ~RequeueJob(w)
    <3>1. LockLeft
      BY <2>6
      DEF LockLeft, ParentStep, SeeExit, SeeAbort, SeeTimeout, TerminateChild, RecordFailure
    <3> QED
      BY <2>1, <2>6, <3>1, ParentIsPlain, PlainKeepsLock
  <2>7. CASE Shutdown(w) \/ CrashWorker(w) \/ LoseRedis(w)
    <3>1. LockLeft
      BY <2>7 DEF LockLeft, Shutdown, CrashWorker, LoseRedis
    <3> QED
      BY <2>1, <2>7, <3>1, EnvironmentIsPlain, PlainKeepsLock
  <2> QED
    BY <1>4, <2>2, <2>3, <2>4, <2>5, <2>6, <2>7 DEF LoopStep, Environment
<1>5. ASSUME NEW p \in Generated, PartsStep(p) PROVE LockInv'
  BY <1>5, GeneratedArePartsets, PartsKeepLock
<1> QED
  BY <1>1, <1>2, <1>3, <1>4, <1>5 DEF Next

\* Without a fault, a wait beyond the slack or a second release that hits another's
\* lock, no two jobs of a partset are at work, whatever the timeout and the number of
\* workers, jobs and requests; if the slack of the lock is not longer than the reaper
\* waits (with the settings' defaults it is 300 against 2820 seconds).
THEOREM LockExcludes ==
  ASSUME LockSlack <= StaleAfter + 1
  PROVE  Spec => []ExclusiveUntilFault
<1>1. ASSUME WellFormed, PlaceInv, LockInv PROVE ExclusiveUntilFault
  <2> SUFFICES ASSUME NEW v \in Workers, NEW w \in Workers, AtWork(v), AtWork(w),
                      Pset(v) = Pset(w), v # w, Pset(v) \notin disturbed
               PROVE  FALSE
    BY DEF ExclusiveUntilFault
  <2>1. /\ InHand(v) /\ wjob[v] \in JobIds /\ Open(wjob[v])
        /\ InHand(w) /\ wjob[w] \in JobIds /\ Open(wjob[w])
    BY <1>1, BusyHolds DEF Busy
  <2>2. wjob[v] = wjob[w]
    BY <1>1, <2>1 DEF LockInv, OneOwner, Pset
  <2> QED
    BY <1>1, <2>1, <2>2 DEF PlaceInv, OnePlace
<1>2. WellFormed /\ PlaceInv /\ LockInv /\ [Next]_vars => PlaceInv' /\ LockInv'
  BY StepPlace, StepLock
<1>3. Init => PlaceInv /\ LockInv
  BY InitPlace, InitLock
<1> QED
  BY <1>1, <1>2, <1>3, AlwaysWellFormed, PTL DEF Spec


-----------------------------------------------------------------------------
(* The queue implements the ledger. *)

\* What is on record of the job a worker is busy with.
OnRecord(w) ==
  /\ child[w] \in {"committed", "closing", "exit0"} => wjob[w] \in done
  /\ wpc[w] = "watch" => outcome[w] # "interrupted"
  /\ wpc[w] \in {"release", "ack"} =>
       /\ wjob[w] \in done \union reported
       /\ outcome[w] = "interrupted" => wjob[w] \in reported
  /\ wpc[w] \in {"push", "reapAck"} => wjob[w] \in reported
  /\ wpc[w] = "reapMark" => wjob[w] <= lastId /\ (InQueue(wjob[w]) => wjob[w] \in reported)

\* An enqueued job that is in neither list has a result or a failure on record.
Accounted == \A j \in JobIds :
  j <= lastId => InQueue(j) \/ processing[j] # "no" \/ j \in done \union reported

LedgerInv == Accounted /\ \A w \in Workers : OnRecord(w)

\* Parts are made of a partset that a job has completed.
ReadyIsServed == \A p \in Partsets :
  complete[p] \/ partsReady[p] => \E i \in done : i <= lastId /\ target[i] = p

Everything == WellFormed /\ PlaceInv /\ LedgerInv /\ ReadyIsServed

\* Records are only added to, and a job comes into the queue new or with its
\* interruption on record.
Grows ==
  /\ done \subseteq done' /\ reported \subseteq reported'
  /\ lastId' \in Nat /\ lastId <= lastId'
  /\ \A j \in JobIds : InQueue(j)' => InQueue(j) \/ j \in reported \/ j > lastId

\* A step that grows the records leaves alone what is known of another worker.
LEMMA OthersOnRecord ==
  ASSUME WellFormed, NEW v \in Workers, OnRecord(v), Grows,
         wpc'[v] = wpc[v], wjob'[v] = wjob[v], outcome'[v] = outcome[v], child'[v] = child[v]
  PROVE  OnRecord(v)'
<1>1. wpc[v] = "reapMark" => wjob[v] \in JobIds
  BY DEF WellFormed, HandsOK
<1>2. wpc'[v] = "reapMark" =>
        wjob'[v] <= lastId' /\ (InQueue(wjob[v])' => wjob[v] \in reported')
  BY <1>1, ConstantTypes DEF OnRecord, Grows, JobIds, WellFormed, TypeOK
<1>3. /\ child'[v] \in {"committed", "closing", "exit0"} => wjob'[v] \in done'
      /\ wpc'[v] = "watch" => outcome'[v] # "interrupted"
      /\ wpc'[v] \in {"release", "ack"} =>
           /\ wjob'[v] \in done' \union reported'
           /\ outcome'[v] = "interrupted" => wjob'[v] \in reported'
      /\ wpc'[v] \in {"push", "reapAck"} => wjob'[v] \in reported'
  BY DEF OnRecord, Grows
<1> QED
  BY <1>2, <1>3 DEF OnRecord

-----------------------------------------------------------------------------
(* How steps change what the ledger sees. *)

Held(j) == processing[j] # "no" \/ \E w \in Workers : InHand(w) /\ wjob[w] = j
status  == [j \in JobIds |-> Status(j)]

LEMMA StatusMeans ==
  ASSUME NEW j \in JobIds
  PROVE  status[j] = (IF j > lastId THEN "new" ELSE IF InQueue(j) THEN "queued"
                      ELSE IF Held(j) THEN "held" ELSE "closed")
BY DEF status, Status, Held

LEMMA StatusMeansNext ==
  ASSUME NEW j \in JobIds
  PROVE  status'[j] = (IF j > lastId' THEN "new" ELSE IF InQueue(j)' THEN "queued"
                       ELSE IF Held(j)' THEN "held" ELSE "closed")
BY DEF status, Status, Held

\* Nothing moves.
LEMMA NothingMoves ==
  ASSUME lastId' = lastId, \A j \in JobIds : InQueue(j)' <=> InQueue(j),
         \A j \in JobIds : Held(j)' <=> Held(j)
  PROVE  status' = status
<1>1. ASSUME NEW j \in JobIds PROVE status'[j] = status[j]
  BY StatusMeans, StatusMeansNext
<1> QED
  BY <1>1 DEF status

\* One job moves.
LEMMA OneMoves ==
  ASSUME NEW j \in JobIds, NEW from, NEW to, status[j] = from, status'[j] = to,
         \A i \in JobIds : i # j => status'[i] = status[i],
         UNCHANGED <<done, reported, shown>>
  PROVE  Ledger!Move(j, from, to)
<1>1. status' = [status EXCEPT ![j] = to]
  BY DEF status
<1> QED
  BY <1>1 DEF Ledger!Move, status
\* Hands and lists stay as they are.
Still ==
  /\ UNCHANGED <<queue, processing, lastId>>
  /\ \A v \in Workers : (InHand(v)' <=> InHand(v)) /\ (InHand(v) => wjob'[v] = wjob[v])

LEMMA StillKeepsStatus == ASSUME Still PROVE status' = status
<1>1. \A j \in JobIds : InQueue(j)' <=> InQueue(j)
  BY DEF Still, InQueue
<1>2. \A j \in JobIds : Held(j)' <=> Held(j)
  BY DEF Still, Held
<1> QED
  BY <1>1, <1>2, NothingMoves DEF Still

LEMMA StillGrows ==
  ASSUME WellFormed, Accounted, Still, done \subseteq done', reported \subseteq reported'
  PROVE  Grows /\ Accounted'
<1>1. \A j \in JobIds : InQueue(j)' <=> InQueue(j)
  BY DEF Still, InQueue
<1>2. Accounted'
  BY <1>1 DEF Still, Accounted
<1>3. lastId' = lastId /\ lastId \in Nat
  BY DEF Still, WellFormed, TypeOK
<1> QED
  BY <1>1, <1>2, <1>3 DEF Grows

\* A step of one worker.
OnlyBy(w) == \A v \in Workers : v # w =>
  wpc'[v] = wpc[v] /\ wjob'[v] = wjob[v] /\ outcome'[v] = outcome[v] /\ child'[v] = child[v]

LEMMA WorkerKeepsRecords ==
  ASSUME Everything, NEW w \in Workers, OnlyBy(w), Grows, Accounted', OnRecord(w)'
  PROVE  LedgerInv'
BY OthersOnRecord DEF Everything, LedgerInv, OnlyBy

Stutters == UNCHANGED Ledger!ledger

LEMMA Unmoved == ASSUME status' = status, UNCHANGED <<done, reported, shown, target>> PROVE Stutters
BY DEF Stutters, Ledger!ledger, status

LEMMA Succeeds ==
  ASSUME NEW j \in JobIds, status[j] = "held", status' = status, done' = done \union {j},
         UNCHANGED <<reported, shown, target>>
  PROVE  Ledger!Next
<1>1. Ledger!Succeed(j)
  BY DEF Ledger!Succeed, status
<1> QED
  BY <1>1 DEF Ledger!Next

LEMMA Fails ==
  ASSUME NEW j \in JobIds, status[j] \in {"held", "closed"} \/ j \in reported,
         status' = status, reported' = reported \union {j}, UNCHANGED <<done, target>>,
         shown' = shown \union {j} \/ (Ledger!Served(j) /\ shown' = shown)
  PROVE  Ledger!Next
<1>1. Ledger!Fail(j)
  BY DEF Ledger!Fail, status
<1> QED
  BY <1>1 DEF Ledger!Next

\* A job in a worker's hands is held.
LEMMA InHandIsHeld ==
  ASSUME Everything, NEW w \in Workers, InHand(w)
  PROVE  wjob[w] \in JobIds /\ status[wjob[w]] = "held" /\ ~InQueue(wjob[w])
         /\ ~(wjob[w] > lastId)
<1>1. wjob[w] \in JobIds
  BY DEF Everything, WellFormed, HandsOK
<1>2. ~InQueue(wjob[w]) /\ ~(wjob[w] > lastId)
  BY <1>1 DEF Everything, PlaceInv, OnePlace
<1>3. Held(wjob[w])
  BY DEF Held
<1> QED
  BY <1>1, <1>2, <1>3, StatusMeans

-----------------------------------------------------------------------------
(* Steps that move no job. *)

LEMMA RequestsStutter ==
  ASSUME Everything, NEW r \in Requests,
         \/ BeginRequest(r) \/ AcquireLock(r) \/ LockBusy(r) \/ CommitRequest(r)
         \/ LoseRequest(r)
  PROVE  LedgerInv' /\ Stutters
<1>1. UNCHANGED <<queue, processing, lastId, wpc, wjob, outcome, child, done, reported, shown, target>>
  BY DEF BeginRequest, AcquireLock, LockBusy, CommitRequest, LoseRequest, redisVars,
         workerVars, histVars
<1>2. Still
  BY <1>1 DEF Still, InHand
<1> QED
  BY <1>1, <1>2, StillKeepsStatus, Unmoved
  DEF Everything, LedgerInv, Accounted, OnRecord, InQueue

LEMMA PartsStutter ==
  ASSUME Everything, NEW p, PartsStep(p)
  PROVE  LedgerInv' /\ Stutters
<1>1. UNCHANGED <<queue, processing, lastId, wpc, wjob, outcome, child, done, reported, shown,
                  target>>
  BY DEF PartsStep, MakePartsReady, TakePartsDown, FailPartGen, redisVars, workerVars, histVars
<1>2. Still
  BY <1>1 DEF Still, InHand
<1> QED
  BY <1>1, <1>2, StillKeepsStatus, Unmoved
  DEF Everything, LedgerInv, Accounted, OnRecord, InQueue

LEMMA TickStutters == ASSUME Everything, Tick PROVE LedgerInv' /\ Stutters
<1>1. UNCHANGED <<queue, processing, lastId, wpc, wjob, outcome, child, done, reported, shown, target>>
  BY DEF Tick, workerVars
<1>2. Still
  BY <1>1 DEF Still, InHand
<1> QED
  BY <1>1, <1>2, StillKeepsStatus, Unmoved
  DEF Everything, LedgerInv, Accounted, OnRecord, InQueue

\* Steps of a worker, its subprocess or its environment that leave lists, hands
\* and records alone.
QuietStep(w) ==
  \/ StartWorker(w) \/ StopWorker(w) \/ SpawnChild(w) \/ BeginReap(w) \/ ReapEntry(w)
  \/ EndReap(w) \/ SeeExit(w) \/ SeeAbort(w) \/ SeeTimeout(w) \/ TerminateChild(w)
  \/ ReleaseJobLocks(w) \/ RaiseInChild(w) \/ ReleaseInChild(w) \/ KillChildOOM(w)
  \/ Shutdown(w)

LEMMA QuietStepIsStill ==
  ASSUME WellFormed, NEW w \in Workers, QuietStep(w)
  PROVE  Still /\ OnlyBy(w) /\ UNCHANGED <<done, reported, shown, target>>
<1> USE DEF Still, OnlyBy, InHand, redisVars, histVars
<1>0. /\ wpc \in [Workers -> WorkerPC] /\ wjob \in [Workers -> 0..MaxJobs]
      /\ outcome \in [Workers -> Outcome] /\ child \in [Workers -> ChildPC]
  BY DEF WellFormed, TypeOK
<1>1. CASE StartWorker(w)
  BY <1>0, <1>1 DEF StartWorker
<1>2. CASE StopWorker(w)
  BY <1>0, <1>2 DEF StopWorker
<1>3. CASE SpawnChild(w)
  BY <1>0, <1>3 DEF SpawnChild
<1>4. CASE BeginReap(w)
  BY <1>0, <1>4 DEF BeginReap
<1>5. CASE ReapEntry(w)
  BY <1>0, <1>5 DEF ReapEntry
<1>6. CASE EndReap(w)
  BY <1>0, <1>6, AfterLoopType DEF EndReap
<1>7. CASE SeeExit(w)
  BY <1>0, <1>7 DEF SeeExit
<1>8. CASE SeeAbort(w)
  BY <1>0, <1>8 DEF SeeAbort
<1>9. CASE SeeTimeout(w)
  BY <1>0, <1>9 DEF SeeTimeout
<1>10. CASE TerminateChild(w)
  BY <1>0, <1>10 DEF TerminateChild
<1>11. CASE ReleaseJobLocks(w)
  BY <1>0, <1>11 DEF ReleaseJobLocks
<1>12. CASE RaiseInChild(w) \/ KillChildOOM(w)
  BY <1>0, <1>12 DEF RaiseInChild, KillChildOOM
<1>13. CASE ReleaseInChild(w)
  BY <1>0, <1>13, ChildPlaces DEF ReleaseInChild
<1>14. CASE Shutdown(w)
  BY <1>0, <1>14 DEF Shutdown
<1> QED
  BY <1>1, <1>2, <1>3, <1>4, <1>5, <1>6, <1>7, <1>8, <1>9, <1>10, <1>11, <1>12, <1>13, <1>14
  DEF QuietStep

LEMMA QuietStepOnRecord ==
  ASSUME Everything, NEW w \in Workers, QuietStep(w)
  PROVE  OnRecord(w)'
<1> USE DEF OnRecord, redisVars, histVars
<1>0. /\ wpc \in [Workers -> WorkerPC] /\ wjob \in [Workers -> 0..MaxJobs]
      /\ outcome \in [Workers -> Outcome] /\ child \in [Workers -> ChildPC]
      /\ OnRecord(w) /\ (child[w] # "none" => wpc[w] \in {"watch", "term"})
  BY DEF Everything, LedgerInv, WellFormed, TypeOK, HandsOK
<1>1. CASE StartWorker(w)
  BY <1>0, <1>1 DEF StartWorker
<1>2. CASE StopWorker(w)
  BY <1>0, <1>2 DEF StopWorker
<1>3. CASE SpawnChild(w)
  BY <1>0, <1>3 DEF SpawnChild
<1>4. CASE BeginReap(w)
  BY <1>0, <1>4 DEF BeginReap
<1>5. CASE ReapEntry(w)
  <2>1. PICK j \in JobIds : IsStale(j) /\ wjob' = [wjob EXCEPT ![w] = j]
    BY <1>5 DEF ReapEntry
  <2>2. ~InQueue(j) /\ ~(j > lastId) /\ j \in Nat /\ lastId \in Nat
    BY <2>1, ConstantTypes
    DEF IsStale, Everything, PlaceInv, OnePlace, WellFormed, TypeOK, JobIds
  <2>3. /\ wpc'[w] = "reapMark" /\ wjob'[w] = j /\ child'[w] = "none"
        /\ UNCHANGED <<queue, lastId>>
    BY <1>0, <1>5, <2>1 DEF ReapEntry
  <2> QED
    BY <2>2, <2>3 DEF InQueue
<1>6. CASE EndReap(w)
  BY <1>0, <1>6, AfterLoopType DEF EndReap
<1>7. CASE SeeExit(w)
  BY <1>0, <1>7 DEF SeeExit
<1>8. CASE SeeAbort(w)
  BY <1>0, <1>8 DEF SeeAbort
<1>9. CASE SeeTimeout(w)
  BY <1>0, <1>9 DEF SeeTimeout
<1>10. CASE TerminateChild(w)
  BY <1>0, <1>10 DEF TerminateChild
<1>11. CASE ReleaseJobLocks(w)
  BY <1>0, <1>11 DEF ReleaseJobLocks
<1>12. CASE RaiseInChild(w) \/ KillChildOOM(w)
  BY <1>0, <1>12, ChildPlaces DEF RaiseInChild, KillChildOOM, ChildAlive, ChildLive
<1>13. CASE ReleaseInChild(w)
  BY <1>0, <1>13, ChildPlaces DEF ReleaseInChild
<1>14. CASE Shutdown(w)
  BY <1>0, <1>14 DEF Shutdown, InQueue
<1> QED
  BY <1>1, <1>2, <1>3, <1>4, <1>5, <1>6, <1>7, <1>8, <1>9, <1>10, <1>11, <1>12, <1>13, <1>14
  DEF QuietStep

LEMMA QuietStepStutters ==
  ASSUME Everything, NEW w \in Workers, QuietStep(w)
  PROVE  LedgerInv' /\ Stutters
<1>1. Still /\ OnlyBy(w) /\ UNCHANGED <<done, reported, shown, target>>
  BY QuietStepIsStill DEF Everything
<1>2. Grows /\ Accounted'
  BY <1>1, StillGrows DEF Everything, LedgerInv
<1> QED
  BY <1>1, <1>2, QuietStepOnRecord, WorkerKeepsRecords, StillKeepsStatus, Unmoved
-----------------------------------------------------------------------------
(* Steps that record a result or a failure. *)

LEMMA CommitIsSuccess ==
  ASSUME Everything, NEW w \in Workers, CommitResult(w)
  PROVE  LedgerInv' /\ Ledger!Next
<1>0. /\ InHand(w) /\ wpc[w] \in {"watch", "term"} /\ OnRecord(w) /\ done' = done \union {wjob[w]}
      /\ UNCHANGED <<queue, processing, lastId, wpc, wjob, outcome, reported, shown, target>>
  BY DEF CommitResult, Everything, LedgerInv, WellFormed, HandsOK, InHand, redisVars
<1>1. Still
  BY <1>0 DEF Still, InHand
<1>2. child'[w] = "committed" /\ \A v \in Workers : v # w => child'[v] = child[v]
  BY DEF CommitResult, Everything, WellFormed, TypeOK
<1>3. OnRecord(w)'
  BY <1>0, <1>2 DEF OnRecord
<1>4. Grows /\ Accounted' /\ OnlyBy(w)
  BY <1>0, <1>1, <1>2, StillGrows DEF Everything, LedgerInv, OnlyBy
<1>5. status' = status
  BY <1>1, StillKeepsStatus
<1> QED
  BY <1>0, <1>3, <1>4, <1>5, WorkerKeepsRecords, InHandIsHeld, Succeeds

LEMMA RecordingIsFailure ==
  ASSUME Everything, NEW w \in Workers,
         FailStaleJob(w) \/ MarkInChild(w) \/ RecordInChild(w) \/ RecordFailure(w)
  PROVE  LedgerInv' /\ Ledger!Next
<1>0. /\ wpc \in [Workers -> WorkerPC] /\ child \in [Workers -> ChildPC]
      /\ OnRecord(w) /\ wjob[w] \in JobIds /\ reported' = reported \union {wjob[w]}
      /\ UNCHANGED <<queue, processing, lastId, wjob, outcome, done, target>>
  BY DEF FailStaleJob, MarkInChild, RecordInChild, RecordFailure, ReportFailure, Everything,
         LedgerInv, WellFormed, TypeOK, HandsOK, InHand, redisVars
<1>1. /\ InHand(w)' <=> InHand(w)
      /\ \A v \in Workers : v # w => wpc'[v] = wpc[v] /\ child'[v] = child[v]
  BY <1>0 DEF FailStaleJob, MarkInChild, RecordInChild, RecordFailure, InHand
<1>2. Still /\ OnlyBy(w)
  BY <1>0, <1>1 DEF Still, OnlyBy, InHand
<1>3. OnRecord(w)'
  <2>1. CASE FailStaleJob(w)
    BY <1>0, <2>1 DEF FailStaleJob, OnRecord
  <2>2. CASE MarkInChild(w) \/ RecordInChild(w)
    <3>1. /\ child'[w] \in {"marked", "remarked", "exit1"}
          /\ wpc'[w] = wpc[w] /\ wpc[w] \in {"watch", "term"}
      BY <1>0, <2>2 DEF MarkInChild, RecordInChild, Everything, WellFormed, HandsOK
    <3> QED
      BY <1>0, <3>1 DEF OnRecord
  <2>3. CASE RecordFailure(w)
    BY <1>0, <2>3 DEF RecordFailure, OnRecord
  <2> QED
    BY <2>1, <2>2, <2>3
<1>4. Grows /\ Accounted'
  BY <1>0, <1>2, StillGrows DEF Everything, LedgerInv
<1>5. status[wjob[w]] \in {"held", "closed"} \/ wjob[w] \in reported
  <2>1. CASE wpc[w] = "reapMark"
    BY <1>0, <2>1, StatusMeans, ConstantTypes
    DEF OnRecord, Everything, WellFormed, TypeOK, JobIds
  <2>2. CASE wpc[w] # "reapMark"
    <3>1. InHand(w)
      BY <2>2 DEF FailStaleJob, MarkInChild, RecordInChild, RecordFailure, InHand, Everything, WellFormed,
                  HandsOK
    <3> QED
      BY <3>1, InHandIsHeld
  <2> QED
    BY <2>1, <2>2
<1>6. shown' = shown \union {wjob[w]} \/ (Ledger!Served(wjob[w]) /\ shown' = shown)
  <2>1. shown' = IF partsReady[target[wjob[w]]] THEN shown ELSE shown \union {wjob[w]}
    BY DEF FailStaleJob, MarkInChild, RecordInChild, RecordFailure, ReportFailure
  <2>2. ASSUME partsReady[target[wjob[w]]] PROVE Ledger!Served(wjob[w])
    <3>1. target[wjob[w]] \in Partsets
      BY <1>0 DEF Everything, WellFormed, TypeOK
    <3>2. PICK i \in done : target[i] = target[wjob[w]]
      BY <2>2, <3>1 DEF Everything, ReadyIsServed
    <3> QED
      BY <3>2 DEF Ledger!Served
  <2> QED
    BY <2>1, <2>2
<1>7. status' = status
  BY <1>2, StillKeepsStatus
<1>8. Ledger!Next
  BY <1>0, <1>5, <1>6, <1>7, Fails
<1> QED
  BY <1>2, <1>3, <1>4, <1>8, WorkerKeepsRecords

-----------------------------------------------------------------------------
(* Steps that move a job, or stamp or drop its entry. *)

LEMMA EnqueueIsSubmit ==
  ASSUME Everything, NEW r \in Requests, EnqueueJob(r)
  PROVE  LedgerInv' /\ Ledger!Next
<1> DEFINE j == lastId + 1
<1>0. /\ lastId \in Nat /\ j \in JobIds /\ lastId' = j /\ queue' = Append(queue, j)
      /\ UNCHANGED <<processing, wpc, wjob, outcome, child, done, reported, shown>>
  BY ConstantTypes DEF EnqueueJob, Everything, WellFormed, TypeOK, JobIds, workerVars, histVars
<1>1. ~InQueue(j)
  BY <1>0 DEF Everything, PlaceInv
<1>2. \A i \in JobIds : InQueue(i)' <=> InQueue(i) \/ i = j
  BY <1>0, <1>1, AppendKeepsPlace DEF Everything
<1>3. \A i \in JobIds : Held(i)' <=> Held(i)
  BY <1>0 DEF Held, InHand
<1>4. status[j] = "new" /\ status'[j] = "queued"
  BY <1>0, <1>2, StatusMeans, StatusMeansNext
<1>5. \A i \in JobIds : i # j => status'[i] = status[i]
  <2>1. \A i \in JobIds : i # j => (i > lastId <=> i > lastId')
    BY <1>0 DEF JobIds
  <2> QED
    BY <1>0, <1>2, <1>3, <2>1, StatusMeans, StatusMeansNext
<1>6. Grows
  BY <1>0, <1>2 DEF Grows
<1>7. Accounted'
  <2>1. \A i \in JobIds : i <= lastId' => i <= lastId \/ i = j
    BY <1>0 DEF JobIds
  <2> QED
    BY <1>0, <1>2, <2>1 DEF Accounted, Everything, LedgerInv
<1>8. LedgerInv'
  BY <1>0, <1>6, <1>7, OthersOnRecord DEF LedgerInv, Everything
<1>10. target' = [target EXCEPT ![j] = rpset[r]]
  BY DEF EnqueueJob
<1>11. rpset[r] \in Partsets
  BY DEF Everything, WellFormed, TypeOK
<1>9. Ledger!Submit(j)
  BY <1>0, <1>4, <1>5, <1>10, <1>11, OneMoves DEF Ledger!Submit
<1> QED
  BY <1>0, <1>8, <1>9 DEF Ledger!Next

LEMMA ClaimIsTake ==
  ASSUME Everything, NEW w \in Workers, ClaimJob(w)
  PROVE  LedgerInv' /\ Ledger!Next
<1> DEFINE j == Head(queue)
<1>0. /\ \A i \in JobIds : InQueue(i)' => InQueue(i) /\ i # j
      /\ InQueue(j) /\ j \in JobIds
  BY TailKeepsPlace DEF ClaimJob, Everything
<1>1. \A i \in JobIds : i # j => (InQueue(i)' <=> InQueue(i))
  <2>1. /\ queue \in Seq(JobIds) /\ queue # <<>> /\ Len(queue) \in Nat \ {0}
        /\ Len(queue') = Len(queue) - 1 /\ j = queue[1]
        /\ \A n \in 1..Len(queue') : queue'[n] = queue[n + 1]
    BY DEF ClaimJob, Everything, WellFormed, TypeOK
  <2>2. ASSUME NEW i \in JobIds, i # j, InQueue(i) PROVE InQueue(i)'
    <3>1. PICK n \in 1..Len(queue) : queue[n] = i
      BY <2>2 DEF InQueue
    <3>2. n - 1 \in 1..Len(queue') /\ queue'[n - 1] = queue[(n - 1) + 1] /\ (n - 1) + 1 = n
      BY <2>1, <2>2, <3>1
    <3> QED
      BY <3>1, <3>2 DEF InQueue
  <2> QED
    BY <1>0, <2>2
<1>2. /\ \A i \in JobIds : i # j => processing'[i] = processing[i]
      /\ processing'[j] = "raw" /\ wpc[w] = "idle" /\ wpc'[w] = "claimed" /\ wjob'[w] = j
      /\ \A v \in Workers : v # w => wpc'[v] = wpc[v] /\ wjob'[v] = wjob[v]
      /\ child[w] = "none" /\ UNCHANGED <<lastId, outcome, child, done, reported, shown, target>>
  BY <1>0 DEF ClaimJob, Everything, WellFormed, TypeOK, HandsOK, histVars
<1>3. \A i \in JobIds : i # j => (Held(i)' <=> Held(i))
  BY <1>2 DEF Held, InHand
<1>4. ~(j > lastId)
  BY <1>0 DEF Everything, PlaceInv
<1> HIDE DEF j
<1>5. status[j] = "queued" /\ status'[j] = "held"
  BY <1>0, <1>2, <1>4, StatusMeans, StatusMeansNext DEF Held
<1>6. \A i \in JobIds : i # j => status'[i] = status[i]
  BY <1>1, <1>2, <1>3, StatusMeans, StatusMeansNext
<1>7. Grows /\ OnlyBy(w)
  BY <1>0, <1>2 DEF Grows, OnlyBy, Everything, WellFormed, TypeOK
<1>8. Accounted'
  BY <1>0, <1>1, <1>2 DEF Accounted, Everything, LedgerInv
<1>9. OnRecord(w)'
  BY <1>2 DEF OnRecord
<1>10. Ledger!Take(j)
  BY <1>0, <1>2, <1>5, <1>6, OneMoves DEF Ledger!Take
<1> QED
  BY <1>0, <1>7, <1>8, <1>9, <1>10, WorkerKeepsRecords DEF Ledger!Next

LEMMA StampStutters ==
  ASSUME Everything, NEW w \in Workers, StampJob(w)
  PROVE  LedgerInv' /\ Stutters
<1>0. /\ wjob[w] \in JobIds /\ ~InQueue(wjob[w]) /\ InHand(w)
      /\ child[w] = "none"
  BY InHandIsHeld DEF StampJob, InHand, Everything, WellFormed, HandsOK
<1>1. /\ \A i \in JobIds : i # wjob[w] => processing'[i] = processing[i]
      /\ processing'[wjob[w]] = "stamped" /\ wpc'[w] = "stamped"
      /\ \A v \in Workers : v # w => wpc'[v] = wpc[v]
      /\ UNCHANGED <<queue, lastId, wjob, outcome, child, done, reported, shown, target>>
  BY <1>0 DEF StampJob, Everything, WellFormed, TypeOK, histVars
<1>2. \A i \in JobIds : InQueue(i)' <=> InQueue(i)
  BY <1>1 DEF InQueue
<1>3. \A v \in Workers : InHand(v)' <=> InHand(v)
  BY <1>0, <1>1 DEF InHand
<1>4. \A i \in JobIds : Held(i)' <=> Held(i)
  BY <1>0, <1>1, <1>3 DEF Held
<1>5. Stutters
  BY <1>1, <1>2, <1>4, NothingMoves, Unmoved
<1>6. Grows /\ OnlyBy(w)
  BY <1>1, <1>2 DEF Grows, OnlyBy, Everything, WellFormed, TypeOK
<1>7. Accounted'
  BY <1>0, <1>1, <1>2 DEF Accounted, Everything, LedgerInv
<1>8. OnRecord(w)'
  BY <1>0, <1>1 DEF OnRecord
<1> QED
  BY <1>5, <1>6, <1>7, <1>8, WorkerKeepsRecords

\* An entry that leaves the processing list, or a worker that puts its job down,
\* closes the job or changes nothing the ledger sees.
LEMMA LettingGo ==
  ASSUME Everything, NEW j \in JobIds, lastId' = lastId, UNCHANGED <<done, reported, shown, target>>,
         \A i \in JobIds : InQueue(i)' <=> InQueue(i),
         \A i \in JobIds : i # j => (Held(i)' <=> Held(i)),
         Held(j)' => Held(j),
         Held(j) /\ ~Held(j)' /\ status[j] = "held" => j \in done \union reported
  PROVE  Ledger!Next \/ Stutters
<1>1. CASE status'[j] = status[j]
  <2>1. \A i \in JobIds : status'[i] = status[i]
    BY <1>1, StatusMeans, StatusMeansNext
  <2>2. status' = status
    BY <2>1 DEF status
  <2> QED
    BY <2>2, Unmoved
<1>2. CASE status'[j] # status[j]
  <2>1. status[j] = "held" /\ status'[j] = "closed" /\ j \in done \union reported
    BY <1>2, StatusMeans, StatusMeansNext
  <2>2. \A i \in JobIds : i # j => status'[i] = status[i]
    BY StatusMeans, StatusMeansNext
  <2>3. Ledger!Close(j)
    BY <2>1, <2>2, OneMoves DEF Ledger!Close
  <2> QED
    BY <2>3 DEF Ledger!Next
<1> QED
  BY <1>1, <1>2

LEMMA ReapIsClose ==
  ASSUME Everything, NEW w \in Workers, AckStaleJob(w)
  PROVE  LedgerInv' /\ (Ledger!Next \/ Stutters)
<1> PICK j \in JobIds : j = wjob[w]
  BY DEF AckStaleJob, Everything, WellFormed, HandsOK, InHand
<1>0. /\ j = wjob[w] /\ j \in reported /\ child[w] = "none" /\ wpc[w] = "reapAck"
  BY DEF AckStaleJob, Everything, WellFormed, HandsOK, LedgerInv, OnRecord
<1>1. /\ \A i \in JobIds : i # j => processing'[i] = processing[i]
      /\ processing'[j] \in {processing[j], "no"} /\ wpc'[w] = "scan"
      /\ \A v \in Workers : v # w => wpc'[v] = wpc[v] /\ wjob'[v] = wjob[v]
      /\ UNCHANGED <<queue, lastId, outcome, child, done, reported, shown, target>>
  BY <1>0 DEF AckStaleJob, Everything, WellFormed, TypeOK, histVars
<1>2. \A i \in JobIds : InQueue(i)' <=> InQueue(i)
  BY <1>1 DEF InQueue
<1>3. \A v \in Workers : (InHand(v)' <=> InHand(v)) /\ (InHand(v) => wjob'[v] = wjob[v])
  BY <1>0, <1>1 DEF InHand
<1>4. /\ \A i \in JobIds : i # j => (Held(i)' <=> Held(i))
      /\ Held(j)' => Held(j)
  BY <1>0, <1>1, <1>3 DEF Held
<1>5. Ledger!Next \/ Stutters
  BY <1>0, <1>1, <1>2, <1>4, LettingGo
<1>6. Grows /\ OnlyBy(w)
  BY <1>1, <1>2 DEF Grows, OnlyBy, Everything, WellFormed, TypeOK
<1>7. Accounted'
  BY <1>0, <1>1, <1>2 DEF Accounted, Everything, LedgerInv
<1>8. OnRecord(w)'
  BY <1>0, <1>1 DEF OnRecord
<1> QED
  BY <1>5, <1>6, <1>7, <1>8, WorkerKeepsRecords

LEMMA AckIsClose ==
  ASSUME Everything, NEW w \in Workers, AckJob(w)
  PROVE  LedgerInv' /\ (Ledger!Next \/ Stutters)
<1> PICK j \in JobIds : j = wjob[w]
  BY DEF AckJob, Everything, WellFormed, HandsOK, InHand
<1>0. /\ j = wjob[w] /\ j \in done \union reported /\ child[w] = "none"
      /\ outcome[w] = "interrupted" => j \in reported
      /\ wpc[w] = "ack" /\ InHand(w)
  BY DEF AckJob, Everything, WellFormed, HandsOK, LedgerInv, OnRecord, InHand
<1>1. /\ \A i \in JobIds : i # j => processing'[i] = processing[i]
      /\ processing'[j] = "no"
      /\ UNCHANGED <<queue, lastId, child, done, reported, shown, target>>
  BY <1>0 DEF AckJob, Everything, WellFormed, TypeOK, histVars
<1>2. /\ OnlyBy(w)
      /\ (wpc'[w] = "push" /\ outcome[w] = "interrupted" /\ wjob'[w] = wjob[w])
         \/ wpc'[w] \in {"idle", "off"}
  BY <1>1, AfterLoopType DEF AckJob, PutDown, OnlyBy, Everything, WellFormed, TypeOK
<1>3. \A i \in JobIds : InQueue(i)' <=> InQueue(i)
  BY <1>1 DEF InQueue
<1>4. \A v \in Workers : v # w => (InHand(v)' <=> InHand(v)) /\ wjob'[v] = wjob[v]
  BY <1>2 DEF OnlyBy, InHand
<1>5. InHand(w)' => wjob'[w] = wjob[w]
  BY <1>2 DEF InHand
<1>6. /\ \A i \in JobIds : i # j => (Held(i)' <=> Held(i))
      /\ Held(j)' => Held(j)
  BY <1>0, <1>1, <1>4, <1>5 DEF Held
<1>7. Ledger!Next \/ Stutters
  BY <1>0, <1>1, <1>3, <1>6, LettingGo
<1>8. Grows
  BY <1>1, <1>3 DEF Grows, Everything, WellFormed, TypeOK
<1>9. Accounted'
  BY <1>0, <1>1, <1>3 DEF Accounted, Everything, LedgerInv
<1>10. OnRecord(w)'
  BY <1>0, <1>1, <1>2 DEF OnRecord
<1> QED
  BY <1>2, <1>7, <1>8, <1>9, <1>10, WorkerKeepsRecords

LEMMA RequeueIsGiveBack ==
  ASSUME Everything, NEW w \in Workers, RequeueJob(w)
  PROVE  LedgerInv' /\ Ledger!Next
<1>0. /\ wjob[w] \in JobIds /\ wjob[w] \in reported /\ child[w] = "none"
      /\ status[wjob[w]] = "held" /\ ~InQueue(wjob[w]) /\ ~(wjob[w] > lastId)
  BY InHandIsHeld DEF RequeueJob, InHand, Everything, WellFormed, HandsOK, LedgerInv, OnRecord
<1>1. /\ queue' = Append(queue, wjob[w]) /\ wpc'[w] \in {"idle", "off"}
      /\ \A v \in Workers : v # w => wpc'[v] = wpc[v] /\ wjob'[v] = wjob[v]
                                     /\ outcome'[v] = outcome[v]
      /\ UNCHANGED <<processing, lastId, child, done, reported, shown, target>>
  BY AfterLoopType DEF RequeueJob, PutDown, Everything, WellFormed, TypeOK, histVars
<1>2. \A i \in JobIds : InQueue(i)' <=> InQueue(i) \/ i = wjob[w]
  BY <1>0, <1>1, AppendKeepsPlace DEF Everything
<1>3. \A i \in JobIds : i # wjob[w] => (Held(i)' <=> Held(i))
  BY <1>1 DEF Held, InHand
<1>4. status'[wjob[w]] = "queued"
  BY <1>0, <1>1, <1>2, StatusMeansNext
<1>5. \A i \in JobIds : i # wjob[w] => status'[i] = status[i]
  BY <1>1, <1>2, <1>3, StatusMeans, StatusMeansNext
<1>6. Grows /\ OnlyBy(w)
  BY <1>0, <1>1, <1>2 DEF Grows, OnlyBy, Everything, WellFormed, TypeOK
<1>7. Accounted'
  BY <1>1, <1>2 DEF Accounted, Everything, LedgerInv
<1>8. OnRecord(w)'
  BY <1>0, <1>1 DEF OnRecord
<1>9. Ledger!GiveBack(wjob[w])
  BY <1>0, <1>1, <1>4, <1>5, OneMoves DEF Ledger!GiveBack
<1> QED
  BY <1>0, <1>6, <1>7, <1>8, <1>9, WorkerKeepsRecords DEF Ledger!Next

\* A lost worker or connection: what the worker held is in the processing list still,
\* or it is closed with its outcome on record.
LEMMA LossIsClose ==
  ASSUME Everything, NEW w \in Workers, CrashWorker(w) \/ LoseRedis(w)
  PROVE  LedgerInv' /\ (Ledger!Next \/ Stutters)
<1>0. /\ ~InHand(w)' /\ wpc'[w] \in {"off", "idle"} /\ child'[w] = "none"
      /\ \A v \in Workers : v # w =>
           /\ wpc'[v] = wpc[v] /\ wjob'[v] = wjob[v]
           /\ outcome'[v] = outcome[v] /\ child'[v] = child[v]
      /\ UNCHANGED <<queue, processing, lastId, done, reported, shown, target>>
  BY AfterLoopType
  DEF CrashWorker, LoseRedis, PutDown, Everything, WellFormed, TypeOK, HandsOK, InHand,
         redisVars, Fault
<1>1. \A i \in JobIds : InQueue(i)' <=> InQueue(i)
  BY <1>0 DEF InQueue
<1>2. \A v \in Workers : v # w => (InHand(v)' <=> InHand(v)) /\ wjob'[v] = wjob[v]
  BY <1>0 DEF InHand
<1>3. Grows /\ OnlyBy(w)
  BY <1>0, <1>1 DEF Grows, OnlyBy, Everything, WellFormed, TypeOK
<1>4. Accounted'
  BY <1>0, <1>1 DEF Accounted, Everything, LedgerInv
<1>5. OnRecord(w)'
  BY <1>0 DEF OnRecord
<1>6. CASE InHand(w)
  <2> PICK j \in JobIds : j = wjob[w] /\ ~InQueue(j) /\ ~(j > lastId)
    BY <1>6, InHandIsHeld
  <2>1. \A i \in JobIds : i # j => (Held(i)' <=> Held(i))
    BY <1>0, <1>2, <1>6 DEF Held
  <2>2. (Held(j)' => Held(j)) /\ Held(j)
    BY <1>0, <1>2, <1>6 DEF Held
  <2>3. ~Held(j)' => j \in done \union reported
    <3>1. j <= lastId
      BY ConstantTypes DEF Everything, WellFormed, TypeOK, JobIds
    <3> QED
      BY <1>0, <3>1 DEF Held, Accounted, Everything, LedgerInv
  <2>4. Ledger!Next \/ Stutters
    BY <1>0, <1>1, <2>1, <2>2, <2>3, LettingGo
  <2> QED
    BY <1>3, <1>4, <1>5, <2>4, WorkerKeepsRecords
<1>7. CASE ~InHand(w)
  <2>1. \A i \in JobIds : Held(i)' <=> Held(i)
    BY <1>0, <1>2, <1>7 DEF Held
  <2> QED
    BY <1>0, <1>1, <1>3, <1>4, <1>5, <2>1, NothingMoves, Unmoved, WorkerKeepsRecords
<1> QED
  BY <1>6, <1>7

-----------------------------------------------------------------------------
\* A step of the queue is a step of the ledger, or changes nothing it sees.
LEMMA StepSimulates ==
  ASSUME Everything, [Next]_vars
  PROVE  LedgerInv' /\ (Ledger!Next \/ Stutters)
<1>1. CASE UNCHANGED vars
  <2>1. UNCHANGED <<queue, processing, lastId, wpc, wjob, outcome, child, done, reported, shown, target>>
    BY <1>1 DEF vars, redisVars, workerVars, histVars
  <2>2. Still
    BY <2>1 DEF Still, InHand
  <2> QED
    BY <2>1, <2>2, StillKeepsStatus, Unmoved
    DEF Everything, LedgerInv, Accounted, OnRecord, InQueue
<1>2. CASE Tick
  BY <1>2, TickStutters
<1>3. ASSUME NEW r \in Requests, BeginRequest(r) \/ ApiStep(r) \/ LoseRequest(r)
      PROVE  LedgerInv' /\ (Ledger!Next \/ Stutters)
  BY <1>3, RequestsStutter, EnqueueIsSubmit DEF ApiStep
<1>4. ASSUME NEW w \in Workers, LoopStep(w) PROVE LedgerInv' /\ (Ledger!Next \/ Stutters)
  BY <1>4, QuietStepStutters, ClaimIsTake, StampStutters, RecordingIsFailure, ReapIsClose
  DEF LoopStep, QuietStep
<1>5. ASSUME NEW w \in Workers, ParentStep(w) PROVE LedgerInv' /\ (Ledger!Next \/ Stutters)
  BY <1>5, QuietStepStutters, RecordingIsFailure, AckIsClose, RequeueIsGiveBack
  DEF ParentStep, QuietStep
<1>6. ASSUME NEW w \in Workers, ChildStep(w) \/ Environment(w)
      PROVE  LedgerInv' /\ (Ledger!Next \/ Stutters)
  BY <1>6, QuietStepStutters, CommitIsSuccess, RecordingIsFailure, LossIsClose
  DEF ChildStep, UnwindStep, Environment, QuietStep
<1>7. ASSUME NEW p \in Generated, PartsStep(p) PROVE LedgerInv' /\ Stutters
  BY <1>7, PartsStutter
<1> QED
  BY <1>1, <1>2, <1>3, <1>4, <1>5, <1>6, <1>7 DEF Next

\* What the partsets' readiness rests on is left alone.
LEMMA ServedKept ==
  ASSUME ReadyIsServed, UNCHANGED <<complete, partsReady, target, lastId, done>>
  PROVE  ReadyIsServed'
BY DEF ReadyIsServed

LEMMA CommitServes ==
  ASSUME Everything, NEW w \in Workers, CommitResult(w)
  PROVE  ReadyIsServed'
<1>1. wjob[w] \in JobIds /\ ~(wjob[w] > lastId)
  <2>1. child[w] # "none"
    BY DEF CommitResult
  <2>2. InHand(w)
    BY <2>1 DEF Everything, WellFormed, HandsOK, InHand
  <2> QED
    BY <2>2, InHandIsHeld
<1>2. wjob[w] <= lastId
  BY <1>1, ConstantTypes DEF Everything, WellFormed, TypeOK, JobIds
<1>3. /\ done' = done \union {wjob[w]} /\ UNCHANGED <<partsReady, target, lastId>>
      /\ complete' = [complete EXCEPT ![target[wjob[w]]] = TRUE]
  BY DEF CommitResult, redisVars, Pset
<1>4. complete \in [Partsets -> BOOLEAN] /\ ReadyIsServed
  BY DEF Everything, WellFormed, TypeOK
<1>5. ASSUME NEW p \in Partsets, complete'[p] \/ partsReady'[p]
      PROVE  \E i \in done' : i <= lastId' /\ target'[i] = p
  <2>1. CASE p = target[wjob[w]]
    BY <1>2, <1>3, <2>1
  <2>2. CASE p # target[wjob[w]]
    <3>1. complete[p] \/ partsReady[p]
      BY <1>3, <1>4, <1>5, <2>2
    <3> QED
      BY <1>3, <1>4, <3>1 DEF ReadyIsServed
  <2> QED
    BY <2>1, <2>2
<1> QED
  BY <1>5 DEF ReadyIsServed

LEMMA EnqueueServes ==
  ASSUME Everything, NEW r \in Requests, EnqueueJob(r)
  PROVE  ReadyIsServed'
<1>1. /\ lastId' = lastId + 1 /\ lastId \in Nat /\ done \subseteq JobIds
      /\ target \in [JobIds -> Partsets]
      /\ target' = [target EXCEPT ![lastId + 1] = rpset[r]]
      /\ UNCHANGED <<complete, partsReady, done>>
  BY DEF EnqueueJob, dbVars, histVars, Everything, WellFormed, TypeOK
<1>2. ASSUME NEW i \in done, i <= lastId PROVE i <= lastId' /\ target'[i] = target[i]
  BY <1>1, <1>2, ConstantTypes DEF JobIds
<1> QED
  BY <1>1, <1>2 DEF Everything, ReadyIsServed

LEMMA PartsServe ==
  ASSUME Everything, NEW p \in Partsets, PartsStep(p)
  PROVE  ReadyIsServed'
<1>1. /\ UNCHANGED <<complete, target, lastId, done>>
      /\ \A q \in Partsets : partsReady'[q] => partsReady[q] \/ complete[q]
  BY DEF PartsStep, MakePartsReady, TakePartsDown, FailPartGen, redisVars, histVars,
         Everything, WellFormed, TypeOK
<1> QED
  BY <1>1 DEF Everything, ReadyIsServed

LEMMA StepServes == ASSUME Everything, [Next]_vars PROVE ReadyIsServed'
<1> USE DEF redisVars, dbVars, histVars
<1>1. CASE UNCHANGED vars
  BY <1>1, ServedKept DEF vars, Everything
<1>2. CASE Tick
  BY <1>2, ServedKept DEF Tick, Everything
<1>3. ASSUME NEW r \in Requests, BeginRequest(r) \/ ApiStep(r) \/ LoseRequest(r)
      PROVE  ReadyIsServed'
  <2>1. CASE EnqueueJob(r)
    BY <2>1, EnqueueServes
  <2>2. CASE ~EnqueueJob(r)
    BY <1>3, <2>2, ServedKept
    DEF ApiStep, BeginRequest, AcquireLock, LockBusy, CommitRequest, LoseRequest, Everything
  <2> QED
    BY <2>1, <2>2
<1>4. ASSUME NEW w \in Workers, LoopStep(w) PROVE ReadyIsServed'
  BY <1>4, ServedKept
  DEF LoopStep, StopWorker, ClaimJob, StampJob, SpawnChild, BeginReap, ReapEntry,
      FailStaleJob, AckStaleJob, EndReap, Everything
<1>5. ASSUME NEW w \in Workers, ParentStep(w) PROVE ReadyIsServed'
  BY <1>5, ServedKept
  DEF ParentStep, SeeExit, SeeAbort, SeeTimeout, TerminateChild, RecordFailure,
      ReleaseJobLocks, AckJob, RequeueJob, Everything
<1>6. ASSUME NEW w \in Workers, ChildStep(w) PROVE ReadyIsServed'
  <2>1. CASE CommitResult(w)
    BY <2>1, CommitServes
  <2>2. CASE ~CommitResult(w)
    BY <1>6, <2>2, ServedKept
    DEF ChildStep, UnwindStep, RaiseInChild, MarkInChild, ReleaseInChild, RecordInChild,
        KillChildOOM, Everything
  <2> QED
    BY <2>1, <2>2
<1>7. ASSUME NEW w \in Workers, Environment(w) PROVE ReadyIsServed'
  BY <1>7, ServedKept DEF Environment, StartWorker, Shutdown, CrashWorker, LoseRedis, Everything
<1>8. ASSUME NEW p \in Generated, PartsStep(p) PROVE ReadyIsServed'
  BY <1>8, GeneratedArePartsets, PartsServe
<1> QED
  BY <1>1, <1>2, <1>3, <1>4, <1>5, <1>6, <1>7, <1>8 DEF Next

LEMMA InitSimulates == Init => LedgerInv /\ ReadyIsServed /\ Ledger!Init
<1> SUFFICES ASSUME Init PROVE LedgerInv /\ ReadyIsServed /\ Ledger!Init
  OBVIOUS
<1>4. target \in [JobIds -> Partsets]
  BY InitWellFormed DEF WellFormed, TypeOK
<1>5. ReadyIsServed
  BY DEF Init, ReadyIsServed
<1>1. \A j \in JobIds : j > lastId
  BY DEF Init, JobIds
<1>2. Ledger!Init
  BY <1>1, <1>4 DEF Init, Ledger!Init, Status
<1>3. LedgerInv
  BY <1>1 DEF Init, LedgerInv, Accounted, OnRecord, JobIds
<1> QED
  BY <1>2, <1>3, <1>5

\* The queue implements the ledger: no job disappears without a result or a reported
\* failure, a report that the partset does not take is of a partset that a job has
\* completed, and no job is taken up again unless its interruption was reported.
THEOREM QueueKeepsLedger == Spec => KeepsLedger
<1>1. Init => Everything /\ Ledger!Init
  BY InitWellFormed, InitPlace, InitSimulates DEF Everything
<1>2. Everything /\ [Next]_vars => Everything' /\ [Ledger!Next]_(Ledger!ledger)
  BY StepWellFormed, StepPlace, StepSimulates, StepServes DEF Everything, Stutters
<1> QED
  BY <1>1, <1>2, PTL DEF Spec, KeepsLedger, Ledger!Spec
=============================================================================
