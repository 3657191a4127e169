--------------------------- MODULE ReorientProofs ---------------------------
(***************************************************************************)
(* Reorientations, for any number of requests, jobs and pages: the import  *)
(* lock has a holder that releases it, and a complete partset has segments *)
(* and page images of its own rotation and split.                          *)
(***************************************************************************)
EXTENDS Reorient, TLAPS

ReqPC == {"idle", "loaded", "warm", "commit"}
JobPC == {"none", "queued", "dropRows", "resetRow", "wipe", "copy", "clearErr", "setMode",
          "clear", "insert", "complete", "unlock", "exit", "fail", "abort", "again"}

Req == [pc : ReqPC, mode : Modes, done : BOOLEAN, error : BOOLEAN, ready : BOOLEAN,
        target : Modes, rows : BOOLEAN]
Job == [pc : JobPC, kind : {"reorient", "warm", "import"}, mode : Modes, todo : SUBSET Slots]

Typed ==
  /\ mode \in Modes /\ done \in BOOLEAN /\ error \in BOOLEAN /\ ready \in BOOLEAN
  /\ tagged \in BOOLEAN
  /\ req \in [Reqs -> Req] /\ job \in [Jobs -> Job]

\* Only partsets with pages of their own get a warm job.
WarmIsCustom ==
  /\ \A r \in Reqs : Is(r, "warm") => req[r].mode \in Custom
  /\ \A j \in Jobs : job[j].kind = "warm" => job[j].mode \in Custom

\* The holder has yet to pass its finally.
HolderReleases == \A j \in Jobs : lock = j => job[j].pc \notin {"none", "exit", "again"}

OwnerInv == Typed /\ WarmIsCustom /\ HolderReleases

-----------------------------------------------------------------------------
(* Types of the helpers. *)

LEMMA Empty == NoJob \in Job /\ NoReq \in Req
  BY DEF NoJob, NoReq, Job, Req, JobPC, ReqPC, Modes

LEMMA GotoType ==
  ASSUME Typed, NEW j \in Jobs, NEW pc \in JobPC, Goto(j, pc)
  PROVE  /\ job' \in [Jobs -> Job]
         /\ \A i \in Jobs : job'[i].kind = job[i].kind /\ job'[i].mode = job[i].mode
         /\ \A i \in Jobs : i # j => job'[i] = job[i]
         /\ job'[j].pc = pc
<1> DEFINE r == [job[j] EXCEPT !.pc = pc]
<1>1. job[j] \in Job
  BY DEF Typed
<1>2. r \in Job /\ r.kind = job[j].kind /\ r.mode = job[j].mode /\ r.pc = pc
  BY <1>1 DEF Job
<1>3. job' = [job EXCEPT ![j] = r] /\ job \in [Jobs -> Job]
  BY DEF Goto, Typed
<1> HIDE DEF r
<1> QED BY <1>2, <1>3

\* A job that goes on with other pages to copy.
LEMMA TodoType ==
  ASSUME Typed, NEW j \in Jobs, NEW pc \in JobPC, NEW todo \in SUBSET Slots,
         job' = [job EXCEPT ![j] = [job[j] EXCEPT !.todo = todo, !.pc = pc]]
  PROVE  /\ job' \in [Jobs -> Job]
         /\ \A i \in Jobs : job'[i].kind = job[i].kind /\ job'[i].mode = job[i].mode
         /\ \A i \in Jobs : i # j => job'[i] = job[i]
         /\ job'[j].pc = pc
<1> DEFINE r == [job[j] EXCEPT !.todo = todo, !.pc = pc]
<1>1. job[j] \in Job
  BY DEF Typed
<1>2. r \in Job /\ r.kind = job[j].kind /\ r.mode = job[j].mode /\ r.pc = pc
  BY <1>1 DEF Job
<1>3. job' = [job EXCEPT ![j] = r] /\ job \in [Jobs -> Job]
  BY DEF Typed
<1> HIDE DEF r
<1> QED BY <1>2, <1>3

LEMMA EndType ==
  ASSUME Typed, NEW j \in Jobs, End(j)
  PROVE  /\ job' \in [Jobs -> Job]
         /\ \A i \in Jobs : job'[i].kind = "warm" => job[i].kind = "warm" /\ job'[i].mode = job[i].mode
         /\ \A i \in Jobs : i # j => job'[i] = job[i]
<1>1. job' = [job EXCEPT ![j] = NoJob] /\ job \in [Jobs -> Job] /\ NoJob.kind # "warm"
  BY DEF End, Typed, NoJob
<1> QED BY <1>1, Empty

\* A new job holds the lock and is queued.
LEMMA LaunchType ==
  ASSUME OwnerInv, NEW kind \in {"reorient", "warm", "import"}, NEW m \in Modes, NEW late,
         kind = "warm" => m \in Custom, Launch(kind, m, late)
  PROVE  /\ job' \in [Jobs -> Job]
         /\ \A i \in Jobs : job'[i].kind = "warm" => job'[i].mode \in Custom
         /\ HolderReleases'
<1>1. PICK j \in Free :
        /\ job' = [job EXCEPT ![j] = [NoJob EXCEPT !.pc = "queued", !.kind = kind,
                                      !.mode = IF kind = "import" THEN "upright" ELSE m]]
        /\ lock' = j
  BY DEF Launch
<1> DEFINE new == [NoJob EXCEPT !.pc = "queued", !.kind = kind,
                                !.mode = IF kind = "import" THEN "upright" ELSE m]
<1>2. new \in Job /\ new.pc = "queued" /\ (new.kind = "warm" => new.mode \in Custom)
  <2>1. (IF kind = "import" THEN "upright" ELSE m) \in Modes
    BY DEF Modes
  <2>2. NoJob \in Job
    BY Empty
  <2> QED BY <2>1, <2>2 DEF Job, JobPC
<1>3. job' = [job EXCEPT ![j] = new] /\ job \in [Jobs -> Job] /\ j \in Jobs
  BY <1>1 DEF OwnerInv, Typed, Free
<1> HIDE DEF new
<1>4. \A i \in Jobs : job'[i] = IF i = j THEN new ELSE job[i]
  BY <1>3
<1> QED BY <1>1, <1>2, <1>3, <1>4 DEF OwnerInv, WarmIsCustom, HolderReleases

LEMMA AnswerType ==
  ASSUME OwnerInv, NEW r \in Reqs, Answer(r)
  PROVE  /\ req' \in [Reqs -> Req]
         /\ \A q \in Reqs : req'[q].pc = "warm" => req'[q].mode \in Custom
<1>1. req' = [req EXCEPT ![r] = NoReq] /\ req \in [Reqs -> Req] /\ NoReq.pc # "warm"
  BY DEF Answer, OwnerInv, Typed, NoReq
<1>2. \A q \in Reqs : req'[q] = IF q = r THEN NoReq ELSE req[q]
  BY <1>1
<1> QED BY <1>1, <1>2, Empty DEF OwnerInv, WarmIsCustom, Is

\* A request of a custom partset may go on to warm its images.
LEMMA ToWarmType ==
  ASSUME OwnerInv, NEW r \in Reqs, req[r].mode \in Custom, req' = [req EXCEPT ![r].pc = "warm"]
  PROVE  /\ req' \in [Reqs -> Req]
         /\ \A q \in Reqs : req'[q].pc = "warm" => req'[q].mode \in Custom
<1> DEFINE q == [req[r] EXCEPT !.pc = "warm"]
<1>1. req[r] \in Req
  BY DEF OwnerInv, Typed
<1>2. q \in Req /\ q.mode = req[r].mode
  BY <1>1 DEF Req, ReqPC
<1>3. req' = [req EXCEPT ![r] = q] /\ req \in [Reqs -> Req]
  BY DEF OwnerInv, Typed
<1> HIDE DEF q
<1>4. \A s \in Reqs : req'[s] = IF s = r THEN q ELSE req[s]
  BY <1>3
<1> QED BY <1>2, <1>3, <1>4 DEF OwnerInv, WarmIsCustom, Is

-----------------------------------------------------------------------------
(* The initial states and the requests. *)

LEMMA InitOwner == Init => OwnerInv
<1> SUFFICES ASSUME Init PROVE OwnerInv
  OBVIOUS
<1>1. Typed
  BY Empty DEF Init, Typed
<1>2. WarmIsCustom
  BY DEF Init, WarmIsCustom, Is, NoReq, NoJob
<1>3. HolderReleases
  BY ReorientAssumption DEF Init, HolderReleases
<1> QED BY <1>1, <1>2, <1>3 DEF OwnerInv

\* Rows and requests may change under jobs and lock that stay.
LEMMA SameJobs ==
  ASSUME OwnerInv, UNCHANGED <<job, lock>>, mode' \in Modes, done' \in BOOLEAN, error' \in BOOLEAN,
         ready' \in BOOLEAN, tagged' \in BOOLEAN, req' \in [Reqs -> Req],
         \A q \in Reqs : req'[q].pc = "warm" => req'[q].mode \in Custom
  PROVE  OwnerInv'
<1>1. Typed'
  BY DEF OwnerInv, Typed
<1>2. WarmIsCustom' /\ HolderReleases'
  BY DEF OwnerInv, WarmIsCustom, HolderReleases, Is
<1> QED BY <1>1, <1>2 DEF OwnerInv

\* Jobs and lock may change under requests that stay.
LEMMA SameRequests ==
  ASSUME OwnerInv, req' = req, mode' \in Modes, done' \in BOOLEAN, error' \in BOOLEAN,
         ready' \in BOOLEAN, tagged' \in BOOLEAN, job' \in [Jobs -> Job],
         \A i \in Jobs : job'[i].kind = "warm" => job[i].kind = "warm" /\ job'[i].mode = job[i].mode,
         HolderReleases'
  PROVE  OwnerInv'
<1>1. Typed'
  BY DEF OwnerInv, Typed
<1>2. WarmIsCustom'
  BY DEF OwnerInv, WarmIsCustom, Is
<1> QED BY <1>1, <1>2 DEF OwnerInv

\* A request that has taken the lock for a job, or found it taken.
LEMMA LaunchedOrNot ==
  ASSUME OwnerInv, UNCHANGED <<mode, done, ready, tagged>>, error' \in BOOLEAN, req' \in [Reqs -> Req],
         \A q \in Reqs : req'[q].pc = "warm" => req'[q].mode \in Custom,
         \/ UNCHANGED <<job, lock>>
         \/ \E kind \in {"reorient", "warm", "import"}, m \in Modes : \E late :
              (kind = "warm" => m \in Custom) /\ Launch(kind, m, late)
  PROVE  OwnerInv'
<1>1. CASE UNCHANGED <<job, lock>>
  BY <1>1, SameJobs DEF OwnerInv, Typed
<1>2. ASSUME NEW kind \in {"reorient", "warm", "import"}, NEW m \in Modes, NEW late,
             kind = "warm" => m \in Custom, Launch(kind, m, late)
      PROVE  OwnerInv'
  <2>1. /\ job' \in [Jobs -> Job] /\ HolderReleases'
        /\ \A i \in Jobs : job'[i].kind = "warm" => job'[i].mode \in Custom
    BY <1>2, LaunchType
  <2>2. Typed'
    BY <2>1 DEF OwnerInv, Typed
  <2>3. WarmIsCustom'
    BY <2>1 DEF WarmIsCustom, Is
  <2> QED BY <2>1, <2>2, <2>3 DEF OwnerInv
<1> QED BY <1>1, <1>2

LEMMA PollsKeepOwner ==
  ASSUME OwnerInv, NEW r \in Reqs, Load(r) \/ Poll(r) \/ RetryPages(r) \/ EnqueueWarm(r)
  PROVE  OwnerInv'
<1> mode \in Modes /\ done \in BOOLEAN /\ error \in BOOLEAN /\ ready \in BOOLEAN /\ tagged \in BOOLEAN
    /\ req \in [Reqs -> Req]
  BY DEF OwnerInv, Typed
<1>1. CASE Load(r)
  <2> DEFINE new == [NoReq EXCEPT !.pc = "loaded", !.mode = mode, !.done = done,
                                  !.error = error, !.ready = ready]
  <2>1. new \in Req /\ new.pc # "warm"
    BY Empty DEF Req, ReqPC
  <2>2. req' = [req EXCEPT ![r] = new] /\ UNCHANGED <<rowVars, job, lock>>
    BY <1>1 DEF Load
  <2> HIDE DEF new
  <2>3. \A q \in Reqs : req'[q] = IF q = r THEN new ELSE req[q]
    BY <2>2
  <2>4. req' \in [Reqs -> Req] /\ \A q \in Reqs : req'[q].pc = "warm" => req'[q].mode \in Custom
    BY <2>1, <2>2, <2>3 DEF OwnerInv, WarmIsCustom, Is
  <2> QED BY <2>2, <2>4, SameJobs DEF rowVars
<1>2. CASE Poll(r)
  <2>1. UNCHANGED <<rowVars, job, lock>>
    BY <1>2 DEF Poll
  <2>2. Answer(r) \/ (req[r].mode \in Custom /\ req' = [req EXCEPT ![r].pc = "warm"])
    BY <1>2 DEF Poll
  <2> QED BY <2>1, <2>2, AnswerType, ToWarmType, SameJobs DEF rowVars
<1>3. CASE RetryPages(r)
  BY <1>3, ToWarmType, SameJobs DEF RetryPages, rowVars
<1>4. CASE EnqueueWarm(r)
  <2>1. Answer(r) /\ UNCHANGED rowVars /\ req[r].mode \in Custom /\ req[r].mode \in Modes
    BY <1>4 DEF EnqueueWarm, OwnerInv, WarmIsCustom, Is, Req
  <2>2. UNCHANGED <<job, lock>> \/ Launch("warm", req[r].mode, Outdated(r))
    BY <1>4 DEF EnqueueWarm
  <2> QED BY <2>1, <2>2, AnswerType, LaunchedOrNot DEF rowVars
<1> QED BY <1>1, <1>2, <1>3, <1>4

LEMMA RestartsKeepOwner ==
  ASSUME OwnerInv, NEW r \in Reqs, EnsureImport(r) \/ RetryImport(r)
  PROVE  OwnerInv'
<1>1. req[r].mode \in Modes /\ req[r].error \in BOOLEAN /\ error \in BOOLEAN
  BY DEF OwnerInv, Typed, Req
<1>2. UNCHANGED <<mode, done, ready, tagged>> /\ Answer(r)
  BY DEF EnsureImport, RetryImport, rowVars
<1>3. error' \in BOOLEAN
  BY <1>1 DEF EnsureImport, RetryImport, rowVars
<1>4. UNCHANGED <<job, lock>> \/ Launch(RestartJob(req[r].mode), req[r].mode, Outdated(r))
  BY DEF EnsureImport, RetryImport
<1>5. RestartJob(req[r].mode) \in {"reorient", "import"}
  BY DEF RestartJob
<1> QED BY <1>1, <1>2, <1>3, <1>4, <1>5, AnswerType, LaunchedOrNot

LEMMA ReorientsKeepOwner ==
  ASSUME OwnerInv, NEW r \in Reqs, CommitReorient(r) \/ \E m \in Modes : StartReorient(r, m)
  PROVE  OwnerInv'
<1> mode \in Modes /\ done \in BOOLEAN /\ error \in BOOLEAN /\ ready \in BOOLEAN /\ tagged \in BOOLEAN
    /\ req \in [Reqs -> Req] /\ req[r] \in Req
  BY DEF OwnerInv, Typed
<1>1. CASE CommitReorient(r)
  <2>1. mode' \in Modes
    BY <1>1 DEF CommitReorient, Req
  <2>2. done' \in BOOLEAN /\ error' \in BOOLEAN /\ ready' \in BOOLEAN /\ tagged' \in BOOLEAN
    BY <1>1 DEF CommitReorient
  <2>3. Answer(r) /\ UNCHANGED <<job, lock>>
    BY <1>1 DEF CommitReorient
  <2> QED BY <2>1, <2>2, <2>3, AnswerType, SameJobs
<1>2. ASSUME NEW m \in Modes, StartReorient(r, m) PROVE OwnerInv'
  <2> DEFINE rows == segs # None \/ tagged
             new == [req[r] EXCEPT !.pc = "commit", !.target = m, !.rows = rows]
  <2>1. new \in Req /\ new.pc # "warm"
    <3>1. rows \in BOOLEAN
      OBVIOUS
    <3> HIDE DEF rows
    <3> QED BY <3>1 DEF Req, ReqPC
  <2>2. req' = [req EXCEPT ![r].pc = "commit", ![r].target = m, ![r].rows = rows]
    BY <1>2 DEF StartReorient
  <2>3. req' = [req EXCEPT ![r] = new]
    BY <2>2
  <2> HIDE DEF new, rows
  <2>4. \A q \in Reqs : req'[q] = IF q = r THEN new ELSE req[q]
    BY <2>3
  <2>5. req' \in [Reqs -> Req] /\ \A q \in Reqs : req'[q].pc = "warm" => req'[q].mode \in Custom
    BY <2>1, <2>3, <2>4 DEF OwnerInv, WarmIsCustom, Is
  <2>6. UNCHANGED rowVars /\ \E late : Launch("reorient", m, late)
    BY <1>2 DEF StartReorient
  <2> QED BY <2>5, <2>6, LaunchedOrNot DEF rowVars
<1> QED BY <1>1, <1>2

-----------------------------------------------------------------------------
(* The jobs. *)

\* A job that goes on before its finally keeps the lock if it has it.
LEMMA GoesOn ==
  ASSUME OwnerInv, NEW j \in Jobs, NEW pc \in JobPC \ {"none", "exit", "again"}, lock' = lock, req' = req,
         mode' \in Modes, done' \in BOOLEAN, error' \in BOOLEAN, ready' \in BOOLEAN, tagged' \in BOOLEAN,
         \/ Goto(j, pc)
         \/ \E todo \in SUBSET Slots :
              job' = [job EXCEPT ![j] = [job[j] EXCEPT !.todo = todo, !.pc = pc]]
  PROVE  OwnerInv'
<1>1. /\ job' \in [Jobs -> Job]
      /\ \A i \in Jobs : job'[i].kind = job[i].kind /\ job'[i].mode = job[i].mode
      /\ \A i \in Jobs : i # j => job'[i] = job[i]
      /\ job'[j].pc = pc
  BY GotoType, TodoType DEF OwnerInv
<1>2. HolderReleases'
  BY <1>1 DEF OwnerInv, HolderReleases
<1> QED BY <1>1, <1>2, SameRequests

\* A job that ends: it does not hold the lock, or gives it away.
LEMMA GoesAway ==
  ASSUME OwnerInv, NEW j \in Jobs, End(j), req' = req,
         \/ lock' = lock /\ lock # j
         \/ lock' \notin Jobs,
         mode' \in Modes, done' \in BOOLEAN, error' \in BOOLEAN, ready' \in BOOLEAN, tagged' \in BOOLEAN
  PROVE  OwnerInv'
<1>1. /\ job' \in [Jobs -> Job]
      /\ \A i \in Jobs : job'[i].kind = "warm" => job[i].kind = "warm" /\ job'[i].mode = job[i].mode
      /\ \A i \in Jobs : i # j => job'[i] = job[i]
  BY EndType DEF OwnerInv
<1>2. HolderReleases'
  BY <1>1 DEF OwnerInv, HolderReleases
<1> QED BY <1>1, <1>2, SameRequests

LEMMA JobsKeepOwner ==
  ASSUME OwnerInv, NEW j \in Jobs, JobStep(j)
  PROVE  OwnerInv'
<1> /\ mode \in Modes /\ done \in BOOLEAN /\ error \in BOOLEAN /\ ready \in BOOLEAN /\ tagged \in BOOLEAN
    /\ job \in [Jobs -> Job] /\ job[j] \in Job
  BY DEF OwnerInv, Typed
<1>1. CASE StartReorientJob(j) \/ StartImportJob(j)
  <2>1. (Goto(j, "dropRows") \/ Goto(j, "clear")) /\ UNCHANGED <<rowVars, lock, req>>
    BY <1>1 DEF StartReorientJob, StartImportJob
  <2> QED BY <2>1, GoesOn DEF rowVars, JobPC
<1>2. CASE StartWarmJob(j)
  <2> DEFINE todo == PagesOf(job[j].mode)
  \* The branch that ends the job without its finally is not taken.
  <2>1. job[j].mode \in Custom
    BY <1>2 DEF StartWarmJob, OwnerInv, WarmIsCustom
  <2>2. job' = [job EXCEPT ![j].pc = "copy", ![j].todo = todo] /\ UNCHANGED <<rowVars, lock, req>>
    BY <1>2, <2>1 DEF StartWarmJob
  <2>3. todo \in SUBSET Slots
    BY ReorientAssumption DEF PagesOf, Slots
  <2> HIDE DEF todo
  <2>4. [[job[j] EXCEPT !.pc = "copy"] EXCEPT !.todo = todo] = [job[j] EXCEPT !.todo = todo, !.pc = "copy"]
    BY DEF Job
  <2>5. job' = [job EXCEPT ![j] = [job[j] EXCEPT !.todo = todo, !.pc = "copy"]]
    BY <2>2, <2>4
  <2>6. \E t \in SUBSET Slots : job' = [job EXCEPT ![j] = [job[j] EXCEPT !.todo = t, !.pc = "copy"]]
    BY <2>3, <2>5
  <2>7. mode' \in Modes /\ done' \in BOOLEAN /\ error' \in BOOLEAN /\ ready' \in BOOLEAN /\ tagged' \in BOOLEAN
    BY <2>2 DEF rowVars
  <2>8. "copy" \in JobPC \ {"none", "exit", "again"}
    BY DEF JobPC
  <2> QED BY <2>2, <2>6, <2>7, <2>8, GoesOn
<1>3. CASE DropRows(j) \/ ResetRow(j) \/ SetMode(j) \/ ClearRows(j) \/ InsertRows(j) \/ Complete(j)
  <2>1. UNCHANGED <<lock, req>>
    BY <1>3 DEF DropRows, ResetRow, SetMode, ClearRows, InsertRows, Complete
  <2>2. mode' \in Modes
    BY <1>3 DEF DropRows, ResetRow, SetMode, ClearRows, InsertRows, Complete, Job
  <2>3. done' \in BOOLEAN /\ error' \in BOOLEAN /\ ready' \in BOOLEAN /\ tagged' \in BOOLEAN
    BY <1>3 DEF DropRows, ResetRow, SetMode, ClearRows, InsertRows, Complete
  <2>4. \E pc \in {"resetRow", "wipe", "clear", "insert", "complete", "fail", "unlock"} : Goto(j, pc)
    BY <1>3 DEF DropRows, ResetRow, SetMode, ClearRows, InsertRows, Complete
  <2> QED BY <2>1, <2>2, <2>3, <2>4, GoesOn DEF JobPC
<1>4. CASE WipeAndRender(j)
  <2> DEFINE todo == IF job[j].mode \in Custom THEN PagesOf(job[j].mode) ELSE {}
             pc == IF job[j].mode \in Custom THEN "copy" ELSE "setMode"
  <2>1. todo \in SUBSET Slots
    BY ReorientAssumption DEF PagesOf, Slots
  <2>2. pc \in JobPC \ {"none", "exit", "again"}
    BY DEF JobPC
  <2>3. job' = [job EXCEPT ![j] = [job[j] EXCEPT !.todo = todo, !.pc = pc]]
    BY <1>4 DEF WipeAndRender
  <2>4. UNCHANGED <<rowVars, lock, req>>
    BY <1>4 DEF WipeAndRender
  <2> HIDE DEF todo, pc
  <2> QED BY <2>1, <2>2, <2>3, <2>4, GoesOn DEF rowVars
<1>5. ASSUME NEW p \in Slots, CopyPage(j, p) PROVE OwnerInv'
  <2> DEFINE todo == job[j].todo \ {p}
             pc == IF job[j].todo # {p} THEN job[j].pc
                   ELSE IF job[j].kind = "warm" THEN "clearErr" ELSE "setMode"
  <2>1. todo \in SUBSET Slots
    BY DEF Job
  <2>2. pc \in JobPC \ {"none", "exit", "again"}
    BY <1>5 DEF CopyPage, At, JobPC
  <2>3. job' = [job EXCEPT ![j] = [job[j] EXCEPT !.todo = todo, !.pc = pc]]
    BY <1>5 DEF CopyPage, Job
  <2>4. UNCHANGED <<rowVars, lock, req>>
    BY <1>5 DEF CopyPage
  <2> HIDE DEF todo, pc
  <2> QED BY <2>1, <2>2, <2>3, <2>4, GoesOn DEF rowVars
<1>6. CASE ClearCacheError(j)
  <2>1. Goto(j, "unlock") /\ UNCHANGED <<rowVars, lock, req>>
    BY <1>6 DEF ClearCacheError
  <2> QED BY <2>1, GoesOn DEF rowVars, JobPC
<1>7. CASE Except(j)
  <2>1. Goto(j, "abort") /\ UNCHANGED <<mode, done, ready, tagged, lock, req>> /\ error' \in BOOLEAN
    BY <1>7 DEF Except, Record
  <2> QED BY <2>1, GoesOn DEF JobPC
<1>8. CASE Finally(j)
  <2>1. lock' = None /\ UNCHANGED <<rowVars, req>> /\ \E pc \in {"exit", "again"} : Goto(j, pc)
    BY <1>8 DEF Finally, Unlock
  <2>2. /\ job' \in [Jobs -> Job]
        /\ \A i \in Jobs : job'[i].kind = job[i].kind /\ job'[i].mode = job[i].mode
    BY <2>1, GotoType DEF OwnerInv, JobPC
  <2>3. HolderReleases'
    BY <2>1, ReorientAssumption DEF HolderReleases
  <2> QED BY <2>1, <2>2, <2>3, SameRequests DEF rowVars
<1>9. CASE ParentExit(j)
  <2>1. End(j) /\ UNCHANGED <<rowVars, req>> /\ (lock' = lock \/ lock' = None)
    BY <1>9 DEF ParentExit, Unlock
  <2>2. lock # j
    BY <1>9 DEF ParentExit, OwnerInv, HolderReleases
  <2> QED BY <2>1, <2>2, GoesAway, ReorientAssumption DEF rowVars
<1> QED BY <1>1, <1>2, <1>3, <1>4, <1>5, <1>6, <1>7, <1>8, <1>9 DEF JobStep

LEMMA FaultsKeepOwner ==
  ASSUME OwnerInv, NEW j \in Jobs, Raise(j) \/ KillJob(j) \/ LoseWorker(j)
  PROVE  OwnerInv'
<1> /\ mode \in Modes /\ done \in BOOLEAN /\ error \in BOOLEAN /\ ready \in BOOLEAN /\ tagged \in BOOLEAN
    /\ job \in [Jobs -> Job] /\ job[j] \in Job
  BY DEF OwnerInv, Typed
<1>1. CASE Raise(j)
  <2>1. Goto(j, "fail") /\ UNCHANGED <<rowVars, lock, req>>
    BY <1>1 DEF Raise
  <2> QED BY <2>1, GoesOn DEF rowVars, JobPC
<1>2. CASE KillJob(j)
  <2>1. lock' = None /\ UNCHANGED <<mode, done, ready, tagged, req>> /\ error' \in BOOLEAN
    BY <1>2 DEF KillJob, Unlock, Record
  <2>2. CASE End(j)
    BY <2>1, <2>2, GoesAway, ReorientAssumption
  <2>3. CASE job' = [job EXCEPT ![j].pc = "queued", ![j].todo = {}]
    <3>1. [[job[j] EXCEPT !.pc = "queued"] EXCEPT !.todo = {}]
            = [job[j] EXCEPT !.todo = {}, !.pc = "queued"]
      BY DEF Job
    <3>2. job' = [job EXCEPT ![j] = [job[j] EXCEPT !.todo = {}, !.pc = "queued"]]
      BY <2>3, <3>1
    <3>3. "queued" \in JobPC /\ {} \in SUBSET Slots
      BY DEF JobPC
    <3>4. /\ job' \in [Jobs -> Job]
          /\ \A i \in Jobs : job'[i].kind = job[i].kind /\ job'[i].mode = job[i].mode
      BY <3>2, <3>3, TodoType DEF OwnerInv
    <3>5. HolderReleases'
      BY <2>1, ReorientAssumption DEF HolderReleases
    <3> QED BY <2>1, <3>4, <3>5, SameRequests
  <2> QED BY <1>2, <2>2, <2>3 DEF KillJob
<1>3. CASE LoseWorker(j)
  <2>1. End(j) /\ UNCHANGED <<mode, done, ready, tagged, req>> /\ error' \in BOOLEAN
    BY <1>3 DEF LoseWorker
  <2>2. (lock' = lock /\ lock # j) \/ lock' \notin Jobs
    BY <1>3, ReorientAssumption DEF LoseWorker
  <2> QED BY <2>1, <2>2, GoesAway
<1> QED BY <1>1, <1>2, <1>3

LEMMA RestKeepsOwner ==
  ASSUME OwnerInv, SaveSegments \/ StartParts \/ GenerateParts \/ ExpireLock \/ Evict
  PROVE  OwnerInv'
<1> /\ mode \in Modes /\ done \in BOOLEAN /\ error \in BOOLEAN /\ ready \in BOOLEAN /\ tagged \in BOOLEAN
    /\ job \in [Jobs -> Job] /\ req \in [Reqs -> Req]
  BY DEF OwnerInv, Typed
<1>1. CASE SaveSegments \/ StartParts \/ GenerateParts \/ Evict
  <2>1. UNCHANGED <<mode, done, job, lock, req>>
    BY <1>1 DEF SaveSegments, StartParts, GenerateParts, Evict, rowVars
  <2>2. error' \in BOOLEAN /\ ready' \in BOOLEAN /\ tagged' \in BOOLEAN
    BY <1>1 DEF SaveSegments, StartParts, GenerateParts, Evict, rowVars
  <2> QED BY <2>1, <2>2, SameJobs DEF OwnerInv, WarmIsCustom, Is
<1>2. CASE ExpireLock
  <2>1. lock' = None /\ UNCHANGED <<rowVars, job, req>>
    BY <1>2 DEF ExpireLock
  <2>2. HolderReleases'
    BY <2>1, ReorientAssumption DEF HolderReleases
  <2> QED BY <2>1, <2>2, SameRequests DEF rowVars
<1> QED BY <1>1, <1>2

LEMMA NextKeepsOwner == OwnerInv /\ [Next]_vars => OwnerInv'
<1> SUFFICES ASSUME OwnerInv, [Next]_vars PROVE OwnerInv'
  OBVIOUS
<1>1. CASE UNCHANGED vars
  BY <1>1 DEF vars, rowVars, OwnerInv, Typed, WarmIsCustom, HolderReleases, Is
<1>2. CASE Next
  BY <1>2, PollsKeepOwner, RestartsKeepOwner, ReorientsKeepOwner, JobsKeepOwner, FaultsKeepOwner,
     RestKeepsOwner DEF Next
<1> QED BY <1>1, <1>2

\* However requests, jobs, kills, lost workers and requeues meet, the import lock's key is
\* there for a job that will delete it, or for one lost with its worker, whose key
\* expires; warm_partset_pages.py:26 returns without deleting it, but is never reached.
THEOREM LockIsOwned == Spec => []LockHasOwner
<1>1. OwnerInv => LockHasOwner
  BY DEF OwnerInv, HolderReleases, LockHasOwner, At
<1> QED BY InitOwner, NextKeepsOwner, <1>1, PTL DEF Spec

-----------------------------------------------------------------------------
(***************************************************************************)
(* The pages and segments of a complete partset.                           *)
(***************************************************************************)
Live(j) == job[j].pc \notin {"none", "queued", "exit", "again"}

\* A request that has deleted rows it has not committed yet: they are locked.
Pending(r) == Is(r, "commit") /\ req[r].rows

\* The images are of mode m, those of its pages only.
Fits(m) == \A p \in Slots : image[p] \in {None, m} /\ (p \notin PagesOf(m) => image[p] = None)

\* The job has deleted the rows.
Past(j) == \/ job[j].pc \in {"insert", "complete"}
           \/ job[j].kind = "reorient" /\ job[j].pc \in {"resetRow", "wipe", "copy", "setMode", "clear"}

\* The holder of the lock, by its kind: an import finds the partset upright; a warm job
\* makes images of the present mode; another job works on a partset that is not complete,
\* or waits for the request that makes it so to commit.
ImportInv(j) ==
  job[j].kind = "import" => /\ mode = "upright" /\ job[j].mode = "upright"
                            /\ job[j].pc \notin {"dropRows", "resetRow", "wipe", "copy", "setMode"}
WarmInv(j) ==
  job[j].kind = "warm" => /\ done => job[j].mode = mode
                          /\ job[j].pc \in {"queued", "copy", "clearErr", "unlock", "fail", "abort"}
DoneInv(j) ==
  (job[j].kind # "warm" /\ job[j].pc \notin {"unlock", "fail", "abort"} /\ done) =>
     /\ job[j].kind = "reorient" /\ job[j].pc \in {"queued", "dropRows"}
     /\ \E r \in Reqs : Pending(r) /\ req[r].done
StageInv(j) ==
  /\ job[j].pc = "copy" => job[j].todo \subseteq PagesOf(job[j].mode)
  /\ (job[j].kind = "reorient" /\ job[j].pc \in {"copy", "setMode", "clear", "insert", "complete"})
       => Fits(job[j].mode)
  /\ job[j].pc \in {"clear", "insert", "complete"} => mode = job[j].mode
  /\ job[j].pc = "complete" => segs = mode
HolderInv(j) == ImportInv(j) /\ WarmInv(j) /\ DoneInv(j) /\ StageInv(j)

PendingInv(r) == Pending(r) => /\ done => req[r].done
                               /\ \A j \in Jobs : lock = j => ~Past(j)
CompleteInv == done => segs = mode /\ (mode \in Custom => Fits(mode))

PagesInv == /\ \A j \in Jobs : Live(j) => lock = j
            /\ \A j \in Jobs : lock = j => HolderInv(j)
            /\ \A r \in Reqs : PendingInv(r)
            /\ CompleteInv

FitInv == OwnerInv /\ image \in [Slots -> Modes \cup {None}] /\ (~astray => PagesInv)

LEMMA InitFits == Init => FitInv
<1> SUFFICES ASSUME Init PROVE FitInv
  OBVIOUS
<1>1. OwnerInv
  BY InitOwner
<1>2. PICK s \in {{}, PagesOf(mode)} : image = [p \in Slots |-> IF p \in s THEN mode ELSE None]
  BY DEF Init
<1>3. mode \in Modes /\ segs = mode
  BY DEF Init
<1>4. image \in [Slots -> Modes \cup {None}]
  BY <1>2, <1>3
<1>5. Fits(mode)
  BY <1>2 DEF Fits
<1>6. \A j \in Jobs : ~Live(j) /\ lock # j
  BY ReorientAssumption DEF Init, Live, NoJob
<1>7. \A r \in Reqs : ~Pending(r)
  BY DEF Init, Pending, Is, NoReq
<1> QED BY <1>1, <1>3, <1>4, <1>5, <1>6, <1>7 DEF FitInv, PagesInv, PendingInv, CompleteInv

\* A step that touches neither the jobs nor the pages and leaves what is to commit.
LEMMA SamePages ==
  ASSUME FitInv, ~astray, UNCHANGED <<job, lock, mode, done, segs, image>>,
         \A q \in Reqs : Pending(q)' <=> Pending(q),
         \A q \in Reqs : Pending(q) => (req'[q].done <=> req[q].done)
  PROVE  PagesInv'
<1>1. PagesInv
  BY DEF FitInv
<1>2. \A j \in Jobs : (Live(j)' <=> Live(j)) /\ (Past(j)' <=> Past(j))
  BY DEF Live, Past
<1>3. \A m : Fits(m)' <=> Fits(m)
  BY DEF Fits
<1>4. ASSUME NEW j \in Jobs, HolderInv(j) PROVE HolderInv(j)'
  <2>1. ImportInv(j)' /\ WarmInv(j)' /\ StageInv(j)'
    BY <1>3, <1>4 DEF HolderInv, ImportInv, WarmInv, StageInv
  <2>2. DoneInv(j)'
    BY <1>4 DEF HolderInv, DoneInv
  <2> QED BY <2>1, <2>2 DEF HolderInv
<1>5. ASSUME NEW r \in Reqs PROVE PendingInv(r)'
  BY <1>1, <1>2 DEF PagesInv, PendingInv
<1>6. CompleteInv'
  BY <1>1, <1>3 DEF PagesInv, CompleteInv
<1> QED BY <1>1, <1>2, <1>4, <1>5, <1>6 DEF PagesInv

\* A job is launched under a lock that was free.
LEMMA LaunchFits ==
  ASSUME FitInv, ~astray, lock = None, NEW kind, NEW m \in Modes, NEW late,
         Launch(kind, m, late), UNCHANGED <<mode, done, segs>>,
         image' = image \/ image' = Wiped,
         kind = "import" => mode = "upright",
         kind = "warm" => (done => m = mode),
         (kind # "warm" /\ done) => kind = "reorient" /\ \E r \in Reqs : Pending(r)' /\ req'[r].done,
         \A r \in Reqs : Pending(r)' => (done => req'[r].done)
  PROVE  PagesInv'
<1>1. PICK j \in Free :
        /\ job' = [job EXCEPT ![j] = [NoJob EXCEPT !.pc = "queued", !.kind = kind,
                                      !.mode = IF kind = "import" THEN "upright" ELSE m]]
        /\ lock' = j
  BY DEF Launch
<1> DEFINE jm == IF kind = "import" THEN "upright" ELSE m
           new == [NoJob EXCEPT !.pc = "queued", !.kind = kind, !.mode = jm]
<1>2. j \in Jobs /\ job' = [job EXCEPT ![j] = new] /\ job \in [Jobs -> Job]
  BY <1>1 DEF Free, FitInv, OwnerInv, Typed
<1>3. new.pc = "queued" /\ new.kind = kind /\ new.mode = jm
  BY DEF NoJob
<1> HIDE DEF new
<1>4. job'[j] = new /\ \A i \in Jobs : i # j => job'[i] = job[i]
  BY <1>2
<1>5. PagesInv
  BY DEF FitInv
<1>6. \A i \in Jobs : ~Live(i)'
  BY <1>3, <1>4, <1>5, ReorientAssumption DEF PagesInv, Live
<1>7. HolderInv(j)'
  <2>1. ImportInv(j)' /\ WarmInv(j)' /\ StageInv(j)'
    BY <1>3, <1>4 DEF ImportInv, WarmInv, StageInv
  <2>2. DoneInv(j)'
    BY <1>3, <1>4 DEF DoneInv
  <2> QED BY <2>1, <2>2 DEF HolderInv
<1>8. ~Past(j)'
  BY <1>3, <1>4 DEF Past
<1>9. ASSUME NEW r \in Reqs PROVE PendingInv(r)'
  BY <1>1, <1>8 DEF PendingInv
<1>10. CompleteInv'
  BY <1>5 DEF PagesInv, CompleteInv, Fits, Wiped
<1> QED BY <1>1, <1>6, <1>7, <1>9, <1>10 DEF PagesInv

\* The holder goes on.
LEMMA HolderFits ==
  ASSUME FitInv, ~astray, NEW j \in Jobs, lock = j, lock' = lock, req' = req,
         \A i \in Jobs : i # j => job'[i] = job[i],
         HolderInv(j)', CompleteInv', \A r \in Reqs : PendingInv(r)'
  PROVE  PagesInv'
<1>1. PagesInv
  BY DEF FitInv
<1>2. ASSUME NEW i \in Jobs, Live(i)' PROVE lock' = i
  BY <1>1, <1>2 DEF PagesInv, Live
<1> QED BY <1>2 DEF PagesInv

\* The lock is given away, and its holder is no longer at work.
LEMMA ReleaseFits ==
  ASSUME FitInv, ~astray, NEW j \in Jobs, UNCHANGED <<mode, done, segs, image, req>>,
         \A i \in Jobs : i # j => job'[i] = job[i], ~Live(j)',
         \/ lock \in {None, "lost", j} /\ lock' \notin Jobs
         \/ lock # j /\ lock' = lock /\ ~Live(j)
  PROVE  PagesInv'
<1>1. PagesInv
  BY DEF FitInv
<1>2. CompleteInv'
  BY <1>1 DEF PagesInv, CompleteInv, Fits
<1>3. CASE lock \in {None, "lost", j} /\ lock' \notin Jobs
  <2>1. \A i \in Jobs : ~Live(i)'
    BY <1>1, <1>3, ReorientAssumption DEF PagesInv, Live
  <2>2. \A r \in Reqs : PendingInv(r)'
    BY <1>1, <1>3 DEF PagesInv, PendingInv, Pending, Is
  <2> QED BY <1>2, <1>3, <2>1, <2>2 DEF PagesInv
<1>4. CASE lock # j /\ lock' = lock /\ ~Live(j)
  <2>1. \A i \in Jobs : Live(i)' => lock' = i
    BY <1>1, <1>4 DEF PagesInv, Live
  <2>2. ASSUME NEW i \in Jobs, lock' = i PROVE HolderInv(i)' /\ (Past(i)' <=> Past(i))
    <3>1. job'[i] = job[i] /\ HolderInv(i)
      BY <1>1, <1>4, <2>2 DEF PagesInv
    <3>2. \A m : Fits(m)' <=> Fits(m)
      BY DEF Fits
    <3>3. ImportInv(i)' /\ WarmInv(i)' /\ StageInv(i)'
      BY <3>1, <3>2 DEF HolderInv, ImportInv, WarmInv, StageInv
    <3>4. DoneInv(i)'
      BY <3>1 DEF HolderInv, DoneInv, Pending, Is
    <3> QED BY <3>1, <3>3, <3>4 DEF HolderInv, Past
  <2>3. ASSUME NEW r \in Reqs PROVE PendingInv(r)'
    BY <1>1, <1>4, <2>2 DEF PagesInv, PendingInv, Pending, Is
  <2> QED BY <1>2, <2>1, <2>2, <2>3 DEF PagesInv
<1> QED BY <1>3, <1>4

-----------------------------------------------------------------------------
(* The steps of the requests. *)

LEMMA RequestFits ==
  ASSUME FitInv, NEW r \in Reqs, ~astray',
         Load(r) \/ Poll(r) \/ RetryPages(r) \/ EnqueueWarm(r) \/ EnsureImport(r) \/ RetryImport(r)
  PROVE  PagesInv'
<1> req \in [Reqs -> Req] /\ req[r] \in Req
  BY DEF FitInv, OwnerInv, Typed
<1>1. ~astray
  BY DEF Load, Poll, RetryPages, EnqueueWarm, EnsureImport, RetryImport, Launch
<1>2. ASSUME NEW new, req' = [req EXCEPT ![r] = new], new.pc # "commit", ~Is(r, "commit")
      PROVE  /\ \A q \in Reqs : Pending(q)' <=> Pending(q)
             /\ \A q \in Reqs : Pending(q) => req'[q] = req[q]
  <2>1. \A q \in Reqs : req'[q] = IF q = r THEN new ELSE req[q]
    BY <1>2
  <2> QED BY <1>2, <2>1 DEF Pending, Is
<1>3. ASSUME Answer(r), ~Is(r, "commit")
      PROVE  /\ \A q \in Reqs : Pending(q)' <=> Pending(q)
             /\ \A q \in Reqs : Pending(q) => req'[q] = req[q]
  <2>1. NoReq.pc # "commit"
    BY DEF NoReq
  <2> QED BY <1>2, <1>3, <2>1 DEF Answer
<1>4. ASSUME req' = [req EXCEPT ![r].pc = "warm"], ~Is(r, "commit")
      PROVE  /\ \A q \in Reqs : Pending(q)' <=> Pending(q)
             /\ \A q \in Reqs : Pending(q) => req'[q] = req[q]
  <2> DEFINE new == [req[r] EXCEPT !.pc = "warm"]
  <2>1. req' = [req EXCEPT ![r] = new] /\ new.pc # "commit"
    BY <1>4 DEF Req
  <2> HIDE DEF new
  <2> QED BY <1>2, <1>4, <2>1
<1>5. CASE Load(r)
  <2> DEFINE new == [NoReq EXCEPT !.pc = "loaded", !.mode = mode, !.done = done,
                                  !.error = error, !.ready = ready]
  <2>1. new.pc # "commit"
    BY DEF NoReq
  <2>2. req' = [req EXCEPT ![r] = new] /\ ~Is(r, "commit") /\ UNCHANGED <<job, lock, mode, done, segs, image>>
    BY <1>5 DEF Load, Is, rowVars
  <2> HIDE DEF new
  <2> QED BY <1>1, <1>2, <2>1, <2>2, SamePages
<1>6. CASE Poll(r)
  <2>1. ~Is(r, "commit") /\ UNCHANGED <<job, lock, mode, done, segs, image>>
    BY <1>6 DEF Poll, Is, rowVars
  <2>2. Answer(r) \/ req' = [req EXCEPT ![r].pc = "warm"]
    BY <1>6 DEF Poll
  <2> QED BY <1>1, <1>3, <1>4, <2>1, <2>2, SamePages
<1>7. CASE RetryPages(r)
  <2>1. /\ ~Is(r, "commit") /\ UNCHANGED <<job, lock, mode, done, segs, image>>
        /\ req' = [req EXCEPT ![r].pc = "warm"]
    BY <1>7 DEF RetryPages, Is, rowVars
  <2> QED BY <1>1, <1>4, <2>1, SamePages
<1>8. ASSUME NEW kind, NEW m \in Modes, Answer(r), ~Is(r, "commit"), UNCHANGED <<mode, done, segs, image>>,
             lock = None, Launch(kind, m, Outdated(r)),
             kind = "import" => m = "upright",
             m = req[r].mode,
             kind # "warm" => ~req[r].done
      PROVE  PagesInv'
  <2>1. req[r].mode = mode /\ req[r].done = done
    BY <1>8 DEF Launch, Outdated
  <2>2. \A q \in Reqs : Pending(q)' => (done => req'[q].done)
    BY <1>1, <1>3, <1>8 DEF FitInv, PagesInv, PendingInv
  <2>3. kind # "warm" => ~done
    BY <1>8, <2>1
  <2> QED BY <1>1, <1>8, <2>1, <2>2, <2>3, LaunchFits
<1>9. CASE EnqueueWarm(r)
  <2>1. Answer(r) /\ ~Is(r, "commit") /\ UNCHANGED <<mode, done, segs, image>> /\ req[r].mode \in Modes
    BY <1>9 DEF EnqueueWarm, Is, rowVars, Req
  <2>2. CASE lock = None /\ Launch("warm", req[r].mode, Outdated(r))
    BY <1>8, <2>1, <2>2
  <2>3. CASE UNCHANGED <<job, lock>>
    BY <1>1, <1>3, <2>1, <2>3, SamePages
  <2> QED BY <1>9, <2>2, <2>3 DEF EnqueueWarm
<1>10. CASE EnsureImport(r) \/ RetryImport(r)
  <2>1. /\ Answer(r) /\ ~Is(r, "commit") /\ UNCHANGED <<mode, done, segs, image>>
        /\ req[r].mode \in Modes /\ ~req[r].done
    BY <1>10 DEF EnsureImport, RetryImport, Is, rowVars, Req
  <2>2. RestartJob(req[r].mode) = "import" => req[r].mode = "upright"
    BY <2>1 DEF RestartJob, Custom
  <2>3. CASE lock = None /\ Launch(RestartJob(req[r].mode), req[r].mode, Outdated(r))
    BY <1>8, <2>1, <2>2, <2>3
  <2>4. CASE UNCHANGED <<job, lock>>
    BY <1>1, <1>3, <2>1, <2>4, SamePages
  <2> QED BY <1>10, <2>3, <2>4 DEF EnsureImport, RetryImport
<1> QED BY <1>5, <1>6, <1>7, <1>9, <1>10

\* The request that reorients wipes the images and locks the rows it deletes.
LEMMA StartFits ==
  ASSUME FitInv, NEW r \in Reqs, NEW m \in Modes, ~astray', StartReorient(r, m)
  PROVE  PagesInv'
<1> DEFINE rows == segs # None \/ tagged
           new == [req[r] EXCEPT !.pc = "commit", !.target = m, !.rows = rows]
<1>1. req \in [Reqs -> Req] /\ req[r] \in Req /\ mode \in Modes
  BY DEF FitInv, OwnerInv, Typed
<1>2. new.pc = "commit" /\ new.rows = rows /\ new.done = req[r].done
  BY <1>1 DEF Req
<1>3. req' = [req EXCEPT ![r].pc = "commit", ![r].target = m, ![r].rows = rows]
  BY DEF StartReorient
<1>4. req' = [req EXCEPT ![r] = new]
  BY <1>3
<1> HIDE DEF new, rows
<1>5. req'[r] = new /\ \A q \in Reqs : q # r => req'[q] = req[q]
  BY <1>1, <1>4
<1>6. /\ ~astray /\ lock = None /\ image' = Wiped /\ UNCHANGED <<mode, done, segs>>
      /\ Launch("reorient", m, req[r].done # done) /\ req[r].done = done
  BY DEF StartReorient, Launch, rowVars
<1>7. \A q \in Reqs : Pending(q)' => (done => req'[q].done)
  BY <1>2, <1>5, <1>6 DEF FitInv, PagesInv, PendingInv, Pending, Is
<1>8. done => \E q \in Reqs : Pending(q)' /\ req'[q].done
  <2> SUFFICES ASSUME done PROVE Pending(r)' /\ req'[r].done
    OBVIOUS
  <2>1. segs # None
    BY <1>1, <1>6, ReorientAssumption DEF FitInv, PagesInv, CompleteInv, Modes
  <2>2. rows
    BY <2>1 DEF rows
  <2> QED BY <1>2, <1>5, <1>6, <2>2 DEF Pending, Is
<1> QED BY <1>6, <1>7, <1>8, LaunchFits

\* Its commit: whatever waits for the rows goes on.
LEMMA CommitFits ==
  ASSUME FitInv, NEW r \in Reqs, ~astray', CommitReorient(r)
  PROVE  PagesInv'
<1>1. req \in [Reqs -> Req] /\ req[r] \in Req /\ done \in BOOLEAN
  BY DEF FitInv, OwnerInv, Typed
<1>2. /\ Is(r, "commit")
      /\ done' = (done /\ ~req[r].done)
      /\ req' = [req EXCEPT ![r] = NoReq]
      /\ UNCHANGED <<job, lock, image>>
  BY DEF CommitReorient, Answer
<1>3. IF req[r].rows THEN segs' = None ELSE segs' = segs
  BY DEF CommitReorient
<1>4. /\ ~astray
      /\ mode' # mode => ~done' /\ \A j \in Jobs : lock = j => job[j].mode = mode'
  BY DEF CommitReorient
<1>5. PagesInv
  BY <1>4 DEF FitInv
<1>6. req'[r] = NoReq /\ NoReq.pc # "commit" /\ \A q \in Reqs : q # r => req'[q] = req[q]
  BY <1>1, <1>2 DEF NoReq
<1>7. \A q \in Reqs : Pending(q)' => q # r /\ Pending(q) /\ req'[q] = req[q]
  BY <1>6 DEF Pending, Is
<1>8. done' => done /\ ~req[r].done
  BY <1>2
<1>9. \A m : Fits(m)' <=> Fits(m)
  BY <1>2 DEF Fits
<1>10. ASSUME NEW j \in Jobs, lock = j PROVE HolderInv(j)'
  <2>1. HolderInv(j) /\ job'[j] = job[j] /\ (mode' # mode => job[j].mode = mode')
    BY <1>2, <1>4, <1>5, <1>10 DEF PagesInv
  <2>2. ImportInv(j)'
    BY <2>1 DEF HolderInv, ImportInv
  <2>3. WarmInv(j)'
    BY <1>8, <2>1 DEF HolderInv, WarmInv
  <2>4. DoneInv(j)'
    <3> SUFFICES ASSUME job[j].kind # "warm", job[j].pc \notin {"unlock", "fail", "abort"}, done'
                 PROVE  /\ job[j].kind = "reorient" /\ job[j].pc \in {"queued", "dropRows"}
                        /\ \E q \in Reqs : Pending(q)' /\ req'[q].done
      BY <2>1 DEF DoneInv
    <3>1. /\ job[j].kind = "reorient" /\ job[j].pc \in {"queued", "dropRows"}
          /\ \E q \in Reqs : Pending(q) /\ req[q].done
      BY <1>8, <2>1 DEF HolderInv, DoneInv
    <3>2. PICK q \in Reqs : Pending(q) /\ req[q].done
      BY <3>1
    <3>3. q # r
      BY <1>8, <3>2
    <3>4. Pending(q)' /\ req'[q].done
      BY <1>6, <3>2, <3>3 DEF Pending, Is
    <3> QED BY <3>1, <3>4
  <2>5. job[j].pc = "complete" => segs' = segs
    <3> SUFFICES ASSUME job[j].pc = "complete", Pending(r) PROVE FALSE
      BY <1>2, <1>3 DEF Pending
    <3>1. Past(j)
      BY DEF Past
    <3> QED BY <1>5, <1>10, <3>1 DEF PagesInv, PendingInv
  <2>6. StageInv(j)'
    BY <1>9, <2>1, <2>5 DEF HolderInv, StageInv
  <2> QED BY <2>2, <2>3, <2>4, <2>6 DEF HolderInv
<1>11. ASSUME NEW q \in Reqs PROVE PendingInv(q)'
  BY <1>2, <1>5, <1>7, <1>8 DEF PagesInv, PendingInv, Past
<1>12. CompleteInv'
  <2> SUFFICES ASSUME done' PROVE segs' = mode' /\ (mode' \in Custom => Fits(mode)')
    BY DEF CompleteInv
  <2>1. done /\ ~req[r].done /\ mode' = mode
    BY <1>4, <1>8
  <2>2. ~Pending(r)
    BY <1>5, <2>1 DEF PagesInv, PendingInv
  <2>3. segs' = segs
    BY <1>2, <1>3, <2>2 DEF Pending
  <2> QED BY <1>5, <1>9, <2>1, <2>3 DEF PagesInv, CompleteInv
<1> QED BY <1>2, <1>5, <1>10, <1>11, <1>12 DEF PagesInv, Live

-----------------------------------------------------------------------------
(* The steps of the jobs. *)

\* A job at work holds the lock.
LEMMA HolderFacts ==
  ASSUME FitInv, ~astray, NEW j \in Jobs, Live(j) \/ lock = j
  PROVE  /\ lock = j /\ HolderInv(j) /\ PagesInv /\ CompleteInv
         /\ \A r \in Reqs : PendingInv(r)
         /\ mode \in Modes /\ job[j] \in Job /\ job \in [Jobs -> Job]
BY DEF FitInv, PagesInv, OwnerInv, Typed

\* A job goes to pc, and its partset's rows and images stay as they are.
LEMMA StaysFits ==
  ASSUME FitInv, ~astray, ~astray', NEW j \in Jobs, NEW pc \in JobPC, Goto(j, pc), lock = j,
         UNCHANGED <<mode, done, segs, image, lock, req>>,
         job[j].kind = "import" => pc \notin {"dropRows", "resetRow", "wipe", "copy", "setMode"},
         job[j].kind = "warm" => pc \in {"queued", "copy", "clearErr", "unlock", "fail", "abort"},
         \/ pc \in {"unlock", "fail", "abort"}
         \/ pc \in {"dropRows", "clear"} /\ At(j, "queued") /\ job[j].kind # "warm"
              /\ (pc = "clear" => job[j].kind = "import")
  PROVE  PagesInv'
<1>1. job' = [job EXCEPT ![j] = [job[j] EXCEPT !.pc = pc]]
  BY DEF Goto
<1>2. /\ ~astray /\ HolderInv(j) /\ CompleteInv /\ \A r \in Reqs : PendingInv(r)
      /\ job[j] \in Job /\ job \in [Jobs -> Job]
  BY HolderFacts
<1>3. /\ job'[j].pc = pc /\ job'[j].kind = job[j].kind /\ job'[j].mode = job[j].mode
      /\ job'[j].todo = job[j].todo
      /\ \A i \in Jobs : i # j => job'[i] = job[i]
  <2> DEFINE new == [job[j] EXCEPT !.pc = pc]
  <2>1. new.pc = pc /\ new.kind = job[j].kind /\ new.mode = job[j].mode /\ new.todo = job[j].todo
    BY <1>2 DEF Job
  <2>2. job' = [job EXCEPT ![j] = new]
    BY <1>1
  <2> HIDE DEF new
  <2> QED BY <1>2, <2>1, <2>2
<1>4. ImportInv(j)' /\ WarmInv(j)'
  BY <1>2, <1>3 DEF HolderInv, ImportInv, WarmInv
<1>5. DoneInv(j)'
  BY <1>2, <1>3 DEF HolderInv, DoneInv, At, Pending, Is
<1>6. StageInv(j)'
  BY <1>2, <1>3 DEF HolderInv, StageInv, At, ImportInv
<1>7. CompleteInv'
  BY <1>2 DEF CompleteInv, Fits
<1>8. ~Past(j)' \/ (Past(j)' => Past(j))
  BY <1>3 DEF Past, At
<1>9. \A r \in Reqs : PendingInv(r)'
  BY <1>2, <1>3, <1>8 DEF PendingInv, Pending, Is, Past, At
<1> QED BY <1>2, <1>3, <1>4, <1>5, <1>6, <1>7, <1>9, HolderFits DEF HolderInv

LEMMA BeginsFit ==
  ASSUME FitInv, ~astray', NEW j \in Jobs,
         StartReorientJob(j) \/ StartWarmJob(j) \/ StartImportJob(j)
  PROVE  PagesInv'
<1>1. ~astray /\ lock = j /\ UNCHANGED <<mode, done, segs, image, lock, req>> /\ At(j, "queued")
  <2>1. UNCHANGED <<mode, done, segs, image, lock, req>> /\ At(j, "queued")
    BY DEF StartReorientJob, StartWarmJob, StartImportJob, rowVars
  <2>2. astray' = (astray \/ lock # j)
    BY DEF StartReorientJob, StartWarmJob, StartImportJob
  <2>3. ~astray /\ lock = j
    BY <2>2
  <2> QED BY <2>1, <2>3
<1>2. CASE StartReorientJob(j)
  <2>1. Goto(j, "dropRows") /\ job[j].kind = "reorient"
    BY <1>2 DEF StartReorientJob
  <2> QED BY <1>1, <2>1, StaysFits DEF JobPC
<1>3. CASE StartImportJob(j)
  <2>1. Goto(j, "clear") /\ job[j].kind = "import"
    BY <1>3 DEF StartImportJob
  <2> QED BY <1>1, <2>1, StaysFits DEF JobPC
<1>4. CASE StartWarmJob(j)
  <2>1. /\ HolderInv(j) /\ CompleteInv /\ \A r \in Reqs : PendingInv(r)
        /\ job[j] \in Job /\ job \in [Jobs -> Job]
    BY <1>1, HolderFacts
  <2>2. job[j].kind = "warm" /\ job[j].mode \in Custom
    BY <1>4 DEF StartWarmJob, FitInv, OwnerInv, WarmIsCustom
  <2> DEFINE todo == PagesOf(job[j].mode)
             new == [job[j] EXCEPT !.pc = "copy", !.todo = todo]
  <2>3. job' = [job EXCEPT ![j] = new]
    BY <1>4, <2>2 DEF StartWarmJob
  <2>4. new.pc = "copy" /\ new.kind = "warm" /\ new.mode = job[j].mode /\ new.todo = todo
    BY <2>1, <2>2 DEF Job
  <2> HIDE DEF new
  <2>5. job'[j] = new /\ \A i \in Jobs : i # j => job'[i] = job[i]
    BY <2>1, <2>3
  <2>6. HolderInv(j)'
    <3>1. ImportInv(j)'
      BY <2>4, <2>5 DEF ImportInv
    <3>4. WarmInv(j)
      BY <2>1 DEF HolderInv
    <3>5. WarmInv(j)'
      BY <1>1, <2>2, <2>4, <2>5, <3>4 DEF WarmInv
    <3>2. DoneInv(j)'
      BY <2>4, <2>5 DEF DoneInv
    <3>3. StageInv(j)'
      <4>1. PagesOf(job[j].mode)' = PagesOf(job'[j].mode)
        BY DEF PagesOf
      <4>2. job'[j].todo \subseteq PagesOf(job[j].mode)'
        BY <2>4, <2>5, <4>1
      <4> QED BY <2>4, <2>5, <4>2 DEF StageInv
    <3> QED BY <3>1, <3>2, <3>3, <3>5 DEF HolderInv
  <2>7. CompleteInv'
    BY <1>1, <2>1 DEF CompleteInv, Fits
  <2>8. \A r \in Reqs : PendingInv(r)'
    BY <1>1, <2>1, <2>4, <2>5 DEF PendingInv, Pending, Is, Past
  <2> QED BY <1>1, <2>5, <2>6, <2>7, <2>8, HolderFits
<1> QED BY <1>2, <1>3, <1>4

\* What a step of a job at work starts from.
WorkFacts(j) ==
  /\ ~astray /\ lock = j /\ HolderInv(j) /\ PagesInv /\ CompleteInv
  /\ \A r \in Reqs : PendingInv(r)
  /\ mode \in Modes /\ job[j] \in Job /\ job \in [Jobs -> Job]

\* No request holds row locks, and so none has rows to commit.
LEMMA NothingPending ==
  ASSUME Unlocked, req' = req
  PROVE  \A r \in Reqs : ~Pending(r) /\ ~Pending(r)'
BY DEF Unlocked, Pending, Is

\* A job that is neither warm nor at its end works on a partset that is not complete, once
\* it has passed the row locks.
LEMMA NotComplete ==
  ASSUME NEW j \in Jobs, WorkFacts(j), job[j].kind # "warm",
         job[j].pc \notin {"unlock", "fail", "abort", "queued"},
         Unlocked \/ job[j].pc # "dropRows"
  PROVE  ~done
BY DEF WorkFacts, HolderInv, DoneInv, Unlocked, Pending, Is

\* A job that has gone to pc, field by field.
LEMMA GotoFields ==
  ASSUME NEW j \in Jobs, NEW pc, job[j] \in Job, job \in [Jobs -> Job], Goto(j, pc)
  PROVE  /\ job'[j].pc = pc /\ job'[j].kind = job[j].kind /\ job'[j].mode = job[j].mode
         /\ job'[j].todo = job[j].todo
         /\ \A i \in Jobs : i # j => job'[i] = job[i]
<1> DEFINE new == [job[j] EXCEPT !.pc = pc]
<1>1. new.pc = pc /\ new.kind = job[j].kind /\ new.mode = job[j].mode /\ new.todo = job[j].todo
  BY DEF Job
<1>2. job' = [job EXCEPT ![j] = new]
  BY DEF Goto
<1> HIDE DEF new
<1> QED BY <1>1, <1>2

\* A job on a partset that is not complete goes on: only its own stage is at stake.
LEMMA WorksFits ==
  ASSUME FitInv, NEW j \in Jobs, WorkFacts(j), lock' = lock, req' = req, ~done', ~done,
         \A i \in Jobs : i # j => job'[i] = job[i],
         job'[j].kind = job[j].kind, job'[j].mode = job[j].mode, job[j].kind # "warm",
         job[j].kind = "import" =>
           mode' = mode /\ job'[j].pc \notin {"dropRows", "resetRow", "wipe", "copy", "setMode"},
         (Past(j)' => Past(j)) \/ Unlocked,
         StageInv(j)'
  PROVE  PagesInv'
<1>1. ImportInv(j)' /\ WarmInv(j)' /\ DoneInv(j)'
  BY DEF WorkFacts, HolderInv, ImportInv, WarmInv, DoneInv
<1>2. CompleteInv'
  BY DEF CompleteInv
<1>3. \A r \in Reqs : PendingInv(r)'
  <2>1. CASE Unlocked
    BY <2>1, NothingPending DEF PendingInv
  <2>2. CASE Past(j)' => Past(j)
    BY <2>2 DEF WorkFacts, PendingInv, Pending, Is
  <2> QED BY <2>1, <2>2
<1> QED BY <1>1, <1>2, <1>3, HolderFits DEF WorkFacts, HolderInv

LEMMA WorkFits ==
  ASSUME FitInv, NEW j \in Jobs, ~astray',
         \/ DropRows(j) \/ ResetRow(j) \/ WipeAndRender(j) \/ (\E p \in Slots : CopyPage(j, p))
         \/ SetMode(j) \/ ClearRows(j) \/ InsertRows(j) \/ Complete(j)
  PROVE  PagesInv'
<1>1. /\ job[j].pc \in {"dropRows", "resetRow", "wipe", "copy", "setMode", "clear", "insert", "complete"}
      /\ lock' = lock /\ req' = req /\ ~astray
  <2>1. CASE DropRows(j) \/ ResetRow(j) \/ WipeAndRender(j)
    BY <2>1 DEF DropRows, ResetRow, WipeAndRender, At
  <2>2. CASE \E p \in Slots : CopyPage(j, p)
    BY <2>2 DEF CopyPage, At
  <2>3. CASE SetMode(j) \/ ClearRows(j)
    BY <2>3 DEF SetMode, ClearRows, At
  <2>4. CASE InsertRows(j) \/ Complete(j)
    BY <2>4 DEF InsertRows, Complete, At
  <2> QED BY <2>1, <2>2, <2>3, <2>4
<1>2. WorkFacts(j)
  BY <1>1, HolderFacts DEF WorkFacts, Live
<1>3. ImportInv(j) /\ WarmInv(j) /\ StageInv(j) /\ job[j] \in Job /\ job \in [Jobs -> Job]
  BY <1>2 DEF WorkFacts, HolderInv
<1>4. job[j].kind \in {"reorient", "warm", "import"} /\ (job[j].kind = "warm" => job[j].pc = "copy")
  BY <1>1, <1>3 DEF Job, WarmInv
<1>5. CASE DropRows(j)
  <2>1. At(j, "dropRows") /\ Unlocked /\ Goto(j, "resetRow") /\ UNCHANGED <<mode, done, image>>
    BY <1>5 DEF DropRows
  <2>2. job[j].kind = "reorient" /\ ~done
    BY <1>2, <1>3, <1>4, <2>1, NotComplete DEF At, ImportInv
  <2>3. StageInv(j)'
    BY <1>3, <2>1, GotoFields DEF StageInv
  <2> QED BY <1>1, <1>2, <1>3, <2>1, <2>2, <2>3, GotoFields, WorksFits
<1>6. CASE ResetRow(j)
  <2>1. At(j, "resetRow") /\ ~done' /\ Goto(j, "wipe") /\ UNCHANGED <<mode, segs, image>>
    BY <1>6 DEF ResetRow
  <2>2. job[j].kind = "reorient"
    BY <1>3, <1>4, <2>1 DEF At, ImportInv
  <2>3. ~done
    BY <1>2, <2>1, <2>2, NotComplete DEF At
  <2>4. StageInv(j)' /\ (Past(j)' => Past(j))
    BY <1>3, <2>1, <2>2, GotoFields DEF StageInv, Past, At
  <2> QED BY <1>1, <1>2, <1>3, <2>1, <2>2, <2>3, <2>4, GotoFields, WorksFits
<1>7. CASE WipeAndRender(j)
  <2> DEFINE todo == IF job[j].mode \in Custom THEN PagesOf(job[j].mode) ELSE {}
             pc == IF job[j].mode \in Custom THEN "copy" ELSE "setMode"
             new == [job[j] EXCEPT !.todo = todo, !.pc = pc]
  <2>1. At(j, "wipe") /\ image' = Wiped /\ UNCHANGED <<mode, done, segs>> /\ job' = [job EXCEPT ![j] = new]
    BY <1>7 DEF WipeAndRender, rowVars
  <2>2. job[j].kind = "reorient"
    BY <1>3, <1>4, <2>1 DEF At, ImportInv
  <2>3. ~done
    BY <1>2, <2>1, <2>2, NotComplete DEF At
  <2>4. pc \in {"copy", "setMode"} /\ (pc = "copy" => todo = PagesOf(job[j].mode))
    OBVIOUS
  <2> HIDE DEF pc, todo
  <2>5. new.pc = pc /\ new.todo = todo /\ new.kind = job[j].kind /\ new.mode = job[j].mode
    BY <1>3 DEF Job
  <2> HIDE DEF new
  <2>6. job'[j] = new /\ \A i \in Jobs : i # j => job'[i] = job[i]
    BY <1>3, <2>1
  <2>7. \A m : Fits(m)'
    BY <2>1 DEF Fits, Wiped
  <2>8. StageInv(j)' /\ (Past(j)' => Past(j))
    BY <2>1, <2>2, <2>4, <2>5, <2>6, <2>7 DEF StageInv, Past, At
  <2> QED BY <1>1, <1>2, <2>1, <2>2, <2>3, <2>5, <2>6, <2>8, WorksFits
<1>8. ASSUME NEW p \in Slots, CopyPage(j, p) PROVE PagesInv'
  <2> DEFINE pc == IF job[j].todo # {p} THEN job[j].pc
                   ELSE IF job[j].kind = "warm" THEN "clearErr" ELSE "setMode"
             new == [job[j] EXCEPT !.todo = job[j].todo \ {p}, !.pc = pc]
  <2>1. /\ At(j, "copy") /\ p \in job[j].todo /\ UNCHANGED <<mode, done, segs>>
        /\ image' = [image EXCEPT ![p] = job[j].mode] /\ job' = [job EXCEPT ![j] = new]
    BY <1>3, <1>8 DEF CopyPage, rowVars, Job
  <2>2. pc \in {"copy", "clearErr", "setMode"} /\ (pc = "setMode" => job[j].kind # "warm")
        /\ (pc = "clearErr" => job[j].kind = "warm")
    BY <2>1 DEF At
  <2> HIDE DEF pc
  <2>3. new.pc = pc /\ new.todo = job[j].todo \ {p} /\ new.kind = job[j].kind /\ new.mode = job[j].mode
    BY <1>3 DEF Job
  <2> HIDE DEF new
  <2>4. job'[j] = new /\ \A i \in Jobs : i # j => job'[i] = job[i]
    BY <1>3, <2>1
  <2>5. p \in PagesOf(job[j].mode) /\ job[j].todo \subseteq PagesOf(job[j].mode)
    BY <1>3, <2>1 DEF StageInv, At
  <2>6. Fits(job[j].mode) => Fits(job[j].mode)'
    <3>1. \A q \in Slots : image'[q] = IF q = p THEN job[j].mode ELSE image[q]
      BY <2>1 DEF FitInv
    <3>2. job'[j].mode = job[j].mode
      BY <2>3, <2>4
    <3> QED BY <2>5, <3>1, <3>2 DEF Fits
  <2>7. CASE job[j].kind = "reorient"
    <3>1. ~done
      BY <1>2, <2>1, <2>7, NotComplete DEF At
    <3>2. StageInv(j)' /\ (Past(j)' => Past(j))
      BY <1>3, <2>1, <2>2, <2>3, <2>4, <2>5, <2>6, <2>7 DEF StageInv, Past, At
    <3> QED BY <1>1, <1>2, <2>1, <2>2, <2>3, <2>4, <2>7, <3>1, <3>2, WorksFits
  <2>8. CASE job[j].kind = "warm"
    <3>1. HolderInv(j)'
      BY <1>3, <2>1, <2>2, <2>3, <2>4, <2>5, <2>8 DEF HolderInv, ImportInv, WarmInv, DoneInv, StageInv
    <3>2. CompleteInv'
      <4> SUFFICES ASSUME done, mode \in Custom PROVE Fits(mode)'
        BY <1>2, <2>1 DEF CompleteInv, WorkFacts
      <4>1. mode = job[j].mode /\ Fits(mode)
        BY <1>2, <1>3, <2>8 DEF WarmInv, WorkFacts, CompleteInv
      <4>2. Fits(job[j].mode)' /\ mode' = job'[j].mode
        BY <2>1, <2>3, <2>4, <2>6, <4>1
      <4> QED BY <4>2 DEF Fits
    <3>3. ~Past(j)'
      BY <2>2, <2>3, <2>4, <2>8 DEF Past
    <3>4. \A r \in Reqs : PendingInv(r)'
      BY <1>1, <1>2, <2>1, <3>3 DEF WorkFacts, PendingInv, Pending, Is
    <3> QED BY <1>1, <1>2, <2>4, <3>1, <3>2, <3>4, HolderFits DEF WorkFacts
  <2>9. job[j].kind # "import"
    BY <1>3, <2>1 DEF ImportInv, At
  <2> QED BY <1>4, <2>7, <2>8, <2>9
<1>9. CASE SetMode(j)
  <2>1. At(j, "setMode") /\ mode' = job[j].mode /\ Goto(j, "clear") /\ UNCHANGED <<done, segs, image>>
    BY <1>9 DEF SetMode
  <2>2. job[j].kind = "reorient"
    BY <1>3, <1>4, <2>1 DEF At, ImportInv
  <2>3. ~done
    BY <1>2, <2>1, <2>2, NotComplete DEF At
  <2>4. StageInv(j)' /\ (Past(j)' => Past(j))
    BY <1>3, <2>1, <2>2, GotoFields DEF StageInv, Past, At, Fits
  <2> QED BY <1>1, <1>2, <1>3, <2>1, <2>2, <2>3, <2>4, GotoFields, WorksFits
<1>10. CASE ClearRows(j)
  <2>1. At(j, "clear") /\ Unlocked /\ Goto(j, "insert") /\ UNCHANGED <<mode, done, image>>
    BY <1>10 DEF ClearRows
  <2>2. job[j].kind # "warm"
    BY <1>4, <2>1 DEF At
  <2>3. ~done
    BY <1>2, <2>1, <2>2, NotComplete DEF At
  <2>4. StageInv(j)'
    BY <1>3, <2>1, <2>2, GotoFields DEF StageInv, At, Fits
  <2> QED BY <1>1, <1>2, <1>3, <2>1, <2>2, <2>3, <2>4, GotoFields, WorksFits
<1>11. CASE InsertRows(j)
  <2>1. /\ At(j, "insert") /\ UNCHANGED <<mode, done, image>>
        /\ \/ segs' = job[j].mode /\ Goto(j, "complete")
           \/ segs' = segs /\ Goto(j, "fail")
    BY <1>11 DEF InsertRows
  <2>2. job[j].kind # "warm"
    BY <1>4, <2>1 DEF At
  <2>3. ~done
    BY <1>2, <2>1, <2>2, NotComplete DEF At
  <2>4. StageInv(j)' /\ (Past(j)' => Past(j))
    BY <1>3, <2>1, <2>2, GotoFields DEF StageInv, At, Fits, Past
  <2> QED BY <1>1, <1>2, <1>3, <2>1, <2>2, <2>3, <2>4, GotoFields, WorksFits
<1>12. CASE Complete(j)
  <2>1. At(j, "complete") /\ Goto(j, "unlock") /\ UNCHANGED <<mode, segs, image>>
    BY <1>12 DEF Complete
  <2>2. job[j].kind # "warm"
    BY <1>4, <2>1 DEF At
  <2>3. HolderInv(j)'
    BY <1>3, <2>1, <2>2, GotoFields DEF HolderInv, ImportInv, WarmInv, DoneInv, StageInv
  <2>4. Past(j)
    BY <2>1 DEF Past, At
  <2>5. \A r \in Reqs : ~Pending(r) /\ ~Pending(r)'
    <3>1. \A r \in Reqs : ~Pending(r)
      BY <1>2, <2>4 DEF WorkFacts, PendingInv
    <3> QED BY <1>1, <3>1 DEF Pending, Is
  <2>6. CompleteInv'
    <3>1. segs = mode
      BY <1>3, <2>1 DEF StageInv, At
    <3>2. mode \in Custom => Fits(mode)
      BY <1>3, <1>4, <2>1, <2>2 DEF StageInv, At, ImportInv, Custom
    <3> QED BY <2>1, <3>1, <3>2 DEF CompleteInv, Fits
  <2> QED BY <1>1, <1>2, <1>3, <2>1, <2>3, <2>5, <2>6, GotoFields, HolderFits DEF WorkFacts, PendingInv
<1> QED BY <1>5, <1>6, <1>7, <1>8, <1>9, <1>10, <1>11, <1>12

LEMMA EndsFit ==
  ASSUME FitInv, NEW j \in Jobs, ~astray',
         \/ ClearCacheError(j) \/ Except(j) \/ Raise(j)
         \/ Finally(j) \/ ParentExit(j) \/ KillJob(j) \/ LoseWorker(j)
  PROVE  PagesInv'
<1>1. UNCHANGED <<mode, done, segs, image, req>>
  BY DEF ClearCacheError, Except, Raise, Finally, ParentExit, KillJob, LoseWorker, rowVars
<1>2. ~astray
  BY DEF ClearCacheError, Except, Raise, Finally, ParentExit, KillJob, LoseWorker, Unlock
<1>3. job[j] \in Job /\ job \in [Jobs -> Job]
  BY DEF FitInv, OwnerInv, Typed
<1>4. CASE ClearCacheError(j) \/ Except(j) \/ Raise(j)
  <2>1. Live(j)
    BY <1>4 DEF ClearCacheError, Except, Raise, InTry, Running, Live, At
  <2>2. \E pc \in {"unlock", "abort", "fail"} : Goto(j, pc)
    BY <1>4 DEF ClearCacheError, Except, Raise
  <2>3. UNCHANGED <<lock, astray>>
    BY <1>4 DEF ClearCacheError, Except, Raise
  <2> QED BY <1>1, <1>2, <2>1, <2>2, <2>3, HolderFacts, StaysFits DEF JobPC
<1>5. CASE Finally(j)
  <2>1. Live(j) /\ lock' = None
    BY <1>5 DEF Finally, Unlock, Live
  <2>2. lock = j
    BY <1>2, <2>1, HolderFacts
  <2>3. (Goto(j, "exit") \/ Goto(j, "again"))
    BY <1>5 DEF Finally
  <2>4. ~Live(j)' /\ \A i \in Jobs : i # j => job'[i] = job[i]
    BY <1>3, <2>3, GotoFields DEF Live
  <2> QED BY <1>1, <1>2, <2>1, <2>2, <2>4, ReleaseFits, ReorientAssumption
<1>6. ASSUME End(j) PROVE ~Live(j)' /\ \A i \in Jobs : i # j => job'[i] = job[i]
  BY <1>3, <1>6 DEF End, Live, NoJob
<1>7. CASE ParentExit(j)
  <2>1. ~Live(j) /\ lock # j /\ End(j)
    BY <1>7 DEF ParentExit, Live, FitInv, OwnerInv, HolderReleases
  <2>2. \/ lock' = None /\ lock \in {None, "lost", j}
        \/ lock' = lock
    BY <1>7 DEF ParentExit, Unlock
  <2> QED BY <1>1, <1>2, <1>6, <2>1, <2>2, ReleaseFits, ReorientAssumption
<1>8. CASE KillJob(j)
  <2>1. Live(j) /\ lock' = None
    BY <1>8 DEF KillJob, Unlock, Live, InTry, Running
  <2>2. lock = j
    BY <1>2, <2>1, HolderFacts
  <2>3. CASE job' = [job EXCEPT ![j].pc = "queued", ![j].todo = {}]
    <3>1. job'[j].pc = "queued" /\ \A i \in Jobs : i # j => job'[i] = job[i]
      BY <1>3, <2>3 DEF Job
    <3> QED BY <1>1, <1>2, <2>1, <2>2, <3>1, ReleaseFits, ReorientAssumption DEF Live
  <2>4. CASE End(j)
    BY <1>1, <1>2, <1>6, <2>1, <2>2, <2>4, ReleaseFits, ReorientAssumption
  <2> QED BY <1>8, <2>3, <2>4 DEF KillJob
<1>9. CASE LoseWorker(j)
  <2>1. Live(j) /\ End(j)
    BY <1>9 DEF LoseWorker, Live, InTry, Running
  <2>2. lock = j
    BY <1>2, <2>1, HolderFacts
  <2>3. lock' = "lost"
    BY <1>9, <2>2 DEF LoseWorker
  <2> QED BY <1>1, <1>2, <1>6, <2>1, <2>2, <2>3, ReleaseFits, ReorientAssumption
<1> QED BY <1>4, <1>5, <1>7, <1>8, <1>9

LEMMA RestFits ==
  ASSUME FitInv, ~astray', SaveSegments \/ StartParts \/ GenerateParts \/ ExpireLock \/ Evict
  PROVE  PagesInv'
<1>1. UNCHANGED <<mode, done, segs, job, req>> /\ ~astray
  BY DEF SaveSegments, StartParts, GenerateParts, ExpireLock, Evict, rowVars
<1>2. PagesInv
  BY <1>1 DEF FitInv
<1>3. CASE SaveSegments \/ StartParts \/ GenerateParts
  <2>1. UNCHANGED <<lock, image>>
    BY <1>3 DEF SaveSegments, StartParts, GenerateParts
  <2> QED BY <1>1, <2>1, SamePages DEF Pending, Is
<1>4. CASE ExpireLock
  <2>1. lock = "lost" /\ lock' = None /\ image' = image
    BY <1>4 DEF ExpireLock
  <2>2. \A j \in Jobs : ~Live(j)' /\ lock' # j
    BY <1>1, <1>2, <2>1, ReorientAssumption DEF PagesInv, Live
  <2>3. CompleteInv'
    BY <1>1, <1>2, <2>1 DEF PagesInv, CompleteInv, Fits
  <2>4. \A r \in Reqs : PendingInv(r)'
    BY <1>1, <1>2, <2>2 DEF PagesInv, PendingInv, Pending, Is
  <2> QED BY <2>2, <2>3, <2>4 DEF PagesInv
<1>5. CASE Evict
  <2>1. lock' = lock /\ image' = Wiped
    BY <1>5 DEF Evict
  <2>2. \A m : Fits(m)'
    BY <2>1 DEF Fits, Wiped
  <2>3. ASSUME NEW j \in Jobs, lock = j PROVE HolderInv(j)' /\ (Past(j)' <=> Past(j))
    <3>1. HolderInv(j)
      BY <1>2, <2>3 DEF PagesInv
    <3>2. ImportInv(j)' /\ WarmInv(j)' /\ StageInv(j)'
      BY <1>1, <2>2, <3>1 DEF HolderInv, ImportInv, WarmInv, StageInv
    <3>3. DoneInv(j)'
      BY <1>1, <3>1 DEF HolderInv, DoneInv, Pending, Is
    <3> QED BY <1>1, <3>2, <3>3 DEF HolderInv, Past
  <2>4. CompleteInv'
    BY <1>1, <1>2, <2>2 DEF PagesInv, CompleteInv
  <2>5. \A r \in Reqs : PendingInv(r)'
    BY <1>1, <1>2, <2>1, <2>3 DEF PagesInv, PendingInv, Pending, Is
  <2> QED BY <1>1, <1>2, <2>1, <2>3, <2>4, <2>5 DEF PagesInv, Live
<1> QED BY <1>3, <1>4, <1>5

LEMMA ImagesKeepType ==
  ASSUME FitInv, [Next]_vars
  PROVE  image' \in [Slots -> Modes \cup {None}]
<1>1. image \in [Slots -> Modes \cup {None}] /\ \A j \in Jobs : job[j].mode \in Modes
  BY DEF FitInv, OwnerInv, Typed, Job
<1>2. Wiped \in [Slots -> Modes \cup {None}]
  BY DEF Wiped
<1>3. ASSUME NEW j \in Jobs, NEW p \in Slots, CopyPage(j, p) PROVE image' \in [Slots -> Modes \cup {None}]
  BY <1>1, <1>3 DEF CopyPage
<1>4. ASSUME NEW j \in Jobs, JobStep(j) \/ Raise(j) \/ KillJob(j) \/ LoseWorker(j)
      PROVE  image' = image \/ image' = Wiped \/ \E p \in Slots : CopyPage(j, p)
  BY <1>4 DEF JobStep, StartReorientJob, StartWarmJob, StartImportJob, DropRows, ResetRow, WipeAndRender,
     ClearCacheError, SetMode, ClearRows, InsertRows, Complete, Except, Finally, ParentExit, Raise, KillJob,
     LoseWorker
<1>5. ASSUME NEW r \in Reqs,
             \/ Load(r) \/ Poll(r) \/ RetryPages(r) \/ EnqueueWarm(r)
             \/ EnsureImport(r) \/ RetryImport(r) \/ CommitReorient(r)
             \/ \E m \in Modes : StartReorient(r, m)
      PROVE  image' = image \/ image' = Wiped
  BY <1>5 DEF Load, Poll, RetryPages, EnqueueWarm, EnsureImport, RetryImport, CommitReorient, StartReorient
<1>6. SaveSegments \/ StartParts \/ GenerateParts \/ ExpireLock \/ Evict => image' = image \/ image' = Wiped
  BY DEF SaveSegments, StartParts, GenerateParts, ExpireLock, Evict
<1>7. UNCHANGED vars => image' = image
  BY DEF vars
<1> QED BY <1>1, <1>2, <1>3, <1>4, <1>5, <1>6, <1>7 DEF Next

LEMMA NextFits == FitInv /\ [Next]_vars => FitInv'
<1> SUFFICES ASSUME FitInv, [Next]_vars PROVE FitInv'
  OBVIOUS
<1>1. OwnerInv'
  BY NextKeepsOwner DEF FitInv
<1>2. image' \in [Slots -> Modes \cup {None}]
  BY ImagesKeepType
<1>3. ASSUME ~astray' PROVE PagesInv'
  <2>1. CASE UNCHANGED vars
    <3>1. ~astray /\ UNCHANGED <<job, lock, mode, done, segs, image, req>>
      BY <1>3, <2>1 DEF vars, rowVars
    <3> QED BY <3>1, SamePages DEF Pending, Is
  <2>2. ASSUME NEW j \in Jobs, JobStep(j) PROVE PagesInv'
    BY <1>3, <2>2, BeginsFit, WorkFits, EndsFit DEF JobStep
  <2> QED BY <1>3, <2>1, <2>2, RequestFits, StartFits, CommitFits, EndsFit, RestFits DEF Next
<1> QED BY <1>1, <1>2, <1>3 DEF FitInv

\* However requests, jobs, kills, restarts and evictions interleave, a partset of complete
\* rotated or split pages shows no image of an earlier rotation or split.
THEOREM PagesAreOwn == Spec => []NoForeignPage
<1>1. FitInv => NoForeignPage
  BY DEF FitInv, PagesInv, CompleteInv, Fits, NoForeignPage
<1> QED BY InitFits, NextFits, <1>1, PTL DEF Spec

\* Nor does it have the segments of other pages than those it shows.
THEOREM SegmentsAreOwn == Spec => []SegmentsFitPages
<1>1. FitInv => SegmentsFitPages
  BY DEF FitInv, PagesInv, CompleteInv, SegmentsFitPages
<1> QED BY InitFits, NextFits, <1>1, PTL DEF Spec
=============================================================================
