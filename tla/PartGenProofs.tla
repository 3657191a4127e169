--------------------------- MODULE PartGenProofs ---------------------------
(***************************************************************************)
(* Theorems about part generation, for any number of requests, jobs, saves *)
(* and faults.                                                             *)
(***************************************************************************)
EXTENDS PartGen, TLAPS

-----------------------------------------------------------------------------
(* Types: what the helpers return. *)

\* The contents a model starts from, and the empty records, have their types.
LEMMA EmptyTypes ==
  NoContent \in Content /\ NoJob \in Job /\ NoRequest \in Request
<1>1. (CHOOSE v \in Values : TRUE) \in Values
  BY PartGenAssumption
<1>2. NoContent \in Content
  BY <1>1 DEF NoContent, Content, Tags, NoTags
<1>3. NoJob \in Job
  BY <1>2 DEF NoJob, Job, JobPC
<1>4. NoRequest \in Request
  BY DEF NoRequest, Request
<1> QED BY <1>2, <1>3, <1>4

\* Every row is one of the parts.
LEMMA RowsAreParts ==
  ASSUME NEW c \in Content
  PROVE  Rows(c) \subseteq Parts
<1> SUFFICES ASSUME NEW p \in Rows(c) PROVE p \in Parts
  OBVIOUS
<1>1. c.tags \in Labels \/ c.tags = {}
  BY DEF Content, Tags, NoTags
<1>2. p \in c.tags \/ p = Combined
  BY DEF Rows
<1>3. CASE p \in c.tags
  <2>1. c.tags \in Labels
    BY <1>1, <1>3
  <2>2. p \in UNION Labels
    BY <1>3, <2>1
  <2> QED BY <2>2, Zenon DEF Parts
<1>4. CASE p = Combined
  BY <1>4, Zenon DEF Parts
<1> QED BY <1>2, <1>3, <1>4

\* A part's PDF may be missing or have been made from any content.
Files == [Parts -> Content \union {NoPDF}]

LEMMA FileTypes ==
  ASSUME files \in Files
  PROVE  /\ NoFiles \in Files
         /\ \A p \in Parts, c \in Content : [files EXCEPT ![p] = c] \in Files
BY DEF Files, NoFiles

\* A job that moves on keeps the type of what it has read.
LEMMA GotoType ==
  ASSUME job \in [JobIds -> Job], NEW j \in JobIds, NEW pc \in JobPC, Goto(j, pc)
  PROVE  job' \in [JobIds -> Job]
<1>1. [job[j] EXCEPT !.pc = pc] \in Job
  BY DEF Job
<1> QED BY <1>1 DEF Goto

\* A job that has read what is of the right type keeps its type.
LEMMA ReadType ==
  ASSUME job \in [JobIds -> Job], NEW j \in JobIds, NEW pc \in JobPC, NEW got \in Content,
         Read(j, pc, got)
  PROVE  job' \in [JobIds -> Job]
<1>1. [job[j] EXCEPT !.pc = pc, !.got = got] \in Job
  BY DEF Job
<1> QED BY <1>1 DEF Read

\* A job that has dropped what it read is still a job.
LEMMA LeaveType ==
  ASSUME job \in [JobIds -> Job], NEW j \in JobIds, NEW pc \in JobPC,
         NEW again \in BOOLEAN, Leave(j, pc, again)
  PROVE  job' \in [JobIds -> Job]
<1>1. [NoJob EXCEPT !.pc = pc, !.again = again] \in Job
  BY EmptyTypes DEF Job
<1> QED BY <1>1 DEF Leave

\* A request that moves on keeps the type of what its session read.
LEMMA StepType ==
  ASSUME req \in [Requests -> Request], NEW r \in Requests,
         NEW pc \in {"none", "begun", "flushed", "invalid", "locked", "commit"}, Step(r, pc)
  PROVE  req' \in [Requests -> Request]
<1>1. [req[r] EXCEPT !.pc = pc] \in Request
  BY DEF Request
<1> QED BY <1>1 DEF Step

\* The place of a request that has ended is empty.
LEMMA EndType ==
  ASSUME req \in [Requests -> Request], NEW r \in Requests, End(r)
  PROVE  req' \in [Requests -> Request]
BY EmptyTypes DEF End

\* A new session has read a row of the right type.
LEMMA SessionTypes ==
  ASSUME ready \in BOOLEAN, error \in BOOLEAN, marks \subseteq Marks
  PROVE  /\ \A k \in {"generate", "retry"} : Starting(k) \in Request
         /\ \A k \in EditKind : Saving(k) \in Request
BY EmptyTypes DEF Starting, Saving, NoRequest, Request, EditKind

\* A save leaves a content behind.
LEMMA EditedType ==
  ASSUME content \in Content, NEW k \in EditKind
  PROVE  Edited(k) \subseteq Content
<1>1. CASE k = "title"
  BY <1>1 DEF Edited, Content
<1>2. CASE k = "layout"
  BY <1>2 DEF Edited, Content
<1>3. CASE k = "combine"
  BY <1>3 DEF Edited, Content
<1>4. CASE k = "segments"
  <2>1. {[content EXCEPT !.crop = v] : v \in Values} \subseteq Content
    BY DEF Content
  <2>2. {[content EXCEPT !.tags = t] : t \in Labels \ {content.tags}} \subseteq Content
    BY DEF Content, Tags
  <2>3. {[content EXCEPT !.tags = t, !.combined = FALSE] : t \in Tags \ {content.tags}}
          \subseteq Content
    BY DEF Content
  <2>4. Resegmented \subseteq Content
    BY <2>1, <2>2, <2>3 DEF Resegmented
  <2> QED BY <1>4, <2>4 DEF Edited
<1> QED BY <1>1, <1>2, <1>3, <1>4 DEF EditKind

-----------------------------------------------------------------------------
(* Types: every step keeps them. *)

\* The steps of a request keep every variable in its type.
LEMMA RequestKeepsTypes ==
  ASSUME TypeOK, NEW r \in Requests,
         \/ BeginGenerate(r) \/ BeginRetry(r) \/ BeginEdit(r)
         \/ StartStep(r) \/ EditStep(r)
  PROVE  TypeOK'
<1> USE DEF TypeOK, Files, dbVars, histVars
<1>1. CASE BeginGenerate(r)
  BY <1>1, SessionTypes DEF BeginGenerate
<1>2. CASE BeginRetry(r)
  BY <1>2, SessionTypes DEF BeginRetry
<1>3. CASE BeginEdit(r)
  BY <1>3, SessionTypes, PartGenAssumption DEF BeginEdit
<1>4. CASE AcquireGenPartsLock(r)
  <2>1. req' \in [Requests -> Request]
    BY <1>4, StepType, EndType DEF AcquireGenPartsLock
  <2> QED BY <1>4, <2>1 DEF AcquireGenPartsLock
<1>5. CASE RefuseUntagged(r)
  BY <1>5, EndType DEF RefuseUntagged, ReleaseLock
<1>6. CASE EnqueueGenParts(r)
  <2>1. req' \in [Requests -> Request]
    BY <1>6, StepType, EndType DEF EnqueueGenParts
  <2>2. lastId + 1 \in JobIds /\ lastId' \in 0..MaxJobs
    BY <1>6, PartGenAssumption DEF EnqueueGenParts, JobIds
  <2>3. [job[lastId + 1] EXCEPT !.pc = "queued"] \in Job
    BY <2>2 DEF Job, JobPC
  <2> QED BY <1>6, <2>1, <2>2, <2>3 DEF EnqueueGenParts
<1>7. CASE CommitStart(r)
  BY <1>7, EndType DEF CommitStart
<1>8. CASE FlushEdit(r)
  BY <1>8, StepType DEF FlushEdit
<1>9. CASE InvalidateParts(r)
  <2>1. [req[r] EXCEPT !.pc = "invalid",
                       !.keep = req[r].kind = "title" /\ PartgenInProgress(req[r])] \in Request
    BY DEF Request
  <2>2. req' \in [Requests -> Request]
    BY <1>9, <2>1 DEF InvalidateParts
  <2> QED BY <1>9, <2>2, FileTypes DEF InvalidateParts
<1>10. CASE CommitEdit(r)
  <2>1. content' \in Content
    BY <1>10, EditedType DEF CommitEdit, Editing
  <2> QED BY <1>10, <2>1, EndType DEF CommitEdit
<1> QED BY <1>1, <1>2, <1>3, <1>4, <1>5, <1>6, <1>7, <1>8, <1>9, <1>10 DEF StartStep, EditStep

\* The steps in which a job reads keep every variable in its type.
LEMMA ReadKeepsTypes ==
  ASSUME TypeOK, NEW j \in JobIds, ReadStep(j)
  PROVE  TypeOK'
<1> USE DEF TypeOK, Files, dbVars, histVars
<1>0. \A pc \in JobPC, got \in Content : Read(j, pc, got) => job' \in [JobIds -> Job]
  BY ReadType
<1>g. job[j].got \in Content
  BY DEF Job
<1>1. CASE StartJob(j)
  <2>1. [job[j].got EXCEPT !.title = content.title] \in Content
    BY <1>g DEF Content
  <2> QED BY <1>0, <1>1, <2>1 DEF StartJob, JobPC, Working
<1>2. CASE ReadSegments(j)
  <2>1. [job[j].got EXCEPT !.crop = content.crop, !.tags = content.tags] \in Content
    BY <1>g DEF Content
  <2> QED BY <1>0, <1>2, <2>1 DEF ReadSegments, JobPC, Working
<1>3. CASE CountParts(j)
  <2>1. job' \in [JobIds -> Job]
    BY <1>3, GotoType DEF CountParts, JobPC, Working
  <2> QED BY <1>3, <2>1 DEF CountParts
<1>4. CASE ReadCombined(j)
  <2>1. [job[j].got EXCEPT !.combined = content.combined] \in Content
    BY <1>g DEF Content
  <2> QED BY <1>0, <1>4, <2>1 DEF ReadCombined, JobPC, Working
<1>5. CASE ReadLayout(j)
  <2>1. [job[j].got EXCEPT !.layout = content.layout] \in Content
    BY <1>g DEF Content
  <2> QED BY <1>0, <1>5, <2>1 DEF ReadLayout, JobPC, Working
<1>6. CASE ReadPartRows(j)
  <2> DEFINE got == [job[j].got EXCEPT !.tags = content.tags, !.combined = content.combined]
  <2>1. got \in Content
    BY <1>g DEF Content
  <2> HIDE DEF got
  <2> DEFINE rows == Rows(content)
             torn == rows # {} /\ got # job[j].got
  <2>2. rows \subseteq Parts
    BY RowsAreParts
  <2>3. job' = [job EXCEPT ![j] =
                  [job[j] EXCEPT !.pc = "paste", !.got = got, !.left = rows, !.torn = torn]]
    BY <1>6 DEF ReadPartRows, got
  <2> HIDE DEF rows, torn
  <2>5. job[j] \in Job /\ torn \in BOOLEAN
    BY DEF torn
  <2>6. [job[j] EXCEPT !.pc = "paste", !.got = got, !.left = rows, !.torn = torn] \in Job
    BY <2>1, <2>2, <2>5 DEF Job, JobPC, Working
  <2>4. job' \in [JobIds -> Job]
    BY <2>3, <2>6
  <2> QED BY <1>6, <2>4 DEF ReadPartRows
<1> QED BY <1>1, <1>2, <1>3, <1>4, <1>5, <1>6 DEF ReadStep

\* The steps in which a job writes keep every variable in its type.
LEMMA WriteKeepsTypes ==
  ASSUME TypeOK, NEW j \in JobIds, WriteStep(j)
  PROVE  TypeOK'
<1> USE DEF TypeOK, Files, dbVars, histVars
<1>0. \A pc \in JobPC : Goto(j, pc) => job' \in [JobIds -> Job]
  BY GotoType
<1>1. CASE PublishEmpty(j)
  BY <1>0, <1>1 DEF PublishEmpty, JobPC, Working
<1>2. CASE StartCut(j)
  BY <1>0, <1>2 DEF StartCut, JobPC, Working, Marks
<1>3. CASE CompleteCut(j)
  BY <1>0, <1>3 DEF CompleteCut, JobPC, Working, Marks
<1>4. CASE StartPaste(j)
  BY <1>0, <1>4 DEF StartPaste, JobPC, Working, Marks
<1>5. CASE StorePart(j)
  <2>1. PICK p \in job[j].left :
           /\ job' = [job EXCEPT ![j].left = @ \ {p}]
           /\ \/ files' = [files EXCEPT ![p] = job[j].got] /\ UNCHANGED <<faults, overlooked>>
              \/ files[p] # NoPDF /\ Fault /\ overlooked' = TRUE /\ UNCHANGED files
    BY <1>5 DEF StorePart
  <2>2. job[j] \in Job /\ p \in Parts /\ job[j].got \in Content
    BY DEF Job
  <2>3. [job[j] EXCEPT !.left = @ \ {p}] \in Job
    BY <2>2 DEF Job
  <2>4. job' \in [JobIds -> Job]
    BY <2>1, <2>3
  <2>5. files' \in Files
    BY <2>1, <2>2, FileTypes
  <2>6. faults' \in 0..MaxFaults
    BY <2>1, PartGenAssumption DEF Fault
  <2>7. overlooked' \in BOOLEAN
    BY <2>1
  <2> QED BY <1>5, <2>4, <2>5, <2>6, <2>7 DEF StorePart
<1>6. CASE CheckParts(j)
  BY <1>0, <1>6 DEF CheckParts, JobPC, Working
<1>7. CASE Finalize(j)
  <2>1. job' \in [JobIds -> Job]
    BY <1>0, <1>7 DEF Finalize, JobPC, Working
  <2>2. marks' \subseteq Marks
    BY <1>7 DEF Finalize, Marks
  <2>3. intact' \in BOOLEAN /\ ready' \in BOOLEAN /\ error' \in BOOLEAN
    BY <1>7 DEF Finalize, Undisturbed, Exact
  <2> QED BY <1>7, <2>1, <2>2, <2>3 DEF Finalize
<1>8. CASE DiscardParts(j)
  BY <1>0, <1>8, FileTypes DEF DiscardParts, JobPC
<1> QED BY <1>1, <1>2, <1>3, <1>4, <1>5, <1>6, <1>7, <1>8 DEF WriteStep

\* The end of a job, however it comes about, keeps every variable in its type.
LEMMA EndKeepsTypes ==
  ASSUME TypeOK, NEW j \in JobIds,
         EndStep(j) \/ RaiseInJob(j) \/ KillJob(j) \/ LoseWorker(j)
  PROVE  TypeOK'
<1> USE DEF TypeOK, Files, dbVars, histVars
<1>0. \A pc \in JobPC : /\ Goto(j, pc) => job' \in [JobIds -> Job]
                        /\ \A again \in BOOLEAN :
                             Leave(j, pc, again) => job' \in [JobIds -> Job]
  BY GotoType, LeaveType
<1>f. Fault => faults' \in 0..MaxFaults
  BY PartGenAssumption DEF Fault
<1>1. CASE FailGeneration(j)
  BY <1>0, <1>1 DEF FailGeneration, MarkError, JobPC
<1>2. CASE UnlockInJob(j)
  BY <1>0, <1>2 DEF UnlockInJob, ReleaseLock, JobPC
<1>3. CASE SeeExit(j)
  BY <1>0, <1>3 DEF SeeExit, JobPC
<1>4. CASE RecordFailure(j)
  BY <1>0, <1>4 DEF RecordFailure, MarkError, JobPC
<1>5. CASE ReleaseJobLocks(j)
  BY <1>0, <1>5 DEF ReleaseJobLocks, ReleaseLock, JobPC
<1>6. CASE ReapJob(j)
  BY <1>0, <1>6 DEF ReapJob, MarkError, JobPC
<1>7. CASE RaiseInJob(j)
  BY <1>0, <1>f, <1>7 DEF RaiseInJob, JobPC
<1>8. CASE KillJob(j)
  <2>1. job' \in [JobIds -> Job]
    BY <1>0, <1>8 DEF KillJob, JobPC
  <2> QED BY <1>f, <1>8, <2>1 DEF KillJob
<1>9. CASE LoseWorker(j)
  BY <1>0, <1>f, <1>9 DEF LoseWorker, JobPC
<1> QED BY <1>1, <1>2, <1>3, <1>4, <1>5, <1>6, <1>7, <1>8, <1>9 DEF EndStep

\* The expiry of the lock and the eviction keep every variable in its type.
LEMMA RestKeepsTypes ==
  ASSUME TypeOK, ExpireLock \/ EvictParts \/ RemoveParts
  PROVE  TypeOK'
<1> USE DEF TypeOK, Files, dbVars, histVars
<1>f. Fault => faults' \in 0..MaxFaults
  BY PartGenAssumption DEF Fault
<1>1. CASE ExpireLock
  BY <1>f, <1>1 DEF ExpireLock, ReleaseLock
<1>2. CASE EvictParts
  BY <1>f, <1>2 DEF EvictParts
<1>3. CASE RemoveParts
  <2>1. files' \in Files
    BY <1>3, FileTypes DEF RemoveParts
  <2> QED BY <1>3, <2>1 DEF RemoveParts
<1> QED BY <1>1, <1>2, <1>3

LEMMA InitTypes == Init => TypeOK
<1> SUFFICES ASSUME Init PROVE TypeOK
  OBVIOUS
<1>1. (CHOOSE t \in Labels : TRUE) \in Tags
  BY PartGenAssumption DEF Tags
<1>2. content \in Content
  BY EmptyTypes, <1>1 DEF Init, Content
<1>3. files \in [Parts -> Content \union {NoPDF}]
  BY DEF Init, NoFiles
<1>4. job \in [JobIds -> Job] /\ req \in [Requests -> Request]
  BY EmptyTypes DEF Init
<1>5. lastId \in 0..MaxJobs /\ edits \in 0..MaxEdits /\ faults \in 0..MaxFaults
  BY PartGenAssumption DEF Init
<1> QED BY <1>2, <1>3, <1>4, <1>5 DEF Init, TypeOK

\* Type correctness: whatever requests, jobs, saves, evictions and faults do, every
\* variable keeps its type: a session or a job never holds, and the cache never is
\* given, what is no content of the partset.
THEOREM PartGenTypes == Spec => []TypeOK
<1>1. Init => TypeOK
  BY InitTypes
<1>2. TypeOK /\ [Next]_vars => TypeOK'
  <2> SUFFICES ASSUME TypeOK, [Next]_vars PROVE TypeOK'
    OBVIOUS
  <2>1. CASE Next
    BY <2>1, RequestKeepsTypes, ReadKeepsTypes, WriteKeepsTypes, EndKeepsTypes, RestKeepsTypes
       DEF Next, JobStep
  <2>2. CASE UNCHANGED vars
    BY <2>2 DEF vars, dbVars, histVars, TypeOK
  <2> QED BY <2>1, <2>2
<1> QED BY <1>1, <1>2, PTL DEF Spec
-----------------------------------------------------------------------------
(* One job at a time: nobody enters the job's code but through StartJob,    *)
(* which records in doubled that somebody is there already.                 *)

AtMostOneJob == ~doubled => \A i, j \in JobIds : InWork(i) /\ InWork(j) => i = j

\* A step but the start of a job brings no job into its code.
LEMMA OnlyStartEnters ==
  ASSUME TypeOK, Next, \A j \in JobIds : ~StartJob(j)
  PROVE  doubled' = doubled /\ \A i \in JobIds : InWork(i)' => InWork(i)
<1> USE DEF TypeOK, dbVars, histVars, InWork, Working
<1>1. ASSUME NEW r \in Requests,
             BeginGenerate(r) \/ BeginRetry(r) \/ BeginEdit(r) \/ StartStep(r) \/ EditStep(r)
      PROVE  doubled' = doubled /\ \A i \in JobIds : InWork(i)' => InWork(i)
  <2>1. CASE EnqueueGenParts(r)
    BY <2>1 DEF EnqueueGenParts
  <2> QED BY <1>1, <2>1 DEF BeginGenerate, BeginRetry, BeginEdit, StartStep, EditStep,
        AcquireGenPartsLock, RefuseUntagged, CommitStart, FlushEdit, InvalidateParts, CommitEdit
<1>2. ASSUME NEW j \in JobIds, ReadStep(j)
      PROVE  doubled' = doubled /\ \A i \in JobIds : InWork(i)' => InWork(i)
  BY <1>2 DEF ReadStep, ReadSegments, CountParts, ReadCombined, ReadLayout, ReadPartRows,
        Read, Goto, At
<1>3. ASSUME NEW j \in JobIds, WriteStep(j)
      PROVE  doubled' = doubled /\ \A i \in JobIds : InWork(i)' => InWork(i)
  BY <1>3 DEF WriteStep, PublishEmpty, StartCut, CompleteCut, StartPaste, StorePart,
        CheckParts, Finalize, DiscardParts, Goto, At, Job
<1>4. ASSUME NEW j \in JobIds, EndStep(j) \/ RaiseInJob(j) \/ KillJob(j) \/ LoseWorker(j)
      PROVE  doubled' = doubled /\ \A i \in JobIds : InWork(i)' => InWork(i)
  <2>1. \A pc \in JobPC \ Working : Goto(j, pc) => \A i \in JobIds : InWork(i)' => InWork(i)
    BY DEF Goto
  <2>2. \A pc \in JobPC \ Working, again \in BOOLEAN :
          Leave(j, pc, again) => \A i \in JobIds : InWork(i)' => InWork(i)
    BY DEF Leave, NoJob
  <2>3. job[j].again \in BOOLEAN
    BY DEF Job
  <2>4. CASE KillJob(j)
    BY <2>2, <2>4 DEF KillJob, JobPC
  <2>5. CASE RaiseInJob(j) \/ LoseWorker(j)
    BY <2>2, <2>5 DEF RaiseInJob, LoseWorker, JobPC
  <2>6. CASE EndStep(j)
    BY <2>1, <2>2, <2>3, <2>6 DEF EndStep, FailGeneration, UnlockInJob, SeeExit, RecordFailure,
          ReleaseJobLocks, ReapJob, JobPC
  <2> QED BY <1>4, <2>4, <2>5, <2>6
<1>5. ASSUME ExpireLock \/ EvictParts \/ RemoveParts
      PROVE  doubled' = doubled /\ \A i \in JobIds : InWork(i)' => InWork(i)
  BY <1>5 DEF ExpireLock, EvictParts, RemoveParts
<1> QED BY <1>1, <1>2, <1>3, <1>4, <1>5 DEF Next, JobStep

LEMMA NextKeepsOneJob ==
  ASSUME TypeOK, AtMostOneJob, Next
  PROVE  AtMostOneJob'
<1>1. CASE \E j \in JobIds : StartJob(j)
  <2>1. PICK j \in JobIds : StartJob(j)
    BY <1>1
  <2>2. \A i \in JobIds \ {j} : InWork(i)' <=> InWork(i)
    BY <2>1 DEF StartJob, Read, InWork, TypeOK
  <2>3. doubled' = (doubled \/ \E i \in JobIds \ {j} : InWork(i))
    BY <2>1 DEF StartJob
  <2> QED BY <2>2, <2>3 DEF AtMostOneJob
<1>2. CASE \A j \in JobIds : ~StartJob(j)
  BY <1>2, OnlyStartEnters DEF AtMostOneJob
<1> QED BY <1>1, <1>2
-----------------------------------------------------------------------------
(* Labels: a ready partset has no PDFs of labels it does not have.          *)

\* The job has read the part rows it will paste, store and publish.
HasRows == {"paste", "store", "publish"}

\* What a job has stored stays its own, or is removed, until it publishes: nobody else
\* works here.
StoredIsOwn ==
  \A j \in JobIds :
    /\ job[j].pc = "paste" => Rows(job[j].got) \subseteq job[j].left
    /\ ~doubled /\ ~overlooked /\ job[j].pc = "store" =>
         \A p \in Rows(job[j].got) \ job[j].left : files[p] \in {NoPDF, job[j].got}
    /\ ~doubled /\ ~overlooked /\ job[j].pc = "publish" =>
         \A p \in Rows(job[j].got) : files[p] \in {NoPDF, job[j].got}

\* Over a ready partset a job that holds part rows holds those of the database, so
\* that storing its PDFs changes no label.
JobsHaveRows ==
  ready /\ ~doubled /\ ~overlooked =>
    \A j \in JobIds : job[j].pc \in HasRows => Rows(job[j].got) = Rows(content)

\* The parts that have a row show a PDF with the labels of the content, or none.
LabelsFit == \A p \in Rows(content) : files[p] # NoPDF => Rows(files[p]) = Rows(content)
FreshInv == ready /\ ~doubled /\ ~overlooked => LabelsFit

LabelsInv == StoredIsOwn /\ JobsHaveRows /\ FreshInv

LEMMA FreshFits == FreshInv => LabelsFresh
BY DEF FreshInv, LabelsFit, LabelsFresh, Shown

\* PDFs may go, but none is stored.
Fewer == \A p \in Parts : files'[p] \in {files[p], NoPDF}

LEMMA WipedIsFewer ==
  /\ files' = NoFiles => Fewer
  /\ files' = files => Fewer
BY DEF NoFiles, Fewer

LEMMA FewerFits ==
  ASSUME TypeOK, Fewer, content' = content, LabelsFit
  PROVE  LabelsFit'
<1>1. Rows(content) \subseteq Parts
  BY RowsAreParts DEF TypeOK
<1> QED BY <1>1 DEF LabelsFit, Fewer, Rows

\* What a job has stored stays its own when PDFs go.
LEMMA FewerIsOwn ==
  ASSUME TypeOK, Fewer, NEW j \in JobIds, NEW p \in Rows(job[j].got),
         files[p] \in {NoPDF, job[j].got}
  PROVE  files'[p] \in {NoPDF, job[j].got}
<1>1. Rows(job[j].got) \subseteq Parts
  BY RowsAreParts DEF TypeOK, Job
<1> QED BY <1>1 DEF Fewer

\* A step that stores nothing, leaves the content alone, makes nothing ready and
\* brings no job to its rows or past the storing of its PDFs.
LEMMA LabelsFrame ==
  ASSUME TypeOK, LabelsInv, content' = content, ready' => ready,
         Fewer, doubled => doubled', overlooked' = overlooked,
         \A j \in JobIds : job'[j].pc \in HasRows => job'[j].pc = job[j].pc
                             /\ job'[j].got = job[j].got /\ job'[j].left = job[j].left
  PROVE  LabelsInv'
<1>1. StoredIsOwn'
  <2> SUFFICES ASSUME NEW j \in JobIds, job'[j].pc \in HasRows
               PROVE  /\ job'[j].pc = "paste" => Rows(job'[j].got) \subseteq job'[j].left
                      /\ ~doubled' /\ ~overlooked' /\ job'[j].pc = "store" =>
                           \A p \in Rows(job'[j].got) \ job'[j].left :
                             files'[p] \in {NoPDF, job'[j].got}
                      /\ ~doubled' /\ ~overlooked' /\ job'[j].pc = "publish" =>
                           \A p \in Rows(job'[j].got) : files'[p] \in {NoPDF, job'[j].got}
    BY DEF StoredIsOwn, HasRows, Rows
  <2>1. job'[j].pc = job[j].pc /\ job'[j].got = job[j].got /\ job'[j].left = job[j].left
    OBVIOUS
  <2>2. \A p \in Rows(job[j].got) :
          files[p] \in {NoPDF, job[j].got} => files'[p] \in {NoPDF, job[j].got}
    BY FewerIsOwn
  <2> QED BY <2>1, <2>2 DEF LabelsInv, StoredIsOwn
<1>2. JobsHaveRows'
  BY DEF LabelsInv, JobsHaveRows, Rows
<1>3. FreshInv'
  BY FewerFits DEF LabelsInv, FreshInv
<1> QED BY <1>1, <1>2, <1>3 DEF LabelsInv

\* No request brings old labels under a ready partset.
LEMMA RequestKeepsLabels ==
  ASSUME TypeOK, LabelsInv, NEW r \in Requests,
         \/ BeginGenerate(r) \/ BeginRetry(r) \/ BeginEdit(r)
         \/ StartStep(r) \/ EditStep(r)
  PROVE  LabelsInv'
<1> USE DEF dbVars, histVars
<1>1. CASE EnqueueGenParts(r)
  <2>1. \A j \in JobIds : job'[j].pc = "queued" \/ job'[j] = job[j]
    BY <1>1 DEF EnqueueGenParts, TypeOK
  <2> QED BY <1>1, <2>1, LabelsFrame, WipedIsFewer DEF EnqueueGenParts, HasRows
<1>2. CASE InvalidateParts(r)
  BY <1>2, LabelsFrame, WipedIsFewer DEF InvalidateParts
<1>3. CASE CommitEdit(r)
  <2>1. UNCHANGED <<files, job, doubled>> /\ overlooked' = (overlooked \/ ready')
    BY <1>3 DEF CommitEdit
  <2>2. StoredIsOwn'
    BY <2>1 DEF LabelsInv, StoredIsOwn, TypeOK
  <2>3. JobsHaveRows' /\ FreshInv'
    BY <2>1 DEF JobsHaveRows, FreshInv, TypeOK
  <2> QED BY <2>2, <2>3 DEF LabelsInv
<1>4. CASE BeginGenerate(r) \/ BeginRetry(r) \/ BeginEdit(r)
  BY <1>4, LabelsFrame, WipedIsFewer DEF BeginGenerate, BeginRetry, BeginEdit
<1>5. CASE AcquireGenPartsLock(r) \/ RefuseUntagged(r) \/ CommitStart(r) \/ FlushEdit(r)
  BY <1>5, LabelsFrame, WipedIsFewer DEF AcquireGenPartsLock, RefuseUntagged, CommitStart, FlushEdit
<1> QED BY <1>1, <1>2, <1>3, <1>4, <1>5 DEF StartStep, EditStep

\* A job that has read the part rows has all of them before it.
LEMMA RowsAreLeft ==
  ASSUME TypeOK, NEW j \in JobIds, ReadPartRows(j)
  PROVE  /\ job'[j].pc = "paste" /\ Rows(job'[j].got) = Rows(content)
         /\ job'[j].left = Rows(content)
<1> DEFINE got == [job[j].got EXCEPT !.tags = content.tags, !.combined = content.combined]
           rows == Rows(content)
           torn == rows # {} /\ got # job[j].got
<1>1. got.tags = content.tags /\ got.combined = content.combined
  BY DEF TypeOK, Job, Content
<1>2. Rows(got) = rows
  BY <1>1 DEF Rows
<1>3. job' = [job EXCEPT ![j] =
                [job[j] EXCEPT !.pc = "paste", !.got = got, !.left = rows, !.torn = torn]]
  BY DEF ReadPartRows
<1> HIDE DEF got, rows, torn
<1>4. job[j] \in Job
  BY DEF TypeOK
<1>5. job'[j].pc = "paste" /\ job'[j].got = got /\ job'[j].left = rows
  BY <1>3, <1>4 DEF TypeOK, Job
<1> QED BY <1>2, <1>5 DEF rows

\* Nor does a job that reads: the rows it takes are those of the moment.
LEMMA ReadKeepsLabels ==
  ASSUME TypeOK, LabelsInv, NEW j \in JobIds, ReadStep(j)
  PROVE  LabelsInv'
<1> USE DEF dbVars, histVars
<1>1. \A i \in JobIds \ {j} : job'[i] = job[i]
  BY DEF ReadStep, StartJob, ReadSegments, CountParts, ReadCombined, ReadLayout, ReadPartRows,
         Read, Goto, TypeOK
<1>2. CASE ReadPartRows(j)
  <2>1. UNCHANGED <<content, ready, files, doubled, overlooked>>
    BY <1>2 DEF ReadPartRows
  <2>2. StoredIsOwn'
    BY <1>1, <1>2, <2>1, RowsAreLeft DEF LabelsInv, StoredIsOwn
  <2>3. JobsHaveRows'
    BY <1>1, <1>2, <2>1, RowsAreLeft DEF LabelsInv, JobsHaveRows
  <2>4. FreshInv'
    BY <2>1 DEF LabelsInv, FreshInv, LabelsFit
  <2> QED BY <2>2, <2>3, <2>4 DEF LabelsInv
<1>3. CASE ~ReadPartRows(j)
  <2>1. job'[j].pc \notin HasRows
    BY <1>3 DEF ReadStep, StartJob, ReadSegments, CountParts, ReadCombined, ReadLayout,
       Read, Goto, TypeOK, HasRows, Job
  <2>2. UNCHANGED <<content, ready, files, overlooked>>
    BY <1>3 DEF ReadStep, StartJob, ReadSegments, CountParts, ReadCombined, ReadLayout
  <2>4. doubled => doubled'
    BY <1>3 DEF ReadStep, StartJob, ReadSegments, CountParts, ReadCombined, ReadLayout
  <2>3. \A i \in JobIds : job'[i].pc \in HasRows => job'[i] = job[i]
    BY <1>1, <2>1
  <2> QED BY <2>2, <2>3, <2>4, LabelsFrame, WipedIsFewer
<1> QED BY <1>2, <1>3

\* What a storing step does: a PDF of the job's own is put over whatever was there, or
\* an older one stays and the failure is overlooked.
Stores(j, p) ==
  /\ p \in job[j].left
  /\ job' = [job EXCEPT ![j].left = @ \ {p}]
  /\ \/ files' = [files EXCEPT ![p] = job[j].got] /\ UNCHANGED <<faults, overlooked>>
     \/ files[p] # NoPDF /\ Fault /\ overlooked' = TRUE /\ UNCHANGED files

LEMMA StoreKeepsLabels ==
  ASSUME TypeOK, AtMostOneJob, LabelsInv, NEW j \in JobIds, StorePart(j)
  PROVE  LabelsInv'
<1>1. PICK p : Stores(j, p)
  BY DEF StorePart, Stores
<1>2. /\ At(j, "store") /\ UNCHANGED <<content, ready, doubled>> /\ (overlooked => overlooked')
  BY <1>1 DEF StorePart, Stores, dbVars
<1>3. /\ job'[j].pc = "store" /\ job'[j].got = job[j].got /\ job'[j].left = job[j].left \ {p}
      /\ \A i \in JobIds \ {j} : job'[i] = job[i]
  BY <1>1, <1>2 DEF Stores, At, TypeOK, Job
<1>4. p \in Parts /\ job[j].got \in Content
  BY <1>1 DEF Stores, TypeOK, Job
<1>5. ~overlooked' => files'[p] = job[j].got /\ \A q \in Parts \ {p} : files'[q] = files[q]
  BY <1>1, <1>4 DEF Stores, TypeOK
<1>6. Rows(job[j].got) \subseteq Parts /\ Rows(content) \subseteq Parts
  BY <1>4, RowsAreParts DEF TypeOK
<1>7. ~doubled => \A i \in JobIds \ {j} : ~InWork(i)
  BY <1>2 DEF AtMostOneJob, InWork, Working, At
<1>8. StoredIsOwn'
  <2> SUFFICES ASSUME NEW i \in JobIds
               PROVE  /\ job'[i].pc = "paste" => Rows(job'[i].got) \subseteq job'[i].left
                      /\ ~doubled' /\ ~overlooked' /\ job'[i].pc = "store" =>
                           \A q \in Rows(job'[i].got) \ job'[i].left :
                             files'[q] \in {NoPDF, job'[i].got}
                      /\ ~doubled' /\ ~overlooked' /\ job'[i].pc = "publish" =>
                           \A q \in Rows(job'[i].got) : files'[q] \in {NoPDF, job'[i].got}
    BY DEF StoredIsOwn
  <2>1. CASE i = j
    <3>1. ~doubled /\ ~overlooked =>
            \A q \in Rows(job[j].got) \ job[j].left : files[q] \in {NoPDF, job[j].got}
      BY <1>2 DEF LabelsInv, StoredIsOwn, At
    <3>2. ~doubled /\ ~overlooked' =>
            \A q \in Rows(job[j].got) \ (job[j].left \ {p}) : files'[q] \in {NoPDF, job[j].got}
      BY <1>2, <1>5, <1>6, <3>1
    <3> QED BY <1>2, <1>3, <2>1, <3>2
  <2>2. CASE i # j
    <3>1. job'[i] = job[i]
      BY <1>3, <2>2
    <3>2. ~doubled => job[i].pc \notin {"store", "publish"}
      BY <1>7, <2>2 DEF InWork, Working
    <3>3. job[i].pc = "paste" => Rows(job[i].got) \subseteq job[i].left
      BY DEF LabelsInv, StoredIsOwn
    <3> QED BY <1>2, <3>1, <3>2, <3>3
  <2> QED BY <2>1, <2>2
<1>9. JobsHaveRows'
  BY <1>2, <1>3 DEF LabelsInv, JobsHaveRows, HasRows, At
<1>10. FreshInv'
  <2> SUFFICES ASSUME ready', ~doubled', ~overlooked' PROVE LabelsFit'
    BY DEF FreshInv
  <2>1. LabelsFit /\ Rows(job[j].got) = Rows(content)
    BY <1>2 DEF LabelsInv, FreshInv, JobsHaveRows, HasRows, At
  <2> QED BY <1>2, <1>5, <1>6, <2>1 DEF LabelsFit
<1> QED BY <1>8, <1>9, <1>10 DEF LabelsInv

\* Nor does one that writes: what it stores has the rows it has read, and finalize
\* compares them with those of the database before it publishes.
LEMMA WriteKeepsLabels ==
  ASSUME TypeOK, AtMostOneJob, LabelsInv, NEW j \in JobIds, WriteStep(j)
  PROVE  LabelsInv'
<1> USE DEF dbVars, histVars
<1>0. SUFFICES ASSUME ~StorePart(j) PROVE LabelsInv'
  BY StoreKeepsLabels
<1>1. \A i \in JobIds \ {j} : job'[i] = job[i]
  BY <1>0 DEF WriteStep, PublishEmpty, StartCut, CompleteCut, StartPaste, CheckParts,
         Finalize, DiscardParts, Goto, TypeOK
<1>2. job'[j].got = job[j].got /\ job'[j].left = job[j].left
  BY <1>0 DEF WriteStep, PublishEmpty, StartCut, CompleteCut, StartPaste, CheckParts,
         Finalize, DiscardParts, Goto, TypeOK, Job
<1>3. ~doubled => \A i \in JobIds \ {j} : ~InWork(i)
  BY <1>0 DEF AtMostOneJob, InWork, Working, WriteStep, PublishEmpty, StartCut, CompleteCut,
         StartPaste, CheckParts, Finalize, DiscardParts, At
<1>4. CASE PublishEmpty(j)
  <2>1. job'[j].pc \notin HasRows
    BY <1>4 DEF PublishEmpty, Goto, TypeOK, HasRows, Job
  <2>2. UNCHANGED <<content, files, doubled>> /\ overlooked' = (overlooked \/ Rows(content) # {})
    BY <1>4 DEF PublishEmpty
  <2>3. StoredIsOwn'
    BY <1>1, <2>1, <2>2 DEF LabelsInv, StoredIsOwn, HasRows
  <2>4. JobsHaveRows'
    BY <1>1, <1>3, <2>1, <2>2 DEF JobsHaveRows, HasRows, InWork, Working
  <2>5. FreshInv'
    BY <2>2 DEF FreshInv, LabelsFit
  <2> QED BY <2>3, <2>4, <2>5 DEF LabelsInv
<1>5. CASE StartPaste(j)
  <2>1. At(j, "paste") /\ (job'[j].pc \in {"store", "fail"})
    BY <1>5 DEF StartPaste, Goto, TypeOK, Job
  <2>2. UNCHANGED <<content, ready, files, doubled, overlooked>>
    BY <1>5 DEF StartPaste
  <2>3. StoredIsOwn'
    BY <1>1, <1>2, <2>1, <2>2 DEF LabelsInv, StoredIsOwn, At
  <2>4. JobsHaveRows'
    BY <1>1, <1>2, <2>1, <2>2 DEF LabelsInv, JobsHaveRows, HasRows, At
  <2>5. FreshInv'
    BY <2>2 DEF LabelsInv, FreshInv, LabelsFit
  <2> QED BY <2>3, <2>4, <2>5 DEF LabelsInv
<1>8. CASE CheckParts(j)
  <2>1. At(j, "store") /\ job[j].left = {} /\ (job'[j].pc \in {"publish", "fail"})
    BY <1>8 DEF CheckParts, Goto, TypeOK, Job
  <2>2. UNCHANGED <<content, ready, files, doubled, overlooked>>
    BY <1>8 DEF CheckParts
  <2>3. StoredIsOwn'
    BY <1>1, <1>2, <2>1, <2>2 DEF LabelsInv, StoredIsOwn, At
  <2>4. JobsHaveRows'
    BY <1>1, <1>2, <2>1, <2>2 DEF LabelsInv, JobsHaveRows, HasRows, At
  <2>5. FreshInv'
    BY <2>2 DEF LabelsInv, FreshInv, LabelsFit
  <2> QED BY <2>3, <2>4, <2>5 DEF LabelsInv
<1>6. CASE Finalize(j)
  <2>1. At(j, "publish") /\ job'[j].pc \notin HasRows
    BY <1>6 DEF Finalize, Goto, TypeOK, HasRows, Job
  <2>2. UNCHANGED <<content, files, doubled, overlooked>>
    BY <1>6 DEF Finalize
  <2>3. StoredIsOwn'
    BY <1>1, <2>1, <2>2 DEF LabelsInv, StoredIsOwn, HasRows
  <2>4. ready' => Rows(job[j].got) = Rows(content)
    BY <1>6 DEF Finalize
  <2>5. JobsHaveRows'
    BY <1>1, <1>3, <2>1, <2>2 DEF JobsHaveRows, HasRows, InWork, Working
  <2>6. FreshInv'
    <3> SUFFICES ASSUME ready', ~doubled, ~overlooked
                 PROVE  LabelsFit'
      BY <2>2 DEF FreshInv
    <3>1. \A p \in Rows(job[j].got) : files[p] \in {NoPDF, job[j].got}
      BY <2>1 DEF LabelsInv, StoredIsOwn, At
    <3>2. \A p \in Rows(content) : files[p] # NoPDF => Rows(files[p]) = Rows(content)
      BY <2>4, <3>1
    <3> QED BY <2>2, <3>2 DEF LabelsFit
  <2> QED BY <2>3, <2>5, <2>6 DEF LabelsInv
<1>7. CASE StartCut(j) \/ CompleteCut(j) \/ DiscardParts(j)
  <2>1. job'[j].pc \notin HasRows
    BY <1>7 DEF StartCut, CompleteCut, DiscardParts, Goto, TypeOK, HasRows, Job
  <2>2. UNCHANGED <<content, ready, histVars>> /\ (files' = files \/ files' = NoFiles)
    BY <1>7 DEF StartCut, CompleteCut, DiscardParts
  <2>3. \A i \in JobIds : job'[i].pc \in HasRows => job'[i] = job[i]
    BY <1>1, <2>1
  <2> QED BY <2>2, <2>3, LabelsFrame, WipedIsFewer
<1> QED BY <1>0, <1>4, <1>5, <1>6, <1>7, <1>8 DEF WriteStep

\* A job that ends, however it does, stores nothing and publishes nothing.
LEMMA EndMoves ==
  ASSUME TypeOK, NEW j \in JobIds,
         EndStep(j) \/ RaiseInJob(j) \/ KillJob(j) \/ LoseWorker(j)
  PROVE  /\ UNCHANGED <<content, ready, files, sweep, req, histVars>>
         /\ \A i \in JobIds \ {j} : job'[i] = job[i]
         /\ ~InWork(j)'
<1> USE DEF dbVars, histVars
<1>1. UNCHANGED <<content, ready, files, sweep, req, histVars>>
  BY DEF EndStep, FailGeneration, UnlockInJob, SeeExit, RecordFailure, ReleaseJobLocks, ReapJob,
         RaiseInJob, KillJob, LoseWorker
<1>2. \A pc \in JobPC \ Working :
        Goto(j, pc) => (\A i \in JobIds \ {j} : job'[i] = job[i]) /\ ~InWork(j)'
  BY DEF Goto, InWork, TypeOK, Job
<1>3. \A pc \in JobPC \ Working, again \in BOOLEAN :
        Leave(j, pc, again) => (\A i \in JobIds \ {j} : job'[i] = job[i]) /\ ~InWork(j)'
  BY DEF Leave, NoJob, InWork, TypeOK
<1>4. job[j].again \in BOOLEAN
  BY DEF TypeOK, Job
<1>5. CASE EndStep(j)
  BY <1>2, <1>3, <1>4, <1>1, <1>5 DEF EndStep, FailGeneration, UnlockInJob, SeeExit,
     RecordFailure, ReleaseJobLocks, ReapJob, JobPC, Working
<1>6. CASE RaiseInJob(j) \/ LoseWorker(j)
  BY <1>3, <1>1, <1>6 DEF RaiseInJob, LoseWorker, JobPC, Working
<1>7. CASE KillJob(j)
  BY <1>3, <1>1, <1>7 DEF KillJob, JobPC, Working
<1> QED BY <1>5, <1>6, <1>7

LEMMA NextKeepsLabels ==
  ASSUME TypeOK, AtMostOneJob, LabelsInv, Next
  PROVE  LabelsInv'
<1>1. ASSUME NEW j \in JobIds, EndStep(j) \/ RaiseInJob(j) \/ KillJob(j) \/ LoseWorker(j)
      PROVE  LabelsInv'
  BY <1>1, EndMoves, LabelsFrame, WipedIsFewer DEF InWork, Working, HasRows, histVars
<1>2. CASE ExpireLock \/ EvictParts \/ RemoveParts
  <2>1. UNCHANGED <<content, job, histVars>> /\ (ready' => ready)
        /\ (files' = files \/ files' = NoFiles)
    BY <1>2 DEF ExpireLock, EvictParts, RemoveParts, dbVars, histVars
  <2> QED BY <2>1, LabelsFrame, WipedIsFewer DEF histVars
<1> QED BY <1>1, <1>2, RequestKeepsLabels, ReadKeepsLabels, WriteKeepsLabels DEF Next, JobStep

\* Whatever edits of labels, kills, crashes, expiries and evictions do to each other,
\* a ready partset shows no PDFs made for other labels than the database's, also where
\* a job that was cut off has left some in its directory, unless two jobs ran at once,
\* a save and a publication overlooked one another or a failed copy was passed over.
THEOREM ReadyHasItsLabels == Spec => []LabelsFresh
<1>1. Init => AtMostOneJob /\ LabelsInv
  BY EmptyTypes DEF Init, AtMostOneJob, InWork, Working, LabelsInv, StoredIsOwn, JobsHaveRows,
     FreshInv, NoJob
<1>2. TypeOK /\ (AtMostOneJob /\ LabelsInv) /\ [Next]_vars => (AtMostOneJob /\ LabelsInv)'
  <2>1. CASE UNCHANGED vars
    BY <2>1 DEF vars, dbVars, histVars, AtMostOneJob, InWork, LabelsInv, StoredIsOwn, JobsHaveRows,
       FreshInv, LabelsFit, Rows
  <2> QED BY <2>1, NextKeepsOneJob, NextKeepsLabels
<1>3. LabelsInv => LabelsFresh
  BY FreshFits DEF LabelsInv
<1> QED BY <1>1, <1>2, <1>3, PartGenTypes, PTL DEF Spec
-----------------------------------------------------------------------------
(* Exactness: what was published with nobody in the way.                    *)

\* What a job has read so far is still what the database says.
HasLayout   == HasRows \union {"rows"}
HasCombined == HasLayout \union {"layout"}
HasSegments == Working \ {"segments"}
UpToDate(j) ==
  /\ InWork(j) => job[j].got.title = content.title
  /\ job[j].pc \in HasSegments => job[j].got.crop = content.crop /\ job[j].got.tags = content.tags
  /\ job[j].pc \in HasCombined => job[j].got.combined = content.combined
  /\ job[j].pc \in HasLayout => job[j].got.layout = content.layout
  /\ job[j].pc # "discard"

\* No save is under way whose session had not seen the publication, so that the next
\* commit takes ready down; jobs at work have read what was published; and only such a
\* save, about to commit, has removed the PDFs.
IntactInv ==
  ready /\ intact /\ ~doubled =>
    /\ ~sweep
    /\ \A r \in Requests : Editing(r) => req[r].ready
    /\ \A j \in JobIds : UpToDate(j)
    /\ Exact \/ \E r \in Requests : Editing(r) /\ req[r].pc = "invalid"

\* Exactness is about the PDFs and the content only.
LEMMA ExactFrame ==
  ASSUME UNCHANGED <<content, files>>
  PROVE  Exact' <=> Exact
BY DEF Exact

\* A job that is not at work has nothing that could be outdated.
LEMMA IdleUpToDate ==
  ASSUME NEW j \in JobIds, ~InWork(j)
  PROVE  UpToDate(j)
BY DEF UpToDate, InWork, HasSegments, HasCombined, HasLayout, HasRows, Working

\* Contents that agree in every field are equal.
LEMMA SameContent ==
  ASSUME NEW c \in Content, NEW d \in Content, c.title = d.title, c.crop = d.crop,
         c.layout = d.layout, c.tags = d.tags, c.combined = d.combined
  PROVE  c = d
BY DEF Content

\* What a new session is for, and what it has seen of parts_ready.
LEMMA NewSession ==
  ASSUME NEW k
  PROVE  /\ Starting(k).pc = "begun" /\ Starting(k).kind = k
         /\ Saving(k).pc = "begun" /\ Saving(k).kind = k /\ Saving(k).ready = ready
<1>1. Starting(k).pc = "begun" /\ Starting(k).kind = k
  BY DEF Starting, NoRequest
<1>2. Saving(k).pc = "begun" /\ Saving(k).kind = k /\ Saving(k).ready = ready
  BY DEF Saving, NoRequest
<1> QED BY <1>1, <1>2

\* A save that removes the PDFs goes on with the session it had.
LEMMA InvalidateMoves ==
  ASSUME TypeOK, NEW r \in Requests, InvalidateParts(r)
  PROVE  /\ req'[r].pc = "invalid" /\ req'[r].kind = req[r].kind /\ req'[r].ready = req[r].ready
         /\ \A q \in Requests \ {r} : req'[q] = req[q]
<1> DEFINE keep == req[r].kind = "title" /\ PartgenInProgress(req[r])
<1>1. req' = [req EXCEPT ![r] = [req[r] EXCEPT !.pc = "invalid", !.keep = keep]]
  BY DEF InvalidateParts
<1> HIDE DEF keep
<1> QED BY <1>1 DEF TypeOK, Request

\* A request that starts a generation is no save.
Starters == \A r \in Requests : req[r].pc \in {"locked", "commit"} => ~Editing(r)

LEMMA NextKeepsStarters ==
  ASSUME TypeOK, Starters, Next
  PROVE  Starters'
<1>1. ASSUME NEW r \in Requests,
             BeginGenerate(r) \/ BeginRetry(r) \/ BeginEdit(r) \/ StartStep(r) \/ EditStep(r)
      PROVE  Starters'
  <2>1. \A q \in Requests \ {r} : req'[q] = req[q]
    BY <1>1 DEF BeginGenerate, BeginRetry, BeginEdit, StartStep, EditStep, AcquireGenPartsLock,
       RefuseUntagged, EnqueueGenParts, CommitStart, FlushEdit, InvalidateParts, CommitEdit,
       Step, End, TypeOK
  <2>2. End(r) => req'[r].pc = "none"
    BY DEF End, NoRequest, TypeOK
  <2>3. \A pc : Step(r, pc) => req'[r].pc = pc /\ req'[r].kind = req[r].kind
    BY DEF Step, TypeOK, Request
  <2>4. CASE BeginGenerate(r) \/ BeginRetry(r) \/ BeginEdit(r)
    <3>1. req'[r].pc = "begun"
      BY <2>4, NewSession DEF BeginGenerate, BeginRetry, BeginEdit, TypeOK
    <3> QED BY <2>1, <3>1 DEF Starters, Editing
  <2>5. CASE StartStep(r)
    <3>1. req[r].kind \notin EditKind
      BY <2>5 DEF StartStep, AcquireGenPartsLock, RefuseUntagged, EnqueueGenParts, CommitStart,
         Starters, Editing, EditKind
    <3>2. End(r) \/ \E pc : Step(r, pc)
      BY <2>5 DEF StartStep, AcquireGenPartsLock, RefuseUntagged, EnqueueGenParts, CommitStart
    <3> QED BY <2>1, <2>2, <2>3, <3>1, <3>2 DEF Starters, Editing
  <2>6. CASE EditStep(r)
    <3>1. req'[r].pc \notin {"locked", "commit"}
      BY <2>6, <2>2, <2>3, InvalidateMoves DEF EditStep, FlushEdit, CommitEdit
    <3> QED BY <2>1, <3>1 DEF Starters, Editing
  <2> QED BY <1>1, <2>4, <2>5, <2>6
<1>2. ASSUME NEW j \in JobIds, JobStep(j) \/ RaiseInJob(j) \/ KillJob(j) \/ LoseWorker(j)
      PROVE  req' = req
  BY <1>2 DEF JobStep, ReadStep, StartJob, ReadSegments, CountParts, ReadCombined, ReadLayout,
     ReadPartRows, WriteStep, PublishEmpty, StartCut, CompleteCut, StartPaste, StorePart,
     CheckParts, Finalize, DiscardParts, EndStep, FailGeneration, UnlockInJob, SeeExit,
     RecordFailure, ReleaseJobLocks, ReapJob, RaiseInJob, KillJob, LoseWorker
<1>3. ExpireLock \/ EvictParts \/ RemoveParts => req' = req
  BY DEF ExpireLock, EvictParts, RemoveParts
<1> QED BY <1>1, <1>2, <1>3 DEF Next, Starters, Editing

\* A request that is no save leaves the exactness alone.
LEMMA StartKeepsIntact ==
  ASSUME TypeOK, Starters, IntactInv, NEW r \in Requests,
         BeginGenerate(r) \/ BeginRetry(r) \/ StartStep(r)
  PROVE  IntactInv'
<1>1. UNCHANGED <<content, ready, files, sweep, histVars>>
  BY DEF BeginGenerate, BeginRetry, StartStep, AcquireGenPartsLock, RefuseUntagged,
         EnqueueGenParts, CommitStart, dbVars, histVars
<1>2. \A q \in Requests \ {r} : req'[q] = req[q]
  BY DEF BeginGenerate, BeginRetry, StartStep, AcquireGenPartsLock, RefuseUntagged,
         EnqueueGenParts, CommitStart, Step, End, TypeOK
<1>3. ~Editing(r) /\ ~Editing(r)'
  <2>1. CASE BeginGenerate(r) \/ BeginRetry(r)
    BY <2>1, NewSession DEF BeginGenerate, BeginRetry, Editing, EditKind, TypeOK
  <2>2. CASE StartStep(r)
    <3>1. End(r) => ~Editing(r)'
      BY DEF End, NoRequest, Editing, TypeOK
    <3>2. \A pc : ~Editing(r) /\ req[r].pc # "none" /\ Step(r, pc) => ~Editing(r)'
      BY DEF Step, Editing, TypeOK, Request
    <3>3. ~Editing(r) /\ req[r].pc # "none"
      BY <2>2 DEF StartStep, AcquireGenPartsLock, RefuseUntagged, EnqueueGenParts, CommitStart,
         Starters, Editing, EditKind
    <3> QED BY <2>2, <3>1, <3>2, <3>3 DEF StartStep, AcquireGenPartsLock, RefuseUntagged,
          EnqueueGenParts, CommitStart
  <2> QED BY <2>1, <2>2
<1>4. \A j \in JobIds : job'[j] = job[j] \/ job'[j].pc = "queued"
  <2>1. CASE EnqueueGenParts(r)
    BY <2>1 DEF EnqueueGenParts, TypeOK, Job
  <2> QED BY <2>1 DEF BeginGenerate, BeginRetry, StartStep, AcquireGenPartsLock, RefuseUntagged,
        CommitStart
<1>5. \A j \in JobIds : UpToDate(j) => UpToDate(j)'
  BY <1>1, <1>4 DEF UpToDate, InWork, HasSegments, HasCombined, HasLayout, HasRows, Working
<1> QED BY <1>1, <1>2, <1>3, <1>5, ExactFrame DEF IntactInv, Editing, histVars

\* A save that begins has seen the publication; one that commits takes ready down.
LEMMA EditKeepsIntact ==
  ASSUME TypeOK, IntactInv, NEW r \in Requests, BeginEdit(r) \/ EditStep(r)
  PROVE  IntactInv'
<1> SUFFICES ASSUME ready', intact', ~doubled'
             PROVE  /\ ~sweep'
                    /\ \A q \in Requests : Editing(q)' => req'[q].ready
                    /\ \A j \in JobIds : UpToDate(j)'
                    /\ Exact'
                       \/ \E q \in Requests : Editing(q)' /\ req'[q].pc = "invalid"
  BY DEF IntactInv
<1>1. UNCHANGED <<job, sweep, doubled, intact>> /\ (ready' => ready)
  BY DEF BeginEdit, EditStep, FlushEdit, InvalidateParts, CommitEdit, dbVars, histVars, TypeOK
<1>2. /\ ~sweep /\ \A q \in Requests : Editing(q) => req[q].ready
      /\ \A j \in JobIds : UpToDate(j)
      /\ Exact \/ \E q \in Requests : Editing(q) /\ req[q].pc = "invalid"
  BY <1>1 DEF IntactInv
<1>3. ~CommitEdit(r)
  BY <1>2, <1>1 DEF CommitEdit, TypeOK
<1>4. UNCHANGED content
  BY <1>3 DEF BeginEdit, EditStep, FlushEdit, InvalidateParts, dbVars
<1>5. CASE BeginEdit(r)
  <2>1. req[r].pc = "none" /\ req'[r].ready
    <3>1. PICK k \in EditKind : req' = [req EXCEPT ![r] = Saving(k)]
      BY <1>5 DEF BeginEdit
    <3>2. req'[r].ready = ready
      BY <3>1, NewSession DEF TypeOK
    <3> QED BY <1>1, <1>5, <3>2 DEF BeginEdit
  <2>2. files' = files /\ \A q \in Requests \ {r} : req'[q] = req[q]
    BY <1>5 DEF BeginEdit, TypeOK
  <2> QED BY <1>1, <1>2, <1>4, <2>1, <2>2, ExactFrame DEF Editing, UpToDate, InWork
<1>6. CASE FlushEdit(r)
  <2>1. Editing(r) /\ req[r].pc # "invalid" /\ req'[r].ready = req[r].ready
    BY <1>6 DEF FlushEdit, Step, TypeOK, Request
  <2>2. files' = files /\ \A q \in Requests \ {r} : req'[q] = req[q]
    BY <1>6 DEF FlushEdit, Step, TypeOK
  <2> QED BY <1>1, <1>2, <1>4, <2>1, <2>2, ExactFrame DEF Editing, UpToDate, InWork
<1>7. CASE InvalidateParts(r)
  <2>1. Editing(r)
    BY <1>7 DEF InvalidateParts
  <2> QED BY <1>1, <1>2, <1>4, <1>7, <2>1, InvalidateMoves DEF Editing, UpToDate, InWork
<1> QED BY <1>3, <1>5, <1>6, <1>7 DEF EditStep

\* A job that reads stays up to date.
LEMMA ReadKeepsIntact ==
  ASSUME TypeOK, IntactInv, NEW j \in JobIds, ReadStep(j)
  PROVE  IntactInv'
<1>1. /\ UNCHANGED <<content, ready, files, req, sweep, intact>>
      /\ \A i \in JobIds \ {j} : job'[i] = job[i]
  BY DEF ReadStep, StartJob, ReadSegments, CountParts, ReadCombined, ReadLayout, ReadPartRows,
         Read, Goto, TypeOK, dbVars, histVars
<1>2. doubled => doubled'
  BY DEF ReadStep, StartJob, ReadSegments, CountParts, ReadCombined, ReadLayout, ReadPartRows,
         histVars
<1>3. ASSUME UpToDate(j) PROVE UpToDate(j)'
  <2> USE DEF UpToDate, InWork, HasSegments, HasCombined, HasLayout, HasRows, Working, At, Read,
              Goto, TypeOK, Job, Content
  <2>1. CASE StartJob(j)
    BY <1>1, <1>3, <2>1 DEF StartJob
  <2>2. CASE ReadSegments(j)
    BY <1>1, <1>3, <2>2 DEF ReadSegments
  <2>3. CASE CountParts(j)
    BY <1>1, <1>3, <2>3 DEF CountParts
  <2>4. CASE ReadCombined(j)
    BY <1>1, <1>3, <2>4 DEF ReadCombined
  <2>5. CASE ReadLayout(j)
    BY <1>1, <1>3, <2>5 DEF ReadLayout
  <2>6. CASE ReadPartRows(j)
    <3> DEFINE got == [job[j].got EXCEPT !.tags = content.tags, !.combined = content.combined]
    <3>1. got.title = job[j].got.title /\ got.crop = job[j].got.crop /\ got.tags = content.tags
          /\ got.combined = content.combined /\ got.layout = job[j].got.layout
      OBVIOUS
    <3> HIDE DEF got
    <3> DEFINE rows == Rows(content)
               torn == rows # {} /\ got # job[j].got
    <3>2. job' = [job EXCEPT ![j] =
                    [job[j] EXCEPT !.pc = "paste", !.got = got, !.left = rows, !.torn = torn]]
      BY <2>6 DEF ReadPartRows, got
    <3> HIDE DEF rows, torn
    <3>3. job'[j].pc = "paste" /\ job'[j].got = got
      BY <3>2
    <3> QED BY <1>1, <1>3, <2>6, <3>1, <3>3 DEF ReadPartRows
  <2> QED BY <2>1, <2>2, <2>3, <2>4, <2>5, <2>6 DEF ReadStep
<1> QED BY <1>1, <1>2, <1>3, ExactFrame DEF IntactInv, Editing, UpToDate, InWork

\* A job that stores over an exact publication stores what is there.
LEMMA StoreKeepsIntact ==
  ASSUME TypeOK, IntactInv, NEW j \in JobIds, StorePart(j)
  PROVE  /\ IntactInv'
         /\ UNCHANGED <<content, ready, intact, doubled>>
         /\ UpToDate(j) => \A q \in Parts : files'[q] \in {files[q], content}
<1>1. PICK p : Stores(j, p)
  BY DEF StorePart, Stores
<1>2. At(j, "store") /\ UNCHANGED <<content, ready, intact, doubled, req, sweep>>
  BY DEF StorePart, dbVars
<1>3. /\ job'[j].pc = "store" /\ job'[j].got = job[j].got
      /\ \A i \in JobIds \ {j} : job'[i] = job[i]
  BY <1>1, <1>2 DEF Stores, At, TypeOK, Job
<1>4. p \in Parts /\ job[j].got \in Content /\ content \in Content
  BY <1>1 DEF Stores, TypeOK, Job
<1>5. \A q \in Parts : files'[q] \in {files[q], job[j].got}
  BY <1>1, <1>4 DEF Stores, TypeOK
<1>6. UpToDate(j) => job[j].got = content
  BY <1>2, <1>4, SameContent DEF UpToDate, InWork, HasSegments, HasCombined, HasLayout, HasRows,
     Working, At
<1>7. \A i \in JobIds : UpToDate(i) => UpToDate(i)'
  BY <1>2, <1>3 DEF UpToDate, InWork, HasSegments, HasCombined, HasLayout, HasRows, Working, At
<1>8. UpToDate(j) /\ Exact => Exact'
  <2>1. Rows(content) \subseteq Parts
    BY <1>4, RowsAreParts
  <2> QED BY <1>2, <1>5, <1>6, <2>1 DEF Exact
<1>9. IntactInv'
  BY <1>2, <1>7, <1>8 DEF IntactInv, Editing
<1> QED BY <1>2, <1>5, <1>6, <1>9

\* A job that writes stores what was published, finds the rows it has, and publishes
\* with everybody else out of the way.
LEMMA WriteKeepsIntact ==
  ASSUME TypeOK, AtMostOneJob, IntactInv, NEW j \in JobIds, WriteStep(j)
  PROVE  IntactInv'
<1>0. SUFFICES ASSUME ~StorePart(j) PROVE IntactInv'
  BY StoreKeepsIntact
<1>1. /\ UNCHANGED <<content, req, sweep, doubled>>
      /\ \A i \in JobIds \ {j} : job'[i] = job[i]
  BY <1>0 DEF WriteStep, PublishEmpty, StartCut, CompleteCut, StartPaste, CheckParts,
         Finalize, DiscardParts, Goto, TypeOK, dbVars, histVars
<1>2. job'[j].got = job[j].got
  BY <1>0 DEF WriteStep, PublishEmpty, StartCut, CompleteCut, StartPaste, CheckParts,
         Finalize, DiscardParts, Goto, TypeOK, Job
<1>3. CASE PublishEmpty(j)
  BY <1>3 DEF PublishEmpty, IntactInv
<1>4. CASE StartCut(j) \/ CompleteCut(j) \/ StartPaste(j) \/ CheckParts(j)
  <2>1. UNCHANGED <<ready, files, intact>>
    BY <1>4 DEF StartCut, CompleteCut, StartPaste, CheckParts, dbVars, histVars
  <2>2. UpToDate(j) => UpToDate(j)'
    BY <1>1, <1>2, <1>4 DEF StartCut, CompleteCut, StartPaste, CheckParts, UpToDate, InWork,
       HasSegments, HasCombined, HasLayout, HasRows, Working, At, Goto, TypeOK, Job
  <2> QED BY <1>1, <2>1, <2>2, ExactFrame DEF IntactInv, Editing, UpToDate, InWork
<1>6. CASE Finalize(j)
  <2>1. CASE ready'
    <3>1. intact' = Undisturbed(j) /\ files' = files /\ ~InWork(j)'
      BY <1>6, <2>1 DEF Finalize, Goto, InWork, Working, TypeOK, Job
    <3>2. ~doubled => \A i \in JobIds : ~InWork(i)'
      BY <1>1, <1>6, <3>1 DEF AtMostOneJob, Finalize, InWork, Working, At
    <3>3. ~doubled' => \A i \in JobIds : UpToDate(i)'
      BY <1>1, <3>2, IdleUpToDate DEF UpToDate, InWork, HasSegments, HasCombined, HasLayout,
         HasRows, Working
    <3> QED BY <1>1, <3>1, <3>3, ExactFrame DEF IntactInv, Undisturbed, Editing
  <2> QED BY <2>1 DEF IntactInv
<1>7. CASE DiscardParts(j)
  <2>1. UNCHANGED <<ready, intact>> /\ ~UpToDate(j)
    BY <1>7 DEF DiscardParts, dbVars, histVars, UpToDate, At
  <2> QED BY <1>1, <2>1 DEF IntactInv
<1> QED BY <1>0, <1>3, <1>4, <1>6, <1>7 DEF WriteStep

LEMMA NextKeepsIntact ==
  ASSUME TypeOK, AtMostOneJob, Starters, IntactInv, Next
  PROVE  IntactInv'
<1>1. ASSUME NEW j \in JobIds, EndStep(j) \/ RaiseInJob(j) \/ KillJob(j) \/ LoseWorker(j)
      PROVE  IntactInv'
  <2>1. \A i \in JobIds : UpToDate(i) => UpToDate(i)'
    BY <1>1, EndMoves DEF UpToDate, InWork, HasSegments, HasCombined, HasLayout, HasRows, Working
  <2>2. UNCHANGED <<content, ready, files, sweep, req, histVars>>
    BY <1>1, EndMoves
  <2> QED BY <2>1, <2>2, ExactFrame DEF IntactInv, Editing, histVars
<1>2. CASE ExpireLock
  BY <1>2, ExactFrame DEF ExpireLock, IntactInv, Editing, UpToDate, InWork, dbVars, histVars
<1>3. CASE EvictParts
  BY <1>3 DEF EvictParts, IntactInv
<1>4. CASE RemoveParts
  <2>1. sweep /\ UNCHANGED <<ready, intact, doubled>>
    BY <1>4 DEF RemoveParts, dbVars, histVars
  <2> QED BY <2>1 DEF IntactInv
<1> QED BY <1>1, <1>2, <1>3, <1>4, StartKeepsIntact, EditKeepsIntact, ReadKeepsIntact,
      WriteKeepsIntact DEF Next, JobStep

\* PDFs published with nobody in the way stay exactly those the database asks for as
\* long as parts_ready is set: whatever saves, evictions and other runs follow.
THEOREM PublishedStaysExact == Spec => []IntactStaysExact
<1>1. Init => AtMostOneJob /\ Starters /\ IntactInv
  BY EmptyTypes DEF Init, AtMostOneJob, Starters, InWork, Working, IntactInv, NoJob, NoRequest
<1>2. TypeOK /\ (AtMostOneJob /\ Starters /\ IntactInv) /\ [Next]_vars
        => (AtMostOneJob /\ Starters /\ IntactInv)'
  <2>1. CASE UNCHANGED vars
    BY <2>1, ExactFrame DEF vars, dbVars, histVars, AtMostOneJob, InWork, Starters, IntactInv,
       Editing, UpToDate
  <2> QED BY <2>1, NextKeepsOneJob, NextKeepsStarters, NextKeepsIntact
<1>3. IntactInv => IntactStaysExact
  BY DEF IntactInv, IntactStaysExact, Quiet
<1> QED BY <1>1, <1>2, <1>3, PartGenTypes, PTL DEF Spec

-----------------------------------------------------------------------------
(* The promise of a cache: PartGen implements ReadThroughCache twice.       *)

\* What is shown was made from the source.
ShownFits(shown, source) == shown \subseteq {source}

\* A save that commits is the only step that changes the content.
LEMMA OnlyCommitsChange ==
  ASSUME Next, content' # content
  PROVE  \E r \in Requests : CommitEdit(r)
BY DEF Next, BeginGenerate, BeginRetry, BeginEdit, StartStep, EditStep, AcquireGenPartsLock,
   RefuseUntagged, EnqueueGenParts, CommitStart, FlushEdit, InvalidateParts,
   JobStep, ReadStep, StartJob, ReadSegments, CountParts, ReadCombined, ReadLayout,
   ReadPartRows, WriteStep, PublishEmpty, StartCut, CompleteCut, StartPaste, StorePart,
   CheckParts, Finalize, DiscardParts, EndStep, FailGeneration, UnlockInJob, SeeExit,
   RecordFailure, ReleaseJobLocks, ReapJob, RaiseInJob, KillJob, LoseWorker,
   ExpireLock, EvictParts, RemoveParts, dbVars

\* PDFs that may be shown as published intact are those of the content.
ExactInv == ready /\ intact /\ ~doubled => ShownFits(Shown, content)

\* When PDFs go, or are replaced by the content's own, what is shown still fits.
LEMMA ShownFrame ==
  ASSUME TypeOK, content' = content, ShownFits(Shown, content),
         \A q \in Parts : files'[q] \in {files[q], NoPDF, content}
  PROVE  ShownFits(Shown', content')
<1>1. Rows(content) \subseteq Parts
  BY RowsAreParts DEF TypeOK
<1> QED BY <1>1 DEF ShownFits, Shown

LEMMA ExactShows == Exact => ShownFits(Shown, content)
BY DEF Exact, ShownFits, Shown

LEMMA NextKeepsExact ==
  ASSUME TypeOK, AtMostOneJob, Starters, IntactInv, ExactInv, Next
  PROVE  ExactInv' /\ (content' # content => ~(ready' /\ intact' /\ ~doubled'))
<1> USE DEF dbVars, histVars
<1>1. ASSUME NEW r \in Requests, CommitEdit(r)
      PROVE  ~(ready' /\ intact' /\ ~doubled')
  <2>1. Editing(r) /\ ready' = (ready /\ ~req[r].ready) /\ UNCHANGED <<intact, doubled>>
    BY <1>1 DEF CommitEdit
  <2> QED BY <2>1 DEF IntactInv, TypeOK
<1>2. content' # content => ~(ready' /\ intact' /\ ~doubled')
  BY <1>1, OnlyCommitsChange
<1>3. ASSUME NEW r \in Requests,
             BeginGenerate(r) \/ BeginRetry(r) \/ BeginEdit(r) \/ StartStep(r) \/ EditStep(r)
      PROVE  ExactInv'
  <2>1. CASE CommitEdit(r)
    BY <1>1, <2>1 DEF ExactInv
  <2>2. CASE ~CommitEdit(r)
    <3>1. UNCHANGED <<content, ready, intact, doubled>> /\ (files' = files \/ files' = NoFiles)
      BY <1>3, <2>2 DEF BeginGenerate, BeginRetry, BeginEdit, StartStep, EditStep,
         AcquireGenPartsLock, RefuseUntagged, EnqueueGenParts, CommitStart, FlushEdit,
         InvalidateParts
    <3> QED BY <3>1, ShownFrame DEF ExactInv, NoFiles
  <2> QED BY <2>1, <2>2
<1>4. ASSUME NEW j \in JobIds, ReadStep(j)
      PROVE  ExactInv'
  <2>1. UNCHANGED <<content, ready, files, intact>>
    BY <1>4 DEF ReadStep, StartJob, ReadSegments, CountParts, ReadCombined, ReadLayout,
       ReadPartRows
  <2>2. StartJob(j) \/ doubled' = doubled
    BY <1>4 DEF ReadStep, ReadSegments, CountParts, ReadCombined, ReadLayout, ReadPartRows
  <2>3. doubled => doubled'
    BY <2>2 DEF StartJob
  <2> QED BY <2>1, <2>3, ShownFrame DEF ExactInv
<1>5. ASSUME NEW j \in JobIds, StorePart(j)
      PROVE  ExactInv'
  BY <1>5, StoreKeepsIntact, ShownFrame DEF IntactInv, ExactInv
<1>6. ASSUME NEW j \in JobIds, Finalize(j)
      PROVE  ExactInv'
  <2>1. files' = files /\ content' = content /\ (ready' => intact' = Undisturbed(j))
    BY <1>6 DEF Finalize
  <2>2. ready' /\ intact' => ShownFits(Shown, content)
    BY <2>1, ExactShows DEF Undisturbed
  <2> QED BY <2>1, <2>2, ShownFrame DEF ExactInv
<1>7. ASSUME NEW j \in JobIds, WriteStep(j), ~StorePart(j), ~Finalize(j)
      PROVE  ExactInv'
  <2>1. UNCHANGED <<content, doubled>> /\ (files' = files \/ files' = NoFiles)
        /\ (~intact' \/ UNCHANGED <<ready, intact>>)
    BY <1>7 DEF WriteStep, PublishEmpty, StartCut, CompleteCut, StartPaste, CheckParts,
       DiscardParts
  <2> QED BY <2>1, ShownFrame DEF ExactInv, NoFiles
<1>8. ASSUME NEW j \in JobIds, EndStep(j) \/ RaiseInJob(j) \/ KillJob(j) \/ LoseWorker(j)
      PROVE  ExactInv'
  BY <1>8, EndMoves, ShownFrame DEF ExactInv
<1>9. ASSUME ExpireLock \/ EvictParts \/ RemoveParts
      PROVE  ExactInv'
  <2>1. UNCHANGED <<content, intact, doubled>> /\ (files' = files \/ files' = NoFiles)
        /\ (ready' => ready)
    BY <1>9 DEF ExpireLock, EvictParts, RemoveParts
  <2> QED BY <2>1, ShownFrame DEF ExactInv, NoFiles
<1> QED BY <1>2, <1>3, <1>4, <1>5, <1>6, <1>7, <1>8, <1>9 DEF Next, JobStep

\* What is shown of the labels follows the content too: a commit over a publication
\* it has not seen is one that overlooked it.
LEMMA ChangeShowsNoLabels ==
  ASSUME TypeOK, Next, content' # content
  PROVE  ~(ready' /\ ~overlooked')
<1>1. PICK r \in Requests : CommitEdit(r)
  BY OnlyCommitsChange
<1> QED BY <1>1 DEF CommitEdit

\* The PDFs keep the promise of a cache: those published with nobody in the way are
\* shown exactly as the database asks for them, in every state, and the commit that
\* changes anything they show takes them down.
THEOREM PartsKeepTheCache == Spec => PartsImplementCache
<1> DEFINE shown == IF ready /\ intact /\ ~doubled THEN Shown ELSE {}
           Inv == AtMostOneJob /\ Starters /\ IntactInv /\ ExactInv
<1>1. Init => Inv /\ ExactCache!Init
  <2> SUFFICES ASSUME Init PROVE Inv /\ ExactCache!Init
    OBVIOUS
  <2>1. TypeOK /\ content \in Content /\ ~ready
    BY EmptyTypes, InitTypes DEF Init, TypeOK
  <2>2. AtMostOneJob /\ Starters /\ IntactInv /\ ExactInv
    BY EmptyTypes DEF Init, AtMostOneJob, Starters, InWork, Working, IntactInv, ExactInv,
       NoJob, NoRequest
  <2> QED BY <2>1, <2>2 DEF ExactCache!Init
<1>2. TypeOK /\ Inv /\ TypeOK' /\ [Next]_vars => Inv' /\ [ExactCache!Next]_<<content, shown>>
  <2> SUFFICES ASSUME TypeOK, Inv, TypeOK', [Next]_vars
               PROVE  Inv' /\ [ExactCache!Next]_<<content, shown>>
    OBVIOUS
  <2>1. CASE UNCHANGED vars
    BY <2>1 DEF vars, dbVars, histVars, AtMostOneJob, InWork, Starters, IntactInv, ExactInv,
       Editing, UpToDate, Shown, Exact
  <2>2. CASE Next
    <3>1. Inv'
      BY <2>2, NextKeepsOneJob, NextKeepsStarters, NextKeepsIntact, NextKeepsExact
    <3>2. shown' \subseteq {content'} /\ (content' # content => shown' = {})
      BY <2>2, <3>1, NextKeepsExact DEF ExactInv, ShownFits
    <3>3. content' \in Content
      BY DEF TypeOK
    <3> HIDE DEF shown, Inv
    <3>4. ExactCache!Next
      BY <3>2, <3>3 DEF ExactCache!Next, ExactCache!Change, ExactCache!Publish,
         ExactCache!TakeDown, shown
    <3> QED BY <3>1, <3>4
  <2> QED BY <2>1, <2>2
<1> QED BY <1>1, <1>2, PartGenTypes, PTL DEF Spec, PartsImplementCache, ExactCache!Spec,
      ExactCache!cache

\* So do their labels, whoever is in the way, unless two jobs ran at once, a save and a
\* publication overlooked one another or a failed copy was passed over.
THEOREM LabelsKeepTheCache == Spec => LabelsImplementCache
<1> DEFINE shown == IF ready /\ ~doubled /\ ~overlooked THEN {Rows(c) : c \in Shown} ELSE {}
           Inv == AtMostOneJob /\ LabelsInv
<1>1. Init => Inv /\ LabelCache!Init
  <2> SUFFICES ASSUME Init PROVE Inv /\ LabelCache!Init
    OBVIOUS
  <2>1. content \in Content /\ ~ready
    BY EmptyTypes, InitTypes DEF Init, TypeOK
  <2>2. Inv
    BY EmptyTypes DEF Init, AtMostOneJob, InWork, Working, LabelsInv, StoredIsOwn, JobsHaveRows,
       FreshInv, NoJob
  <2> QED BY <2>1, <2>2 DEF LabelCache!Init
<1>2. TypeOK /\ Inv /\ TypeOK' /\ [Next]_vars => Inv' /\ [LabelCache!Next]_<<Rows(content), shown>>
  <2> SUFFICES ASSUME TypeOK, Inv, TypeOK', [Next]_vars
               PROVE  Inv' /\ [LabelCache!Next]_<<Rows(content), shown>>
    OBVIOUS
  <2>1. CASE UNCHANGED vars
    BY <2>1 DEF vars, dbVars, histVars, AtMostOneJob, InWork, LabelsInv, StoredIsOwn,
       JobsHaveRows, FreshInv, LabelsFit, Shown, Rows
  <2>2. CASE Next
    <3>1. Inv'
      BY <2>2, NextKeepsOneJob, NextKeepsLabels
    <3>2. LabelsFresh'
      BY <3>1, FreshFits, PTL DEF LabelsInv
    <3>3. shown' \subseteq {Rows(content')} /\ (Rows(content') # Rows(content) => shown' = {})
      BY <2>2, <3>2, ChangeShowsNoLabels DEF LabelsFresh
    <3>4. Rows(content') \in {Rows(c) : c \in Content}
      BY DEF TypeOK
    <3> HIDE DEF shown, Inv
    <3>5. LabelCache!Next
      BY <3>3, <3>4 DEF LabelCache!Next, LabelCache!Change, LabelCache!Publish,
         LabelCache!TakeDown, shown
    <3> QED BY <3>1, <3>5
  <2> QED BY <2>1, <2>2
<1> QED BY <1>1, <1>2, PartGenTypes, PTL DEF Spec, LabelsImplementCache, LabelCache!Spec,
      LabelCache!cache

=============================================================================
