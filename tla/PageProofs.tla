----------------------------- MODULE PageProofs -----------------------------
(***************************************************************************)
(* Theorems about pages.  First the warming of a score's page images, for  *)
(* any number of polls, pages and jobs, and any TTL of the lock.  Then the *)
(* pages of the parts, for every document, any heights of its segments,    *)
(* any breaks and spacings.                                                *)
(***************************************************************************)
EXTENDS ScorePagesWarm, PageChunks, FiniteSetTheorems, FunctionTheorems, SequenceTheorems,
        WellFoundedInduction, TLAPS

-----------------------------------------------------------------------------
(* Warming.                                                                  *)

Job == [pc : JobPC, warm : BOOLEAN, page : Pages]

-----------------------------------------------------------------------------
(* Types. *)

LEMMA FirstPage == 1 \in Pages /\ NoJob \in Job
  BY ScorePagesWarmAssumption DEF Pages, NoJob, Job, JobPC

\* A job that goes on keeps its type.
LEMMA GotoType ==
  ASSUME job \in [JobIds -> Job], NEW j \in JobIds, NEW pc \in JobPC, Goto(j, pc)
  PROVE  job' \in [JobIds -> Job]
<1>1. [job[j] EXCEPT !.pc = pc] \in Job
  BY DEF Job
<1> QED BY <1>1 DEF Goto

LEMMA EndType ==
  ASSUME job \in [JobIds -> Job], NEW j \in JobIds, End(j)
  PROVE  job' \in [JobIds -> Job]
  BY FirstPage DEF End

\* ... also to the next page.
LEMMA AdvanceType ==
  ASSUME job \in [JobIds -> Job], NEW j \in JobIds, NEW pc \in JobPC, Advance(j, pc)
  PROVE  job' \in [JobIds -> Job]
<1> DEFINE next == IF job[j].page = NumPages THEN 1 ELSE job[j].page + 1
           where == IF job[j].page = NumPages THEN pc ELSE job[j].pc
<1>1. job[j] \in Job /\ job[j].page \in 1..NumPages /\ job[j].pc \in JobPC
  BY DEF Job, Pages
<1>2. next \in Pages
  BY <1>1, ScorePagesWarmAssumption DEF Pages
<1>3. where \in JobPC
  BY <1>1
<1>4. job' = [job EXCEPT ![j] = [job[j] EXCEPT !.page = next, !.pc = where]]
  BY DEF Advance
<1> HIDE DEF next, where
<1>5. [job[j] EXCEPT !.page = next, !.pc = where] \in Job
  BY <1>1, <1>2, <1>3 DEF Job
<1> QED BY <1>4, <1>5

LEMMA EnqueueType ==
  ASSUME job \in [JobIds -> Job], NEW j \in JobIds,
         job' = [job EXCEPT ![j] = [NoJob EXCEPT !.pc = "queued", !.warm = TRUE]]
  PROVE  job' \in [JobIds -> Job]
<1>1. [NoJob EXCEPT !.pc = "queued", !.warm = TRUE] \in Job
  BY FirstPage DEF Job, JobPC
<1> QED BY <1>1

LEMMA AbortType ==
  ASSUME job \in [JobIds -> Job], NEW j \in JobIds, NEW pc \in JobPC,
         job' = [job EXCEPT ![j] = [job[j] EXCEPT !.pc = pc, !.page = 1]]
  PROVE  job' \in [JobIds -> Job]
<1> DEFINE r == [job[j] EXCEPT !.pc = pc, !.page = 1]
<1>1. r \in Job
  BY FirstPage DEF Job
<1>2. job' = [job EXCEPT ![j] = r]
  OBVIOUS
<1> HIDE DEF r
<1> QED BY <1>1, <1>2

LEMMA InitType == Init => TypeOK
<1> SUFFICES ASSUME Init PROVE TypeOK
  OBVIOUS
<1>1. job \in [JobIds -> Job] /\ poll \in [Polls -> PollPC]
  BY FirstPage DEF Init, PollPC
<1>2. lock \in 0..LockTTL /\ progress \in 0..NumPages /\ faults \in 0..MaxFaults /\ sweeps \in 0..MaxSweeps
  BY ScorePagesWarmAssumption DEF Init
<1>3. low \subseteq Pages /\ high \subseteq Pages /\ sweep \subseteq Kinds
      /\ interrupted \in BOOLEAN /\ freed \in BOOLEAN
  BY DEF Init
<1> QED BY <1>1, <1>2, <1>3 DEF TypeOK, Job

LEMMA PollsKeepType ==
  ASSUME TypeOK, NEW r \in Polls, Look(r) \/ EnsureStep(r)
  PROVE  TypeOK'
<1>1. job \in [JobIds -> Job] /\ poll \in [Polls -> PollPC] /\ lock \in 0..LockTTL
      /\ progress \in 0..NumPages
  BY DEF TypeOK, Job
<1>2. poll' \in [Polls -> PollPC]
  BY <1>1 DEF Look, EnsureStep, GetProgress, FreeLock, ResetProgress, AcquireLock, Enqueue, PollPC
<1>3. lock' \in 0..LockTTL /\ progress' \in 0..NumPages
  BY <1>1, ScorePagesWarmAssumption
  DEF Look, EnsureStep, GetProgress, FreeLock, ResetProgress, AcquireLock, Enqueue
<1>4. job' \in [JobIds -> Job]
  BY <1>1, EnqueueType
  DEF Look, EnsureStep, GetProgress, FreeLock, ResetProgress, AcquireLock, Enqueue, Fresh
<1>5. UNCHANGED <<low, high, sweep, faults, sweeps, interrupted>> /\ freed' \in BOOLEAN
  BY DEF TypeOK, Look, EnsureStep, GetProgress, FreeLock, ResetProgress, AcquireLock, Enqueue, histVars
<1> QED BY <1>2, <1>3, <1>4, <1>5 DEF TypeOK, Job

LEMMA JobsKeepType ==
  ASSUME TypeOK, NEW j \in JobIds, JobStep(j)
  PROVE  TypeOK'
<1>1. /\ job \in [JobIds -> Job] /\ lock \in 0..LockTTL /\ progress \in 0..NumPages
      /\ job[j].page \in Pages
  BY DEF TypeOK, Job
<1>2. job' \in [JobIds -> Job]
  <2>1. CASE StartWarm(j)
    BY <1>1, <2>1, GotoType DEF StartWarm, JobPC
  <2>2. CASE ResetInJob(j)
    BY <1>1, <2>2, GotoType DEF ResetInJob, JobPC
  <2>3. CASE Build(j)
    BY <1>1, <2>3, GotoType DEF Build, JobPC
  <2>4. CASE ConvertPage(j) \/ CopyLow(j) \/ CopyHigh(j)
    BY <1>1, <2>4, AdvanceType DEF ConvertPage, CopyLow, CopyHigh, JobPC
  <2>5. CASE SetProgress(j)
    BY <1>1, <2>5, GotoType, EndType DEF SetProgress, JobPC
  <2>6. CASE ReleaseLock(j)
    BY <1>1, <2>6, EndType DEF ReleaseLock
  <2> QED BY <2>1, <2>2, <2>3, <2>4, <2>5, <2>6 DEF JobStep
<1>3. lock' \in 0..LockTTL /\ progress' \in 0..NumPages
  BY <1>1, ScorePagesWarmAssumption
  DEF JobStep, StartWarm, ResetInJob, Build, ConvertPage, CopyLow, CopyHigh, SetProgress, ReleaseLock
<1>4. low' \subseteq Pages /\ high' \subseteq Pages
  BY <1>1 DEF TypeOK, JobStep, StartWarm, ResetInJob, Build, ConvertPage, CopyLow, CopyHigh, SetProgress,
              ReleaseLock
<1>5. UNCHANGED <<poll, sweep, faults, sweeps, interrupted>> /\ freed' \in BOOLEAN
  BY DEF TypeOK, JobStep, StartWarm, ResetInJob, Build, ConvertPage, CopyLow, CopyHigh, SetProgress,
         ReleaseLock, histVars
<1> QED BY <1>2, <1>3, <1>4, <1>5 DEF TypeOK, Job

LEMMA FaultsKeepType ==
  ASSUME TypeOK, NEW j \in JobIds, RaiseInJob(j) \/ KillJob(j)
  PROVE  TypeOK'
<1>1. job \in [JobIds -> Job]
  BY DEF TypeOK, Job
<1>2. job' \in [JobIds -> Job]
  <2>1. CASE RaiseInJob(j)
    <3>1. \/ job' = [job EXCEPT ![j] = [job[j] EXCEPT !.pc = "unlock", !.page = 1]]
          \/ End(j)
      BY <2>1 DEF RaiseInJob, End
    <3> QED BY <1>1, <3>1, AbortType, EndType DEF JobPC
  <2>2. CASE KillJob(j)
    <3> DEFINE r == [job[j] EXCEPT !.pc = "queued", !.page = 1]
    <3>1. \/ job' = [job EXCEPT ![j] = r]
          \/ End(j)
      <4> SUFFICES ASSUME job' = [job EXCEPT ![j].pc = "queued", ![j].page = 1]
                   PROVE  job' = [job EXCEPT ![j] = r]
        BY <2>2 DEF KillJob
      <4> QED BY <1>1
    <3> QED BY <1>1, <3>1, AbortType, EndType DEF JobPC
  <2> QED BY <2>1, <2>2
<1>3. Fault /\ interrupted' = TRUE /\ UNCHANGED <<low, high, lock, progress, poll, sweep, sweeps, freed>>
  BY DEF RaiseInJob, KillJob
<1>4. faults' \in 0..MaxFaults
  BY <1>3, ScorePagesWarmAssumption DEF TypeOK, Fault
<1> QED BY <1>2, <1>3, <1>4 DEF TypeOK, Job

LEMMA RestKeepsType ==
  ASSUME TypeOK, StartOther \/ Evict \/ Tick \/ \E k \in Kinds : RemoveKind(k)
  PROVE  TypeOK'
<1>1. CASE StartOther
  <2>1. PICK j \in JobIds : Goto(j, "build")
    BY <1>1 DEF StartOther, Fresh, Goto
  <2>2. job' \in [JobIds -> Job]
    BY <2>1, GotoType DEF TypeOK, Job, JobPC
  <2> QED BY <1>1, <2>2 DEF TypeOK, Job, StartOther, histVars
<1>2. CASE Evict
  BY <1>2, ScorePagesWarmAssumption DEF TypeOK, Evict, histVars, Kinds
<1>3. CASE Tick
  BY <1>3, ScorePagesWarmAssumption DEF TypeOK, Tick
<1>4. ASSUME NEW k \in Kinds, RemoveKind(k) PROVE TypeOK'
  BY <1>4 DEF TypeOK, RemoveKind
<1> QED BY <1>1, <1>2, <1>3, <1>4

LEMMA NextKeepsType == TypeOK /\ [Next]_vars => TypeOK'
<1> SUFFICES ASSUME TypeOK, [Next]_vars PROVE TypeOK'
  OBVIOUS
<1>1. CASE UNCHANGED vars
  BY <1>1 DEF TypeOK, vars, histVars
<1>2. CASE Next
  BY <1>2, PollsKeepType, JobsKeepType, FaultsKeepType, RestKeepsType DEF Next
<1> QED BY <1>1, <1>2

\* Every variable keeps its type; the lock's key has a TTL, always.
THEOREM WarmTypes == Spec => []TypeOK
  BY InitType, NextKeepsType, PTL DEF Spec

-----------------------------------------------------------------------------
(* Exclusion. *)

\* Who the lock was taken for: a poll that is about to enqueue, or a warm job.
NoHolder == ~HeldByPoll /\ \A j \in JobIds : ~InFlight(j)

OneHolder ==
  /\ \A i, j \in JobIds : InFlight(i) /\ InFlight(j) => i = j
  /\ \A r, s \in Polls : poll[r] = "enqueue" /\ poll[s] = "enqueue" => r = s
  /\ HeldByPoll => \A j \in JobIds : ~InFlight(j)

\* ExclusiveUnlessFreed is not inductive: without the key there is no holder either.
HolderInv ==
  ~interrupted /\ ~freed => OneHolder /\ (lock = 0 => NoHolder)

LEMMA InitHolder == Init => HolderInv
  BY DEF Init, HolderInv, OneHolder, NoHolder, HeldByPoll, InFlight, NoJob

\* A step that leaves the lock, the polls that hold it and the jobs' kinds.
LEMMA SameHolders ==
  ASSUME HolderInv, lock' = lock, interrupted' = interrupted, freed' = freed,
         \A r \in Polls : poll'[r] = "enqueue" => poll[r] = "enqueue",
         \A j \in JobIds : job'[j].warm => job[j].warm
  PROVE  HolderInv'
  BY DEF HolderInv, OneHolder, NoHolder, HeldByPoll, InFlight

LEMMA PollsKeepHolder ==
  ASSUME TypeOK, HolderInv, NEW r \in Polls, Look(r) \/ EnsureStep(r)
  PROVE  HolderInv'
<1> poll \in [Polls -> PollPC] /\ job \in [JobIds -> Job] /\ lock \in Nat
  BY ScorePagesWarmAssumption DEF TypeOK, Job
<1>1. CASE Look(r) \/ GetProgress(r) \/ ResetProgress(r)
  <2>1. UNCHANGED <<lock, interrupted, freed, job>>
    BY <1>1 DEF Look, GetProgress, ResetProgress, histVars
  <2>2. \A s \in Polls : poll'[s] = "enqueue" => poll[s] = "enqueue"
    BY <1>1 DEF Look, GetProgress, ResetProgress
  <2> QED BY <2>1, <2>2, SameHolders
<1>2. CASE FreeLock(r)
  <2>1. \A s \in Polls : poll'[s] = "enqueue" => poll[s] = "enqueue"
    BY <1>2 DEF FreeLock
  <2>2. /\ UNCHANGED <<interrupted, job>>
        /\ freed' = (freed \/ (lock # 0 /\ (HeldByPoll \/ \E j \in JobIds : InFlight(j))))
    BY <1>2 DEF FreeLock
  <2> QED BY <2>1, <2>2 DEF HolderInv, OneHolder, NoHolder, HeldByPoll, InFlight
<1>3. CASE AcquireLock(r)
  <2>1. UNCHANGED <<interrupted, freed, job>>
    BY <1>3 DEF AcquireLock, histVars
  <2>2. CASE lock = 0
    <3>1. lock' # 0
      BY <1>3, <2>2, ScorePagesWarmAssumption DEF AcquireLock
    <3>2. \A s \in Polls : poll'[s] = "enqueue" => s = r \/ poll[s] = "enqueue"
      BY <1>3 DEF AcquireLock
    <3> QED BY <2>1, <2>2, <3>1, <3>2 DEF HolderInv, OneHolder, NoHolder, HeldByPoll, InFlight
  <2>3. CASE lock # 0
    <3>1. lock' = lock /\ \A s \in Polls : poll'[s] = "enqueue" => poll[s] = "enqueue"
      BY <1>3, <2>3 DEF AcquireLock
    <3> QED BY <2>1, <3>1, SameHolders
  <2> QED BY <2>2, <2>3
<1>4. CASE Enqueue(r)
  <2>1. PICK j \in JobIds : job' = [job EXCEPT ![j] = [NoJob EXCEPT !.pc = "queued", !.warm = TRUE]]
    BY <1>4 DEF Enqueue, Fresh
  <2>2. \A i \in JobIds : job'[i].warm => i = j \/ job[i].warm
    BY <2>1
  <2>3. UNCHANGED <<lock, interrupted, freed>> /\ poll[r] = "enqueue"
        /\ poll' = [poll EXCEPT ![r] = "idle"]
    BY <1>4 DEF Enqueue, histVars
  <2> QED BY <2>2, <2>3 DEF HolderInv, OneHolder, NoHolder, HeldByPoll, InFlight
<1> QED BY <1>1, <1>2, <1>3, <1>4 DEF EnsureStep

\* Going on and ending do not make a warm job of another one.
LEMMA KindsStay ==
  ASSUME job \in [JobIds -> Job], NEW j \in JobIds, NEW pc \in JobPC,
         Goto(j, pc) \/ Advance(j, pc) \/ End(j)
  PROVE  \A i \in JobIds : job'[i].warm => job[i].warm
<1>1. CASE Goto(j, pc)
  BY <1>1 DEF Goto, Job
<1>2. CASE Advance(j, pc)
  BY <1>2 DEF Advance, Job
<1>3. CASE End(j)
  BY <1>3 DEF End, NoJob
<1> QED BY <1>1, <1>2, <1>3

LEMMA JobsKeepHolder ==
  ASSUME TypeOK, HolderInv, NEW j \in JobIds, JobStep(j)
  PROVE  HolderInv'
<1> job \in [JobIds -> Job]
  BY DEF TypeOK, Job
<1>1. CASE ~ReleaseLock(j)
  <2>1. \A i \in JobIds : job'[i].warm => job[i].warm
    BY <1>1, KindsStay DEF JobStep, StartWarm, ResetInJob, Build, ConvertPage, CopyLow, CopyHigh,
                           SetProgress, JobPC
  <2>2. UNCHANGED <<lock, poll, interrupted, freed>>
    BY <1>1 DEF JobStep, StartWarm, ResetInJob, Build, ConvertPage, CopyLow, CopyHigh, SetProgress, histVars
  <2> QED BY <2>1, <2>2, SameHolders
<1>2. CASE ReleaseLock(j)
  <2>1. job' = [job EXCEPT ![j] = NoJob] /\ ~NoJob.warm
    BY <1>2 DEF ReleaseLock, End, NoJob
  <2>2. ~job'[j].warm /\ \A i \in JobIds \ {j} : job'[i] = job[i]
    BY <2>1
  <2>3. /\ UNCHANGED <<poll, interrupted>>
        /\ freed' = (freed \/ (lock # 0 /\ (HeldByPoll \/ \E i \in JobIds \ {j} : InFlight(i))))
    BY <1>2 DEF ReleaseLock
  <2> QED BY <2>2, <2>3 DEF HolderInv, OneHolder, NoHolder, HeldByPoll, InFlight
<1> QED BY <1>1, <1>2

LEMMA RestKeepsHolder ==
  ASSUME TypeOK, HolderInv,
         \/ \E j \in JobIds : RaiseInJob(j) \/ KillJob(j)
         \/ StartOther \/ Evict \/ Tick \/ \E k \in Kinds : RemoveKind(k)
  PROVE  HolderInv'
<1> job \in [JobIds -> Job]
  BY DEF TypeOK, Job
<1>1. ASSUME NEW j \in JobIds, RaiseInJob(j) \/ KillJob(j) PROVE HolderInv'
  BY <1>1 DEF RaiseInJob, KillJob, HolderInv
<1>2. CASE StartOther
  <2>1. PICK j \in JobIds : Goto(j, "build")
    BY <1>2 DEF StartOther, Fresh, Goto
  <2>2. \A i \in JobIds : job'[i].warm => job[i].warm
    BY <2>1, KindsStay DEF JobPC
  <2> QED BY <1>2, <2>2, SameHolders DEF StartOther, histVars
<1>3. CASE Evict
  BY <1>3, SameHolders DEF Evict, histVars
<1>4. CASE Tick
  <2>1. lock' = lock - 1 /\ lock \in Nat /\ UNCHANGED <<job, poll, interrupted>>
        /\ freed' = (freed \/ (lock = 1 /\ (HeldByPoll \/ \E j \in JobIds : InFlight(j))))
    BY <1>4, ScorePagesWarmAssumption DEF Tick, TypeOK
  <2>2. lock' = 0 => lock = 1
    BY <2>1
  <2> QED BY <2>1, <2>2 DEF HolderInv, OneHolder, NoHolder, HeldByPoll, InFlight
<1>5. ASSUME NEW k \in Kinds, RemoveKind(k) PROVE HolderInv'
  <2>1. UNCHANGED <<lock, job, poll, freed>>
        /\ interrupted' = (interrupted \/ \E j \in JobIds : Running(j))
    BY <1>5 DEF RemoveKind
  <2> QED BY <2>1 DEF HolderInv, OneHolder, NoHolder, HeldByPoll, InFlight
<1> QED BY <1>1, <1>2, <1>3, <1>4, <1>5

LEMMA NextKeepsHolder == TypeOK /\ HolderInv /\ [Next]_vars => HolderInv'
<1> SUFFICES ASSUME TypeOK, HolderInv, [Next]_vars PROVE HolderInv'
  OBVIOUS
<1>1. CASE UNCHANGED vars
  BY <1>1, SameHolders DEF vars, histVars
<1>2. CASE Next
  BY <1>2, PollsKeepHolder, JobsKeepHolder, RestKeepsHolder DEF Next
<1> QED BY <1>1, <1>2

LEMMA OneHolderExcludes == HolderInv => ExclusiveUnlessFreed
<1> SUFFICES ASSUME HolderInv, ~interrupted, ~freed
             PROVE  Cardinality({j \in JobIds : InFlight(j)}) <= 1
  BY DEF ExclusiveUnlessFreed
<1> DEFINE S == {j \in JobIds : InFlight(j)}
<1>1. S = {} \/ \E j \in JobIds : S = {j}
  <2>1. OneHolder
    BY DEF HolderInv
  <2>2. ASSUME NEW j \in S PROVE S = {j}
    BY <2>1 DEF OneHolder
  <2> QED BY <2>2
<1> SUFFICES Cardinality(S) <= 1
  OBVIOUS
<1> HIDE DEF S
<1>2. ASSUME S = {} PROVE Cardinality(S) <= 1
  <2>1. Cardinality(S) = 0
    BY <1>2, FS_EmptySet
  <2> QED BY <2>1
<1>3. ASSUME NEW j \in JobIds, S = {j} PROVE Cardinality(S) <= 1
  <2>1. Cardinality(S) = 1
    BY <1>3, FS_Singleton
  <2> QED BY <2>1
<1> QED BY <1>1, <1>2, <1>3

\* However many pages poll, no two warm jobs of a score are queued or running at once
\* unless a job was cut short or the lock was deleted or ran out under its holder:
\* the lock of score_pages_lock.py is passed from the poll to its job and back.
THEOREM WarmJobsExclude == Spec => []ExclusiveUnlessFreed
<1>1. Init => TypeOK /\ HolderInv
  BY InitType, InitHolder
<1>2. TypeOK /\ HolderInv /\ [Next]_vars => (TypeOK /\ HolderInv)'
  BY NextKeepsType, NextKeepsHolder
<1> QED BY <1>1, <1>2, OneHolderExcludes, PTL DEF Spec

-----------------------------------------------------------------------------
(* Images that are there in part.                                           *)

\* PartialIsPassing is not inductive: a job has put the pages before its own in place,
\* and the lowres ones before the highres ones.
CopyInv ==
  ~interrupted =>
    /\ \A j \in JobIds : At(j, "copyLow") => 1..(job[j].page - 1) \subseteq low
    /\ \A j \in JobIds : At(j, "copyHigh") => low = Pages /\ 1..(job[j].page - 1) \subseteq high
    /\ low \in {{}, Pages} \/ \E j \in JobIds : At(j, "copyLow")
    /\ high \in {{}, Pages} \/ \E j \in JobIds : At(j, "copyHigh")

Copying == {"copyLow", "copyHigh"}

\* A step that copies nothing and leaves the jobs that copy where they are.
LEMMA SameCopies ==
  ASSUME CopyInv, low' = low, high' = high, interrupted' = interrupted,
         \A j \in JobIds : \/ job'[j] = job[j]
                           \/ job[j].pc \notin Copying /\ job'[j].pc \notin Copying
  PROVE  CopyInv'
<1>1. \A j \in JobIds : /\ At(j, "copyLow") <=> At(j, "copyLow")'
                        /\ At(j, "copyHigh") <=> At(j, "copyHigh")'
                        /\ job[j].pc \in Copying => job'[j] = job[j]
  BY DEF At, Copying
<1> QED BY <1>1 DEF CopyInv, At, Copying

\* What moving on to the next page does to the job, and to no other.
LEMMA AdvanceMoves ==
  ASSUME job \in [JobIds -> Job], NEW j \in JobIds, NEW pc \in JobPC, Advance(j, pc)
  PROVE  /\ \A i \in JobIds \ {j} : job'[i] = job[i]
         /\ job[j].page = NumPages => job'[j].pc = pc /\ job'[j].page = 1
         /\ job[j].page # NumPages => /\ job'[j].pc = job[j].pc
                                      /\ job'[j].page = job[j].page + 1
<1> DEFINE next == IF job[j].page = NumPages THEN 1 ELSE job[j].page + 1
           where == IF job[j].page = NumPages THEN pc ELSE job[j].pc
<1>1. job' = [job EXCEPT ![j] = [job[j] EXCEPT !.page = next, !.pc = where]]
  BY DEF Advance
<1>2. job[j] \in Job
  OBVIOUS
<1> HIDE DEF next, where
<1>3. job'[j].page = next /\ job'[j].pc = where /\ \A i \in JobIds \ {j} : job'[i] = job[i]
  BY <1>1, <1>2 DEF Job
<1> QED BY <1>3 DEF next, where

\* The pages before the next one are those before this one, and this one.
LEMMA NextPage ==
  ASSUME NEW p \in Pages
  PROVE  /\ 1..p = 1..(p - 1) \union {p}
         /\ p = NumPages => 1..p = Pages
BY ScorePagesWarmAssumption DEF Pages

\* A page converted is no page copied.
LEMMA ConvertKeepsCopies ==
  ASSUME TypeOK, CopyInv, NEW j \in JobIds, ConvertPage(j)
  PROVE  CopyInv'
<1>1. job \in [JobIds -> Job] /\ job[j].pc = "convert" /\ Advance(j, "copyLow")
      /\ UNCHANGED <<low, high, interrupted>>
  BY DEF TypeOK, Job, ConvertPage, At, histVars
<1>2. /\ \A i \in JobIds \ {j} : job'[i] = job[i]
      /\ job'[j].pc = "convert" \/ (job'[j].pc = "copyLow" /\ job'[j].page = 1)
  BY <1>1, AdvanceMoves DEF JobPC
<1>3. 1..(1 - 1) \subseteq low
  OBVIOUS
<1> QED BY <1>1, <1>2, <1>3 DEF CopyInv, At

\* After the last lowres page they are all there.
LEMMA CopyLowKeepsCopies ==
  ASSUME TypeOK, CopyInv, NEW j \in JobIds, CopyLow(j)
  PROVE  CopyInv'
<1> SUFFICES ASSUME ~interrupted' PROVE CopyInv'
  BY DEF CopyInv
<1> DEFINE p == job[j].page
<1>1. /\ job \in [JobIds -> Job] /\ job[j].pc = "copyLow" /\ p \in Pages
      /\ Advance(j, "copyHigh") /\ low' = low \union {p} /\ UNCHANGED <<high, interrupted>>
      /\ low \subseteq Pages
  BY DEF TypeOK, Job, CopyLow, At, histVars
<1>2. 1..p \subseteq low'
  BY <1>1, NextPage DEF CopyInv, At
<1>3. \A i \in JobIds \ {j} : job'[i] = job[i]
  BY <1>1, AdvanceMoves DEF JobPC
<1>4. \A i \in JobIds \ {j} :
        /\ At(i, "copyLow")' => 1..(job'[i].page - 1) \subseteq low'
        /\ At(i, "copyHigh")' => low' = Pages /\ 1..(job'[i].page - 1) \subseteq high'
  BY <1>1, <1>3 DEF CopyInv, At
<1>5. high' \in {{}, Pages} \/ \E i \in JobIds : At(i, "copyHigh")'
  BY <1>1, <1>3 DEF CopyInv, At
<1>6. CASE p = NumPages
  <2>1. job'[j].pc = "copyHigh" /\ job'[j].page = 1
    BY <1>1, <1>6, AdvanceMoves DEF JobPC
  <2>2. low' = Pages
    BY <1>1, <1>2, <1>6, NextPage
  <2>3. 1..(1 - 1) \subseteq high'
    OBVIOUS
  <2> QED BY <1>4, <1>5, <2>1, <2>2, <2>3 DEF CopyInv, At
<1>7. CASE p # NumPages
  <2>1. job'[j].pc = "copyLow" /\ job'[j].page = p + 1
    BY <1>1, <1>7, AdvanceMoves DEF JobPC
  <2>2. 1..(job'[j].page - 1) = 1..p
    BY <1>1, <2>1 DEF Pages
  <2> QED BY <1>2, <1>4, <1>5, <2>1, <2>2 DEF CopyInv, At
<1> QED BY <1>6, <1>7

\* After the last highres page the set is complete.
LEMMA CopyHighKeepsCopies ==
  ASSUME TypeOK, CopyInv, NEW j \in JobIds, CopyHigh(j)
  PROVE  CopyInv'
<1> SUFFICES ASSUME ~interrupted' PROVE CopyInv'
  BY DEF CopyInv
<1> DEFINE p == job[j].page
<1>1. /\ job \in [JobIds -> Job] /\ job[j].pc = "copyHigh" /\ p \in Pages
      /\ Advance(j, "full") /\ high' = high \union {p} /\ UNCHANGED <<low, interrupted>>
      /\ high \subseteq Pages
  BY DEF TypeOK, Job, CopyHigh, At, histVars
<1>2. 1..p \subseteq high' /\ low = Pages
  BY <1>1, NextPage DEF CopyInv, At
<1>3. \A i \in JobIds \ {j} : job'[i] = job[i]
  BY <1>1, AdvanceMoves DEF JobPC
<1>4. \A i \in JobIds \ {j} :
        /\ At(i, "copyLow")' => 1..(job'[i].page - 1) \subseteq low'
        /\ At(i, "copyHigh")' => low' = Pages /\ 1..(job'[i].page - 1) \subseteq high'
  BY <1>1, <1>3 DEF CopyInv, At
<1>5. CASE p = NumPages
  <2>1. job'[j].pc = "full"
    BY <1>1, <1>5, AdvanceMoves DEF JobPC
  <2>2. high' = Pages
    BY <1>1, <1>2, <1>5, NextPage
  <2> QED BY <1>1, <1>2, <1>4, <2>1, <2>2 DEF CopyInv, At
<1>6. CASE p # NumPages
  <2>1. job'[j].pc = "copyHigh" /\ job'[j].page = p + 1
    BY <1>1, <1>6, AdvanceMoves DEF JobPC
  <2>2. 1..(job'[j].page - 1) = 1..p
    BY <1>1, <2>1 DEF Pages
  <2> QED BY <1>1, <1>2, <1>4, <2>1, <2>2 DEF CopyInv, At
<1> QED BY <1>5, <1>6

LEMMA NextKeepsCopies ==
  ASSUME TypeOK, CopyInv, Next
  PROVE  CopyInv'
<1> job \in [JobIds -> Job]
  BY DEF TypeOK, Job
<1>1. ASSUME NEW r \in Polls, Look(r) \/ EnsureStep(r) PROVE CopyInv'
  <2>1. UNCHANGED <<low, high, interrupted>>
    BY <1>1 DEF Look, EnsureStep, GetProgress, FreeLock, ResetProgress, AcquireLock, Enqueue, histVars
  <2>2. CASE Enqueue(r)
    <3>1. PICK j \in JobIds : /\ job[j].pc = "none"
                              /\ job' = [job EXCEPT ![j] = [NoJob EXCEPT !.pc = "queued", !.warm = TRUE]]
      BY <2>2 DEF Enqueue, Fresh
    <3>2. job'[j].pc = "queued" /\ \A i \in JobIds \ {j} : job'[i] = job[i]
      BY <3>1 DEF NoJob
    <3> QED BY <2>1, <3>1, <3>2, SameCopies DEF Copying
  <2>3. CASE ~Enqueue(r)
    <3>1. job' = job
      BY <1>1, <2>3 DEF Look, EnsureStep, GetProgress, FreeLock, ResetProgress, AcquireLock
    <3> QED BY <2>1, <3>1, SameCopies
  <2> QED BY <2>2, <2>3
<1>2. ASSUME NEW j \in JobIds,
             StartWarm(j) \/ ResetInJob(j) \/ Build(j) \/ SetProgress(j) \/ ReleaseLock(j)
      PROVE  CopyInv'
  <2>1. UNCHANGED <<low, high, interrupted>> /\ job[j].pc \notin Copying
    BY <1>2 DEF StartWarm, ResetInJob, Build, SetProgress, ReleaseLock, At, Copying, histVars
  <2>2. \A pc \in JobPC \ Copying :
          Goto(j, pc) => job'[j].pc \notin Copying /\ \A i \in JobIds \ {j} : job'[i] = job[i]
    BY DEF Goto, Job
  <2>3. End(j) => job'[j].pc \notin Copying /\ \A i \in JobIds \ {j} : job'[i] = job[i]
    BY DEF End, NoJob, Copying
  <2>4. End(j) \/ \E pc \in JobPC \ Copying : Goto(j, pc)
    BY <1>2 DEF StartWarm, ResetInJob, Build, SetProgress, ReleaseLock, JobPC, Copying
  <2> QED BY <2>1, <2>2, <2>3, <2>4, SameCopies
<1>3. ASSUME NEW j \in JobIds, RaiseInJob(j) \/ KillJob(j) PROVE CopyInv'
  BY <1>3 DEF RaiseInJob, KillJob, CopyInv
<1>4. CASE StartOther
  <2>1. PICK j \in JobIds : job[j].pc = "none" /\ Goto(j, "build")
    BY <1>4 DEF StartOther, Fresh, Goto
  <2>2. job'[j].pc = "build" /\ \A i \in JobIds \ {j} : job'[i] = job[i]
    BY <2>1 DEF Goto, Job
  <2> QED BY <1>4, <2>1, <2>2, SameCopies DEF StartOther, Copying, histVars
<1>5. CASE Evict \/ Tick
  BY <1>5, SameCopies DEF Evict, Tick, histVars
<1>6. ASSUME NEW k \in Kinds, RemoveKind(k) PROVE CopyInv'
  <2> SUFFICES ASSUME ~interrupted' PROVE CopyInv'
    BY DEF CopyInv
  <2>1. ~interrupted /\ job' = job /\ \A j \in JobIds : ~Running(j)
    BY <1>6 DEF RemoveKind
  <2>2. low' \in {{}, low} /\ high' \in {{}, high}
    BY <1>6 DEF RemoveKind
  <2> QED BY <2>1, <2>2 DEF CopyInv, At, Running
<1> QED BY <1>1, <1>2, <1>3, <1>4, <1>5, <1>6, ConvertKeepsCopies, CopyLowKeepsCopies,
      CopyHighKeepsCopies DEF Next, JobStep

\* However many jobs build the images of a score at once, an incomplete set of lowres or
\* of highres images is one that a job is still copying, unless a job was cut short or
\* ran during an eviction.
THEOREM CopiesComplete == Spec => []PartialIsPassing
<1>1. Init => CopyInv
  BY DEF Init, CopyInv, At, NoJob
<1>2. TypeOK /\ CopyInv /\ [Next]_vars => CopyInv'
  <2>1. CASE UNCHANGED vars
    BY <2>1 DEF vars, CopyInv, At
  <2> QED BY <2>1, NextKeepsCopies
<1>3. CopyInv => PartialIsPassing
  BY DEF CopyInv, PartialIsPassing
<1> QED BY <1>1, <1>2, <1>3, WarmTypes, PTL DEF Spec

-----------------------------------------------------------------------------
(* Induction.  A counterexample to a claim about all naturals would be a     *)
(* non-empty set of them, which has a least element.                         *)

LEMMA Least ==
  ASSUME NEW T \in SUBSET Nat, T # {}
  PROVE  \E n \in T : \A m \in T : n <= m
<1> DEFINE R == OpToRel(<, Nat)
<1>1. IsWellFoundedOn(R, Nat)
  BY NatLessThanWellFounded
<1>2. \A x, y \in Nat : y < x => <<y, x>> \in R
  BY DEF OpToRel
<1> HIDE DEF R
<1>3. PICK x \in T : \A y \in T : ~(<<y, x>> \in R)
  BY <1>1, WFMin
<1>4. \A y \in T : ~(y < x)
  BY <1>2, <1>3
<1> QED BY <1>4

\* A set of the naturals up to n that holds 0 and with every number but n the next is 0..n.
LEMMA Steps ==
  ASSUME NEW n \in Nat, NEW G, 0 \in G, \A k \in 1..n : k - 1 \in G => k \in G
  PROVE  0..n \subseteq G
<1> DEFINE T == {k \in 0..n : k \notin G}
<1>1. CASE T = {}
  BY <1>1
<1>2. CASE T # {}
  <2>1. T \in SUBSET Nat
    OBVIOUS
  <2>2. PICK k \in T : \A m \in T : k <= m
    BY <1>2, <2>1, Least
  <2>3. k \in 1..n /\ k - 1 \in 0..n /\ k - 1 \notin T
    BY <2>2
  <2> QED BY <2>2, <2>3
<1> QED BY <1>1, <1>2

LEMMA MaxIsTop ==
  ASSUME NEW S \in SUBSET Int, NEW m \in S, \A y \in S : y <= m
  PROVE  Max(S) = m
<1>1. \A x \in S : (\A y \in S : x >= y) => x = m
  OBVIOUS
<1> QED BY <1>1 DEF Max

LEMMA MaxExists ==
  ASSUME NEW n \in Nat, NEW S \in SUBSET (1..n), S # {}
  PROVE  Max(S) \in S /\ \A y \in S : y <= Max(S)
<1> DEFINE T == {n - x : x \in S}
<1>0. PICK s \in S : TRUE
  OBVIOUS
<1>1. T \in SUBSET Nat /\ n - s \in T
  BY <1>0
<1>2. PICK d \in T : \A m \in T : d <= m
  BY <1>1, Least
<1>3. PICK x \in S : d = n - x
  OBVIOUS
<1>4. \A y \in S : y <= x
  <2> SUFFICES ASSUME NEW y \in S PROVE y <= x
    OBVIOUS
  <2>1. d <= n - y
    BY <1>2
  <2> QED BY <1>3, <2>1
<1>5. S \subseteq Int
  OBVIOUS
<1> HIDE DEF T
<1>6. Max(S) = x
  BY <1>4, <1>5, MaxIsTop
<1> QED BY <1>4, <1>6

\* The recursion over sets that a fold is defined by, and that it has a solution.
Solves(it, n, X, base, step) ==
  /\ it \in [SUBSET (1..n) -> X]
  /\ \A s \in SUBSET (1..n) : it[s] = IF s = {} THEN base ELSE step[Max(s)][it[s \ {Max(s)}]]

LEMMA RecursionExists ==
  ASSUME NEW n \in Nat, NEW X, NEW base \in X, NEW step \in [1..n -> [X -> X]]
  PROVE  \E it : Solves(it, n, X, base, step)
<1> DEFINE Good(k) == \E it \in [SUBSET (1..k) -> X] : \A s \in SUBSET (1..k) :
                        it[s] = IF s = {} THEN base ELSE step[Max(s)][it[s \ {Max(s)}]]
           G == {k \in 0..n : Good(k)}
<1>1. Good(0)
  <2> DEFINE it == [s \in SUBSET (1..0) |-> base]
  <2>1. it \in [SUBSET (1..0) -> X] /\ \A s \in SUBSET (1..0) : s = {}
    OBVIOUS
  <2> QED BY <2>1
<1>2. ASSUME NEW k \in 1..n, Good(k - 1) PROVE Good(k)
  <2>1. PICK old \in [SUBSET (1..k - 1) -> X] : \A s \in SUBSET (1..k - 1) :
               old[s] = IF s = {} THEN base ELSE step[Max(s)][old[s \ {Max(s)}]]
    BY <1>2
  <2> DEFINE it == [s \in SUBSET (1..k) |-> IF k \in s THEN step[k][old[s \ {k}]] ELSE old[s]]
  <2>2. \A s \in SUBSET (1..k) : s \ {k} \in SUBSET (1..k - 1)
    OBVIOUS
  <2>3. \A s \in SUBSET (1..k) : k \notin s => s \in SUBSET (1..k - 1)
    OBVIOUS
  <2>4. it \in [SUBSET (1..k) -> X]
    <3> SUFFICES ASSUME NEW s \in SUBSET (1..k)
                 PROVE  (IF k \in s THEN step[k][old[s \ {k}]] ELSE old[s]) \in X
      OBVIOUS
    <3>1. CASE k \in s
      <4>1. old[s \ {k}] \in X
        BY <2>2
      <4> QED BY <3>1, <4>1
    <3>2. CASE k \notin s
      BY <3>2, <2>3
    <3> QED BY <3>1, <3>2
  <2>5. ASSUME NEW s \in SUBSET (1..k)
        PROVE  it[s] = IF s = {} THEN base ELSE step[Max(s)][it[s \ {Max(s)}]]
    <3>1. CASE k \in s
      <4>1. Max(s) = k
        <5>1. s \in SUBSET Int /\ \A y \in s : y <= k
          OBVIOUS
        <5> QED BY <3>1, <5>1, MaxIsTop
      <4>2. s \ {k} \in SUBSET (1..k) /\ it[s \ {k}] = old[s \ {k}]
        OBVIOUS
      <4> QED BY <3>1, <4>1, <4>2
    <3>2. CASE k \notin s
      <4>1. s \in SUBSET (1..k - 1) /\ it[s] = old[s]
        BY <3>2, <2>3
      <4>2. CASE s = {}
        BY <4>1, <4>2, <2>1
      <4>3. CASE s # {}
        <5>0. k - 1 \in Nat
          OBVIOUS
        <5>1. Max(s) \in s
          BY <4>1, <4>3, <5>0, MaxExists
        <5>2. s \ {Max(s)} \in SUBSET (1..k - 1) /\ k \notin s \ {Max(s)}
          BY <4>1, <3>2
        <5>3. it[s \ {Max(s)}] = old[s \ {Max(s)}]
          BY <5>2
        <5> HIDE DEF it
        <5> QED BY <4>1, <4>3, <5>3, <2>1
      <4> QED BY <4>2, <4>3
    <3> QED BY <3>1, <3>2
  <2> HIDE DEF it
  <2> QED BY <2>4, <2>5
<1> HIDE DEF Good
<1>3. 0 \in G
  BY <1>1
<1>4. \A k \in 1..n : k - 1 \in G => k \in G
  BY <1>2
<1> HIDE DEF G
<1>5. 0..n \subseteq G
  BY <1>3, <1>4, Steps
<1>6. n \in G
  BY <1>5
<1> QED BY <1>6 DEF G, Good, Solves

\* What is below the top of an interval.
LEMMA TopOfInterval ==
  ASSUME NEW k \in Nat \ {0}
  PROVE  Max(1..k) = k /\ (1..k) \ {k} = 1..k - 1 /\ 1..k # {}
<1>1. 1..k \in SUBSET Int /\ k \in 1..k /\ \A y \in 1..k : y <= k
  OBVIOUS
<1>2. Max(1..k) = k
  BY <1>1, MaxIsTop
<1>3. \A x \in Int : x \in (1..k) \ {k} <=> x \in 1..k - 1
  OBVIOUS
<1> QED BY <1>1, <1>2, <1>3

-----------------------------------------------------------------------------
(* The height of a stack.                                                    *)

Total(chunk, heights) == FoldLeft(LAMBDA sum, i : sum + heights[i], 0, chunk)

\* The sums of the heights of the first k of a sequence.
Sums(H, n, chunk, heights) ==
  H \in [0..n -> Nat] /\ H[0] = 0 /\ \A k \in 1..n : H[k] = H[k - 1] + heights[chunk[k]]

LEMMA SumsExist ==
  ASSUME NEW n \in Nat, NEW chunk, DOMAIN chunk = 1..n, NEW heights, \A k \in 1..n : heights[chunk[k]] \in Nat
  PROVE  \E H : Sums(H, n, chunk, heights) /\ Total(chunk, heights) = H[n]
<1> DEFINE Eq(it) == it = [s \in SUBSET (1..n) |-> IF s = {} THEN 0
                                                   ELSE it[s \ {Max(s)}] + heights[chunk[Max(s)]]]
           step == [k \in 1..n |-> [x \in Nat |-> x + heights[chunk[k]]]]
           sums == CHOOSE it : Eq(it)
           H == [k \in 0..n |-> sums[1..k]]
<1>1. \E it : Eq(it)
  <2>1. step \in [1..n -> [Nat -> Nat]] /\ 0 \in Nat
    OBVIOUS
  <2> HIDE DEF step
  <2>2. PICK it : Solves(it, n, Nat, 0, step)
    BY <2>1, RecursionExists
  <2>3. \A s \in SUBSET (1..n) : s # {} => /\ Max(s) \in 1..n /\ it[s \ {Max(s)}] \in Nat
                                          /\ it[s] = it[s \ {Max(s)}] + heights[chunk[Max(s)]]
    BY <2>2, MaxExists DEF step, Solves
  <2>4. \A s \in SUBSET (1..n) : it[s] = IF s = {} THEN 0 ELSE it[s \ {Max(s)}] + heights[chunk[Max(s)]]
    BY <2>2, <2>3 DEF Solves
  <2>5. it = [s \in SUBSET (1..n) |-> IF s = {} THEN 0 ELSE it[s \ {Max(s)}] + heights[chunk[Max(s)]]]
    BY <2>2, <2>4 DEF Solves
  <2> QED BY <2>5
<1>2. Eq(sums)
  BY <1>1
<1>3. Total(chunk, heights) = sums[1..n]
  BY DEF Total, FoldLeft, MapThenFoldSet
<1> HIDE DEF sums
<1>4. \A s \in SUBSET (1..n) : sums[s] = IF s = {} THEN 0 ELSE sums[s \ {Max(s)}] + heights[chunk[Max(s)]]
  BY <1>2
<1>5. H[0] = 0 /\ \A k \in 1..n : H[k] = H[k - 1] + heights[chunk[k]]
  <2>1. 1..0 = {} /\ {} \in SUBSET (1..n) /\ H[0] = sums[1..0]
    OBVIOUS
  <2>2. H[0] = 0
    BY <1>4, <2>1
  <2>3. ASSUME NEW k \in 1..n PROVE H[k] = H[k - 1] + heights[chunk[k]]
    <3>1. Max(1..k) = k /\ (1..k) \ {k} = 1..k - 1 /\ 1..k # {}
      <4>1. k \in Nat \ {0}
        OBVIOUS
      <4> QED BY <4>1, TopOfInterval
    <3>2. 1..k \in SUBSET (1..n) /\ H[k] = sums[1..k] /\ H[k - 1] = sums[1..k - 1]
      OBVIOUS
    <3> QED BY <1>4, <3>1, <3>2
  <2> QED BY <2>2, <2>3
<1>6. H \in [0..n -> Nat]
  <2> DEFINE G == {k \in 0..n : H[k] \in Nat}
  <2> HIDE DEF H
  <2>1. 0 \in G /\ \A k \in 1..n : k - 1 \in G => k \in G
    BY <1>5
  <2> HIDE DEF G
  <2>2. \A k \in 0..n : k \in G
    BY <2>1, Steps
  <2>3. \A k \in 0..n : H[k] \in Nat
    BY <2>2 DEF G
  <2> QED BY <2>3 DEF H
<1>7. H[n] = sums[1..n]
  OBVIOUS
<1> HIDE DEF H
<1> QED BY <1>3, <1>5, <1>6, <1>7 DEF Sums

LEMMA SumsGrow ==
  ASSUME NEW n \in Nat, NEW chunk, NEW heights, NEW H, Sums(H, n, chunk, heights),
         \A k \in 1..n : heights[chunk[k]] \in Nat,
         NEW a \in 0..n, NEW b \in a..n
  PROVE  H[a] <= H[b]
<1> DEFINE G == {k \in 0..n - a : H[a] <= H[a + k]}
<1>1. n - a \in Nat /\ 0 \in G
  BY DEF Sums
<1>2. ASSUME NEW k \in 1..n - a, k - 1 \in G PROVE k \in G
  <2>1. a + k \in 1..n /\ a + k - 1 \in 0..n /\ H[a] <= H[a + k - 1]
    BY <1>2
  <2>2. H[a + k] = H[a + k - 1] + heights[chunk[a + k]]
    BY <2>1 DEF Sums
  <2> QED BY <2>1, <2>2 DEF Sums
<1> HIDE DEF G
<1>3. 0..n - a \subseteq G
  BY <1>1, <1>2, Steps
<1>4. b - a \in 0..n - a
  OBVIOUS
<1>5. b - a \in G
  BY <1>3, <1>4
<1> QED BY <1>5 DEF G

\* A stack of neighbours: the difference of two sums, and a gap between each two.
Stacked(H, n, s, heights, gap) ==
  \A a \in 0..n : \A b \in a + 1..n :
    ChunkStackHeight(SubSeq(s, a + 1, b), heights, gap) = H[b] - H[a] + gap * (b - a - 1)

LEMMA StackOfNeighbours ==
  ASSUME NEW n \in Nat, NEW s \in Seq(Nat), Len(s) = n, NEW heights,
         \A k \in 1..n : heights[s[k]] \in Nat, NEW gap \in Nat,
         NEW H, Sums(H, n, s, heights)
  PROVE  Stacked(H, n, s, heights, gap)
<1> SUFFICES ASSUME NEW a \in 0..n, NEW b \in a + 1..n
             PROVE  ChunkStackHeight(SubSeq(s, a + 1, b), heights, gap) = H[b] - H[a] + gap * (b - a - 1)
  BY DEF Stacked
<1> DEFINE c == SubSeq(s, a + 1, b)
<1>0. PICK m \in Nat \ {0} : m = b - a
  OBVIOUS
<1>1. m \in Nat \ {0} /\ c \in Seq(Nat) /\ Len(c) = m /\ DOMAIN c = 1..m /\ \A k \in 1..m : c[k] = s[a + k]
  BY <1>0, SubSeqProperties
<1> HIDE DEF c
<1>2. \A k \in 1..m : a + k \in 1..n /\ heights[c[k]] = heights[s[a + k]] /\ heights[s[a + k]] \in Nat
  BY <1>0, <1>1
<1>3. PICK F : Sums(F, m, c, heights) /\ Total(c, heights) = F[m]
  <2>1. \A k \in 1..m : heights[c[k]] \in Nat
    BY <1>2
  <2>2. m \in Nat /\ DOMAIN c = 1..m
    BY <1>1
  <2> QED BY <2>1, <2>2, SumsExist
<1>4. F[m] = H[b] - H[a]
  <2> DEFINE G == {k \in 0..m : F[k] = H[a + k] - H[a]}
  <2>0. H[a] \in Nat /\ F[0] = 0
    BY <1>3 DEF Sums
  <2>1. 0 \in G
    BY <1>0, <2>0
  <2>2. ASSUME NEW k \in 1..m, k - 1 \in G PROVE k \in G
    <3>1. F[k - 1] = H[a + k - 1] - H[a] /\ F[k] = F[k - 1] + heights[c[k]]
      <4>1. F[k - 1] = H[a + (k - 1)] - H[a]
        BY <2>2
      <4>2. a + (k - 1) = a + k - 1
        OBVIOUS
      <4>3. F[k] = F[k - 1] + heights[c[k]]
        BY <1>3 DEF Sums
      <4>4. H[a + (k - 1)] = H[a + k - 1]
        BY <4>2
      <4> QED BY <4>1, <4>3, <4>4
    <3>2. H[a + k] = H[a + k - 1] + heights[s[a + k]]
      <4>1. \A i \in 1..n : H[i] = H[i - 1] + heights[s[i]]
        BY DEF Sums
      <4>2. a + k \in 1..n
        BY <1>2
      <4> QED BY SMTT(30), <4>1, <4>2
    <3>3. H[a + k - 1] \in Nat /\ H[a] \in Nat /\ H[a + k] \in Nat /\ heights[s[a + k]] \in Nat
      <4>1. a + k \in 0..n /\ a + k - 1 \in 0..n
        BY <1>2
      <4> QED BY <1>2, <4>1 DEF Sums
    <3> QED BY SMTT(30), <1>2, <3>1, <3>2, <3>3
  <2> HIDE DEF G
  <2>3. 0..m \subseteq G
    BY <1>1, <2>1, <2>2, Steps
  <2>4. m \in G
    BY <1>1, <2>3
  <2>5. F[m] = H[a + m] - H[a]
    BY <2>4 DEF G
  <2> QED BY <1>0, <2>5
<1>5. Max({Len(c) - 1, 0}) = b - a - 1
  <2>1. {Len(c) - 1, 0} \in SUBSET Int /\ \A y \in {Len(c) - 1, 0} : y <= b - a - 1
    BY <1>0, <1>1
  <2> QED BY <1>0, <1>1, <2>1, MaxIsTop
<1> QED BY <1>3, <1>4, <1>5 DEF ChunkStackHeight, Total, c

\* Along the intervals from 1 a solution runs through the steps.
Follows(f, n, X, base, step) ==
  f \in [0..n -> X] /\ f[0] = base /\ \A k \in 1..n : f[k] = step[k][f[k - 1]]
OnIntervals(it, n, X, base, step) ==
  it[{}] = base /\ \A k \in 1..n : it[1..k - 1] \in X => it[1..k] = step[k][it[1..k - 1]]

LEMMA RunExists ==
  ASSUME NEW n \in Nat, NEW X, NEW base \in X, NEW step \in [1..n -> [X -> X]], NEW it,
         OnIntervals(it, n, X, base, step)
  PROVE  \E f : Follows(f, n, X, base, step) /\ f[n] = it[1..n]
<1> DEFINE f == [k \in 0..n |-> it[1..k]]
           G == {k \in 0..n : it[1..k] \in X}
<1>1. 1..0 = {}
  OBVIOUS
<1> USE DEF OnIntervals
<1>2. 0 \in G
  BY <1>1
<1>3. \A k \in 1..n : k - 1 \in G => k \in G
  OBVIOUS
<1> HIDE DEF G
<1>4. 0..n \subseteq G
  BY <1>2, <1>3, Steps
<1>5. \A k \in 0..n : it[1..k] \in X
  BY <1>4 DEF G
<1>6. f \in [0..n -> X] /\ f[0] = base /\ f[n] = it[1..n]
  BY <1>1, <1>5
<1>7. \A k \in 1..n : f[k] = step[k][f[k - 1]]
  <2> SUFFICES ASSUME NEW k \in 1..n PROVE f[k] = step[k][f[k - 1]]
    OBVIOUS
  <2>1. k \in 0..n /\ k - 1 \in 0..n
    OBVIOUS
  <2>2. f[k] = it[1..k] /\ f[k - 1] = it[1..k - 1]
    BY <2>1
  <2> QED BY <1>5, <2>1, <2>2
<1> HIDE DEF f
<1> QED BY <1>6, <1>7 DEF Follows

-----------------------------------------------------------------------------
(* The division into pages.                                                  *)

States == [chunks : Seq(Seq(Nat)), current : Seq(Nat)]
Blank  == [chunks |-> <<>>, current |-> <<>>]

\* The states the loop of page_chunks runs through.
DividesAlong(f, n, s, heights, gap, brks, max) ==
  /\ f \in [0..n -> States] /\ f[0] = Blank
  /\ \A k \in 1..n : f[k] = Place(f[k - 1], k, s, heights, gap, brks, max)
  /\ Divide(s, heights, gap, brks, max)
       = IF f[n].current = <<>> THEN f[n].chunks ELSE Append(f[n].chunks, f[n].current)

LEMMA DivideRuns ==
  ASSUME NEW n \in Nat, NEW s \in Seq(Nat), Len(s) = n, NEW heights, NEW gap, NEW brks, NEW max
  PROVE  \E f : DividesAlong(f, n, s, heights, gap, brks, max)
<1> DEFINE Pl(x, k) == Place(x, k, s, heights, gap, brks, max)
           ids == [i \in DOMAIN s |-> i]
           Eq(it) == it = [S \in SUBSET DOMAIN ids |-> IF S = {} THEN Blank
                                                       ELSE Pl(it[S \ {Max(S)}], ids[Max(S)])]
           step == [k \in 1..n |-> [x \in States |-> Pl(x, k)]]
           end == CHOOSE it : Eq(it)
<1>1. Blank \in States /\ \A k \in 1..n : \A x \in States : Pl(x, k) \in States
  <2>1. Blank \in States
    BY EmptySeq DEF Blank, States
  <2>2. ASSUME NEW k \in 1..n, NEW x \in States PROVE Pl(x, k) \in States
    <3>1. s[k] \in Nat /\ <<s[k]>> \in Seq(Nat) /\ <<>> \in Seq(Nat)
      BY ElementOfSeq
    <3>2. Append(x.chunks, x.current) \in Seq(Seq(Nat)) /\ x.chunks \in Seq(Seq(Nat)) /\ x.current \in Seq(Nat)
      BY AppendProperties DEF States
    <3>3. \A c \in Seq(Nat) : Append(c, s[k]) \in Seq(Nat)
      BY <3>1, AppendProperties
    <3>4. \A C \in Seq(Seq(Nat)), c \in Seq(Nat) : Append(C, c) \in Seq(Seq(Nat))
      BY AppendProperties
    <3> DEFINE broken == BreakAfterPrevious(k - 1, brks, x.current)
               chunks == IF broken THEN Append(x.chunks, x.current) ELSE x.chunks
               current == IF broken THEN <<>> ELSE x.current
    <3>5. chunks \in Seq(Seq(Nat)) /\ current \in Seq(Nat)
      BY <3>1, <3>2
    <3>6. Pl(x, k) = IF Fits(current, s[k], heights, gap, max)
                     THEN [chunks |-> chunks, current |-> Append(current, s[k])]
                     ELSE [chunks |-> Append(chunks, current), current |-> <<s[k]>>]
      BY DEF Place
    <3> HIDE DEF chunks, current, Pl
    <3>7. [chunks |-> chunks, current |-> Append(current, s[k])] \in States
          /\ [chunks |-> Append(chunks, current), current |-> <<s[k]>>] \in States
      BY <3>1, <3>3, <3>4, <3>5 DEF States
    <3> QED BY <3>6, <3>7
  <2> QED BY <2>1, <2>2
<1>2. DOMAIN s = 1..n /\ DOMAIN ids = 1..n /\ \A i \in 1..n : ids[i] = i
  BY LenProperties
<1>3. Divide(s, heights, gap, brks, max)
        = IF end[1..n].current = <<>> THEN end[1..n].chunks ELSE Append(end[1..n].chunks, end[1..n].current)
  <2> DEFINE fold == FoldLeft(LAMBDA done, k : Place(done, k, s, heights, gap, brks, max), Blank, ids)
  <2>1. Divide(s, heights, gap, brks, max)
          = IF fold.current = <<>> THEN fold.chunks ELSE Append(fold.chunks, fold.current)
    BY DEF Divide, FoldLeftDomain, Blank
  <2>2. fold = end[DOMAIN ids]
    BY DEF FoldLeft, MapThenFoldSet
  <2> HIDE DEF end, fold
  <2> QED BY <1>2, <2>1, <2>2
<1> HIDE DEF Pl
<1>4. Eq(end)
  <2>1. step \in [1..n -> [States -> States]]
    BY <1>1
  <2> HIDE DEF step
  <2>2. PICK it : Solves(it, n, States, Blank, step)
    BY <1>1, <2>1, RecursionExists
  <2>3. it = [S \in SUBSET (1..n) |-> IF S = {} THEN Blank ELSE step[Max(S)][it[S \ {Max(S)}]]]
    BY <2>2 DEF Solves
  <2>4. \A S \in SUBSET (1..n) : S # {} => step[Max(S)][it[S \ {Max(S)}]] = Pl(it[S \ {Max(S)}], ids[Max(S)])
    <3> SUFFICES ASSUME NEW S \in SUBSET (1..n), S # {}
                 PROVE  step[Max(S)][it[S \ {Max(S)}]] = Pl(it[S \ {Max(S)}], ids[Max(S)])
      OBVIOUS
    <3>1. Max(S) \in 1..n /\ S \ {Max(S)} \in SUBSET (1..n)
      BY MaxExists
    <3>2. it[S \ {Max(S)}] \in States /\ ids[Max(S)] = Max(S)
      BY <1>2, <2>2, <3>1 DEF Solves
    <3> HIDE DEF ids
    <3> QED BY <3>1, <3>2 DEF step
  <2> HIDE DEF ids
  <2>5. Eq(it)
    BY <1>2, <2>3, <2>4
  <2> QED BY <2>5
<1>5. \A S \in SUBSET (1..n) : end[S] = IF S = {} THEN Blank ELSE Pl(end[S \ {Max(S)}], ids[Max(S)])
  <2> HIDE DEF end, ids
  <2> QED BY <1>2, <1>4
<1> HIDE DEF end
<1>6. \A k \in 1..n : end[1..k] = Pl(end[1..k - 1], k)
  <2> SUFFICES ASSUME NEW k \in 1..n PROVE end[1..k] = Pl(end[1..k - 1], k)
    OBVIOUS
  <2>1. k \in Nat \ {0} /\ 1..k \in SUBSET (1..n)
    OBVIOUS
  <2>2. Max(1..k) = k /\ (1..k) \ {k} = 1..k - 1 /\ 1..k # {}
    BY <2>1, TopOfInterval
  <2> HIDE DEF ids
  <2> QED BY <1>2, <1>5, <2>1, <2>2
<1>7. PICK f : Follows(f, n, States, Blank, step) /\ f[n] = end[1..n]
  <2>1. step \in [1..n -> [States -> States]]
    BY <1>1
  <2>2. end[{}] = Blank
    BY <1>5
  <2>3. \A k \in 1..n : end[1..k - 1] \in States => end[1..k] = step[k][end[1..k - 1]]
    BY <1>6
  <2> HIDE DEF step
  <2>4. OnIntervals(end, n, States, Blank, step)
    BY <2>2, <2>3 DEF OnIntervals
  <2> QED BY <1>1, <2>1, <2>4, RunExists
<1>8. \A k \in 1..n : f[k] = Pl(f[k - 1], k)
  <2> SUFFICES ASSUME NEW k \in 1..n PROVE f[k] = Pl(f[k - 1], k)
    OBVIOUS
  <2>1. f[k - 1] \in States
    BY <1>7 DEF Follows
  <2> QED BY <1>7, <2>1 DEF Follows
<1>9. DividesAlong(f, n, s, heights, gap, brks, max)
  BY <1>3, <1>7, <1>8 DEF Pl, Follows, DividesAlong
<1> QED BY <1>9


\* Pages C of the first k segments, the j-th ending after the e[j]-th: in order, with no
\* gap, none empty, none too high, each ended by a break or by a segment that is too much.
Division(C, e, k, s, heights, gap, brks, max) ==
  /\ C \in Seq(Seq(Nat)) /\ Len(C) >= 1
  /\ e \in [0..Len(C) -> 0..k] /\ e[0] = 0 /\ e[Len(C)] = k
  /\ \A j \in 1..Len(C) : e[j - 1] < e[j] /\ C[j] = SubSeq(s, e[j - 1] + 1, e[j])
  /\ \A j \in 1..Len(C) : e[j] = e[j - 1] + 1 \/ ChunkStackHeight(C[j], heights, gap) <= max
  /\ \A j \in 1..Len(C) - 1 :
       e[j] - 1 \in brks \/ ~(ChunkStackHeight(SubSeq(s, e[j - 1] + 1, e[j] + 1), heights, gap) <= max)
  /\ \A b \in 1..k - 1 : b - 1 \in brks => \E j \in 1..Len(C) - 1 : e[j] = b

LEMMA AppendNeighbour ==
  ASSUME NEW s \in Seq(Nat), NEW a \in 0..Len(s), NEW k \in a + 1..Len(s)
  PROVE  /\ Append(SubSeq(s, a + 1, k - 1), s[k]) = SubSeq(s, a + 1, k)
         /\ <<s[k]>> = SubSeq(s, k, k) /\ <<s[k]>> \in Seq(Nat)
         /\ SubSeq(s, a + 1, k) \in Seq(Nat) /\ Len(SubSeq(s, a + 1, k)) = k - a
<1>1. Len(s) \in Nat /\ \A i \in 1..Len(s) : s[i] \in Nat
  BY LenProperties, ElementOfSeq
<1>2. SubSeq(s, a + 1, k) \in Seq(Nat) /\ Len(SubSeq(s, a + 1, k)) = k - a
      /\ \A i \in 1..k - a : SubSeq(s, a + 1, k)[i] = s[a + i]
  <2>1. a + 1 \in Int /\ k \in Int /\ \A i \in a + 1..k : s[i] \in Nat
    BY <1>1
  <2>2. /\ SubSeq(s, a + 1, k) \in Seq(Nat)
        /\ Len(SubSeq(s, a + 1, k)) = IF a + 1 <= k THEN k - (a + 1) + 1 ELSE 0
        /\ \A i \in 1..k - (a + 1) + 1 : SubSeq(s, a + 1, k)[i] = s[a + 1 + i - 1]
    BY <2>1, SubSeqProperties
  <2>3. k - (a + 1) + 1 = k - a /\ a + 1 <= k /\ \A i \in 1..k - a : a + 1 + i - 1 = a + i
    BY <1>1
  <2> QED BY <2>2, <2>3
<1>3. SubSeq(s, a + 1, k - 1) \in Seq(Nat) /\ Len(SubSeq(s, a + 1, k - 1)) = k - 1 - a
      /\ \A i \in 1..k - 1 - a : SubSeq(s, a + 1, k - 1)[i] = s[a + i]
  <2>0. PICK r \in Int : r = k - 1
    BY <1>1
  <2>1. a + 1 \in Int /\ \A i \in a + 1..r : s[i] \in Nat
    BY <1>1, <2>0
  <2>2. /\ SubSeq(s, a + 1, r) \in Seq(Nat)
        /\ Len(SubSeq(s, a + 1, r)) = IF a + 1 <= r THEN r - (a + 1) + 1 ELSE 0
        /\ \A i \in 1..r - (a + 1) + 1 : SubSeq(s, a + 1, r)[i] = s[a + 1 + i - 1]
    BY SMTT(30), <2>1, SubSeqProperties
  <2>3. r - (a + 1) + 1 = r - a /\ (~(a + 1 <= r) => r - a = 0)
        /\ \A i \in 1..r - a : a + 1 + i - 1 = a + i
    BY <1>1, <2>0
  <2> QED BY <2>0, <2>2, <2>3
<1> DEFINE c == SubSeq(s, a + 1, k - 1)
           d == SubSeq(s, a + 1, k)
<1>4. s[k] \in Nat
  BY <1>1
<1>5. Append(c, s[k]) \in Seq(Nat) /\ Len(Append(c, s[k])) = k - a
      /\ (\A i \in 1..k - 1 - a : Append(c, s[k])[i] = c[i]) /\ Append(c, s[k])[k - a] = s[k]
  <2> HIDE DEF c
  <2>1. /\ Append(c, s[k]) \in Seq(Nat) /\ Len(Append(c, s[k])) = Len(c) + 1
        /\ \A i \in 1..Len(c) : Append(c, s[k])[i] = c[i]
        /\ Append(c, s[k])[Len(c) + 1] = s[k]
    BY <1>3, <1>4, AppendProperties DEF c
  <2>2. Len(c) = k - 1 - a /\ Len(c) + 1 = k - a
    BY <1>1, <1>3 DEF c
  <2> QED BY <2>1, <2>2
<1>6. \A i \in 1..k - a : Append(c, s[k])[i] = d[i]
  <2> SUFFICES ASSUME NEW i \in 1..k - a PROVE Append(c, s[k])[i] = d[i]
    OBVIOUS
  <2>1. CASE i = k - a
    <3>1. a + i = k
      BY <1>1, <2>1
    <3> HIDE DEF c
    <3> QED BY <1>2, <1>5, <2>1, <3>1
  <2>2. CASE i # k - a
    <3>1. i \in 1..k - 1 - a
      BY <1>1, <2>2
    <3> QED BY <1>2, <1>3, <1>5, <3>1
  <2> QED BY <2>1, <2>2
<1>7. Append(c, s[k]) = d
  <2>1. Len(Append(c, s[k])) = Len(d) /\ \A i \in 1..Len(Append(c, s[k])) : Append(c, s[k])[i] = d[i]
    BY <1>2, <1>5, <1>6
  <2> HIDE DEF c
  <2> QED BY <1>2, <1>5, <2>1, SeqEqual
<1>8. <<s[k]>> = SubSeq(s, k, k) /\ <<s[k]>> \in Seq(Nat)
  <2>1. k \in Int /\ \A i \in k..k : s[i] \in Nat
    BY <1>1
  <2>2. /\ SubSeq(s, k, k) \in Seq(Nat) /\ Len(SubSeq(s, k, k)) = IF k <= k THEN k - k + 1 ELSE 0
        /\ \A i \in 1..k - k + 1 : SubSeq(s, k, k)[i] = s[k + i - 1]
    BY <2>1, SubSeqProperties
  <2>3. Len(SubSeq(s, k, k)) = 1 /\ SubSeq(s, k, k)[1] = s[k]
    <3>1. k - k + 1 = 1 /\ k + 1 - 1 = k
      BY <2>1
    <3> QED BY <2>2, <3>1
  <2>4. <<s[k]>> \in Seq(Nat) /\ Len(<<s[k]>>) = 1 /\ <<s[k]>>[1] = s[k]
    BY <1>4
  <2>5. \A i \in 1..1 : i = 1
    OBVIOUS
  <2> QED BY <2>2, <2>3, <2>4, <2>5, SeqEqual
<1> QED BY <1>2, <1>7, <1>8

\* The segment begins a page: after a break, or because it is too much for the last one.
LEMMA NextChunk ==
  ASSUME NEW s \in Seq(Nat), NEW heights, NEW gap, NEW brks, NEW max, NEW k \in 2..Len(s), NEW C, NEW e,
         Division(C, e, k - 1, s, heights, gap, brks, max),
         \/ k - 2 \in brks
         \/ ~(ChunkStackHeight(SubSeq(s, e[Len(C) - 1] + 1, k), heights, gap) <= max)
  PROVE  \E d : Division(Append(C, <<s[k]>>), d, k, s, heights, gap, brks, max)
<1> DEFINE D == Append(C, <<s[k]>>)
<1>0. PICK L \in Nat : L = Len(C) /\ L >= 1
  BY LenProperties DEF Division
<1> DEFINE d == [j \in 0..L + 1 |-> IF j = L + 1 THEN k ELSE e[j]]
<1>1. Len(s) \in Nat /\ k - 1 \in Nat
  BY LenProperties
<1>2. <<s[k]>> = SubSeq(s, k, k) /\ <<s[k]>> \in Seq(Nat)
  <2>1. k - 1 \in 0..Len(s) /\ k \in k - 1 + 1..Len(s)
    BY <1>1
  <2> QED BY <2>1, AppendNeighbour
<1>3. D \in Seq(Seq(Nat)) /\ Len(D) = L + 1 /\ (\A j \in 1..L : D[j] = C[j]) /\ D[L + 1] = SubSeq(s, k, k)
  <2>1. C \in Seq(Seq(Nat))
    BY DEF Division
  <2> QED BY <1>0, <1>2, <2>1, AppendProperties
<1>4. e \in [0..L -> 0..k - 1] /\ e[0] = 0 /\ e[L] = k - 1
  BY <1>0 DEF Division
<1>5. d \in [0..L + 1 -> 0..k] /\ d[0] = 0 /\ d[L + 1] = k /\ \A j \in 0..L : d[j] = e[j]
  <2>0. 0..k - 1 \subseteq 0..k
    BY <1>1
  <2>1. \A j \in 0..L : j # L + 1 /\ j \in 0..L + 1 /\ e[j] \in 0..k
    <3>1. \A j \in 0..L : j # L + 1 /\ j \in 0..L + 1
      BY <1>0
    <3>2. \A j \in 0..L : e[j] \in 0..k
      BY <1>4, <2>0
    <3> QED BY <3>1, <3>2
  <2>2. \A j \in 0..L + 1 : j # L + 1 => j \in 0..L
    BY <1>0
  <2>3. k \in 0..k /\ L + 1 \in 0..L + 1 /\ 0 \in 0..L
    BY <1>0, <1>1
  <2> QED BY <1>4, <2>1, <2>2, <2>3
<1> HIDE DEF d, D
<1>6. \A j \in 1..L : j \in 0..L /\ j - 1 \in 0..L /\ j \in 1..L + 1
  BY <1>0
<1>7. \A j \in 1..L + 1 : j = L + 1 \/ j \in 1..L
  BY <1>0
<1>8. L + 1 - 1 = L /\ L \in 0..L /\ L \in 1..L
  BY <1>0
<1>9. ASSUME NEW j \in 1..L + 1
      PROVE  d[j - 1] < d[j] /\ D[j] = SubSeq(s, d[j - 1] + 1, d[j])
             /\ (d[j] = d[j - 1] + 1 \/ ChunkStackHeight(D[j], heights, gap) <= max)
  <2>1. CASE j = L + 1
    <3>1. d[j] = k /\ d[j - 1] = k - 1
      BY <1>4, <1>5, <1>8, <2>1
    <3>2. k - 1 < k /\ k - 1 + 1 = k
      BY <1>1
    <3> QED BY <1>3, <2>1, <3>1, <3>2
  <2>2. CASE j \in 1..L
    <3>1. d[j] = e[j] /\ d[j - 1] = e[j - 1] /\ D[j] = C[j]
      BY <1>3, <1>5, <1>6, <2>2
    <3>2. e[j - 1] < e[j] /\ C[j] = SubSeq(s, e[j - 1] + 1, e[j])
          /\ (e[j] = e[j - 1] + 1 \/ ChunkStackHeight(C[j], heights, gap) <= max)
      BY <1>0, <2>2 DEF Division
    <3> QED BY <3>1, <3>2
  <2> QED BY <1>7, <2>1, <2>2
<1>10. ASSUME NEW j \in 1..L
       PROVE  d[j] - 1 \in brks
              \/ ~(ChunkStackHeight(SubSeq(s, d[j - 1] + 1, d[j] + 1), heights, gap) <= max)
  <2>1. d[j] = e[j] /\ d[j - 1] = e[j - 1]
    BY <1>5, <1>6
  <2>2. CASE j = L
    <3>1. d[j] = k - 1 /\ k - 1 - 1 = k - 2 /\ k - 1 + 1 = k
      BY <1>1, <1>4, <2>1, <2>2
    <3> QED BY <1>0, <2>1, <2>2, <3>1
  <2>3. CASE j # L
    <3>1. j \in 1..L - 1
      BY <1>0, <2>3
    <3>2. \A i \in 1..L - 1 : e[i] - 1 \in brks
             \/ ~(ChunkStackHeight(SubSeq(s, e[i - 1] + 1, e[i] + 1), heights, gap) <= max)
      BY <1>0 DEF Division
    <3> QED BY <2>1, <3>1, <3>2
  <2> QED BY <2>2, <2>3
<1>11. ASSUME NEW b \in 1..k - 1, b - 1 \in brks
       PROVE  \E j \in 1..L : d[j] = b
  <2>1. CASE b = k - 1
    BY <1>4, <1>5, <1>8, <2>1
  <2>2. CASE b # k - 1
    <3>1. b \in 1..k - 1 - 1
      BY <1>1, <2>2
    <3>2. PICK j \in 1..L - 1 : e[j] = b
      BY <1>0, <1>11, <3>1 DEF Division
    <3>3. j \in 1..L
      BY <1>0
    <3> QED BY <1>5, <1>6, <3>2, <3>3
  <2> QED BY <2>1, <2>2
<1>12. Len(D) = L + 1 /\ Len(D) - 1 = L /\ Len(D) >= 1
  BY <1>0, <1>3
<1>13. D \in Seq(Seq(Nat)) /\ d \in [0..Len(D) -> 0..k] /\ d[0] = 0 /\ d[Len(D)] = k
  BY <1>3, <1>5, <1>12
<1>14. \A j \in 1..Len(D) : d[j - 1] < d[j] /\ D[j] = SubSeq(s, d[j - 1] + 1, d[j])
  BY <1>9, <1>12
<1>15. \A j \in 1..Len(D) : d[j] = d[j - 1] + 1 \/ ChunkStackHeight(D[j], heights, gap) <= max
  BY <1>9, <1>12
<1>16. \A j \in 1..Len(D) - 1 : d[j] - 1 \in brks
          \/ ~(ChunkStackHeight(SubSeq(s, d[j - 1] + 1, d[j] + 1), heights, gap) <= max)
  BY <1>10, <1>12
<1>17. \A b \in 1..k - 1 : b - 1 \in brks => \E j \in 1..Len(D) - 1 : d[j] = b
  BY <1>11, <1>12
<1>18. Division(D, d, k, s, heights, gap, brks, max)
  BY <1>12, <1>13, <1>14, <1>15, <1>16, <1>17 DEF Division
<1> QED BY <1>18 DEF D

\* The segment joins the last page.
LEMMA SameChunk ==
  ASSUME NEW s \in Seq(Nat), NEW heights, NEW gap, NEW brks, NEW max, NEW k \in 2..Len(s), NEW C, NEW e,
         Division(C, e, k - 1, s, heights, gap, brks, max), NEW D, D \in Seq(Seq(Nat)), Len(D) = Len(C),
         \A j \in 1..Len(C) - 1 : D[j] = C[j],
         D[Len(C)] = SubSeq(s, e[Len(C) - 1] + 1, k),
         k - 2 \notin brks, ChunkStackHeight(D[Len(C)], heights, gap) <= max
  PROVE  \E d : Division(D, d, k, s, heights, gap, brks, max)
<1>0. PICK L \in Nat : L = Len(C) /\ L >= 1
  BY LenProperties DEF Division
<1> DEFINE d == [j \in 0..L |-> IF j = L THEN k ELSE e[j]]
<1>1. Len(s) \in Nat /\ k - 1 \in Nat /\ k \in Nat
  BY LenProperties
<1>4. e \in [0..L -> 0..k - 1] /\ e[0] = 0 /\ e[L] = k - 1
  BY <1>0 DEF Division
<1>5. d \in [0..L -> 0..k] /\ d[0] = 0 /\ d[L] = k /\ \A j \in 0..L - 1 : d[j] = e[j] /\ e[j] \in 0..k - 1
  <2>1. \A j \in 0..L - 1 : j # L /\ j \in 0..L
    BY SMTT(30), <1>0
  <2>0. 0..k - 1 \subseteq 0..k
    BY <1>1
  <2>2. \A j \in 0..L : e[j] \in 0..k
    BY <1>4, <2>0
  <2>3. k \in 0..k /\ L \in 0..L /\ 0 \in 0..L - 1
    BY <1>0, <1>1
  <2> QED BY <1>4, <2>1, <2>2, <2>3
<1> HIDE DEF d
<1>6. \A j \in 1..L - 1 : j \in 0..L - 1 /\ j - 1 \in 0..L - 1 /\ j \in 1..L
  BY <1>0
<1>7. \A j \in 1..L : j = L \/ j \in 1..L - 1
  BY <1>0
<1>8. L \in 1..L /\ L - 1 \in 0..L - 1
  BY <1>0
<1>9. ASSUME NEW j \in 1..L
      PROVE  d[j - 1] < d[j] /\ D[j] = SubSeq(s, d[j - 1] + 1, d[j])
             /\ (d[j] = d[j - 1] + 1 \/ ChunkStackHeight(D[j], heights, gap) <= max)
  <2>1. CASE j = L
    <3>1. d[j] = k /\ d[j - 1] = e[j - 1] /\ e[j - 1] \in 0..k - 1
      BY <1>5, <1>8, <2>1
    <3>2. e[j - 1] < k
      BY SMTT(30), <1>1, <3>1
    <3> QED BY <1>0, <2>1, <3>1, <3>2
  <2>2. CASE j \in 1..L - 1
    <3>1. d[j] = e[j] /\ d[j - 1] = e[j - 1] /\ D[j] = C[j]
      BY <1>0, <1>5, <1>6, <2>2
    <3>2. e[j - 1] < e[j] /\ C[j] = SubSeq(s, e[j - 1] + 1, e[j])
          /\ (e[j] = e[j - 1] + 1 \/ ChunkStackHeight(C[j], heights, gap) <= max)
      BY <1>0, <1>6, <2>2 DEF Division
    <3> QED BY <3>1, <3>2
  <2> QED BY <1>7, <2>1, <2>2
<1>10. ASSUME NEW j \in 1..L - 1
       PROVE  d[j] - 1 \in brks
              \/ ~(ChunkStackHeight(SubSeq(s, d[j - 1] + 1, d[j] + 1), heights, gap) <= max)
  <2>1. d[j] = e[j] /\ d[j - 1] = e[j - 1]
    BY <1>5, <1>6
  <2>2. \A i \in 1..L - 1 : e[i] - 1 \in brks
           \/ ~(ChunkStackHeight(SubSeq(s, e[i - 1] + 1, e[i] + 1), heights, gap) <= max)
    BY <1>0 DEF Division
  <2> QED BY <2>1, <2>2
<1>11. ASSUME NEW b \in 1..k - 1, b - 1 \in brks
       PROVE  \E j \in 1..L - 1 : d[j] = b
  <2>1. b # k - 1
    <3>1. k - 1 - 1 = k - 2
      BY <1>1
    <3> QED BY <1>11, <3>1
  <2>2. b \in 1..k - 1 - 1
    BY <1>1, <2>1
  <2>3. PICK j \in 1..L - 1 : e[j] = b
    BY <1>0, <1>11, <2>2 DEF Division
  <2> QED BY <1>5, <1>6, <2>3
<1>12. L = Len(D) /\ Len(D) >= 1
  BY <1>0
<1>13. D \in Seq(Seq(Nat)) /\ d \in [0..Len(D) -> 0..k] /\ d[0] = 0 /\ d[Len(D)] = k
  BY <1>5, <1>12
<1>14. \A j \in 1..Len(D) : d[j - 1] < d[j] /\ D[j] = SubSeq(s, d[j - 1] + 1, d[j])
  BY <1>9, <1>12
<1>15. \A j \in 1..Len(D) : d[j] = d[j - 1] + 1 \/ ChunkStackHeight(D[j], heights, gap) <= max
  BY <1>9, <1>12
<1>16. \A j \in 1..Len(D) - 1 : d[j] - 1 \in brks
          \/ ~(ChunkStackHeight(SubSeq(s, d[j - 1] + 1, d[j] + 1), heights, gap) <= max)
  BY <1>10, <1>12
<1>17. \A b \in 1..k - 1 : b - 1 \in brks => \E j \in 1..Len(D) - 1 : d[j] = b
  BY <1>11, <1>12
<1> QED BY ZenonT(40), <1>12, <1>13, <1>14, <1>15, <1>16, <1>17 DEF Division

\* page_chunks divides all the segments.
LEMMA DivideCuts ==
  ASSUME NEW s \in Seq(Nat), s # <<>>, NEW heights, NEW gap, NEW brks, NEW max
  PROVE  \E e : Division(Divide(s, heights, gap, brks, max), e, Len(s), s, heights, gap, brks, max)
<1>0. PICK n \in Nat : n = Len(s) /\ n >= 1
  BY LenProperties, EmptySeq
<1>1a. PICK f : DividesAlong(f, n, s, heights, gap, brks, max)
  BY <1>0, DivideRuns
<1>1. /\ f \in [0..n -> States] /\ f[0] = Blank
      /\ \A k \in 1..n : f[k] = Place(f[k - 1], k, s, heights, gap, brks, max)
      /\ Divide(s, heights, gap, brks, max)
           = IF f[n].current = <<>> THEN f[n].chunks ELSE Append(f[n].chunks, f[n].current)
  BY <1>1a DEF DividesAlong
<1> DEFINE Good(k) == /\ f[k].current # <<>>
                      /\ \E e : Division(Append(f[k].chunks, f[k].current), e, k, s, heights, gap, brks, max)
           G == {k \in 0..n - 1 : Good(k + 1)}
<1>2. Good(1)
  <2>0. s[1] \in Nat /\ 1 \in 1..n /\ 1 - 1 = 0
    BY <1>0, ElementOfSeq
  <2>1. f[1] = Place(Blank, 1, s, heights, gap, brks, max)
    BY <1>1, <2>0
  <2>2. f[1] = [chunks |-> <<>>, current |-> Append(<<>>, s[1])]
    BY <2>1 DEF Place, Blank, BreakAfterPrevious, Fits
  <2>3. Append(<<>>, s[1]) = <<s[1]>> /\ Append(<<>>, <<s[1]>>) = <<<<s[1]>>>>
    OBVIOUS
  <2> DEFINE C == <<<<s[1]>>>>
             e == [j \in 0..1 |-> j]
  <2>4. f[1].current # <<>> /\ Append(f[1].chunks, f[1].current) = C
    BY <2>2, <2>3
  <2>5. <<s[1]>> = SubSeq(s, 1, 1) /\ <<s[1]>> \in Seq(Nat)
    <3>1. 0 \in 0..Len(s) /\ 1 \in 0 + 1..Len(s)
      BY <1>0
    <3> QED BY <3>1, AppendNeighbour
  <2>6. C \in Seq(Seq(Nat)) /\ Len(C) = 1 /\ C[1] = SubSeq(s, 1, 1)
    BY <2>5
  <2>7. e \in [0..Len(C) -> 0..1] /\ e[0] = 0 /\ e[1] = 1 /\ e[Len(C)] = 1
    BY <2>6
  <2>8. 1..Len(C) = {1} /\ 1..Len(C) - 1 = {} /\ 1..1 - 1 = {} /\ 0 + 1 = 1 /\ 1 - 1 = 0
    BY <2>6
  <2> HIDE DEF C, e
  <2>9. \A j \in 1..Len(C) : e[j - 1] < e[j] /\ C[j] = SubSeq(s, e[j - 1] + 1, e[j]) /\ e[j] = e[j - 1] + 1
    <3>1. e[0] < e[1] /\ e[1] = e[0] + 1
      BY <2>7
    <3>2. C[1] = SubSeq(s, e[0] + 1, e[1])
      BY <2>6, <2>7, <2>8
    <3>3. \A j \in 1..Len(C) : j = 1
      BY <2>8
    <3> QED BY <2>8, <3>1, <3>2, <3>3
  <2>10. Division(C, e, 1, s, heights, gap, brks, max)
    BY <2>6, <2>7, <2>8, <2>9 DEF Division
  <2> QED BY <2>4, <2>10
<1>3. ASSUME NEW k \in 2..n, Good(k - 1) PROVE Good(k)
  <2> DEFINE x == f[k - 1]
             C == Append(x.chunks, x.current)
             now == Append(x.current, s[k])
  <2>1. PICK e : Division(C, e, k - 1, s, heights, gap, brks, max)
    BY <1>3
  <2>0. k \in 1..n /\ k - 1 \in 0..n /\ k \in 2..Len(s) /\ k - 1 - 1 = k - 2 /\ k \in 0..n
    BY <1>0
  <2>2. x \in States /\ x.chunks \in Seq(Seq(Nat)) /\ x.current \in Seq(Nat) /\ x.current # <<>>
    <3>1. x \in States
      BY <1>1, <2>0
    <3> HIDE DEF x
    <3> QED BY <1>3, <3>1 DEF States, x
  <2>3. s[k] \in Nat
    BY <1>0, <2>0, ElementOfSeq
  <2>4. PICK L \in Nat : L = Len(C) /\ L >= 1 /\ L - 1 \in 0..L /\ L - 1 = Len(x.chunks)
                         /\ C[L] = x.current /\ \A j \in 1..L - 1 : C[j] = x.chunks[j]
    <3>1. PICK M \in Nat : M = Len(x.chunks)
      BY <2>2, LenProperties
    <3> HIDE DEF x
    <3>2. Len(C) = M + 1 /\ C[M + 1] = x.current /\ \A j \in 1..M : C[j] = x.chunks[j]
      BY <2>2, <3>1, AppendProperties
    <3> HIDE DEF C
    <3>3. M + 1 - 1 = M /\ M + 1 \in Nat
      OBVIOUS
    <3> WITNESS M + 1 \in Nat
    <3> QED BY <3>1, <3>2, <3>3
  <2>5. f[k] = Place(x, k, s, heights, gap, brks, max)
    BY <1>1, <2>0
  <2> HIDE DEF x
  <2>6. e[L - 1] \in 0..Len(s) /\ k \in e[L - 1] + 1..Len(s) /\ x.current = SubSeq(s, e[L - 1] + 1, k - 1)
    <3>1. L \in 1..L /\ L - 1 \in 0..Len(C) /\ L \in 1..Len(C)
      BY <2>4
    <3>2. e \in [0..Len(C) -> 0..k - 1] /\ e[L] = k - 1 /\ e[L - 1] < e[L] /\ C[L] = SubSeq(s, e[L - 1] + 1, e[L])
      BY <2>1, <2>4, <3>1 DEF Division
    <3>3. e[L - 1] \in 0..k - 1
      BY <3>1, <3>2
    <3>4. e[L - 1] \in 0..Len(s) /\ k \in e[L - 1] + 1..Len(s)
      <4>1. PICK a \in 0..k - 1 : a = e[L - 1]
        BY <3>3
      <4>2. a \in 0..n /\ k \in a + 1..n
        BY <1>0, <2>0, <4>1
      <4> QED BY <1>0, <4>1, <4>2
    <3> QED BY <2>4, <3>2, <3>4
  <2>7. now = SubSeq(s, e[L - 1] + 1, k) /\ now \in Seq(Nat)
    <3>1. PICK a \in 0..Len(s) : a = e[L - 1]
      BY <2>6
    <3>2. k \in a + 1..Len(s)
      BY <2>6, <3>1
    <3>3. Append(SubSeq(s, a + 1, k - 1), s[k]) = SubSeq(s, a + 1, k) /\ SubSeq(s, a + 1, k) \in Seq(Nat)
      BY <3>2, AppendNeighbour
    <3> QED BY <2>6, <3>1, <3>3
  <2>8. now # <<>> /\ <<s[k]>> # <<>> /\ Append(<<>>, s[k]) = <<s[k]>>
    <3>1. Len(now) = Len(x.current) + 1 /\ Len(x.current) \in Nat
      BY <2>2, <2>3, AppendProperties, LenProperties
    <3>2. Len(now) # 0
      BY <3>1
    <3> HIDE DEF now
    <3>3. now # <<>>
      BY <3>2
    <3> QED BY <3>3
  <2>9. BreakAfterPrevious(k - 1, brks, x.current) <=> k - 2 \in brks
    BY <2>0, <2>2 DEF BreakAfterPrevious
  <2>10. Fits(<<>>, s[k], heights, gap, max)
    BY DEF Fits
  <2>11. Fits(x.current, s[k], heights, gap, max) <=> ChunkStackHeight(now, heights, gap) <= max
    BY <2>2 DEF Fits
  <2> HIDE DEF now, C
  <2>12. CASE k - 2 \in brks
    <3>1. f[k] = [chunks |-> C, current |-> <<s[k]>>]
      BY <2>5, <2>8, <2>9, <2>10, <2>12 DEF Place, C
    <3>2. \E d : Division(Append(C, <<s[k]>>), d, k, s, heights, gap, brks, max)
      BY <2>0, <2>1, <2>12, NextChunk
    <3>3. f[k].current = <<s[k]>> /\ f[k].chunks = C
      BY <3>1
    <3> QED BY <2>8, <3>2, <3>3
  <2>13. CASE k - 2 \notin brks /\ ~Fits(x.current, s[k], heights, gap, max)
    <3>1. f[k] = [chunks |-> C, current |-> <<s[k]>>]
      BY <2>5, <2>9, <2>13 DEF Place, C
    <3>2. ~(ChunkStackHeight(SubSeq(s, e[Len(C) - 1] + 1, k), heights, gap) <= max)
      BY <2>4, <2>7, <2>11, <2>13
    <3>3. \E d : Division(Append(C, <<s[k]>>), d, k, s, heights, gap, brks, max)
      BY <2>0, <2>1, <3>2, NextChunk
    <3>4. f[k].current = <<s[k]>> /\ f[k].chunks = C
      BY <3>1
    <3> QED BY <2>8, <3>3, <3>4
  <2>14. CASE k - 2 \notin brks /\ Fits(x.current, s[k], heights, gap, max)
    <3>1. f[k] = [chunks |-> x.chunks, current |-> now]
      BY <2>5, <2>9, <2>14 DEF Place, now
    <3> DEFINE D == Append(x.chunks, now)
    <3>2. D \in Seq(Seq(Nat)) /\ Len(D) = L /\ D[L] = now /\ \A j \in 1..L - 1 : D[j] = x.chunks[j]
      <4>1. Len(x.chunks) + 1 = L /\ 1..L - 1 = 1..Len(x.chunks)
        BY <2>4
      <4>2. /\ D \in Seq(Seq(Nat)) /\ Len(D) = Len(x.chunks) + 1 /\ D[Len(x.chunks) + 1] = now
            /\ \A j \in 1..Len(x.chunks) : D[j] = x.chunks[j]
        <5>1. PICK q \in Seq(Seq(Nat)) : q = x.chunks
          BY <2>2
        <5>2. PICK c \in Seq(Nat) : c = now
          BY <2>7
        <5>3. /\ Append(q, c) \in Seq(Seq(Nat)) /\ Len(Append(q, c)) = Len(q) + 1
              /\ Append(q, c)[Len(q) + 1] = c
              /\ \A j \in 1..Len(q) : Append(q, c)[j] = q[j]
          BY AppendProperties
        <5> QED BY <5>1, <5>2, <5>3
      <4> HIDE DEF D
      <4> QED BY <4>1, <4>2
    <3> HIDE DEF D
    <3>3. \A j \in 1..Len(C) - 1 : D[j] = C[j]
      BY <2>4, <3>2
    <3>4. Len(D) = Len(C) /\ D[Len(C)] = SubSeq(s, e[Len(C) - 1] + 1, k)
          /\ ChunkStackHeight(D[Len(C)], heights, gap) <= max
      BY <2>4, <2>7, <2>11, <2>14, <3>2
    <3>5. \E d : Division(D, d, k, s, heights, gap, brks, max)
      BY <2>0, <2>1, <2>14, <3>2, <3>3, <3>4, SameChunk
    <3>6. f[k].current = now /\ f[k].chunks = x.chunks
      BY <3>1
    <3> QED BY <2>8, <3>5, <3>6 DEF D
  <2> QED BY <2>12, <2>13, <2>14
<1> HIDE DEF Good
<1>4. 0 \in G
  BY <1>0, <1>2
<1>5. \A k \in 1..n - 1 : k - 1 \in G => k \in G
  <2> SUFFICES ASSUME NEW k \in 1..n - 1, k - 1 \in G PROVE k \in G
    OBVIOUS
  <2>1. k - 1 + 1 = k /\ k + 1 \in 2..n /\ k + 1 - 1 = k /\ k \in 0..n - 1
    BY <1>0
  <2>2. Good(k)
    BY <2>1
  <2>3. Good(k + 1 - 1)
    BY <2>1, <2>2
  <2> QED BY <1>3, <2>1, <2>3
<1>6. n - 1 \in Nat
  BY <1>0
<1> HIDE DEF G
<1>7. 0..n - 1 \subseteq G
  BY <1>4, <1>5, <1>6, Steps
<1>8. n - 1 \in G /\ n - 1 + 1 = n
  BY <1>6, <1>7
<1>9. Good(n)
  BY <1>8 DEF G
<1> QED BY <1>0, <1>1, <1>9 DEF Good

LEMMA DivideNothing ==
  ASSUME NEW heights, NEW gap, NEW brks, NEW max
  PROVE  Divide(<<>>, heights, gap, brks, max) = <<>>
<1>1. <<>> \in Seq(Nat) /\ Len(<<>>) = 0 /\ 0 \in Nat
  OBVIOUS
<1>2. PICK f : DividesAlong(f, 0, <<>>, heights, gap, brks, max)
  BY <1>1, DivideRuns
<1> QED BY <1>2 DEF Blank, DividesAlong

-----------------------------------------------------------------------------
(* Drawing.                                                                  *)

LEMMA MinOfTwo ==
  ASSUME NEW a \in Int, NEW b \in Int
  PROVE  Min({a, b}) = IF a <= b THEN a ELSE b
<1>1. \E m \in {a, b} : \A y \in {a, b} : m <= y
  OBVIOUS
<1>2. Min({a, b}) \in {a, b} /\ \A y \in {a, b} : Min({a, b}) <= y
  BY <1>1 DEF Min
<1> QED BY <1>2

Images     == [seg : Nat, height : Int, cue : BOOLEAN]
PageStates == [images : Seq(Images), room : Int, overflow : BOOLEAN]
EmptyPage(band) == [images |-> <<>>, room |-> band, overflow |-> FALSE]

\* The states the loop of add_images_to_part_page runs through.
AddsAlong(f, n, chunk, heights, k, band, cues) ==
  /\ f \in [0..n -> PageStates] /\ f[0] = EmptyPage(band)
  /\ \A j \in 1..n : f[j] = AddImage(f[j - 1], j, chunk, heights, k, cues)
  /\ AddImages(chunk, heights, k, band, cues) = f[n]

LEMMA AddImagesRuns ==
  ASSUME NEW n \in Nat, NEW c \in Seq(Nat), Len(c) = n, NEW heights,
         \A j \in 1..n : heights[c[j]] \in Nat, NEW k \in Nat, NEW band \in Int, NEW cues
  PROVE  \E f : AddsAlong(f, n, c, heights, k, band, cues)
<1> DEFINE Pl(x, j) == AddImage(x, j, c, heights, k, cues)
           ids == [i \in DOMAIN c |-> i]
           Eq(it) == it = [S \in SUBSET DOMAIN ids |-> IF S = {} THEN EmptyPage(band)
                                                       ELSE Pl(it[S \ {Max(S)}], ids[Max(S)])]
           step == [j \in 1..n |-> [x \in PageStates |-> Pl(x, j)]]
           end == CHOOSE it : Eq(it)
<1>1. EmptyPage(band) \in PageStates /\ \A j \in 1..n : \A x \in PageStates : Pl(x, j) \in PageStates
  <2>1. EmptyPage(band) \in PageStates
    BY EmptySeq DEF EmptyPage, PageStates
  <2>2. ASSUME NEW j \in 1..n, NEW x \in PageStates PROVE Pl(x, j) \in PageStates
    <3>0. c[j] \in Nat
      BY ElementOfSeq
    <3>1. 2 * heights[c[j]] \in Int /\ x.room \in Int /\ x.images \in Seq(Images) /\ x.overflow \in BOOLEAN
      BY DEF PageStates
    <3> DEFINE h == Min({2 * heights[c[j]], x.room})
               image == [seg |-> c[j], height |-> h, cue |-> c[j] \in cues]
    <3>2. h \in Int
      BY <3>1, MinOfTwo
    <3> HIDE DEF h
    <3>3. image \in Images
      BY <3>0, <3>2 DEF Images
    <3> HIDE DEF image
    <3>4. Append(x.images, image) \in Seq(Images)
      BY <3>1, <3>3, AppendProperties
    <3>5. x.room - h - (IF j < Len(c) THEN 15 * k ELSE 0) \in Int
      BY <3>1, <3>2
    <3>6. (x.overflow \/ (2 * heights[c[j]] > x.room /\ x.room <= 0)) \in BOOLEAN
      OBVIOUS
    <3>7. Pl(x, j) = [images |-> Append(x.images, image),
                      room |-> x.room - h - (IF j < Len(c) THEN 15 * k ELSE 0),
                      overflow |-> x.overflow \/ (2 * heights[c[j]] > x.room /\ x.room <= 0)]
      BY DEF AddImage, h, image
    <3> QED BY <3>4, <3>5, <3>6, <3>7 DEF PageStates
  <2> QED BY <2>1, <2>2
<1>2. DOMAIN c = 1..n /\ DOMAIN ids = 1..n /\ \A i \in 1..n : ids[i] = i
  BY LenProperties
<1>3. AddImages(c, heights, k, band, cues) = end[1..n]
  <2>1. AddImages(c, heights, k, band, cues) = end[DOMAIN ids]
    BY DEF AddImages, FoldLeftDomain, FoldLeft, MapThenFoldSet, EmptyPage
  <2> HIDE DEF end
  <2> QED BY <1>2, <2>1
<1> HIDE DEF Pl
<1>4. Eq(end)
  <2>1. step \in [1..n -> [PageStates -> PageStates]]
    BY <1>1
  <2> HIDE DEF step
  <2>2. PICK it : Solves(it, n, PageStates, EmptyPage(band), step)
    BY <1>1, <2>1, RecursionExists
  <2>3. it = [S \in SUBSET (1..n) |-> IF S = {} THEN EmptyPage(band) ELSE step[Max(S)][it[S \ {Max(S)}]]]
    BY <2>2 DEF Solves
  <2>4. \A S \in SUBSET (1..n) : S # {} => step[Max(S)][it[S \ {Max(S)}]] = Pl(it[S \ {Max(S)}], ids[Max(S)])
    <3> SUFFICES ASSUME NEW S \in SUBSET (1..n), S # {}
                 PROVE  step[Max(S)][it[S \ {Max(S)}]] = Pl(it[S \ {Max(S)}], ids[Max(S)])
      OBVIOUS
    <3>1. Max(S) \in 1..n /\ S \ {Max(S)} \in SUBSET (1..n)
      BY MaxExists
    <3>2. it[S \ {Max(S)}] \in PageStates /\ ids[Max(S)] = Max(S)
      BY <1>2, <2>2, <3>1 DEF Solves
    <3> HIDE DEF ids
    <3> QED BY <3>1, <3>2 DEF step
  <2> HIDE DEF ids
  <2>5. Eq(it)
    BY <1>2, <2>3, <2>4
  <2> QED BY <2>5
<1>5. \A S \in SUBSET (1..n) : end[S] = IF S = {} THEN EmptyPage(band) ELSE Pl(end[S \ {Max(S)}], ids[Max(S)])
  <2> HIDE DEF end, ids
  <2> QED BY <1>2, <1>4
<1> HIDE DEF end
<1>6. \A j \in 1..n : end[1..j] = Pl(end[1..j - 1], j)
  <2> SUFFICES ASSUME NEW j \in 1..n PROVE end[1..j] = Pl(end[1..j - 1], j)
    OBVIOUS
  <2>1. j \in Nat \ {0} /\ 1..j \in SUBSET (1..n)
    OBVIOUS
  <2>2. Max(1..j) = j /\ (1..j) \ {j} = 1..j - 1 /\ 1..j # {}
    BY <2>1, TopOfInterval
  <2> HIDE DEF ids
  <2> QED BY <1>2, <1>5, <2>1, <2>2
<1>7. PICK f : Follows(f, n, PageStates, EmptyPage(band), step) /\ f[n] = end[1..n]
  <2>1. step \in [1..n -> [PageStates -> PageStates]]
    BY <1>1
  <2>2. end[{}] = EmptyPage(band)
    BY <1>5
  <2>3. \A j \in 1..n : end[1..j - 1] \in PageStates => end[1..j] = step[j][end[1..j - 1]]
    BY <1>6
  <2> HIDE DEF step
  <2>4. OnIntervals(end, n, PageStates, EmptyPage(band), step)
    BY <2>2, <2>3 DEF OnIntervals
  <2> QED BY <1>1, <2>1, <2>4, RunExists
<1>8. \A j \in 1..n : f[j] = Pl(f[j - 1], j)
  <2> SUFFICES ASSUME NEW j \in 1..n PROVE f[j] = Pl(f[j - 1], j)
    OBVIOUS
  <2>1. f[j - 1] \in PageStates
    BY <1>7 DEF Follows
  <2> QED BY <1>7, <2>1 DEF Follows
<1>9. AddsAlong(f, n, c, heights, k, band, cues)
  BY <1>3, <1>7, <1>8 DEF Pl, Follows, AddsAlong
<1> QED BY <1>9

\* A page Q of the segments c, with r[i] of its band left below the i-th.
Page(Q, r, c, heights, k, band, cues) ==
  /\ r \in [0..Len(c) -> Int] /\ r[0] = band
  /\ \A i \in 1..Len(c) :
       /\ r[i] = r[i - 1] - Min({2 * heights[c[i]], r[i - 1]}) - IF i < Len(c) THEN 15 * k ELSE 0
       /\ Q.images[i] = [seg |-> c[i], height |-> Min({2 * heights[c[i]], r[i - 1]}), cue |-> c[i] \in cues]
  /\ Q.images \in Seq(Images) /\ Len(Q.images) = Len(c)
  /\ Q.overflow => \E i \in 1..Len(c) : 2 * heights[c[i]] > r[i - 1] /\ r[i - 1] <= 0

LEMMA AddImagesDraws ==
  ASSUME NEW c \in Seq(Nat), NEW heights, \A j \in 1..Len(c) : heights[c[j]] \in Nat,
         NEW k \in Nat, NEW band \in Int, NEW cues
  PROVE  \E r : Page(AddImages(c, heights, k, band, cues), r, c, heights, k, band, cues)
<1>0. PICK n \in Nat : n = Len(c)
  BY LenProperties
<1>1. PICK f : AddsAlong(f, n, c, heights, k, band, cues)
  <2>1. \A j \in 1..n : heights[c[j]] \in Nat
    BY <1>0
  <2> QED BY <1>0, <2>1, AddImagesRuns
<1> DEFINE r == [i \in 0..n |-> f[i].room]
           image(i) == [seg |-> c[i], height |-> Min({2 * heights[c[i]], r[i - 1]}), cue |-> c[i] \in cues]
           Good(j) == /\ Len(f[j].images) = j /\ \A i \in 1..j : f[j].images[i] = image(i)
                      /\ f[j].overflow => \E i \in 1..j : 2 * heights[c[i]] > r[i - 1] /\ r[i - 1] <= 0
           G == {j \in 0..n : Good(j)}
<1>2. f \in [0..n -> PageStates] /\ f[0] = EmptyPage(band) /\ AddImages(c, heights, k, band, cues) = f[n]
      /\ \A j \in 1..n : f[j] = AddImage(f[j - 1], j, c, heights, k, cues)
  BY <1>1 DEF AddsAlong
<1>3. r \in [0..n -> Int] /\ r[0] = band
  BY <1>2 DEF PageStates, EmptyPage
<1>4. \A i \in 1..n : i - 1 \in 0..n /\ i \in 0..n
  OBVIOUS
<1>5. ASSUME NEW j \in 1..n
      PROVE  /\ r[j] = r[j - 1] - Min({2 * heights[c[j]], r[j - 1]}) - IF j < Len(c) THEN 15 * k ELSE 0
             /\ f[j].images = Append(f[j - 1].images, image(j))
             /\ f[j].overflow = (f[j - 1].overflow \/ (2 * heights[c[j]] > r[j - 1] /\ r[j - 1] <= 0))
  <2>1. r[j] = f[j].room /\ r[j - 1] = f[j - 1].room
    BY <1>4
  <2>2. f[j] = AddImage(f[j - 1], j, c, heights, k, cues)
    BY <1>2
  <2> HIDE DEF r
  <2> QED BY <2>1, <2>2 DEF AddImage
<1>6. Good(0)
  <2>1. f[0].images = <<>> /\ f[0].overflow = FALSE
    BY <1>2 DEF EmptyPage
  <2> HIDE DEF r
  <2> QED BY <2>1
<1>7. ASSUME NEW j \in 1..n, Good(j - 1) PROVE Good(j)
  <2>1. j - 1 \in 0..n /\ f[j - 1].images \in Seq(Images) /\ f[j].images \in Seq(Images)
    BY <1>2, <1>4 DEF PageStates
  <2>2. image(j) \in Images
    <3>1. r[j - 1] \in Int /\ 2 * heights[c[j]] \in Int /\ c[j] \in Nat
      <4>1. c[j] \in Nat
        BY <1>0, ElementOfSeq
      <4>2. 2 * heights[c[j]] \in Int
        <5>1. heights[c[j]] \in Nat
          BY <1>0
        <5> QED BY <5>1
      <4> HIDE DEF r
      <4>3. r[j - 1] \in Int
        BY <1>3, <1>4
      <4> QED BY <4>1, <4>2, <4>3
    <3> HIDE DEF r
    <3>2. Min({2 * heights[c[j]], r[j - 1]}) \in Int
      BY <3>1, MinOfTwo
    <3> QED BY <3>1, <3>2 DEF Images
  <2> HIDE DEF image, r
  <2>3. PICK q \in Seq(Images) : q = f[j - 1].images
    BY <2>1
  <2>4. /\ Len(Append(q, image(j))) = Len(q) + 1 /\ Append(q, image(j))[Len(q) + 1] = image(j)
        /\ \A i \in 1..Len(q) : Append(q, image(j))[i] = q[i]
    BY <2>2, AppendProperties
  <2>5. Len(q) = j - 1 /\ j - 1 + 1 = j
    BY <1>7, <2>3
  <2>6. Len(f[j].images) = j /\ f[j].images[j] = image(j) /\ \A i \in 1..j - 1 : f[j].images[i] = q[i]
    BY <1>5, <2>3, <2>4, <2>5
  <2>7. \A i \in 1..j : i = j \/ i \in 1..j - 1
    OBVIOUS
  <2>8. \A i \in 1..j : f[j].images[i] = image(i)
    BY <1>7, <2>3, <2>6, <2>7
  <2>9. f[j].overflow => \E i \in 1..j : 2 * heights[c[i]] > r[i - 1] /\ r[i - 1] <= 0
    <3>1. CASE f[j - 1].overflow
      <4>1. PICK i \in 1..j - 1 : 2 * heights[c[i]] > r[i - 1] /\ r[i - 1] <= 0
        BY <1>7, <3>1
      <4>2. i \in 1..j
        OBVIOUS
      <4> QED BY <4>1, <4>2
    <3>2. CASE ~f[j - 1].overflow
      <4>1. j \in 1..j
        OBVIOUS
      <4> QED BY <1>5, <3>2, <4>1
    <3> QED BY <3>1, <3>2
  <2> QED BY <2>6, <2>8, <2>9
<1> HIDE DEF Good
<1>8. 0 \in G /\ \A j \in 1..n : j - 1 \in G => j \in G
  BY <1>6, <1>7
<1> HIDE DEF G
<1>9. n \in G
  <2>1. 0..n \subseteq G
    BY <1>8, Steps
  <2> QED BY <2>1
<1>10. Good(n) /\ f[n].images \in Seq(Images)
  BY <1>2, <1>9 DEF G, PageStates
<1> HIDE DEF r
<1>11. Page(f[n], r, c, heights, k, band, cues)
  BY <1>0, <1>3, <1>5, <1>10 DEF Page, Good
<1> QED BY <1>2, <1>11

\* What is left of the band below the first i segments: at least what they and the
\* spaces after them take.
LEMMA RoomLeft ==
  ASSUME NEW c \in Seq(Nat), NEW heights, \A j \in 1..Len(c) : heights[c[j]] \in Nat,
         NEW k \in Nat, NEW band \in Int, NEW cues, NEW Q, NEW r,
         Page(Q, r, c, heights, k, band, cues), NEW H, Sums(H, Len(c), c, heights),
         NEW i \in 0..Len(c)
  PROVE  r[i] >= band - 2 * H[i] - 15 * k * i
<1>0. PICK n \in Nat : n = Len(c)
  BY LenProperties
<1>00. PICK g \in Nat : g = 15 * k
  OBVIOUS
<1> DEFINE G == {j \in 0..n : r[j] >= band - 2 * H[j] - g * j}
<1>1. r \in [0..n -> Int] /\ r[0] = band
      /\ \A j \in 1..n : r[j] = r[j - 1] - Min({2 * heights[c[j]], r[j - 1]}) - IF j < n THEN g ELSE 0
  BY <1>0, <1>00 DEF Page
<1>2. H \in [0..n -> Nat] /\ H[0] = 0 /\ \A j \in 1..n : H[j] = H[j - 1] + heights[c[j]]
  BY <1>0 DEF Sums
<1>3. 0 \in G
  BY <1>1, <1>2
<1>4. ASSUME NEW j \in 1..n, j - 1 \in G PROVE j \in G
  <2>0. j \in 0..n /\ j - 1 \in 0..n
    OBVIOUS
  <2>1. PICK h \in Nat : h = heights[c[j]]
    BY <1>0
  <2>2. PICK before \in Int : before = r[j - 1]
    BY <1>1, <2>0
  <2>3. PICK sum \in Nat : sum = H[j - 1]
    BY <1>2, <2>0
  <2>4. H[j] = sum + h
    BY <1>2, <2>1, <2>3
  <2>5. before >= band - 2 * sum - g * (j - 1)
    BY <1>4, <2>2, <2>3
  <2>6. Min({2 * h, before}) \in Int /\ Min({2 * h, before}) <= 2 * h
    BY MinOfTwo
  <2>7. r[j] >= before - 2 * h - g
    <3>1. PICK least \in Int : least = Min({2 * h, before}) /\ least <= 2 * h
      BY <2>6
    <3>2. r[j] = before - Min({2 * h, before}) - IF j < n THEN g ELSE 0
      BY <1>1, <2>1, <2>2
    <3>3. r[j] = before - least - g \/ r[j] = before - least
      BY <3>1, <3>2
    <3> QED BY <3>1, <3>3
  <2>8. g * (j - 1) = g * j - g
    OBVIOUS
  <2>9. g * j \in Int /\ r[j] \in Int
    BY <1>1, <2>0
  <2>10. r[j] >= band - 2 * (sum + h) - g * j
    <3>0a. PICK u \in Int : u = g * j
      BY <2>9
    <3>0b. PICK v \in Int : v = g * (j - 1)
      BY <2>8, <2>9
    <3>0c. PICK w \in Int : w = r[j]
      BY <2>9
    <3>1. u = g * j /\ v = g * (j - 1) /\ w = r[j]
      BY <3>0a, <3>0b, <3>0c
    <3>2. before >= band - 2 * sum - v /\ w >= before - 2 * h - g /\ v = u - g
      BY <2>5, <2>7, <2>8, <3>1
    <3>3. w >= band - 2 * (sum + h) - u
      BY <3>2
    <3> QED BY <3>1, <3>3
  <2> QED BY <2>0, <2>4, <2>10
<1> HIDE DEF G
<1>5. 0..n \subseteq G
  BY <1>3, <1>4, Steps
<1>6. i \in G
  BY <1>0, <1>5
<1> QED BY <1>0, <1>00, <1>6 DEF G

LEMMA RoomBound ==
  ASSUME NEW a \in Int, NEW b \in Int, NEW l \in Int, NEW h \in Int, NEW left \in Int, NEW band \in Int,
         NEW max \in Int, NEW z \in Int, NEW u \in Int, NEW v \in Int, NEW w \in Int,
         2 * max <= band, b <= l, b = a + h, left >= band - 2 * a - v, l + z <= max, z >= u, 2 * u >= v - w
  PROVE  left >= 2 * h - w
OBVIOUS

\* On a page whose stack was not too high an image has its room, but for half a pixel
\* of every space above it where the space was rounded down.
LEMMA RoomForEach ==
  ASSUME NEW c \in Seq(Nat), Len(c) >= 2, NEW heights, \A j \in 1..Len(c) : heights[c[j]] \in Nat,
         NEW k \in Nat, NEW band \in Int, NEW cues, NEW Q, NEW r,
         Page(Q, r, c, heights, k, band, cues),
         NEW gap \in Nat, NEW max \in Int, 2 * max <= band,
         ChunkStackHeight(c, heights, gap) <= max,
         NEW half \in 0..1, 2 * gap >= 15 * k - half,
         NEW i \in 1..Len(c)
  PROVE  r[i - 1] >= 2 * heights[c[i]] - half * (i - 1)
<1>0. PICK n \in Nat : n = Len(c) /\ n >= 2
  BY LenProperties
<1>1. PICK H : Sums(H, n, c, heights) /\ Total(c, heights) = H[n]
  <2>1. DOMAIN c = 1..n /\ \A j \in 1..n : heights[c[j]] \in Nat
    BY <1>0, LenProperties
  <2> QED BY <2>1, SumsExist
<1>2. r[i - 1] >= band - 2 * H[i - 1] - 15 * k * (i - 1)
  <2>0. i - 1 \in 0..Len(c)
    BY <1>0
  <2>1. PICK x \in 0..Len(c) : x = i - 1
    BY <2>0
  <2>2. r[x] >= band - 2 * H[x] - 15 * k * x
    BY <1>0, <1>1, RoomLeft
  <2> QED BY <2>1, <2>2
<1>3. H[i] <= H[n]
  <2>1. i \in 0..n /\ n \in i..n /\ \A j \in 1..n : heights[c[j]] \in Nat
    BY <1>0
  <2> QED BY <1>1, <2>1, SumsGrow
<1>4. H[i - 1] \in Nat /\ H[i] \in Nat /\ H[n] \in Nat /\ H[i] = H[i - 1] + heights[c[i]]
  <2>1. i \in 1..n /\ i - 1 \in 0..n /\ i \in 0..n /\ n \in 0..n
    BY <1>0
  <2> QED BY <1>1, <2>1 DEF Sums
<1>5. ChunkStackHeight(c, heights, gap) = H[n] + gap * (n - 1)
  <2>1. Max({Len(c) - 1, 0}) = n - 1
    <3>1. {Len(c) - 1, 0} \in SUBSET Int /\ n - 1 \in {Len(c) - 1, 0} /\ \A y \in {Len(c) - 1, 0} : y <= n - 1
      BY <1>0
    <3> QED BY <3>1, MaxIsTop
  <2> QED BY <1>1, <2>1 DEF ChunkStackHeight, Total
<1>6. PICK x \in Nat, d \in Nat : x = i - 1 /\ n - 1 = x + d
  <2>1. i - 1 \in Nat /\ n - i \in Nat /\ n - 1 = (i - 1) + (n - i)
    BY <1>0
  <2> QED BY <2>1
<1>7. gap * (n - 1) >= gap * x
  <2>1. gap * (x + d) = gap * x + gap * d /\ gap * d \in Nat /\ gap * x \in Nat
    OBVIOUS
  <2> QED BY <1>6, <2>1
<1>8. 2 * (gap * x) >= 15 * k * x - half * x
  <2>1. PICK m \in Nat : 2 * gap = 15 * k - half + m
    <3>1. 2 * gap - (15 * k - half) \in Nat
      OBVIOUS
    <3> QED BY <3>1
  <2>2. m * x \in Nat
    OBVIOUS
  <2>3. 2 * (gap * x) = (15 * k - half + m) * x
    BY <2>1
  <2>4. (15 * k - half + m) * x = 15 * k * x - half * x + m * x
    OBVIOUS
  <2>5. 15 * k * x \in Int /\ half * x \in Int
    OBVIOUS
  <2> QED BY <2>2, <2>3, <2>4, <2>5
<1>9. PICK u \in Int, v \in Int, w \in Int : u = gap * x /\ v = 15 * k * x /\ w = half * x
  OBVIOUS
<1>10. PICK z \in Int : z = gap * (n - 1)
  BY <1>0
<1>11. r[i - 1] >= band - 2 * H[i - 1] - v
  BY <1>2, <1>6, <1>9
<1>12. H[n] + z <= max /\ z >= u /\ 2 * u >= v - w
  BY <1>5, <1>7, <1>8, <1>9, <1>10
<1>13. r[i - 1] \in Int
  BY SMTT(30), <1>0 DEF Page
<1>14. r[i - 1] >= 2 * heights[c[i]] - w
  <2>1. PICK a \in Int : a = H[i - 1]
    BY SMTT(30), <1>4
  <2>2. PICK b \in Int : b = H[i]
    BY <1>4
  <2>3. PICK l \in Int : l = H[n]
    BY SMTT(30), <1>4
  <2>4. PICK h \in Int : h = heights[c[i]]
    BY SMTT(30)
  <2>5. PICK left \in Int : left = r[i - 1]
    BY <1>13
  <2>6. b <= l /\ b = a + h /\ left >= band - 2 * a - v /\ l + z <= max
    BY <1>3, <1>4, <1>11, <1>12, <2>1, <2>2, <2>3, <2>4, <2>5
  <2>7. left >= 2 * h - w
    BY <1>12, <2>6, RoomBound
  <2> QED BY <2>4, <2>5, <2>7
<1> QED BY <1>6, <1>9, <1>14

-----------------------------------------------------------------------------
(* The segments of a part.                                                   *)

SegmentsOf(d, P) == UNION {SegmentMap(d)[{n}] : n \in {m \in P : {m} \in DOMAIN SegmentMap(d)}}

Increasing(s) == \A a, b \in 1..Len(s) : a < b => s[a] < s[b]

\* The members of a set of rows in their order.
Listing(s, S, n) ==
  /\ s \in Seq(Nat) /\ Increasing(s)
  /\ \A a \in 1..Len(s) : s[a] \in S /\ s[a] \in 1..n
  /\ \A y \in 1..n : y \in S => \E a \in 1..Len(s) : s[a] = y

\* The states the loop over the rows runs through.
ListsAlong(f, n, S) ==
  /\ f \in [0..n -> Seq(Nat)] /\ f[0] = <<>>
  /\ \A i \in 1..n : f[i] = IF i \in S THEN Append(f[i - 1], i) ELSE f[i - 1]

LEMMA PartSegmentsRun ==
  ASSUME NEW d, NEW n \in Nat, DOMAIN d.rows = 1..n, NEW P
  PROVE  \E f : ListsAlong(f, n, SegmentsOf(d, P)) /\ PartSegments(d, P) = f[n]
<1> DEFINE Of == SegmentsOf(d, P)
           Pl(x, i) == IF i \in Of THEN Append(x, i) ELSE x
           ids == [i \in DOMAIN d.rows |-> i]
           Eq(it) == it = [S \in SUBSET DOMAIN ids |-> IF S = {} THEN <<>>
                                                       ELSE Pl(it[S \ {Max(S)}], ids[Max(S)])]
           step == [j \in 1..n |-> [x \in Seq(Nat) |-> Pl(x, j)]]
           end == CHOOSE it : Eq(it)
<1>1. <<>> \in Seq(Nat) /\ \A j \in 1..n : \A x \in Seq(Nat) : Pl(x, j) \in Seq(Nat)
  <2>1. \A j \in 1..n : j \in Nat
    OBVIOUS
  <2>2. \A x \in Seq(Nat), j \in Nat : Append(x, j) \in Seq(Nat)
    BY AppendProperties
  <2> HIDE DEF Of
  <2> QED BY <2>1, <2>2
<1>2. DOMAIN ids = 1..n /\ \A i \in 1..n : ids[i] = i
  OBVIOUS
<1>3. PartSegments(d, P) = end[1..n]
  <2>1. PartSegments(d, P) = end[DOMAIN ids]
    BY DEF PartSegments, FoldLeftDomain, FoldLeft, MapThenFoldSet, SegmentsOf
  <2> HIDE DEF end
  <2> QED BY <1>2, <2>1
<1> HIDE DEF Pl
<1>4. Eq(end)
  <2>1. step \in [1..n -> [Seq(Nat) -> Seq(Nat)]]
    BY <1>1
  <2> HIDE DEF step
  <2>2. PICK it : Solves(it, n, Seq(Nat), <<>>, step)
    BY <1>1, <2>1, RecursionExists
  <2>3. it = [S \in SUBSET (1..n) |-> IF S = {} THEN <<>> ELSE step[Max(S)][it[S \ {Max(S)}]]]
    BY <2>2 DEF Solves
  <2>4. \A S \in SUBSET (1..n) : S # {} => step[Max(S)][it[S \ {Max(S)}]] = Pl(it[S \ {Max(S)}], ids[Max(S)])
    <3> SUFFICES ASSUME NEW S \in SUBSET (1..n), S # {}
                 PROVE  step[Max(S)][it[S \ {Max(S)}]] = Pl(it[S \ {Max(S)}], ids[Max(S)])
      OBVIOUS
    <3>1. Max(S) \in 1..n /\ S \ {Max(S)} \in SUBSET (1..n)
      BY MaxExists
    <3>2. it[S \ {Max(S)}] \in Seq(Nat) /\ ids[Max(S)] = Max(S)
      BY <1>2, <2>2, <3>1 DEF Solves
    <3> HIDE DEF ids
    <3> QED BY <3>1, <3>2 DEF step
  <2> HIDE DEF ids
  <2>5. Eq(it)
    BY <1>2, <2>3, <2>4
  <2> QED BY <2>5
<1>5. \A S \in SUBSET (1..n) : end[S] = IF S = {} THEN <<>> ELSE Pl(end[S \ {Max(S)}], ids[Max(S)])
  <2> HIDE DEF end, ids
  <2> QED BY <1>2, <1>4
<1> HIDE DEF end
<1>6. \A j \in 1..n : end[1..j] = Pl(end[1..j - 1], j)
  <2> SUFFICES ASSUME NEW j \in 1..n PROVE end[1..j] = Pl(end[1..j - 1], j)
    OBVIOUS
  <2>1. j \in Nat \ {0} /\ 1..j \in SUBSET (1..n)
    OBVIOUS
  <2>2. Max(1..j) = j /\ (1..j) \ {j} = 1..j - 1 /\ 1..j # {}
    BY <2>1, TopOfInterval
  <2> HIDE DEF ids
  <2> QED BY <1>2, <1>5, <2>1, <2>2
<1>7. PICK f : Follows(f, n, Seq(Nat), <<>>, step) /\ f[n] = end[1..n]
  <2>1. step \in [1..n -> [Seq(Nat) -> Seq(Nat)]]
    BY <1>1
  <2>2. end[{}] = <<>>
    BY <1>5
  <2>3. \A j \in 1..n : end[1..j - 1] \in Seq(Nat) => end[1..j] = step[j][end[1..j - 1]]
    BY <1>6
  <2> HIDE DEF step
  <2>4. OnIntervals(end, n, Seq(Nat), <<>>, step)
    BY <2>2, <2>3 DEF OnIntervals
  <2>5. PICK base \in Seq(Nat) : base = <<>>
    BY <1>1
  <2>6. OnIntervals(end, n, Seq(Nat), base, step)
    BY <2>4, <2>5
  <2>7. PICK f : Follows(f, n, Seq(Nat), base, step) /\ f[n] = end[1..n]
    BY <2>1, <2>6, RunExists
  <2>8. Follows(f, n, Seq(Nat), <<>>, step)
    BY <2>5, <2>7
  <2> QED BY <2>7, <2>8
<1>8. \A j \in 1..n : f[j] = Pl(f[j - 1], j)
  <2> SUFFICES ASSUME NEW j \in 1..n PROVE f[j] = Pl(f[j - 1], j)
    OBVIOUS
  <2>1. f[j - 1] \in Seq(Nat)
    BY <1>7 DEF Follows
  <2> QED BY <1>7, <2>1 DEF Follows
<1>9. ListsAlong(f, n, Of)
  <2> HIDE DEF Of
  <2> QED BY <1>7, <1>8 DEF Pl, Follows, ListsAlong
<1> QED BY <1>3, <1>7, <1>9

LEMMA ListingGrows ==
  ASSUME NEW s, NEW S, NEW n \in Nat \ {0}, Listing(s, S, n - 1)
  PROVE  Listing(IF n \in S THEN Append(s, n) ELSE s, S, n)
<1>0. PICK l \in Nat : l = Len(s) /\ s \in Seq(Nat)
  BY LenProperties DEF Listing
<1>1. (\A a \in 1..l : s[a] \in S /\ s[a] \in 1..n - 1)
      /\ \A y \in 1..n - 1 : y \in S => \E a \in 1..l : s[a] = y
  BY <1>0 DEF Listing
<1>2. \A y \in 1..n : y = n \/ y \in 1..n - 1
  OBVIOUS
<1>3. \A y \in 1..n - 1 : y \in 1..n /\ y < n
  OBVIOUS
<1>4. CASE n \notin S
  <2>1. \A a \in 1..l : s[a] \in S /\ s[a] \in 1..n
    BY <1>1, <1>3
  <2>2. \A y \in 1..n : y \in S => \E a \in 1..l : s[a] = y
    BY <1>1, <1>2, <1>4
  <2>3. Listing(s, S, n)
    BY <1>0, <2>1, <2>2 DEF Listing
  <2> QED BY <1>4, <2>3
<1>5. CASE n \in S
  <2> DEFINE t == Append(s, n)
  <2>1. t \in Seq(Nat) /\ Len(t) = l + 1 /\ (\A a \in 1..l : t[a] = s[a]) /\ t[l + 1] = n
    BY <1>0, AppendProperties
  <2> HIDE DEF t
  <2>2. \A a \in 1..l + 1 : a = l + 1 \/ a \in 1..l
    BY <1>0
  <2>3. \A a \in 1..l + 1 : t[a] \in S /\ t[a] \in 1..n
    BY <1>1, <1>3, <1>5, <2>1, <2>2
  <2>4. \A y \in 1..n : y \in S => \E a \in 1..l + 1 : t[a] = y
    <3> SUFFICES ASSUME NEW y \in 1..n, y \in S PROVE \E a \in 1..l + 1 : t[a] = y
      OBVIOUS
    <3>1. CASE y = n
      <4>1. l + 1 \in 1..l + 1
        BY <1>0
      <4> QED BY <2>1, <3>1, <4>1
    <3>2. CASE y \in 1..n - 1
      <4>1. PICK a \in 1..l : s[a] = y
        BY <1>1, <3>2
      <4>2. a \in 1..l + 1
        BY <1>0
      <4> QED BY <2>1, <4>1, <4>2
    <3> QED BY <1>2, <3>1, <3>2
  <2>5. Increasing(t)
    <3> SUFFICES ASSUME NEW a \in 1..l + 1, NEW b \in 1..l + 1, a < b PROVE t[a] < t[b]
      BY <2>1 DEF Increasing
    <3>1. a \in 1..l
      BY <1>0
    <3>2. CASE b = l + 1
      BY <1>1, <1>3, <2>1, <3>1, <3>2
    <3>3. CASE b \in 1..l
      <4>1. s[a] < s[b]
        BY <1>0, <3>1, <3>3 DEF Listing, Increasing
      <4> QED BY <2>1, <3>1, <3>3, <4>1
    <3> QED BY <2>2, <3>2, <3>3
  <2>6. Listing(t, S, n)
    BY <2>1, <2>3, <2>4, <2>5 DEF Listing
  <2> QED BY <1>5, <2>6 DEF t
<1> QED BY <1>4, <1>5

\* The segments of a part in the order of the score.
LEMMA PartSegmentsList ==
  ASSUME NEW d, NEW n \in Nat, DOMAIN d.rows = 1..n, NEW P
  PROVE  Listing(PartSegments(d, P), SegmentsOf(d, P), n)
<1>1. PICK f : ListsAlong(f, n, SegmentsOf(d, P)) /\ PartSegments(d, P) = f[n]
  BY PartSegmentsRun
<1> DEFINE S == SegmentsOf(d, P)
           G == {i \in 0..n : Listing(f[i], S, i)}
<1> HIDE DEF S
<1>2. f[0] = <<>> /\ \A i \in 1..n : f[i] = IF i \in S THEN Append(f[i - 1], i) ELSE f[i - 1]
  BY <1>1 DEF ListsAlong, S
<1>3. 0 \in G
  <2>1. <<>> \in Seq(Nat) /\ Len(<<>>) = 0
    OBVIOUS
  <2>2. Listing(<<>>, S, 0)
    BY <2>1 DEF Listing, Increasing
  <2> QED BY <1>2, <2>2
<1>4. ASSUME NEW i \in 1..n, i - 1 \in G PROVE i \in G
  <2>1. i \in Nat \ {0} /\ i \in 0..n /\ Listing(f[i - 1], S, i - 1)
    BY <1>4
  <2>2. Listing(IF i \in S THEN Append(f[i - 1], i) ELSE f[i - 1], S, i)
    BY <2>1, ListingGrows
  <2> QED BY <1>2, <2>1, <2>2
<1> HIDE DEF G
<1>5. 0..n \subseteq G
  BY <1>3, <1>4, Steps
<1>6. n \in G
  BY <1>5
<1> QED BY <1>1, <1>6 DEF G, S

-----------------------------------------------------------------------------
(* The parts of a document.                                                  *)

LEMMA MaxOfTwo ==
  ASSUME NEW a \in Int, NEW b \in Int
  PROVE  Max({a, b}) = IF a >= b THEN a ELSE b
<1>1. \E m \in {a, b} : \A y \in {a, b} : m >= y
  OBVIOUS
<1>2. Max({a, b}) \in {a, b} /\ \A y \in {a, b} : Max({a, b}) >= y
  BY <1>1 DEF Max
<1> QED BY <1>2

LEMMA DocumentFacts ==
  ASSUME NEW d \in Documents
  PROVE  /\ Len(d.rows) \in Nat /\ DOMAIN d.rows = 1..Len(d.rows)
         /\ \A i \in DOMAIN d.rows : /\ d.rows[i].top \in 0..1000 /\ d.rows[i].bottom \in 0..1000
                                     /\ d.rows[i].tags \subseteq Names \cup {All}
         /\ \A p \in DOMAIN d.px : d.px[p] \in Nat \ {0}
         /\ \A P \in PartRows(d) : P \subseteq Names
         /\ All \notin Names /\ Cues \subseteq Names
         /\ d.orientation \in {"portrait", "landscape"}
<1>1. d.rows \in Seq(Row)
  BY PageChunksAssumption
<1>2. Len(d.rows) \in Nat /\ DOMAIN d.rows = 1..Len(d.rows)
  BY <1>1, LenProperties
<1>3. \A i \in DOMAIN d.rows : d.rows[i] \in Row
  BY <1>1, <1>2, ElementOfSeq
<1>4. \A P \in PartRows(d) : P \subseteq Names
  BY PageChunksAssumption DEF PartRows
<1>5. \A p \in DOMAIN d.px : d.px[p] \in Nat \ {0}
  BY PageChunksAssumption
<1>6. All \notin Names /\ Cues \subseteq Names /\ d.orientation \in {"portrait", "landscape"}
  BY PageChunksAssumption
<1>7. \A i \in DOMAIN d.rows : /\ d.rows[i].top \in 0..1000 /\ d.rows[i].bottom \in 0..1000
                               /\ d.rows[i].tags \subseteq Names \cup {All}
  <2> SUFFICES ASSUME NEW row \in Row
               PROVE  row.top \in 0..1000 /\ row.bottom \in 0..1000 /\ row.tags \subseteq Names \cup {All}
    BY <1>3
  <2> QED BY SMTT(30) DEF Row
<1> QED BY <1>2, <1>4, <1>5, <1>6, <1>7

LEMMA RowFacts ==
  ASSUME NEW d \in Documents, NEW i \in DOMAIN d.rows
  PROVE  d.rows[i] \in Row
<1>1. d.rows \in Seq(Row)
  BY PageChunksAssumption
<1> QED BY <1>1, LenProperties, ElementOfSeq

LEMMA CutHeightIsPositive ==
  ASSUME NEW row \in Row, NEW px \in Nat \ {0}
  PROVE  SegmentCutHeight(row, px) \in Nat \ {0}
<1>0. row.top \in 0..1000 /\ row.bottom \in 0..1000
  BY DEF Row
<1>1. \A p \in 0..1000 : Percent2Abs(p, px) \in Int
  <2> SUFFICES ASSUME NEW p \in 0..1000 PROVE Percent2Abs(p, px) \in Int
    OBVIOUS
  <2>1. PICK x \in Nat : x = p * px
    OBVIOUS
  <2>2. x \div 1000 \in Int
    OBVIOUS
  <2> QED BY <2>1, <2>2 DEF Percent2Abs
<1>2. PICK top \in Int : top = Percent2Abs(row.top, px)
  BY SMTT(30), <1>0, <1>1
<1>3. PICK bottom \in Int : bottom = Percent2Abs(row.bottom, px)
  BY SMTT(30), <1>0, <1>1
<1>4. Max({bottom, top + 1}) \in Int /\ Max({bottom, top + 1}) >= top + 1
  BY MaxOfTwo
<1>5. SegmentCutHeight(row, px) = Max({bottom, top + 1}) - top
  BY <1>2, <1>3 DEF SegmentCutHeight
<1> QED BY <1>4, <1>5

LEMMA CutHeightsAreNat ==
  ASSUME NEW d \in Documents
  PROVE  CutHeights(d) \in [DOMAIN d.rows -> Nat]
<1> SUFFICES ASSUME NEW i \in DOMAIN d.rows, i \in Segments(d)
             PROVE  SegmentCutHeight(d.rows[i], d.px[d.rows[i].page]) \in Nat
  BY DEF CutHeights
<1>1. d.rows[i].page \in DOMAIN d.px
  BY SMTT(30) DEF Segments
<1>2. PICK px \in Nat \ {0} : px = d.px[d.rows[i].page]
  <2>1. \A p \in DOMAIN d.px : d.px[p] \in Nat \ {0}
    BY SMTT(30), DocumentFacts
  <2> QED BY <1>1, <2>1
<1>3. d.rows[i] \in Row
  BY RowFacts
<1> QED BY <1>2, <1>3, CutHeightIsPositive

\* What a part is made of.
LEMMA SegmentsOfPart ==
  ASSUME NEW d \in Documents, NEW P \in SUBSET Names
  PROVE  SegmentsOf(d, P) = IF \E n \in P : Tagged(d, n) # {}
                            THEN {i \in Segments(d) : d.rows[i].tags \cap (P \cup {All}) # {}} ELSE {}
<1>1. \A n \in Names : {n} \in DOMAIN SegmentMap(d) <=> Tagged(d, n) # {}
  BY DEF SegmentMap
<1>2. ASSUME NEW n \in Names, Tagged(d, n) # {} PROVE SegmentMap(d)[{n}] = Tagged(d, All) \cup Tagged(d, n)
  <2>1. UNION {Tagged(d, m) : m \in {n}} = Tagged(d, n)
    OBVIOUS
  <2>2. {n} \in {{x} : x \in {m \in Names : Tagged(d, m) # {}}}
    BY <1>2
  <2>3. SegmentMap(d)[{n}] = Tagged(d, All) \cup UNION {Tagged(d, m) : m \in {n}}
    BY <2>2 DEF SegmentMap
  <2> QED BY <2>1, <2>3
<1> DEFINE Own == {m \in P : {m} \in DOMAIN SegmentMap(d)}
<1>3. SegmentsOf(d, P) = UNION {SegmentMap(d)[{n}] : n \in Own}
  BY DEF SegmentsOf
<1>4. \A n : n \in Own <=> n \in P /\ Tagged(d, n) # {}
  BY <1>1
<1> HIDE DEF Own
<1>5. \A i : i \in SegmentsOf(d, P) <=> \E n \in P : Tagged(d, n) # {} /\ (i \in Tagged(d, All) \/ i \in Tagged(d, n))
  <2> TAKE i
  <2>1. i \in SegmentsOf(d, P) <=> \E n \in Own : i \in SegmentMap(d)[{n}]
    BY <1>3
  <2>2. \A n \in Own : i \in SegmentMap(d)[{n}] <=> (i \in Tagged(d, All) \/ i \in Tagged(d, n))
    <3>1. \A n \in Own : n \in Names /\ Tagged(d, n) # {}
      BY <1>4
    <3> QED BY <1>2, <3>1
  <2> QED BY <1>4, <2>1, <2>2
<1>6. CASE \E n \in P : Tagged(d, n) # {}
  <2>1. ASSUME NEW i PROVE i \in SegmentsOf(d, P) <=> i \in {x \in Segments(d) : d.rows[x].tags \cap (P \cup {All}) # {}}
    <3>1. ASSUME i \in SegmentsOf(d, P) PROVE i \in Segments(d) /\ d.rows[i].tags \cap (P \cup {All}) # {}
      BY <1>5, <3>1 DEF Tagged
    <3>2. ASSUME i \in Segments(d), d.rows[i].tags \cap (P \cup {All}) # {} PROVE i \in SegmentsOf(d, P)
      <4>1. PICK t \in d.rows[i].tags : t = All \/ t \in P
        BY <3>2
      <4>2. i \in Tagged(d, t)
        BY <3>2, <4>1 DEF Tagged
      <4> QED BY <1>5, <1>6, <4>1, <4>2
    <3> QED BY <3>1, <3>2
  <2> QED BY <1>6, <2>1
<1>7. CASE ~\E n \in P : Tagged(d, n) # {}
  BY <1>5, <1>7
<1> QED BY <1>6, <1>7

\* A part row without segments was tagged on a page that is gone.
LEMMA WithoutSegments ==
  ASSUME NEW d \in Documents, NEW P \in PartRows(d), ~HasSegments(d, P)
  PROVE  \E i \in DOMAIN d.rows : d.rows[i].page \notin DOMAIN d.px
<1>1. P \notin d.combined /\ P \notin DOMAIN SegmentMap(d)
  BY DEF HasSegments
<1>2. PICK n \in Names : P = {n} /\ n \in UNION {d.rows[i].tags : i \in DOMAIN d.rows}
  BY <1>1 DEF PartRows
<1>3. PICK i \in DOMAIN d.rows : n \in d.rows[i].tags
  BY <1>2
<1>4. Tagged(d, n) = {}
  BY <1>1, <1>2 DEF SegmentMap
<1>5. i \notin Segments(d)
  BY <1>3, <1>4 DEF Tagged
<1> QED BY <1>5 DEF Segments

-----------------------------------------------------------------------------
(* The invariant: the cut images are as outer as their segments, and a PDF    *)
(* shows what create_part makes of them.                                     *)

LayoutInv ==
  /\ doc \in Documents
  /\ spacing \in [PartRows(doc) -> Nat]
  /\ breaks \in [PartRows(doc) -> SUBSET Nat]
  /\ height \in [DOMAIN doc.rows -> Nat]
  /\ \A i \in DOMAIN height : height[i] = 0 \/ height[i] = CutHeights(doc)[i]
  /\ DOMAIN pdf = PartRows(doc) \X Papers
  /\ phase \in {"edit", "cut"} => \A print \in DOMAIN pdf : ~Drawn(print)
  /\ phase \notin {"edit", "cut"} => height = CutHeights(doc)
  /\ \A print \in DOMAIN pdf : Drawn(print) => PdfPages(print) = CreatePart(print[1], print[2])
  /\ phase = "failed" =>
       \/ \E P \in PartRows(doc) : ~HasSegments(doc, P)
       \/ \E P \in PartRows(doc), paper \in Papers : \E j \in DOMAIN CreatePart(P, paper) :
            CreatePart(P, paper)[j].overflow

LEMMA LayoutStarts ==
  ASSUME LayoutInit PROVE LayoutInv
<1>1. /\ doc \in Documents
      /\ breaks = [P \in PartRows(doc) |-> {}] /\ spacing = [P \in PartRows(doc) |-> 4]
      /\ phase = "edit" /\ height = [i \in DOMAIN doc.rows |-> 0]
      /\ pdf = [print \in PartRows(doc) \X Papers |-> [drawn |-> FALSE, pages |-> <<>>]]
  BY DEF LayoutInit
<1>2. \A print \in DOMAIN pdf : ~Drawn(print)
  BY <1>1 DEF Drawn
<1>3. breaks \in [PartRows(doc) -> SUBSET Nat] /\ spacing \in [PartRows(doc) -> Nat]
  BY <1>1
<1>4. height \in [DOMAIN doc.rows -> Nat] /\ \A i \in DOMAIN height : height[i] = 0
  BY <1>1
<1>5. DOMAIN pdf = PartRows(doc) \X Papers
  BY <1>1
<1> QED BY <1>1, <1>2, <1>3, <1>4, <1>5 DEF LayoutInv

\* Nothing but the document, the layout and the heights is drawn.
LEMMA SamePart ==
  ASSUME UNCHANGED <<doc, breaks, spacing, height>>
  PROVE  \A P, paper : CreatePart(P, paper)' = CreatePart(P, paper)
<1> TAKE P, paper
<1>1. Chunks(P)' = Chunks(P)
  BY DEF Chunks
<1> QED BY <1>1 DEF CreatePart

\* Nothing is drawn while the layout changes and the pages are cut.
LEMMA LayoutEdited ==
  ASSUME LayoutInv, phase = "edit", phase' = "edit", UNCHANGED <<doc, height, pdf>>,
         spacing' \in [PartRows(doc) -> Nat], breaks' \in [PartRows(doc) -> SUBSET Nat]
  PROVE  LayoutInv'
<1>1. \A print \in DOMAIN pdf : ~Drawn(print) /\ ~Drawn(print)'
  BY DEF LayoutInv, Drawn
<1>2. /\ doc \in Documents /\ height \in [DOMAIN doc.rows -> Nat] /\ DOMAIN pdf = PartRows(doc) \X Papers
      /\ \A i \in DOMAIN height : height[i] = 0 \/ height[i] = CutHeights(doc)[i]
  BY DEF LayoutInv
<1>3. \A print \in DOMAIN pdf' : ~Drawn(print)'
  BY <1>1
<1> QED BY <1>2, <1>3 DEF LayoutInv

LEMMA ToggleBreakKeeps ==
  ASSUME LayoutInv, NEW P \in DOMAIN spacing, NEW i \in Nat, ToggleBreak(P, i)
  PROVE  LayoutInv'
<1>1. phase = "edit" /\ phase' = "edit" /\ UNCHANGED <<doc, height, pdf, spacing>>
      /\ breaks' = [breaks EXCEPT ![P] = (@ \ {i}) \cup ({i} \ @)]
  BY DEF ToggleBreak, Edit
<1>2. spacing \in [PartRows(doc) -> Nat] /\ breaks \in [PartRows(doc) -> SUBSET Nat]
  BY DEF LayoutInv
<1>3. breaks' \in [PartRows(doc) -> SUBSET Nat]
  <2>1. P \in PartRows(doc) /\ breaks[P] \in SUBSET Nat
    BY <1>2
  <2>2. (breaks[P] \ {i}) \cup ({i} \ breaks[P]) \in SUBSET Nat
    BY <2>1
  <2> QED BY <1>1, <1>2, <2>2
<1>4. spacing' \in [PartRows(doc) -> Nat]
  BY <1>1, <1>2
<1> QED BY <1>1, <1>3, <1>4, LayoutEdited

LEMMA SetSpacingKeeps ==
  ASSUME LayoutInv, NEW P \in DOMAIN spacing, NEW k \in Spacings, SetSpacing(P, k)
  PROVE  LayoutInv'
<1>1. phase = "edit" /\ phase' = "edit" /\ UNCHANGED <<doc, height, pdf, breaks>>
      /\ spacing' = [spacing EXCEPT ![P] = k]
  BY DEF SetSpacing, Edit
<1>2. spacing \in [PartRows(doc) -> Nat] /\ breaks \in [PartRows(doc) -> SUBSET Nat]
  BY DEF LayoutInv
<1>3. k \in Nat
  BY PageChunksAssumption
<1>4. spacing' \in [PartRows(doc) -> Nat]
  BY <1>1, <1>2, <1>3
<1>5. breaks' \in [PartRows(doc) -> SUBSET Nat]
  BY <1>1, <1>2
<1> QED BY <1>1, <1>4, <1>5, LayoutEdited

LEMMA GenerateKeeps ==
  ASSUME LayoutInv, Generate PROVE LayoutInv'
<1>1. phase = "edit" /\ phase' = "cut" /\ UNCHANGED <<doc, breaks, spacing, height, pdf>>
  BY DEF Generate
<1>2. \A print \in DOMAIN pdf : ~Drawn(print) /\ ~Drawn(print)'
  BY <1>1 DEF LayoutInv, Drawn
<1>3. /\ doc \in Documents /\ height \in [DOMAIN doc.rows -> Nat] /\ DOMAIN pdf = PartRows(doc) \X Papers
      /\ \A i \in DOMAIN height : height[i] = 0 \/ height[i] = CutHeights(doc)[i]
      /\ spacing \in [PartRows(doc) -> Nat] /\ breaks \in [PartRows(doc) -> SUBSET Nat]
  BY DEF LayoutInv
<1>4. \A print \in DOMAIN pdf' : ~Drawn(print)'
  BY <1>1, <1>2
<1> QED BY <1>1, <1>3, <1>4 DEF LayoutInv

LEMMA CutPageKeeps ==
  ASSUME LayoutInv, NEW p \in DOMAIN doc.px, CutPage(p) PROVE LayoutInv'
<1>1. phase = "cut" /\ UNCHANGED <<doc, breaks, spacing, phase, pdf>>
      /\ height' = [i \in DOMAIN height |->
                      IF i \in Uncut(p) THEN SegmentCutHeight(doc.rows[i], doc.px[p]) ELSE height[i]]
  BY DEF CutPage
<1>2. \A print \in DOMAIN pdf : ~Drawn(print) /\ ~Drawn(print)'
  BY <1>1 DEF LayoutInv, Drawn
<1>3. /\ doc \in Documents /\ height \in [DOMAIN doc.rows -> Nat] /\ DOMAIN pdf = PartRows(doc) \X Papers
      /\ \A i \in DOMAIN height : height[i] = 0 \/ height[i] = CutHeights(doc)[i]
      /\ spacing \in [PartRows(doc) -> Nat] /\ breaks \in [PartRows(doc) -> SUBSET Nat]
  BY DEF LayoutInv
<1>4. \A i \in DOMAIN height : height'[i] = 0 \/ height'[i] = CutHeights(doc)[i]
  <2> SUFFICES ASSUME NEW i \in DOMAIN height, i \in Uncut(p) PROVE height'[i] = CutHeights(doc)[i]
    BY <1>1, <1>3
  <2>1. i \in DOMAIN doc.rows /\ i \in Segments(doc) /\ doc.rows[i].page = p
    BY <1>3 DEF Uncut
  <2>2. CutHeights(doc)[i] = SegmentCutHeight(doc.rows[i], doc.px[p])
    BY <2>1 DEF CutHeights
  <2> QED BY <1>1, <2>2
<1>5. height' \in [DOMAIN doc.rows -> Nat]
  <2>1. \A i \in DOMAIN doc.rows : CutHeights(doc)[i] \in Nat
    BY <1>3, CutHeightsAreNat
  <2>2. \A i \in DOMAIN doc.rows : height'[i] \in Nat
    BY <1>3, <1>4, <2>1
  <2> QED BY <1>1, <1>3, <2>2
<1>6. \A print \in DOMAIN pdf' : ~Drawn(print)'
  BY <1>1, <1>2
<1> QED BY <1>1, <1>3, <1>4, <1>5, <1>6 DEF LayoutInv

LEMMA PasteKeeps ==
  ASSUME LayoutInv, Paste PROVE LayoutInv'
<1>1. /\ phase = "cut" /\ UNCHANGED <<doc, breaks, spacing, height, pdf>>
      /\ \A p \in DOMAIN doc.px : Uncut(p) = {}
      /\ phase' = IF \E P \in PartRows(doc) : ~HasSegments(doc, P) THEN "failed" ELSE "paste"
  BY DEF Paste
<1>2. \A print \in DOMAIN pdf : ~Drawn(print) /\ ~Drawn(print)'
  BY <1>1 DEF LayoutInv, Drawn
<1>3. /\ doc \in Documents /\ height \in [DOMAIN doc.rows -> Nat] /\ DOMAIN pdf = PartRows(doc) \X Papers
      /\ \A i \in DOMAIN height : height[i] = 0 \/ height[i] = CutHeights(doc)[i]
      /\ spacing \in [PartRows(doc) -> Nat] /\ breaks \in [PartRows(doc) -> SUBSET Nat]
  BY DEF LayoutInv
<1>4. height = CutHeights(doc)
  <2>1. ASSUME NEW i \in DOMAIN height PROVE height[i] = CutHeights(doc)[i]
    <3>1. CASE i \in Segments(doc)
      <4>1. doc.rows[i].page \in DOMAIN doc.px
        BY <3>1 DEF Segments
      <4>2. height[i] # 0
        BY <1>1, <3>1, <4>1 DEF Uncut
      <4> QED BY <1>3, <4>2
    <3>2. CASE i \notin Segments(doc)
      <4>1. CutHeights(doc)[i] = 0
        BY <1>3, <3>2 DEF CutHeights
      <4> QED BY <1>3, <4>1
    <3> QED BY <3>1, <3>2
  <2>2. CutHeights(doc) \in [DOMAIN doc.rows -> Nat]
    BY <1>3, CutHeightsAreNat
  <2> QED BY <1>3, <2>1, <2>2
<1>5. \A print \in DOMAIN pdf' : ~Drawn(print)'
  BY <1>1, <1>2
<1>6. phase' = "failed" => \E P \in PartRows(doc') : ~HasSegments(doc', P)
  BY <1>1
<1>7. phase' \notin {"edit", "cut"}
  BY <1>1
<1> QED BY <1>1, <1>3, <1>4, <1>5, <1>6, <1>7 DEF LayoutInv

LEMMA DrawKeeps ==
  ASSUME LayoutInv, NEW P \in DOMAIN spacing, NEW paper \in Papers, Draw(P, paper) PROVE LayoutInv'
<1>1. /\ phase = "paste" /\ UNCHANGED <<doc, breaks, spacing, height>>
      /\ pdf' = [pdf EXCEPT ![<<P, paper>>] = [drawn |-> TRUE, pages |-> CreatePart(P, paper)]]
      /\ phase' = IF \E j \in DOMAIN CreatePart(P, paper) : CreatePart(P, paper)[j].overflow
                  THEN "failed"
                  ELSE IF \A print \in DOMAIN pdf \ {<<P, paper>>} : pdf[print].drawn THEN "done"
                  ELSE "paste"
  BY DEF Draw
<1>2. \A Q, size : CreatePart(Q, size)' = CreatePart(Q, size)
  BY <1>1, SamePart
<1>3. /\ doc \in Documents /\ height \in [DOMAIN doc.rows -> Nat] /\ DOMAIN pdf = PartRows(doc) \X Papers
      /\ \A i \in DOMAIN height : height[i] = 0 \/ height[i] = CutHeights(doc)[i]
      /\ spacing \in [PartRows(doc) -> Nat] /\ breaks \in [PartRows(doc) -> SUBSET Nat]
      /\ height = CutHeights(doc)
  BY <1>1 DEF LayoutInv
<1>4. \A print \in DOMAIN pdf : Drawn(print) => PdfPages(print) = CreatePart(print[1], print[2])
  BY DEF LayoutInv
<1>5. P \in PartRows(doc) /\ DOMAIN pdf' = DOMAIN pdf
  BY <1>1, <1>3
<1>6. ASSUME NEW print \in DOMAIN pdf, Drawn(print)' PROVE PdfPages(print)' = CreatePart(print[1], print[2])'
  <2>1. CASE print = <<P, paper>>
    <3>1. pdf'[print] = [drawn |-> TRUE, pages |-> CreatePart(P, paper)]
      BY <1>1, <2>1
    <3>2. print[1] = P /\ print[2] = paper
      BY <2>1
    <3>3. PdfPages(print)' = CreatePart(P, paper)
      BY <3>1 DEF PdfPages
    <3> QED BY <1>2, <3>2, <3>3
  <2>2. CASE print # <<P, paper>>
    <3>1. pdf'[print] = pdf[print]
      BY <1>1, <2>2
    <3>2. Drawn(print) /\ PdfPages(print)' = PdfPages(print)
      BY <1>6, <3>1 DEF Drawn, PdfPages
    <3> QED BY <1>2, <1>4, <3>2
  <2> QED BY <2>1, <2>2
<1>7. phase' = "failed" => \E Q \in PartRows(doc'), size \in Papers : \E j \in DOMAIN CreatePart(Q, size)' :
                             CreatePart(Q, size)'[j].overflow
  BY <1>1, <1>2, <1>5
<1>8. phase' \notin {"edit", "cut"}
  BY <1>1
<1>9. \A print \in DOMAIN pdf' : Drawn(print)' => PdfPages(print)' = CreatePart(print[1], print[2])'
  BY <1>5, <1>6
<1>10. /\ doc' \in Documents /\ height' \in [DOMAIN doc'.rows -> Nat] /\ DOMAIN pdf' = PartRows(doc') \X Papers
       /\ \A i \in DOMAIN height' : height'[i] = 0 \/ height'[i] = CutHeights(doc')[i]
       /\ spacing' \in [PartRows(doc') -> Nat] /\ breaks' \in [PartRows(doc') -> SUBSET Nat]
       /\ height' = CutHeights(doc')
  BY <1>1, <1>3, <1>5
<1> QED BY <1>7, <1>8, <1>9, <1>10 DEF LayoutInv

LEMMA LayoutStepKeeps ==
  ASSUME LayoutInv, [LayoutNext]_layoutVars PROVE LayoutInv'
<1>1. ASSUME NEW P \in DOMAIN spacing, NEW i \in 0..Len(doc.rows), ToggleBreak(P, i) PROVE LayoutInv'
  <2>1. i \in Nat
    <3>1. Len(doc.rows) \in Nat
      BY ZenonT(40), DocumentFacts DEF LayoutInv
    <3> QED BY SMTT(30), <3>1
  <2> QED BY <1>1, <2>1, ToggleBreakKeeps
<1>2. CASE UNCHANGED layoutVars
  <2>1. UNCHANGED <<doc, breaks, spacing, phase, height, pdf>>
    BY <1>2 DEF layoutVars
  <2>2. \A Q, size : CreatePart(Q, size)' = CreatePart(Q, size)
    BY <2>1, SamePart
  <2>3. \A print : Drawn(print)' = Drawn(print) /\ PdfPages(print)' = PdfPages(print)
    BY <2>1 DEF Drawn, PdfPages
  <2> QED BY <2>1, <2>2, <2>3 DEF LayoutInv
<1> QED BY <1>1, <1>2, SetSpacingKeeps, DrawKeeps, CutPageKeeps, GenerateKeeps, PasteKeeps DEF LayoutNext

\* The invariant holds in every state.
LEMMA LayoutAlways == LayoutSpec => []LayoutInv
<1>1. LayoutInit => LayoutInv
  BY LayoutStarts
<1>2. LayoutInv /\ [LayoutNext]_layoutVars => LayoutInv'
  BY LayoutStepKeeps
<1> QED BY <1>1, <1>2, PTL DEF LayoutSpec

-----------------------------------------------------------------------------
(* The pages of a part.                                                      *)

Orientations == {"portrait", "landscape"}

\* A stack that is as outer as a page may be fits the band of either paper.
LEMMA PaperFacts ==
  ASSUME NEW o \in Orientations, NEW paper \in Papers
  PROVE  /\ PackingBand(paper, o) \in Nat \ {0} /\ PageChunkMax(o) \in Nat
         /\ 2 * PageChunkMax(o) <= PackingBand(paper, o)
<1>1. /\ ContentHeight("letter", "portrait") = 5730 /\ ContentHeight("a4", "portrait") = 5730
      /\ ContentHeight("letter", "landscape") = 3990 /\ ContentHeight("a4", "landscape") = 3852
  <2>1. /\ PageHeight("letter", "portrait") = 6600 /\ PageHeight("a4", "portrait") = 7014
        /\ PageHeight("letter", "landscape") = 5100 /\ PageHeight("a4", "landscape") = 4962
    BY DEF PageHeight, PageSize
  <2>2. /\ Margins("letter", "portrait") = [bottom |-> 150, top |-> 6450]
        /\ Margins("a4", "portrait") = [bottom |-> 357, top |-> 6657]
        /\ Margins("letter", "landscape") = [bottom |-> 240, top |-> 4800]
        /\ Margins("a4", "landscape") = [bottom |-> 240, top |-> 4662]
    BY <2>1 DEF Margins
  <2> QED BY <2>2 DEF ContentHeight, FooterBand, ContentStartOffset
<1>2. /\ PackingBand("letter", "portrait") = 5730 /\ PackingBand("a4", "portrait") = 5730
      /\ PackingBand("letter", "landscape") = 3852 /\ PackingBand("a4", "landscape") = 3852
  BY <1>1 DEF PackingBand, PackingPad
<1>3. PageChunkMax("portrait") = 2865 /\ PageChunkMax("landscape") = 1925
  <2>1. \A x : {ContentHeight(p, x) : p \in Papers} = {ContentHeight("letter", x), ContentHeight("a4", x)}
    BY DEF Papers
  <2>2. Min({ContentHeight(p, "portrait") : p \in Papers}) = 5730
    <3>1. PICK a \in Int, b \in Int :
             a = ContentHeight("letter", "portrait") /\ b = ContentHeight("a4", "portrait") /\ a = 5730 /\ b = 5730
      BY <1>1
    <3>2. {ContentHeight(p, "portrait") : p \in Papers} = {a, b}
      BY <2>1, <3>1
    <3> QED BY <3>1, <3>2, MinOfTwo
  <2>3. Min({ContentHeight(p, "landscape") : p \in Papers}) = 3852
    <3>1. {ContentHeight(p, "landscape") : p \in Papers} = {3990, 3852}
      BY <1>1, <2>1
    <3>2. Min({3990, 3852}) = 3852
      BY MinOfTwo
    <3> QED BY <3>1, <3>2
  <2> QED BY <2>2, <2>3 DEF PageChunkMax
<1> QED BY <1>2, <1>3 DEF Papers, Orientations

\* The segments on one page of a division.
LEMMA ChunkOf ==
  ASSUME NEW s \in Seq(Nat), NEW heights, NEW gap, NEW brks, NEW max, NEW C, NEW e,
         Division(C, e, Len(s), s, heights, gap, brks, max), NEW j \in 1..Len(C)
  PROVE  /\ e[j - 1] \in 0..Len(s) /\ e[j] \in e[j - 1] + 1..Len(s)
         /\ C[j] \in Seq(Nat) /\ Len(C[j]) = e[j] - e[j - 1]
         /\ \A i \in 1..Len(C[j]) : e[j - 1] + i \in 1..Len(s) /\ C[j][i] = s[e[j - 1] + i]
<1>0. Len(s) \in Nat /\ Len(C) \in Nat
  BY LenProperties DEF Division
<1>1. j - 1 \in 0..Len(C) /\ j \in 0..Len(C)
  BY <1>0
<1>2. PICK a \in 0..Len(s) : a = e[j - 1]
  BY <1>1 DEF Division
<1>3. PICK b \in 0..Len(s) : b = e[j]
  BY <1>1 DEF Division
<1>4. a < b /\ C[j] = SubSeq(s, a + 1, b)
  BY <1>2, <1>3 DEF Division
<1>5. b \in a + 1..Len(s)
  BY <1>0, <1>4
<1>6. C[j] \in Seq(Nat) /\ Len(C[j]) = b - a
  BY <1>4, <1>5, AppendNeighbour
<1>7. \A i \in 1..b - a : a + i \in 1..Len(s)
  BY <1>0, <1>5
<1>8. \A i \in 1..b - a : C[j][i] = s[a + i]
  <2>1. a + 1 \in Int /\ b \in Int /\ \A i \in a + 1..b : s[i] \in Nat
    BY <1>0, <1>5, ElementOfSeq
  <2>2. /\ SubSeq(s, a + 1, b) \in Seq(Nat)
        /\ Len(SubSeq(s, a + 1, b)) = IF a + 1 <= b THEN b - (a + 1) + 1 ELSE 0
        /\ \A i \in 1..b - (a + 1) + 1 : SubSeq(s, a + 1, b)[i] = s[a + 1 + i - 1]
    BY <2>1, SubSeqProperties
  <2>3. \A i \in 1..b - a : i \in 1..b - (a + 1) + 1 /\ a + 1 + i - 1 = a + i
    OBVIOUS
  <2> QED BY <1>4, <2>2, <2>3
<1> QED BY <1>2, <1>3, <1>5, <1>6, <1>7, <1>8

LEMMA ChunkMember ==
  ASSUME NEW s \in Seq(Nat), NEW heights, NEW gap, NEW brks, NEW max, NEW C, NEW e,
         Division(C, e, Len(s), s, heights, gap, brks, max), NEW j \in 1..Len(C), NEW i \in 1..Len(C[j])
  PROVE  \E x \in 1..Len(s) : C[j][i] = s[x]
<1>1. /\ C[j] \in Seq(Nat)
      /\ \A y \in 1..Len(C[j]) : e[j - 1] + y \in 1..Len(s) /\ C[j][y] = s[e[j - 1] + y]
  BY ChunkOf
<1> QED BY <1>1

\* What a part looks like on paper: the pages Q, of the chunks C, of the segments s.
PartOnPaper(Q, C, s, P, paper) ==
  /\ s \in Seq(Nat) /\ C \in Seq(Seq(Nat)) /\ DOMAIN Q = 1..Len(C) /\ Q = [j \in DOMAIN Q |-> Q[j]]
  /\ \A i \in 1..Len(s) : s[i] \in DOMAIN doc.rows /\ height[s[i]] \in Nat
  /\ s = <<>> => C = <<>>
  /\ s # <<>> => \E e : Division(C, e, Len(s), s, height, SpacingPx(spacing[P]), breaks[P],
                                 PageChunkMax(doc.orientation))
  /\ \A j \in 1..Len(C) :
       /\ \A i \in 1..Len(C[j]) : height[C[j][i]] \in Nat
       /\ \E r : Page(Q[j], r, C[j], height, spacing[P], PackingBand(paper, doc.orientation),
                      ComputeCues(doc, P))

LEMMA CreatePartDraws ==
  ASSUME LayoutInv, NEW P \in PartRows(doc), NEW paper \in Papers
  PROVE  PartOnPaper(CreatePart(P, paper), Chunks(P), PartSegments(doc, P), P, paper)
<1> DEFINE Q == CreatePart(P, paper)
           C == Chunks(P)
           s == PartSegments(doc, P)
           max == PageChunkMax(doc.orientation)
           band == PackingBand(paper, doc.orientation)
<1>0. doc \in Documents /\ spacing[P] \in Nat /\ height \in [DOMAIN doc.rows -> Nat]
  BY DEF LayoutInv
<1>1. s \in Seq(Nat) /\ \A i \in 1..Len(s) : s[i] \in DOMAIN doc.rows
  <2>1. Len(doc.rows) \in Nat /\ DOMAIN doc.rows = 1..Len(doc.rows)
    BY <1>0, DocumentFacts
  <2>2. Listing(s, SegmentsOf(doc, P), Len(doc.rows))
    BY <2>1, PartSegmentsList
  <2> HIDE DEF s
  <2> QED BY SMTT(30), <2>1, <2>2 DEF Listing
<1>2. \A i \in 1..Len(s) : height[s[i]] \in Nat
  BY <1>0, <1>1
<1>3. C = Divide(s, height, SpacingPx(spacing[P]), breaks[P], max)
  BY DEF Chunks
<1> HIDE DEF s, max
<1>4. s = <<>> => C = <<>>
  BY <1>3, DivideNothing
<1>5. s # <<>> => \E e : Division(C, e, Len(s), s, height, SpacingPx(spacing[P]), breaks[P], max)
  BY <1>1, <1>3, DivideCuts
<1> HIDE DEF C
<1>6. C \in Seq(Seq(Nat))
  <2>1. <<>> \in Seq(Seq(Nat))
    OBVIOUS
  <2> QED BY <1>4, <1>5, <2>1 DEF Division
<1>7. \A j \in 1..Len(C) : C[j] \in Seq(Nat) /\ \A i \in 1..Len(C[j]) : height[C[j][i]] \in Nat
  <2> SUFFICES ASSUME NEW j \in 1..Len(C)
               PROVE  C[j] \in Seq(Nat) /\ \A i \in 1..Len(C[j]) : height[C[j][i]] \in Nat
    OBVIOUS
  <2>1. s # <<>>
    <3>1. Len(<<>>) = 0
      OBVIOUS
    <3> QED BY <1>4, <3>1
  <2>2. PICK e : Division(C, e, Len(s), s, height, SpacingPx(spacing[P]), breaks[P], max)
    BY <1>5, <2>1
  <2>3. /\ C[j] \in Seq(Nat)
        /\ \A i \in 1..Len(C[j]) : e[j - 1] + i \in 1..Len(s) /\ C[j][i] = s[e[j - 1] + i]
    BY SMTT(30), <1>1, <2>2, ChunkOf
  <2> QED BY <1>2, <2>3
<1>8. band \in Int
  BY <1>0, DocumentFacts, PaperFacts DEF Orientations
<1> HIDE DEF band
<1>9. DOMAIN C = 1..Len(C)
  BY <1>6, LenProperties
<1>10. DOMAIN Q = 1..Len(C) /\ \A j \in 1..Len(C) :
         Q[j] = AddImages(C[j], height, spacing[P], band, ComputeCues(doc, P))
  BY <1>9 DEF CreatePart, C, band
<1>12. Q = [j \in DOMAIN Q |-> Q[j]]
  BY DEF CreatePart
<1> HIDE DEF Q
<1>11. \A j \in 1..Len(C) : \E r : Page(Q[j], r, C[j], height, spacing[P], band, ComputeCues(doc, P))
  <2> SUFFICES ASSUME NEW j \in 1..Len(C)
               PROVE  \E r : Page(Q[j], r, C[j], height, spacing[P], band, ComputeCues(doc, P))
    OBVIOUS
  <2>1. PICK k \in Nat : k = spacing[P]
    BY <1>0
  <2>2. PICK c \in Seq(Nat) : c = C[j]
    BY <1>7
  <2>3. \A i \in 1..Len(c) : height[c[i]] \in Nat
    BY <1>7, <2>2
  <2>4. PICK r : Page(AddImages(c, height, k, band, ComputeCues(doc, P)), r, c, height, k, band,
                      ComputeCues(doc, P))
    BY <1>8, <2>3, AddImagesDraws
  <2> QED BY <1>10, <2>1, <2>2, <2>4
<1> QED BY <1>1, <1>2, <1>4, <1>5, <1>6, <1>7, <1>10, <1>11, <1>12 DEF PartOnPaper, Q, C, s, max, band

LEMMA SpacingsAgree ==
  ASSUME NEW k \in Nat
  PROVE  /\ SpacingPx(k) \in Nat /\ 2 * SpacingPx(k) >= 15 * k - 1
         /\ k % 4 # 3 => 2 * SpacingPx(k) >= 15 * k /\ SpacingPx(k) = SpacingHighres(k)
<1>1. PICK q \in Nat, m \in 0..3 : k = 4 * q + m
  <2>1. PICK q \in Nat : q = k \div 4
    OBVIOUS
  <2>2. 4 * q <= k /\ k <= 4 * q + 3
    BY <2>1
  <2>3. k - 4 * q \in 0..3 /\ k = 4 * q + (k - 4 * q)
    BY <2>2
  <2> QED BY <2>3
<1>2. CASE m = 0
  <2>1. k % 2 = 0 /\ (15 * k) \div 2 = 30 * q /\ (15 * k + 1) \div 2 = 30 * q
    BY <1>1, <1>2
  <2> QED BY <1>1, <1>2, <2>1 DEF SpacingPx, SpacingHighres
<1>3. CASE m = 1
  <2>1. k % 2 = 1 /\ (15 * k) \div 2 = 30 * q + 7 /\ (30 * q + 7) % 2 = 1 /\ (15 * k + 1) \div 2 = 30 * q + 8
    BY <1>1, <1>3
  <2> QED BY <1>1, <1>3, <2>1 DEF SpacingPx, SpacingHighres
<1>4. CASE m = 2
  <2>1. k % 2 = 0 /\ (15 * k) \div 2 = 30 * q + 15 /\ (15 * k + 1) \div 2 = 30 * q + 15
    BY <1>1, <1>4
  <2> QED BY <1>1, <1>4, <2>1 DEF SpacingPx, SpacingHighres
<1>5. CASE m = 3
  <2>1. k % 2 = 1 /\ k % 4 = 3 /\ (15 * k) \div 2 = 30 * q + 22 /\ (30 * q + 22) % 2 = 0
    BY <1>1, <1>5
  <2> QED BY <1>1, <1>5, <2>1 DEF SpacingPx
<1> QED BY <1>2, <1>3, <1>4, <1>5

\* The pages of a PDF that is drawn.
LEMMA PdfOnPaper ==
  ASSUME LayoutInv, NEW print \in DOMAIN pdf, Drawn(print)
  PROVE  /\ print[1] \in PartRows(doc) /\ print[2] \in Papers /\ height = CutHeights(doc) /\ doc \in Documents
         /\ PartOnPaper(PdfPages(print), Chunks(print[1]), PartSegments(doc, print[1]), print[1], print[2])
<1>1. print[1] \in PartRows(doc) /\ print[2] \in Papers /\ doc \in Documents
  BY DEF LayoutInv
<1>2. height = CutHeights(doc) /\ PdfPages(print) = CreatePart(print[1], print[2])
  BY DEF LayoutInv
<1> QED BY <1>1, <1>2, CreatePartDraws

LEMMA PagesAreChunks ==
  ASSUME NEW print, NEW C, NEW s, NEW P, NEW paper, PartOnPaper(PdfPages(print), C, s, P, paper)
  PROVE  PagesOf(print) = C
<1>1. C \in Seq(Seq(Nat)) /\ DOMAIN PdfPages(print) = 1..Len(C)
  BY DEF PartOnPaper
<1>2. ASSUME NEW j \in 1..Len(C)
      PROVE  [i \in DOMAIN PdfPages(print)[j].images |-> PdfPages(print)[j].images[i].seg] = C[j]
  <2>1. C[j] \in Seq(Nat)
    BY <1>1, ElementOfSeq
  <2>2. PICK r : Page(PdfPages(print)[j], r, C[j], height, spacing[P], PackingBand(paper, doc.orientation),
                      ComputeCues(doc, P))
    BY DEF PartOnPaper
  <2>3. PICK images \in Seq(Images) : images = PdfPages(print)[j].images
    BY <2>2 DEF Page
  <2>4. Len(images) = Len(C[j]) /\ \A i \in 1..Len(C[j]) : images[i].seg = C[j][i]
    <3>1. Len(images) = Len(C[j])
      BY <2>2, <2>3 DEF Page
    <3>2. ASSUME NEW i \in 1..Len(C[j]) PROVE images[i].seg = C[j][i]
      <4>1. images[i] = [seg |-> C[j][i], height |-> Min({2 * height[C[j][i]], r[i - 1]}),
                         cue |-> C[j][i] \in ComputeCues(doc, P)]
        BY <2>2, <2>3 DEF Page
      <4> QED BY <4>1
    <3> QED BY <3>1, <3>2
  <2>5. DOMAIN images = 1..Len(C[j]) /\ DOMAIN C[j] = 1..Len(C[j])
    BY <2>1, <2>4, LenProperties
  <2>6. C[j] = [i \in DOMAIN C[j] |-> C[j][i]]
    BY <2>1
  <2> QED BY <2>3, <2>4, <2>5, <2>6
<1>3. DOMAIN C = 1..Len(C) /\ C = [j \in DOMAIN C |-> C[j]]
  BY <1>1, LenProperties
<1> QED BY <1>1, <1>2, <1>3 DEF PagesOf

\* The preview breaks the pages where the PDFs do.
LEMMA PreviewAgrees ==
  LayoutInv => PreviewShowsPages
<1> SUFFICES ASSUME LayoutInv, NEW print \in DOMAIN pdf, Drawn(print), spacing[print[1]] % 4 # 3
             PROVE  PagesOf(print) = PreviewChunks(print[1])
  BY DEF PreviewShowsPages
<1>1. height = CutHeights(doc) /\ print[1] \in PartRows(doc)
      /\ PartOnPaper(PdfPages(print), Chunks(print[1]), PartSegments(doc, print[1]), print[1], print[2])
  BY PdfOnPaper
<1>2. PagesOf(print) = Chunks(print[1])
  BY <1>1, PagesAreChunks
<1>3. spacing[print[1]] \in Nat
  BY <1>1 DEF LayoutInv
<1>4. SpacingPx(spacing[print[1]]) = SpacingHighres(spacing[print[1]])
  BY <1>3, SpacingsAgree
<1>5. Chunks(print[1]) = PreviewChunks(print[1])
  BY <1>1, <1>4 DEF Chunks, PreviewChunks
<1> QED BY <1>2, <1>5

\* What a page of several segments leaves for each of them.
LEMMA SharedPage ==
  ASSUME LayoutInv, NEW P \in PartRows(doc), NEW paper \in Papers, NEW Q, NEW C, NEW s,
         PartOnPaper(Q, C, s, P, paper), NEW j \in 1..Len(C), NEW r,
         Page(Q[j], r, C[j], height, spacing[P], PackingBand(paper, doc.orientation), ComputeCues(doc, P)),
         Len(C[j]) >= 2, NEW half \in 0..1, spacing[P] % 4 = 3 => half = 1, NEW i \in 1..Len(C[j])
  PROVE  r[i - 1] >= 2 * height[C[j][i]] - half * (i - 1)
<1>1. PICK k \in Nat : k = spacing[P]
  BY DEF LayoutInv
<1>2. PICK gap \in Nat : gap = SpacingPx(k)
  BY SpacingsAgree
<1>3. 2 * gap >= 15 * k - half
  <2>1. 2 * gap >= 15 * k - 1 /\ (k % 4 # 3 => 2 * gap >= 15 * k)
    BY <1>2, SpacingsAgree
  <2>2. CASE half = 1
    BY <2>1, <2>2
  <2>3. CASE half = 0
    <3>1. k % 4 # 3
      BY SMTT(30), <1>1, <2>3
    <3> QED BY <2>1, <2>3, <3>1
  <2> QED BY <2>2, <2>3
<1>4. doc.orientation \in Orientations
  BY ZenonT(40), DocumentFacts DEF LayoutInv, Orientations
<1>5. PICK max \in Nat : max = PageChunkMax(doc.orientation)
  BY <1>4, PaperFacts
<1>6. PICK band \in Nat : band = PackingBand(paper, doc.orientation)
  BY <1>4, PaperFacts
<1>7. 2 * max <= band
  BY <1>4, <1>5, <1>6, PaperFacts
<1>8. s # <<>>
  <2>1. Len(<<>>) = 0
    OBVIOUS
  <2> QED BY <2>1 DEF PartOnPaper
<1>9. PICK e : Division(C, e, Len(s), s, height, gap, breaks[P], max)
  BY <1>1, <1>2, <1>5, <1>8 DEF PartOnPaper
<1>10. s \in Seq(Nat)
  BY DEF PartOnPaper
<1>11. PICK c \in Seq(Nat) : c = C[j]
  BY <1>9, <1>10, ChunkOf
<1>12. \A x \in 1..Len(c) : height[c[x]] \in Nat
  BY <1>11 DEF PartOnPaper
<1>13. ChunkStackHeight(c, height, gap) <= max
  <2>1. e[j] = e[j - 1] + 1 \/ ChunkStackHeight(C[j], height, gap) <= max
    BY <1>9 DEF Division
  <2>2. e[j - 1] \in 0..Len(s) /\ e[j] \in e[j - 1] + 1..Len(s) /\ Len(C[j]) = e[j] - e[j - 1]
    BY <1>9, <1>10, ChunkOf
  <2>3. Len(s) \in Nat
    BY <1>10, LenProperties
  <2>4. e[j] # e[j - 1] + 1
    BY <2>2, <2>3
  <2> QED BY <1>11, <2>1, <2>4
<1>14. Page(Q[j], r, c, height, k, band, ComputeCues(doc, P)) /\ Len(c) >= 2 /\ i \in 1..Len(c)
  BY <1>1, <1>6, <1>11
<1>15. r[i - 1] >= 2 * height[c[i]] - half * (i - 1)
  <2>1. max \in Int /\ band \in Int
    OBVIOUS
  <2> QED BY <1>3, <1>7, <1>12, <1>13, <1>14, <2>1, RoomForEach
<1> QED BY <1>11, <1>15

LEMMA DrawnInFull ==
  LayoutInv => FullSize
<1> SUFFICES ASSUME LayoutInv, NEW print \in DOMAIN pdf, Drawn(print), NEW j \in DOMAIN PdfPages(print),
                    NEW i \in DOMAIN PdfPages(print)[j].images
             PROVE  LET images == PdfPages(print)[j].images
                    IN IF Len(images) = 1
                       THEN images[i].height = Min({2 * height[images[i].seg], PackingBand(print[2], doc.orientation)})
                       ELSE images[i].height >= 2 * height[images[i].seg] - (Len(images) - 1)
  BY DEF FullSize
<1> DEFINE P == print[1]
           C == Chunks(P)
           band == PackingBand(print[2], doc.orientation)
           images == PdfPages(print)[j].images
<1>1. /\ P \in PartRows(doc) /\ print[2] \in Papers
      /\ PartOnPaper(PdfPages(print), C, PartSegments(doc, P), P, print[2])
  BY PdfOnPaper
<1> HIDE DEF C, P
<1>2. j \in 1..Len(C)
  BY <1>1 DEF PartOnPaper
<1>3. PICK r : Page(PdfPages(print)[j], r, C[j], height, spacing[P], band, ComputeCues(doc, P))
  BY <1>1, <1>2 DEF PartOnPaper
<1> HIDE DEF band
<1>4. images \in Seq(Images) /\ Len(images) = Len(C[j])
  BY <1>3 DEF Page
<1>5. Len(images) \in Nat /\ i \in 1..Len(images)
  BY <1>4, LenProperties
<1>6. images[i].height = Min({2 * height[images[i].seg], r[i - 1]}) /\ images[i].seg = C[j][i]
  <2>1. images[i] = [seg |-> C[j][i], height |-> Min({2 * height[C[j][i]], r[i - 1]}),
                     cue |-> C[j][i] \in ComputeCues(doc, P)]
    BY <1>3, <1>4, <1>5 DEF Page
  <2> HIDE DEF images
  <2> QED BY <2>1
<1>7. CASE Len(images) = 1
  <2>1. r[i - 1] = band
    <3>1. i - 1 = 0
      BY <1>5, <1>7
    <3> QED BY <1>3, <3>1 DEF Page
  <2> QED BY <1>6, <1>7, <2>1 DEF band
<1>8. CASE Len(images) # 1
  <2>1. PICK n \in Nat : n = Len(images) /\ n >= 2 /\ n = Len(C[j])
    <3>1. PICK n \in Nat : n = Len(images)
      BY <1>5
    <3>2. n >= 2
      <4>1. i \in 1..n /\ n # 1
        BY <1>5, <1>8, <3>1
      <4> HIDE DEF images
      <4> QED BY <4>1
    <3> QED BY <1>4, <3>1, <3>2
  <2>2. i \in 1..Len(C[j]) /\ Len(C[j]) >= 2
    BY <1>5, <2>1
  <2>3. r[i - 1] >= 2 * height[C[j][i]] - 1 * (i - 1)
    BY <1>1, <1>2, <1>3, <2>2, SharedPage DEF band
  <2>4. PICK h \in Nat : h = height[C[j][i]]
    BY <1>1, <1>2, <2>2 DEF PartOnPaper
  <2>5. PICK left \in Int : left = r[i - 1]
    <3>1. i - 1 \in 0..Len(C[j])
      BY <1>5, <2>1
    <3> QED BY <1>3, <3>1 DEF Page
  <2>6. left >= 2 * h - (n - 1)
    <3>1. left >= 2 * h - (i - 1) /\ i <= n
      BY <1>5, <2>1, <2>3, <2>4, <2>5
    <3> QED BY <1>5, <2>1, <3>1
  <2>7. Min({2 * h, left}) >= 2 * h - (n - 1)
    <3>1. Min({2 * h, left}) = 2 * h \/ Min({2 * h, left}) = left
      BY MinOfTwo
    <3>2. 2 * h >= 2 * h - (n - 1)
      BY <2>1
    <3> QED BY <2>6, <3>1, <3>2
  <2> QED BY <1>6, <1>8, <2>1, <2>4, <2>5, <2>7
<1> QED BY <1>7, <1>8

LEMMA FailedForCause ==
  LayoutInv => FailsForCause
<1> SUFFICES ASSUME LayoutInv, phase = "failed"
             PROVE  \/ \E i \in DOMAIN doc.rows : doc.rows[i].page \notin DOMAIN doc.px
                    \/ \E P \in DOMAIN spacing : \E j \in DOMAIN Chunks(P) : \E m \in DOMAIN Chunks(P)[j] :
                         spacing[P] % 4 = 3 /\ 2 * height[Chunks(P)[j][m]] <= m - 1
  BY DEF FailsForCause
<1>0. doc \in Documents /\ spacing \in [PartRows(doc) -> Nat]
  BY DEF LayoutInv
<1>1. CASE \E P \in PartRows(doc) : ~HasSegments(doc, P)
  BY <1>0, <1>1, WithoutSegments
<1>2. ASSUME NEW P \in PartRows(doc), NEW paper \in Papers, NEW j \in DOMAIN CreatePart(P, paper),
             CreatePart(P, paper)[j].overflow
      PROVE  \E x \in DOMAIN Chunks(P) : \E m \in DOMAIN Chunks(P)[x] :
                         spacing[P] % 4 = 3 /\ 2 * height[Chunks(P)[x][m]] <= m - 1
  <2> DEFINE Q == CreatePart(P, paper)
             C == Chunks(P)
             band == PackingBand(paper, doc.orientation)
  <2>1. PartOnPaper(Q, C, PartSegments(doc, P), P, paper)
    BY CreatePartDraws
  <2>2. j \in 1..Len(C) /\ Q[j].overflow
    BY <1>2, <2>1 DEF PartOnPaper
  <2> HIDE DEF C, Q
  <2>3. PICK r : Page(Q[j], r, C[j], height, spacing[P], band, ComputeCues(doc, P))
    BY <2>1, <2>2 DEF PartOnPaper
  <2>4. C \in Seq(Seq(Nat))
    BY <2>1 DEF PartOnPaper
  <2>5. C[j] \in Seq(Nat) /\ Len(C[j]) \in Nat /\ DOMAIN C[j] = 1..Len(C[j]) /\ j \in DOMAIN C
    BY <2>2, <2>4, ElementOfSeq, LenProperties
  <2>6. PICK i \in 1..Len(C[j]) : 2 * height[C[j][i]] > r[i - 1] /\ r[i - 1] <= 0
    BY <2>2, <2>3 DEF Page
  <2>7. PICK h \in Nat : h = height[C[j][i]]
    BY <2>1, <2>2, <2>6 DEF PartOnPaper
  <2>8. PICK left \in Int : left = r[i - 1]
    <3>1. i - 1 \in 0..Len(C[j])
      BY <2>5
    <3> QED BY SMTT(30), <2>3, <3>1 DEF Page
  <2>9. Len(C[j]) >= 2
    <3>1. band > 0
      BY <1>0, DocumentFacts, PaperFacts DEF Orientations
    <3> HIDE DEF band
    <3>2. CASE i = 1
      <4>1. r[i - 1] = band
        BY <2>3, <3>2 DEF Page
      <4> QED BY <2>6, <2>8, <3>1, <4>1
    <3>3. CASE i # 1
      BY <2>5, <3>3
    <3> QED BY <3>2, <3>3
  <2>10. CASE spacing[P] % 4 # 3
    <3>1. r[i - 1] >= 2 * height[C[j][i]] - 0 * (i - 1)
      BY <2>1, <2>2, <2>3, <2>9, <2>10, SharedPage
    <3>2. left >= 2 * h
      BY <2>7, <2>8, <3>1
    <3> QED BY <2>6, <2>7, <2>8, <3>2
  <2>11. CASE spacing[P] % 4 = 3
    <3>1. r[i - 1] >= 2 * height[C[j][i]] - 1 * (i - 1)
      BY <2>1, <2>2, <2>3, <2>9, SharedPage
    <3>2. left >= 2 * h - (i - 1) /\ left <= 0
      BY <2>6, <2>7, <2>8, <3>1
    <3>3. 2 * height[C[j][i]] <= i - 1
      BY <2>7, <3>2
    <3> QED BY <2>5, <2>11, <3>3 DEF C
  <2> QED BY <2>10, <2>11
<1>3. CASE \E P \in PartRows(doc), paper \in Papers : \E j \in DOMAIN CreatePart(P, paper) :
             CreatePart(P, paper)[j].overflow
  BY <1>0, <1>2, <1>3
<1> QED BY <1>1, <1>3 DEF LayoutInv

-----------------------------------------------------------------------------
(* The pages put one after the other.                                        *)

\* The first L pages of D are those of s that end after the e[1]-th, the e[2]-th ...
Cuts(D, e, L, s) ==
  /\ e \in [0..L -> 0..Len(s)] /\ e[0] = 0
  /\ \A j \in 1..L : e[j - 1] < e[j] /\ D[j] = SubSeq(s, e[j - 1] + 1, e[j])

LEMMA FlattenCuts ==
  ASSUME NEW s \in Seq(Nat), NEW D, NEW L \in Nat \ {0}, Len(D) = L, NEW e, Cuts(D, e, L, s)
  PROVE  FlattenSeq(D) = SubSeq(s, 1, e[L])
<1> DEFINE Eq(f) == f = [i \in 1..L |-> IF i = 1 THEN D[i] ELSE f[i - 1] \o D[i]]
           flat == CHOOSE f : Eq(f)
           sub == [i \in 1..L |-> SubSeq(s, 1, e[i])]
<1>0. Len(s) \in Nat
  BY LenProperties
<1>1. ASSUME NEW i \in 1..L PROVE sub[i] = IF i = 1 THEN D[i] ELSE sub[i - 1] \o D[i]
  <2>1. e[i - 1] \in 0..Len(s) /\ e[i] \in 0..Len(s)
    <3>1. i - 1 \in 0..L /\ i \in 0..L
      OBVIOUS
    <3> QED BY <3>1 DEF Cuts
  <2>2. PICK a \in 0..Len(s) : a = e[i - 1]
    BY <2>1
  <2>3. PICK b \in 0..Len(s) : b = e[i]
    BY <2>1
  <2>4. a < b /\ D[i] = SubSeq(s, a + 1, b)
    BY <2>2, <2>3 DEF Cuts
  <2>5. CASE i = 1
    <3>1. a = 0
      BY <2>2, <2>5 DEF Cuts
    <3> QED BY <2>3, <2>4, <2>5, <3>1
  <2>6. CASE i # 1
    <3>1. i - 1 \in 1..L
      BY <2>6
    <3>2. sub[i - 1] = SubSeq(s, 1, a) /\ sub[i] = SubSeq(s, 1, b)
      BY <2>2, <2>3, <3>1
    <3>3. 1 \in 1..Len(s) + 1 /\ a \in 1 - 1..Len(s) /\ b \in a..Len(s)
      BY <1>0, <2>4
    <3>4. SubSeq(s, 1, a) \o SubSeq(s, a + 1, b) = SubSeq(s, 1, b)
      BY SMTT(30), <3>3, ConcatAdjacentSubSeq
    <3> QED BY <2>4, <2>6, <3>2, <3>4
  <2> QED BY <2>5, <2>6
<1>2. Eq(flat)
  <2> HIDE DEF sub
  <2>1. sub = [i \in 1..L |-> sub[i]]
    BY DEF sub
  <2>2. Eq(sub)
    BY <1>1, <2>1
  <2> QED BY <2>2
<1>3. FlattenSeq(D) = flat[L]
  BY DEF FlattenSeq
<1> HIDE DEF flat
<1>4. \A i \in 1..L : flat[i] = IF i = 1 THEN D[i] ELSE flat[i - 1] \o D[i]
  BY <1>2
<1> DEFINE G == {i \in 0..L - 1 : flat[i + 1] = sub[i + 1]}
<1>5. 0 \in G
  <2>1. 0 + 1 = 1 /\ 1 \in 1..L /\ 0 \in 0..L - 1
    OBVIOUS
  <2> HIDE DEF sub
  <2>2. flat[1] = D[1] /\ sub[1] = D[1]
    <3>1. flat[1] = D[1]
      BY <1>4, <2>1
    <3>2. sub[1] = D[1]
      BY <1>1, <2>1
    <3> QED BY <3>1, <3>2
  <2> QED BY <2>1, <2>2
<1>6. ASSUME NEW i \in 1..L - 1, i - 1 \in G PROVE i \in G
  <2>1. i \in 0..L - 1 /\ i - 1 + 1 = i /\ i + 1 \in 1..L /\ i + 1 # 1 /\ i + 1 - 1 = i
    OBVIOUS
  <2> HIDE DEF sub
  <2>2. flat[i] = sub[i]
    BY <1>6, <2>1
  <2>3. flat[i + 1] = flat[i] \o D[i + 1] /\ sub[i + 1] = sub[i] \o D[i + 1]
    <3>1. PICK k \in 1..L : k = i + 1 /\ k # 1 /\ k - 1 = i
      BY <2>1
    <3>2. flat[k] = flat[k - 1] \o D[k]
      BY <1>4, <3>1
    <3>3. sub[k] = sub[k - 1] \o D[k]
      BY <1>1, <3>1
    <3> QED BY <3>1, <3>2, <3>3
  <2> QED BY <2>1, <2>2, <2>3
<1>7. L - 1 \in Nat /\ L - 1 + 1 = L
  OBVIOUS
<1> HIDE DEF G, sub
<1>8. 0..L - 1 \subseteq G
  BY <1>5, <1>6, <1>7, Steps
<1>9. L - 1 \in G
  BY <1>7, <1>8
<1>10. flat[L] = sub[L]
  BY <1>7, <1>9 DEF G
<1>11. L \in 1..L
  OBVIOUS
<1>12. sub[L] = SubSeq(s, 1, e[L])
  BY <1>11 DEF sub
<1> QED BY <1>3, <1>10, <1>12

LEMMA DivisionCuts ==
  ASSUME NEW s \in Seq(Nat), NEW heights, NEW gap, NEW brks, NEW max, NEW C, NEW e,
         Division(C, e, Len(s), s, heights, gap, brks, max)
  PROVE  Cuts(C, e, Len(C), s)
BY DEF Division, Cuts

\* All the pages show the whole part.
LEMMA FlattenChunks ==
  ASSUME NEW Q, NEW C, NEW s, NEW P, NEW paper, PartOnPaper(Q, C, s, P, paper)
  PROVE  FlattenSeq(C) = s
<1>1. CASE s = <<>>
  <2>1. C = <<>>
    BY <1>1 DEF PartOnPaper
  <2> QED BY <1>1, <2>1 DEF FlattenSeq
<1>2. CASE s # <<>>
  <2>0. s \in Seq(Nat)
    BY DEF PartOnPaper
  <2>1. PICK e : Division(C, e, Len(s), s, height, SpacingPx(spacing[P]), breaks[P],
                          PageChunkMax(doc.orientation))
    BY <1>2 DEF PartOnPaper
  <2>2. Cuts(C, e, Len(C), s)
    BY <2>0, <2>1, DivisionCuts
  <2>3. Len(C) \in Nat \ {0} /\ e[Len(C)] = Len(s)
    BY <2>1, LenProperties DEF Division
  <2>4. FlattenSeq(C) = SubSeq(s, 1, Len(s))
    <3>1. PICK L \in Nat \ {0} : L = Len(C)
      BY <2>3
    <3>2. FlattenSeq(C) = SubSeq(s, 1, e[L])
      BY <2>0, <2>2, <3>1, FlattenCuts
    <3> QED BY <2>3, <3>1, <3>2
  <2> QED BY <2>0, <2>4, SubSeqFull
<1> QED BY <1>1, <1>2

\* The names of a part that bring a segment to it.
BroughtBy(d, P, i) == {n \in P : Tagged(d, n) # {} /\ d.rows[i].tags \cap {n, All} # {}}

LEMMA MemberOfPart ==
  ASSUME NEW d \in Documents, NEW P \in SUBSET Names, NEW ns \in SUBSET P, NEW i \in Segments(d)
  PROVE  i \in SegmentsOf(d, ns) <=> BroughtBy(d, P, i) \cap ns # {}
<1>1. \A n \in ns : n \in Names /\ ({n} \in DOMAIN SegmentMap(d) <=> Tagged(d, n) # {})
  BY DEF SegmentMap
<1>2. ASSUME NEW n \in ns, Tagged(d, n) # {} PROVE SegmentMap(d)[{n}] = Tagged(d, All) \cup Tagged(d, n)
  <2>1. UNION {Tagged(d, m) : m \in {n}} = Tagged(d, n)
    OBVIOUS
  <2>2. {n} \in {{x} : x \in {m \in Names : Tagged(d, m) # {}}}
    BY <1>1, <1>2
  <2>3. SegmentMap(d)[{n}] = Tagged(d, All) \cup UNION {Tagged(d, m) : m \in {n}}
    BY <2>2 DEF SegmentMap
  <2> QED BY <2>1, <2>3
<1> DEFINE Own == {m \in ns : {m} \in DOMAIN SegmentMap(d)}
<1>3. SegmentsOf(d, ns) = UNION {SegmentMap(d)[{n}] : n \in Own}
  BY DEF SegmentsOf
<1>4. \A n : n \in Own <=> n \in ns /\ Tagged(d, n) # {}
  BY <1>1
<1> HIDE DEF Own
<1>5. i \in SegmentsOf(d, ns) <=> \E n \in Own : i \in SegmentMap(d)[{n}]
  BY <1>3
<1>6. \A n \in Own : i \in SegmentMap(d)[{n}] <=> d.rows[i].tags \cap {n, All} # {}
  <2> SUFFICES ASSUME NEW n \in Own
               PROVE  i \in SegmentMap(d)[{n}] <=> d.rows[i].tags \cap {n, All} # {}
    OBVIOUS
  <2>1. SegmentMap(d)[{n}] = Tagged(d, All) \cup Tagged(d, n)
    BY <1>2, <1>4
  <2> QED BY <2>1 DEF Tagged
<1>7. \A n : n \in BroughtBy(d, P, i) \cap ns <=> n \in Own /\ d.rows[i].tags \cap {n, All} # {}
  BY <1>4 DEF BroughtBy
<1> QED BY <1>5, <1>6, <1>7

\* A segment is faded if only cues bring it.
LEMMA CuesOfPart ==
  ASSUME NEW d \in Documents, NEW P \in SUBSET Names, NEW i \in Segments(d), i \in SegmentsOf(d, P)
  PROVE  i \in ComputeCues(d, P) <=> BroughtBy(d, P, i) \subseteq Cues
<1>1. P \cap Cues \in SUBSET P /\ P \ Cues \in SUBSET P /\ P \in SUBSET P
  OBVIOUS
<1>2. i \in ComputeCues(d, P) <=> i \in SegmentsOf(d, P \cap Cues) /\ i \notin SegmentsOf(d, P \ Cues)
  BY DEF ComputeCues, SegmentsOf
<1>3. i \in SegmentsOf(d, P \cap Cues) <=> BroughtBy(d, P, i) \cap (P \cap Cues) # {}
  BY <1>1, MemberOfPart
<1>4. i \in SegmentsOf(d, P \ Cues) <=> BroughtBy(d, P, i) \cap (P \ Cues) # {}
  BY <1>1, MemberOfPart
<1>5. BroughtBy(d, P, i) \cap P # {}
  BY <1>1, MemberOfPart
<1>6. BroughtBy(d, P, i) \subseteq P
  BY DEF BroughtBy
<1> QED BY <1>2, <1>3, <1>4, <1>5, <1>6

\* A PDF shows the music of its part.
LEMMA MusicIsShown ==
  LayoutInv => ShowsItsMusic
<1> SUFFICES ASSUME LayoutInv, NEW print \in DOMAIN pdf, Drawn(print)
             PROVE  LET P == print[1]
                        music == {i \in Segments(doc) : doc.rows[i].tags \cap (P \cup {All}) # {}}
                        shown == FlattenSeq(PagesOf(print))
                    IN /\ \A a, b \in DOMAIN shown : a < b => shown[a] < shown[b]
                       /\ ToSet(shown) = IF \E n \in P : Tagged(doc, n) # {} THEN music ELSE {}
                       /\ \A j \in DOMAIN PdfPages(print) : \A i \in DOMAIN PdfPages(print)[j].images :
                            LET image == PdfPages(print)[j].images[i]
                                by == {n \in P : Tagged(doc, n) # {}
                                                 /\ doc.rows[image.seg].tags \cap {n, All} # {}}
                            IN image.cue <=> by \subseteq Cues
  BY SMTT(30) DEF ShowsItsMusic
<1> DEFINE P == print[1]
           s == PartSegments(doc, P)
           C == Chunks(P)
           music == {i \in Segments(doc) : doc.rows[i].tags \cap (P \cup {All}) # {}}
<1>1. P \in PartRows(doc) /\ print[2] \in Papers /\ doc \in Documents
      /\ PartOnPaper(PdfPages(print), C, s, P, print[2])
  BY PdfOnPaper
<1>2. P \in SUBSET Names
  <2>1. \A Q \in PartRows(doc) : Q \subseteq Names
    BY SMTT(30), <1>1, DocumentFacts
  <2> QED BY <1>1, <2>1
<1>3. Len(doc.rows) \in Nat /\ DOMAIN doc.rows = 1..Len(doc.rows)
  BY SMTT(30), <1>1, DocumentFacts
<1>4. Listing(s, SegmentsOf(doc, P), Len(doc.rows))
  BY <1>3, PartSegmentsList
<1> HIDE DEF C, s, P
<1>5. FlattenSeq(PagesOf(print)) = s
  <2>1. PagesOf(print) = C
    BY <1>1, PagesAreChunks
  <2> QED BY <1>1, <2>1, FlattenChunks
<1>6. s \in Seq(Nat) /\ DOMAIN s = 1..Len(s)
  BY <1>1, LenProperties DEF PartOnPaper
<1>7. \A a, b \in DOMAIN s : a < b => s[a] < s[b]
  BY <1>4, <1>6 DEF Listing, Increasing
<1>8. SegmentsOf(doc, P) = IF \E n \in P : Tagged(doc, n) # {} THEN music ELSE {}
  BY <1>1, <1>2, SegmentsOfPart
<1>9. SegmentsOf(doc, P) \subseteq Segments(doc) /\ Segments(doc) \subseteq 1..Len(doc.rows)
  BY <1>3, <1>8 DEF Segments
<1>10. ToSet(s) = SegmentsOf(doc, P)
  <2>1. \A x \in ToSet(s) : x \in SegmentsOf(doc, P)
    BY <1>4, <1>6 DEF ToSet, Listing
  <2>2. \A x \in SegmentsOf(doc, P) : x \in ToSet(s)
    BY <1>4, <1>6, <1>9 DEF ToSet, Listing
  <2> QED BY <2>1, <2>2
<1>11. ASSUME NEW j \in DOMAIN PdfPages(print), NEW i \in DOMAIN PdfPages(print)[j].images
       PROVE  PdfPages(print)[j].images[i].cue <=> BroughtBy(doc, P, PdfPages(print)[j].images[i].seg) \subseteq Cues
  <2>1. j \in 1..Len(C)
    BY <1>1 DEF PartOnPaper
  <2>2. PICK r : Page(PdfPages(print)[j], r, C[j], height, spacing[P], PackingBand(print[2], doc.orientation),
                      ComputeCues(doc, P))
    BY <1>1, <2>1 DEF PartOnPaper
  <2>3. i \in 1..Len(C[j])
    <3>1. PdfPages(print)[j].images \in Seq(Images) /\ Len(PdfPages(print)[j].images) = Len(C[j])
      BY <2>2 DEF Page
    <3> QED BY <3>1, LenProperties
  <2>4. PdfPages(print)[j].images[i] = [seg |-> C[j][i], height |-> Min({2 * height[C[j][i]], r[i - 1]}),
                                      cue |-> C[j][i] \in ComputeCues(doc, P)]
    BY <2>2, <2>3 DEF Page
  <2>5. s # <<>>
    <3>1. Len(<<>>) = 0
      OBVIOUS
    <3> QED BY <1>1, <2>1, <3>1 DEF PartOnPaper
  <2>6. PICK e : Division(C, e, Len(s), s, height, SpacingPx(spacing[P]), breaks[P],
                          PageChunkMax(doc.orientation))
    BY <1>1, <2>5 DEF PartOnPaper
  <2>7. PICK x \in 1..Len(s) : C[j][i] = s[x]
    <3>1. s \in Seq(Nat)
      BY <1>6
    <3>2. PICK gap, max : Division(C, e, Len(s), s, height, gap, breaks[P], max)
      BY <2>6
    <3> HIDE DEF music
    <3>3. \E x \in 1..Len(s) : C[j][i] = s[x]
      BY SMTT(30), <2>1, <2>3, <3>1, <3>2, ChunkMember
    <3> QED BY <3>3
  <2>8. C[j][i] \in SegmentsOf(doc, P) /\ C[j][i] \in Segments(doc)
    BY <1>4, <1>9, <2>7 DEF Listing
  <2>9. C[j][i] \in ComputeCues(doc, P) <=> BroughtBy(doc, P, C[j][i]) \subseteq Cues
    BY <1>1, <1>2, <2>8, CuesOfPart
  <2>10. PdfPages(print)[j].images[i].seg = C[j][i]
    BY <2>4
  <2>11. PdfPages(print)[j].images[i].cue = (C[j][i] \in ComputeCues(doc, P))
    BY <2>4
  <2> QED BY <2>9, <2>10, <2>11
<1>12. /\ \A a, b \in DOMAIN FlattenSeq(PagesOf(print)) : a < b => FlattenSeq(PagesOf(print))[a] < FlattenSeq(PagesOf(print))[b]
       /\ ToSet(FlattenSeq(PagesOf(print))) = IF \E n \in P : Tagged(doc, n) # {} THEN music ELSE {}
  BY <1>5, <1>7, <1>8, <1>10
<1> QED BY <1>11, <1>12 DEF BroughtBy, P

-----------------------------------------------------------------------------
(* As few pages as possible.                                                 *)

LEMMA MinIsBottom ==
  ASSUME NEW S \in SUBSET Int, NEW m \in S, \A y \in S : m <= y
  PROVE  Min(S) = m
<1>1. \A x \in S : (\A y \in S : x <= y) => x = m
  OBVIOUS
<1> QED BY <1>1 DEF Min

LEMMA Greatest ==
  ASSUME NEW n \in Nat, NEW T \in SUBSET (0..n), T # {}
  PROVE  \E m \in T : \A y \in T : y <= m
<1> DEFINE D == {n - x : x \in T}
<1>0. PICK t \in T : TRUE
  OBVIOUS
<1>1. D \in SUBSET Nat /\ n - t \in D
  BY <1>0
<1>2. PICK d \in D : \A y \in D : d <= y
  BY <1>1, Least
<1>3. PICK x \in T : d = n - x
  OBVIOUS
<1>4. \A y \in T : y <= x
  <2> SUFFICES ASSUME NEW y \in T PROVE y <= x
    OBVIOUS
  <2>1. d <= n - y
    BY <1>2
  <2> QED BY <1>3, <2>1
<1> QED BY <1>4

LEMMA LenOfFunction ==
  ASSUME NEW n \in Nat, NEW f, DOMAIN f = 1..n, f = [j \in DOMAIN f |-> f[j]]
  PROVE  Len(f) = n
<1> DEFINE S == {f[j] : j \in 1..n}
<1>1. f \in [1..n -> S]
  OBVIOUS
<1> HIDE DEF S
<1>2. f \in Seq(S)
  BY <1>1
<1>3. Len(f) \in Nat /\ DOMAIN f = 1..Len(f)
  BY <1>2, LenProperties
<1> QED BY <1>3

\* The later a page, the later it ends.
LEMMA EndsRise ==
  ASSUME NEW s \in Seq(Nat), NEW D, NEW L \in Nat, NEW e, Cuts(D, e, L, s), NEW i \in 0..L, NEW j \in i + 1..L
  PROVE  e[i] < e[j]
<1>0. Len(s) \in Nat
  BY LenProperties
<1> DEFINE G == {k \in 0..L - i - 1 : e[i] < e[i + 1 + k]}
<1>1. \A k \in 1..L : e[k - 1] < e[k]
  BY DEF Cuts
<1>2. \A k \in 0..L : e[k] \in Int
  BY <1>0 DEF Cuts
<1>3. 0 \in G
  <2>1. PICK k \in 1..L : k = i + 1 /\ k - 1 = i
    OBVIOUS
  <2>2. e[i] < e[i + 1]
    BY <1>1, <2>1
  <2>3. i + 1 + 0 = i + 1 /\ 0 \in 0..L - i - 1
    OBVIOUS
  <2> QED BY <2>2, <2>3
<1>4. ASSUME NEW k \in 1..L - i - 1, k - 1 \in G PROVE k \in G
  <2>1. PICK x \in 1..L : x = i + 1 + k /\ x - 1 = i + 1 + (k - 1) /\ x - 1 \in 0..L /\ x \in 0..L
    OBVIOUS
  <2>2. e[i] < e[x - 1] /\ e[x - 1] < e[x]
    BY <1>1, <1>4, <2>1
  <2>3. e[i] < e[x]
    BY <1>2, <2>1, <2>2
  <2> QED BY <2>1, <2>3
<1> HIDE DEF G
<1>5. L - i - 1 \in Nat /\ j - i - 1 \in 0..L - i - 1 /\ i + 1 + (j - i - 1) = j
  OBVIOUS
<1>6. 0..L - i - 1 \subseteq G
  BY <1>3, <1>4, <1>5, Steps
<1>7. j - i - 1 \in G
  BY <1>5, <1>6
<1>8. e[i] < e[i + 1 + (j - i - 1)]
  BY <1>7 DEF G
<1> QED BY <1>5, <1>8

\* A stack is not lower than what stands in it.
LEMMA StackGrows ==
  ASSUME NEW s \in Seq(Nat), NEW heights, \A k \in 1..Len(s) : heights[s[k]] \in Nat, NEW gap \in Nat,
         NEW a \in 0..Len(s), NEW c \in a..Len(s), NEW d \in c + 1..Len(s), NEW b \in d..Len(s)
  PROVE  /\ ChunkStackHeight(SubSeq(s, c + 1, d), heights, gap)
              <= ChunkStackHeight(SubSeq(s, a + 1, b), heights, gap)
         /\ ChunkStackHeight(SubSeq(s, c + 1, d), heights, gap) \in Int
         /\ ChunkStackHeight(SubSeq(s, a + 1, b), heights, gap) \in Int
<1>0. PICK n \in Nat : n = Len(s)
  BY LenProperties
<1>1. PICK H : Sums(H, n, s, heights)
  <2>1. DOMAIN s = 1..n /\ \A k \in 1..n : heights[s[k]] \in Nat
    BY <1>0, LenProperties
  <2> QED BY <2>1, SumsExist
<1>2. a \in 0..n /\ c \in 0..n /\ d \in 0..n /\ b \in 0..n /\ c \in a..n /\ b \in d..n
      /\ d \in c + 1..n /\ b \in a + 1..n /\ Len(s) = n /\ \A k \in 1..n : heights[s[k]] \in Nat
  BY <1>0
<1>3. Stacked(H, n, s, heights, gap)
  <2>1. Len(s) = n /\ \A k \in 1..n : heights[s[k]] \in Nat
    BY <1>0
  <2> QED BY <1>1, <2>1, StackOfNeighbours
<1>5. H[a] <= H[c]
  BY <1>1, <1>2, SumsGrow
<1>6. H[d] <= H[b]
  BY <1>1, <1>2, SumsGrow
<1>7. H[a] \in Nat /\ H[b] \in Nat /\ H[c] \in Nat /\ H[d] \in Nat
  BY <1>1, <1>2 DEF Sums
<1>8. gap * (d - c - 1) <= gap * (b - a - 1)
  <2>1. PICK x \in Nat : x = d - c - 1
    BY <1>2
  <2>2. PICK y \in Nat : b - a - 1 = x + y
    <3>1. (b - a - 1) - (d - c - 1) \in Nat
      BY <1>2
    <3> QED BY <2>1, <3>1
  <2>3. gap * (x + y) = gap * x + gap * y /\ gap * y \in Nat /\ gap * x \in Nat
    OBVIOUS
  <2> QED BY <2>1, <2>2, <2>3
<1>9. PICK u \in Int : u = gap * (d - c - 1)
  BY <1>2
<1>10. PICK v \in Int : v = gap * (b - a - 1)
  BY <1>2
<1>11. H[d] - H[c] + u <= H[b] - H[a] + v
  <2>1. u <= v
    BY <1>8, <1>9, <1>10
  <2>2. \A p, q, r, t \in Int : p <= q /\ r <= t => r - q + u <= t - p + v
    BY <2>1
  <2>3. PICK ha \in Int : ha = H[a]
    BY <1>7
  <2>4. PICK hb \in Int : hb = H[b]
    BY <1>7
  <2>5. PICK hc \in Int : hc = H[c]
    BY <1>7
  <2>6. PICK hd \in Int : hd = H[d]
    BY SMTT(30), <1>7
  <2>7. ha <= hc /\ hd <= hb
    BY <1>5, <1>6, <2>3, <2>4, <2>5, <2>6
  <2>8. hd - hc + u <= hb - ha + v
    BY <2>2, <2>7
  <2> QED BY <2>3, <2>4, <2>5, <2>6, <2>8
<1>12. ChunkStackHeight(SubSeq(s, c + 1, d), heights, gap) = H[d] - H[c] + u
  BY <1>2, <1>3, <1>9 DEF Stacked
<1>13. ChunkStackHeight(SubSeq(s, a + 1, b), heights, gap) = H[b] - H[a] + v
  BY <1>2, <1>3, <1>10 DEF Stacked
<1>14. PICK inner \in Int : inner = H[d] - H[c] + u
  BY <1>7
<1>15. PICK outer \in Int : outer = H[b] - H[a] + v
  BY <1>7
<1>16. inner <= outer
  BY <1>11, <1>14, <1>15
<1> QED BY <1>12, <1>13, <1>14, <1>15, <1>16

\* Any way to divide the part ends a page where a page of the division ends, or on it:
\* else it would have what was too much for that page, or miss a break.
LEMMA EveryPageEnds ==
  ASSUME NEW s \in Seq(Nat), \A k \in 1..Len(s) : height[s[k]] \in Nat, NEW gap \in Nat, NEW brks, NEW max \in Int,
         NEW C, NEW e, Division(C, e, Len(s), s, height, gap, brks, max),
         NEW ends \in SUBSET (1..Len(s) - 1), \A b \in 1..Len(s) - 1 : b - 1 \in brks => b \in ends,
         Feasible(ends, s, gap, max), NEW j \in 1..Len(C) - 1
  PROVE  \E x \in ends : e[j - 1] < x /\ x <= e[j]
<1>0. PICK n \in Nat : n = Len(s)
  BY LenProperties
<1>1. Len(C) \in Nat /\ j - 1 \in 0..Len(C) /\ j \in 0..Len(C) /\ j + 1 \in 0..Len(C)
      /\ j \in 1..Len(C) /\ j + 1 \in 1..Len(C) /\ j + 1 - 1 = j
  BY LenProperties DEF Division
<1>2. PICK p \in 0..n : p = e[j - 1]
  BY <1>0, <1>1 DEF Division
<1>3. PICK q \in 0..n : q = e[j]
  BY <1>0, <1>1 DEF Division
<1>4. PICK r \in 0..n : r = e[j + 1]
  BY <1>0, <1>1 DEF Division
<1>5. p < q /\ q < r
  <2>1. e[j - 1] < e[j]
    BY <1>1 DEF Division
  <2>2. PICK i \in 1..Len(C) : i = j + 1 /\ i - 1 = j
    BY <1>1
  <2>3. e[i - 1] < e[i]
    BY DEF Division
  <2> QED BY <1>2, <1>3, <1>4, <2>1, <2>2, <2>3
<1>6. q \in 1..n - 1 /\ q + 1 \in p + 1..n
  BY <1>5
<1>7. q - 1 \in brks \/ ~(ChunkStackHeight(SubSeq(s, p + 1, q + 1), height, gap) <= max)
  BY <1>2, <1>3 DEF Division
<1> SUFFICES ASSUME \A x \in ends : ~(p < x /\ x <= q) PROVE FALSE
  BY <1>2, <1>3
<1>8. q - 1 \notin brks
  BY <1>0, <1>5, <1>6
<1> DEFINE before == {y \in 0..n : (y \in ends \/ y = 0) /\ y <= p}
           after == {y \in 0..n : (y \in ends \/ y = n) /\ p < y}
<1>9. PICK a \in before : \A y \in before : y <= a
  <2>1. before \in SUBSET (0..n) /\ 0 \in before
    OBVIOUS
  <2> QED BY <2>1, Greatest
<1>10. PICK b \in after : \A y \in after : b <= y
  <2>1. after \in SUBSET Nat /\ n \in after
    BY <1>5
  <2> QED BY <2>1, Least
<1>11. a \in 0..n /\ b \in 0..n /\ a <= p /\ q < b
  BY <1>6
<1>12. \A c \in a + 1..b - 1 : c \notin ends
  <2> SUFFICES ASSUME NEW c \in a + 1..b - 1, c \in ends PROVE FALSE
    OBVIOUS
  <2>1. c \in 0..n
    BY <1>11
  <2>2. CASE c <= p
    BY <1>9, <1>11, <2>1, <2>2
  <2>3. CASE p < c
    BY <1>10, <1>11, <2>1, <2>3
  <2> QED BY <2>1, <2>2, <2>3
<1>13. ChunkStackHeight(SubSeq(s, a + 1, b), height, gap) <= max
  <2>1. a \in 0..Len(s) /\ b \in 0..Len(s) /\ a < b /\ a \in ends \cup {0} /\ b \in ends \cup {Len(s)}
    BY <1>0, <1>5, <1>11
  <2>2. b # a + 1
    BY <1>5, <1>11
  <2> QED BY <1>12, <2>1, <2>2 DEF Feasible
<1>14. PICK d \in 0..n : d = q + 1
  BY <1>6
<1>15. /\ ChunkStackHeight(SubSeq(s, p + 1, d), height, gap) <= ChunkStackHeight(SubSeq(s, a + 1, b), height, gap)
       /\ ChunkStackHeight(SubSeq(s, p + 1, d), height, gap) \in Int
       /\ ChunkStackHeight(SubSeq(s, a + 1, b), height, gap) \in Int
  <2>1. a \in 0..Len(s) /\ p \in a..Len(s) /\ d \in p + 1..Len(s) /\ b \in d..Len(s)
    BY <1>0, <1>5, <1>11, <1>14
  <2> QED BY <2>1, StackGrows
<1> HIDE DEF before, after
<1>16. ChunkStackHeight(SubSeq(s, p + 1, d), height, gap) <= max
  <2>1. \A x, y \in Int : x <= y /\ y <= max => x <= max
    OBVIOUS
  <2> QED BY <1>13, <1>15, <2>1
<1> QED BY <1>7, <1>8, <1>14, <1>16

\* So there is none with fewer pages.
LEMMA NoFewerPages ==
  ASSUME NEW s \in Seq(Nat), \A k \in 1..Len(s) : height[s[k]] \in Nat, NEW gap \in Nat, NEW brks, NEW max \in Int,
         NEW C, NEW e, Division(C, e, Len(s), s, height, gap, brks, max),
         NEW ends \in SUBSET (1..Len(s) - 1), \A b \in 1..Len(s) - 1 : b - 1 \in brks => b \in ends,
         Feasible(ends, s, gap, max)
  PROVE  Cardinality(ends) \in Nat /\ Len(C) - 1 <= Cardinality(ends)
<1>0. Len(s) \in Nat
  BY LenProperties
<1>1. PICK L \in Nat : L = Len(C) - 1
  <2>1. Len(C) \in Nat /\ Len(C) >= 1
    BY LenProperties DEF Division
  <2>2. Len(C) - 1 \in Nat
    BY <2>1
  <2> QED BY <2>2
<1>2. \A j \in 1..L : \E x \in ends : e[j - 1] < x /\ x <= e[j]
  BY <1>1, EveryPageEnds
<1> DEFINE g == [j \in 1..L |-> CHOOSE x \in ends : e[j - 1] < x /\ x <= e[j]]
<1>3. \A j \in 1..L : g[j] \in ends /\ e[j - 1] < g[j] /\ g[j] <= e[j]
  BY <1>2
<1>4. g \in [1..L -> ends] /\ \A j \in 1..L : g[j] \in Int
  <2>1. ends \subseteq Int
    OBVIOUS
  <2> QED BY <1>3, <2>1
<1> HIDE DEF g
<1>5. \A i, j \in 1..L : i < j => g[i] < g[j]
  <2> SUFFICES ASSUME NEW i \in 1..L, NEW j \in 1..L, i < j PROVE g[i] < g[j]
    OBVIOUS
  <2>1. Cuts(C, e, Len(C), s)
    BY DivisionCuts
  <2>2. PICK k \in 0..L : k = j - 1
    OBVIOUS
  <2>3. i \in 0..Len(C) /\ k \in 0..Len(C) /\ Len(C) \in Nat
    BY <1>1, <2>2, LenProperties DEF Division
  <2>4. e[i] \in 0..Len(s) /\ e[k] \in 0..Len(s)
    BY <2>3 DEF Division
  <2>5. e[i] <= e[k]
    <3>1. CASE i = k
      BY <2>4, <3>1
    <3>2. CASE i # k
      <4>1. k \in i + 1..Len(C)
        BY <2>2, <2>3, <3>2
      <4>2. e[i] < e[k]
        BY <2>1, <2>3, <4>1, EndsRise
      <4> QED BY <2>4, <4>2
    <3> QED BY <3>1, <3>2
  <2>6. g[i] \in Int /\ g[j] \in Int /\ g[i] <= e[i] /\ e[k] < g[j]
    BY <1>3, <1>4, <2>2
  <2> QED BY <2>4, <2>5, <2>6
<1>6. g \in Injection(1..L, ends)
  <2>1. \A i, j \in 1..L : g[i] = g[j] => i = j
    <3> SUFFICES ASSUME NEW i \in 1..L, NEW j \in 1..L, g[i] = g[j], i # j PROVE FALSE
      OBVIOUS
    <3>1. g[i] \in Int /\ g[j] \in Int
      BY <1>4
    <3>2. i < j \/ j < i
      OBVIOUS
    <3> QED BY <1>5, <3>1, <3>2
  <2>2. g \in [1..L -> ends]
    BY <1>4
  <2> QED BY <2>1, <2>2, Fun_IsInj
<1>7. IsFiniteSet(ends)
  <2>1. IsFiniteSet(1..Len(s) - 1)
    <3>1. Len(s) - 1 \in Int
      BY <1>0
    <3>2. \A m \in Int : IsFiniteSet(1..m)
      BY FS_Interval
    <3> QED BY <3>1, <3>2
  <2> QED BY <2>1, FS_Subset
<1>8. Cardinality(1..L) <= Cardinality(ends)
  BY <1>6, <1>7, FS_Injection
<1>9. Cardinality(1..L) = L
  <2>1. 1 \in Int /\ L \in Int /\ Cardinality(1..L) = IF 1 > L THEN 0 ELSE L - 1 + 1
    BY FS_Interval
  <2> QED BY <2>1
<1>10. Cardinality(ends) \in Nat
  BY <1>7, FS_CardinalityType
<1> QED BY <1>1, <1>8, <1>9, <1>10

\* And the division is such a way itself.
PageEnds(C, e) == {e[j] : j \in 1..Len(C) - 1}

LEMMA DivisionIsAWay ==
  ASSUME NEW s \in Seq(Nat), NEW gap, NEW brks, NEW max, NEW C, NEW e,
         Division(C, e, Len(s), s, height, gap, brks, max)
  PROVE  /\ PageEnds(C, e) \in SUBSET (1..Len(s) - 1) /\ Cardinality(PageEnds(C, e)) = Len(C) - 1
         /\ \A b \in 1..Len(s) - 1 : b - 1 \in brks => b \in PageEnds(C, e)
         /\ Feasible(PageEnds(C, e), s, gap, max)
<1>0. Len(s) \in Nat
  BY SMTT(30), LenProperties
<1>1. PICK L \in Nat : L = Len(C) - 1 /\ Len(C) = L + 1
  <2>1. Len(C) \in Nat /\ Len(C) >= 1
    BY LenProperties DEF Division
  <2>2. Len(C) - 1 \in Nat /\ Len(C) = Len(C) - 1 + 1
    BY <2>1
  <2> QED BY <2>2
<1>2. Cuts(C, e, Len(C), s) /\ e[0] = 0 /\ e[L + 1] = Len(s)
  BY <1>1, DivisionCuts DEF Division
<1>3. \A i \in 0..L + 1 : e[i] \in 0..Len(s)
  BY <1>1 DEF Division
<1>4. \A i, j \in 0..L + 1 : i < j => e[i] < e[j]
  <2> SUFFICES ASSUME NEW i \in 0..L + 1, NEW j \in 0..L + 1, i < j PROVE e[i] < e[j]
    OBVIOUS
  <2>1. L + 1 \in Nat /\ j \in i + 1..L + 1 /\ Cuts(C, e, L + 1, s)
    BY <1>1, <1>2
  <2> QED BY <2>1, EndsRise
<1>5. \A j \in 1..L : e[j] \in 1..Len(s) - 1
  <2> SUFFICES ASSUME NEW j \in 1..L PROVE e[j] \in 1..Len(s) - 1
    OBVIOUS
  <2>1. 0 \in 0..L + 1 /\ j \in 0..L + 1 /\ L + 1 \in 0..L + 1 /\ 0 < j /\ j < L + 1
    OBVIOUS
  <2>2. e[0] < e[j] /\ e[j] < e[L + 1]
    BY <1>4, <2>1
  <2> QED BY <1>0, <1>2, <1>3, <2>1, <2>2
<1>6. PageEnds(C, e) \in SUBSET (1..Len(s) - 1)
  BY <1>1, <1>5 DEF PageEnds
<1>7. Cardinality(PageEnds(C, e)) = L
  <2> DEFINE g == [j \in 1..L |-> e[j]]
  <2>1. g \in [1..L -> PageEnds(C, e)]
    BY <1>1 DEF PageEnds
  <2>2. \A t \in PageEnds(C, e) : \E j \in 1..L : g[j] = t
    BY <1>1 DEF PageEnds
  <2>3. \A i, j \in 1..L : g[i] = g[j] => i = j
    <3> SUFFICES ASSUME NEW i \in 1..L, NEW j \in 1..L, e[i] = e[j], i # j PROVE FALSE
      OBVIOUS
    <3>1. i \in 0..L + 1 /\ j \in 0..L + 1 /\ (i < j \/ j < i)
      OBVIOUS
    <3>2. e[i] \in Int /\ e[j] \in Int
      BY <1>3, <3>1
    <3> QED BY <1>4, <3>1, <3>2
  <2> HIDE DEF g
  <2>4. g \in Bijection(1..L, PageEnds(C, e))
    BY <2>1, <2>2, <2>3, Fun_IsBij
  <2>5. IsFiniteSet(1..L) /\ Cardinality(1..L) = L
    <3>1. 1 \in Int /\ L \in Int /\ IsFiniteSet(1..L) /\ Cardinality(1..L) = IF 1 > L THEN 0 ELSE L - 1 + 1
      BY FS_Interval
    <3> QED BY <3>1
  <2>6. ExistsBijection(1..L, PageEnds(C, e))
    BY <2>4 DEF ExistsBijection
  <2> QED BY <2>5, <2>6, FS_Bijection
<1>8. \A b \in 1..Len(s) - 1 : b - 1 \in brks => b \in PageEnds(C, e)
  BY DEF Division, PageEnds
<1>9. Feasible(PageEnds(C, e), s, gap, max)
  <2> SUFFICES ASSUME NEW a \in 0..Len(s), NEW b \in 0..Len(s), a < b, a \in PageEnds(C, e) \cup {0},
                      b \in PageEnds(C, e) \cup {Len(s)}, \A c \in a + 1..b - 1 : c \notin PageEnds(C, e)
               PROVE  b = a + 1 \/ ChunkStackHeight(SubSeq(s, a + 1, b), height, gap) <= max
    BY DEF Feasible
  <2>1. PICK i \in 0..L : a = e[i]
    <3>1. CASE a = 0
      BY <1>2, <3>1
    <3>2. CASE a # 0
      BY <1>1, <3>2 DEF PageEnds
    <3> QED BY <3>1, <3>2
  <2>2. PICK j \in 1..L + 1 : b = e[j]
    <3>1. CASE b = Len(s)
      BY <1>2, <3>1
    <3>2. CASE b # Len(s)
      BY <1>1, <3>2 DEF PageEnds
    <3> QED BY <3>1, <3>2
  <2>3. PICK k \in 1..L + 1 : k = i + 1 /\ k - 1 = i
    OBVIOUS
  <2>4. j = k
    <3>1. i \in 0..L + 1 /\ j \in 0..L + 1 /\ k \in 0..L + 1
      OBVIOUS
    <3>2. ~(j < i) /\ j # i
      <4>1. j < i => e[j] < e[i]
        BY <1>4, <3>1
      <4> QED BY <2>1, <2>2, <4>1
    <3>3. ~(k < j)
      <4> SUFFICES ASSUME k < j PROVE FALSE
        OBVIOUS
      <4>1. e[k] < e[j] /\ e[i] < e[k] /\ e[k] \in Int
        BY <1>3, <1>4, <2>3, <3>1
      <4>2. e[k] \in a + 1..b - 1
        BY <2>1, <2>2, <4>1
      <4>3. k \in 1..L
        OBVIOUS
      <4>4. e[k] \in PageEnds(C, e)
        BY <1>1, <4>3 DEF PageEnds
      <4> QED BY <4>2, <4>4
    <3> QED BY <2>3, <3>2, <3>3
  <2>5. k \in 1..Len(C)
    BY <1>1
  <2>6. /\ C[k] = SubSeq(s, e[k - 1] + 1, e[k])
        /\ e[k] = e[k - 1] + 1 \/ ChunkStackHeight(C[k], height, gap) <= max
    BY <2>5 DEF Division
  <2> QED BY <2>1, <2>2, <2>3, <2>4, <2>6
<1> QED BY <1>1, <1>6, <1>7, <1>8, <1>9

\* The ways to divide s that have the breaks asked for.
AskedFor(asked, s, brks) == \A b : b \in asked <=> b \in 1..Len(s) - 1 /\ b - 1 \in brks
Ways(asked, s, gap, max) ==
  {ends \in SUBSET (1..Len(s) - 1) : asked \subseteq ends /\ Feasible(ends, s, gap, max)}
Fewest(ways) == 1 + Min({Cardinality(ends) : ends \in ways})

\* The division has as few pages as any of them.
LEMMA FewestOfAll ==
  ASSUME NEW s \in Seq(Nat), \A k \in 1..Len(s) : height[s[k]] \in Nat, NEW gap \in Nat, NEW brks, NEW max \in Int,
         NEW C, NEW e, Division(C, e, Len(s), s, height, gap, brks, max),
         NEW asked, AskedFor(asked, s, brks)
  PROVE  Len(C) = Fewest(Ways(asked, s, gap, max))
<1> DEFINE ways == Ways(asked, s, gap, max)
<1>1. Len(C) \in Nat /\ Len(C) >= 1 /\ Len(s) \in Nat
  BY LenProperties DEF Division
<1>2. PageEnds(C, e) \in ways /\ Cardinality(PageEnds(C, e)) = Len(C) - 1
  <2>1. /\ PageEnds(C, e) \in SUBSET (1..Len(s) - 1) /\ Cardinality(PageEnds(C, e)) = Len(C) - 1
        /\ \A b \in 1..Len(s) - 1 : b - 1 \in brks => b \in PageEnds(C, e)
        /\ Feasible(PageEnds(C, e), s, gap, max)
    BY DivisionIsAWay
  <2>2. asked \subseteq PageEnds(C, e)
    BY <2>1 DEF AskedFor
  <2> QED BY <2>1, <2>2 DEF Ways
<1>3. \A ends \in ways : Cardinality(ends) \in Nat /\ Len(C) - 1 <= Cardinality(ends)
  <2> SUFFICES ASSUME NEW ends \in ways PROVE Cardinality(ends) \in Nat /\ Len(C) - 1 <= Cardinality(ends)
    OBVIOUS
  <2>1. ends \in SUBSET (1..Len(s) - 1) /\ asked \subseteq ends /\ Feasible(ends, s, gap, max)
    BY DEF Ways
  <2>2. \A b \in 1..Len(s) - 1 : b - 1 \in brks => b \in ends
    BY <2>1 DEF AskedFor
  <2> QED BY <2>1, <2>2, NoFewerPages
<1> DEFINE sizes == {Cardinality(ends) : ends \in ways}
<1>4. sizes \in SUBSET Int /\ Len(C) - 1 \in sizes /\ \A y \in sizes : Len(C) - 1 <= y
  <2>1. \A y \in sizes : y \in Nat /\ Len(C) - 1 <= y
    BY <1>3
  <2>2. Len(C) - 1 \in sizes
    BY <1>2
  <2> QED BY <2>1, <2>2
<1>5. Min(sizes) = Len(C) - 1
  <2> HIDE DEF sizes
  <2> QED BY <1>4, MinIsBottom
<1> QED BY <1>1, <1>5 DEF Fewest

\* The first j pages show what comes before the end of the j-th.
LEMMA FirstPages ==
  ASSUME NEW s \in Seq(Nat), NEW C, C \in Seq(Seq(Nat)), NEW e, Cuts(C, e, Len(C), s), NEW j \in 1..Len(C)
  PROVE  Len(FlattenSeq(SubSeq(C, 1, j))) = e[j]
<1>1. Len(C) \in Nat /\ Len(s) \in Nat
  BY LenProperties
<1>2. PICK k \in Nat \ {0} : k = j
  OBVIOUS
<1> DEFINE D == SubSeq(C, 1, k)
           d == [i \in 0..k |-> e[i]]
<1>3. Len(D) = k /\ \A i \in 1..k : D[i] = C[i]
  <2>1. 1 \in Int /\ k \in Int /\ \A i \in 1..k : C[i] \in Seq(Nat)
    BY <1>1, <1>2, ElementOfSeq
  <2>2. /\ SubSeq(C, 1, k) \in Seq(Seq(Nat))
        /\ Len(SubSeq(C, 1, k)) = IF 1 <= k THEN k - 1 + 1 ELSE 0
        /\ \A i \in 1..k - 1 + 1 : SubSeq(C, 1, k)[i] = C[1 + i - 1]
    BY <2>1, SubSeqProperties
  <2>3. k - 1 + 1 = k /\ 1 <= k /\ \A i \in 1..k : 1 + i - 1 = i
    OBVIOUS
  <2> QED BY <2>2, <2>3
<1>4. \A i \in 0..k : i \in 0..Len(C)
  BY <1>1, <1>2
<1>5. d \in [0..k -> 0..Len(s)] /\ d[0] = 0 /\ d[k] = e[k]
  <2>1. \A i \in 0..k : e[i] \in 0..Len(s)
    BY <1>4 DEF Cuts
  <2>2. e[0] = 0
    BY DEF Cuts
  <2> QED BY <2>1, <2>2
<1>6. \A i \in 1..k : d[i - 1] < d[i] /\ D[i] = SubSeq(s, d[i - 1] + 1, d[i])
  <2> SUFFICES ASSUME NEW i \in 1..k PROVE d[i - 1] < d[i] /\ D[i] = SubSeq(s, d[i - 1] + 1, d[i])
    OBVIOUS
  <2>1. i \in 1..Len(C) /\ i \in 0..k /\ i - 1 \in 0..k
    BY <1>1, <1>2
  <2>2. d[i - 1] = e[i - 1] /\ d[i] = e[i]
    BY <2>1
  <2>3. e[i - 1] < e[i] /\ C[i] = SubSeq(s, e[i - 1] + 1, e[i])
    BY <2>1 DEF Cuts
  <2> HIDE DEF d, D
  <2> QED BY <1>3, <2>2, <2>3
<1> HIDE DEF d, D
<1>7. Cuts(D, d, k, s)
  BY <1>5, <1>6 DEF Cuts
<1>8. FlattenSeq(D) = SubSeq(s, 1, d[k])
  BY <1>3, <1>7, FlattenCuts
<1>9. Len(SubSeq(s, 1, d[k])) = d[k]
  <2>1. PICK b \in Nat : b = d[k] /\ b <= Len(s)
    <3>1. k \in 0..k
      OBVIOUS
    <3> QED BY <1>1, <1>5, <3>1
  <2>2. 1 \in Int /\ b \in Int /\ \A i \in 1..b : s[i] \in Nat
    BY SMTT(30), <1>1, <2>1, ElementOfSeq
  <2>3. /\ SubSeq(s, 1, b) \in Seq(Nat)
        /\ Len(SubSeq(s, 1, b)) = IF 1 <= b THEN b - 1 + 1 ELSE 0
        /\ \A i \in 1..b - 1 + 1 : SubSeq(s, 1, b)[i] = s[1 + i - 1]
    BY <2>2, SubSeqProperties
  <2> QED BY <2>1, <2>3
<1> QED BY <1>2, <1>5, <1>8, <1>9 DEF D

LEMMA PagesAreFewest ==
  LayoutInv => FewestPages
<1> SUFFICES ASSUME LayoutInv, NEW print \in DOMAIN pdf, Drawn(print)
             PROVE  LET P == print[1]
                        segments == PartSegments(doc, P)
                        asked == {b + 1 : b \in breaks[P]} \cap 1..Len(segments) - 1
                        ways == {ends \in SUBSET (1..Len(segments) - 1) :
                                   asked \subseteq ends
                                   /\ Feasible(ends, segments, SpacingPx(spacing[P]), PageChunkMax(doc.orientation))}
                    IN segments # <<>> =>
                         /\ Len(PdfPages(print)) = 1 + Min({Cardinality(ends) : ends \in ways})
                         /\ \A j \in DOMAIN PdfPages(print) : PdfPages(print)[j].images # <<>>
                         /\ \A b \in asked : \E j \in DOMAIN PdfPages(print) :
                              Len(FlattenSeq(SubSeq(PagesOf(print), 1, j))) = b
  BY DEF FewestPages
<1> DEFINE P == print[1]
           s == PartSegments(doc, P)
           C == Chunks(P)
           gap == SpacingPx(spacing[P])
           max == PageChunkMax(doc.orientation)
           asked == {b + 1 : b \in breaks[P]} \cap 1..Len(s) - 1
           ways == {ends \in SUBSET (1..Len(s) - 1) : asked \subseteq ends /\ Feasible(ends, s, gap, max)}
<1>1. P \in PartRows(doc) /\ print[2] \in Papers /\ doc \in Documents
      /\ PartOnPaper(PdfPages(print), C, s, P, print[2])
  BY PdfOnPaper
<1>2. gap \in Nat /\ max \in Int
  <2>1. spacing[P] \in Nat
    BY <1>1 DEF LayoutInv
  <2>2. gap \in Nat
    BY SMTT(30), <2>1, SpacingsAgree
  <2>3. doc.orientation \in Orientations
    BY <1>1, DocumentFacts DEF Orientations
  <2>4. max \in Int
    BY <1>1, <2>3, PaperFacts
  <2> QED BY <2>2, <2>4
<1>3. breaks[P] \in SUBSET Nat
  BY <1>1 DEF LayoutInv
<1> HIDE DEF C, s, P, gap, max
<1>4. \A b : b \in asked <=> b \in 1..Len(s) - 1 /\ b - 1 \in breaks[P]
  <2>1. \A b \in Int : b - 1 + 1 = b /\ b + 1 - 1 = b
    OBVIOUS
  <2>2. \A b : b \in asked => b \in 1..Len(s) - 1 /\ b - 1 \in breaks[P]
    BY <1>3, <2>1
  <2>3. \A b : b \in 1..Len(s) - 1 /\ b - 1 \in breaks[P] => b \in asked
    <3> SUFFICES ASSUME NEW b \in 1..Len(s) - 1, b - 1 \in breaks[P] PROVE b \in asked
      OBVIOUS
    <3>1. b - 1 + 1 \in {x + 1 : x \in breaks[P]}
      OBVIOUS
    <3> QED BY <2>1, <3>1
  <2> QED BY <2>2, <2>3
<1> SUFFICES ASSUME s # <<>>
             PROVE  /\ Len(PdfPages(print)) = 1 + Min({Cardinality(ends) : ends \in ways})
                    /\ \A j \in DOMAIN PdfPages(print) : PdfPages(print)[j].images # <<>>
                    /\ \A b \in asked : \E j \in DOMAIN PdfPages(print) :
                         Len(FlattenSeq(SubSeq(PagesOf(print), 1, j))) = b
  BY DEF s, P, gap, max
<1>5. /\ s \in Seq(Nat) /\ C \in Seq(Seq(Nat)) /\ \A k \in 1..Len(s) : height[s[k]] \in Nat
      /\ DOMAIN PdfPages(print) = 1..Len(C) /\ PdfPages(print) = [j \in DOMAIN PdfPages(print) |-> PdfPages(print)[j]]
  BY <1>1 DEF PartOnPaper
<1>6. PICK e : Division(C, e, Len(s), s, height, gap, breaks[P], max)
  BY <1>1 DEF PartOnPaper, gap, max
<1> HIDE DEF asked
<1>7. Len(C) = 1 + Min({Cardinality(ends) : ends \in ways})
  <2>1. ways = Ways(asked, s, gap, max)
    BY DEF Ways
  <2>2. AskedFor(asked, s, breaks[P])
    BY <1>4 DEF AskedFor
  <2> HIDE DEF ways
  <2>3. s \in Seq(Nat) /\ \A k \in 1..Len(s) : height[s[k]] \in Nat
    BY <1>5
  <2>4. Len(C) = Fewest(Ways(asked, s, gap, max))
    BY <1>2, <1>6, <2>2, <2>3, FewestOfAll
  <2> QED BY <2>1, <2>4 DEF Fewest
<1> HIDE DEF ways
<1>8. Len(PdfPages(print)) = Len(C)
  <2>1. Len(C) \in Nat
    BY <1>5, LenProperties
  <2> QED BY <1>5, <2>1, LenOfFunction
<1>9. ASSUME NEW j \in DOMAIN PdfPages(print) PROVE PdfPages(print)[j].images # <<>>
  <2>1. j \in 1..Len(C)
    BY <1>5
  <2>2. PICK r : Page(PdfPages(print)[j], r, C[j], height, spacing[P], PackingBand(print[2], doc.orientation),
                      ComputeCues(doc, P))
    BY <1>1, <2>1 DEF PartOnPaper
  <2>3. Len(PdfPages(print)[j].images) = Len(C[j])
    BY <2>2 DEF Page
  <2>4. Len(C[j]) = e[j] - e[j - 1] /\ e[j - 1] \in 0..Len(s) /\ e[j] \in e[j - 1] + 1..Len(s)
    BY SMTT(30), <1>5, <1>6, <2>1, ChunkOf
  <2>5. Len(C[j]) # 0
    BY <2>4
  <2>6. Len(<<>>) = 0
    OBVIOUS
  <2> QED BY <2>3, <2>5, <2>6
<1>10. ASSUME NEW b \in asked
       PROVE  \E j \in DOMAIN PdfPages(print) : Len(FlattenSeq(SubSeq(PagesOf(print), 1, j))) = b
  <2>1. PICK j \in 1..Len(C) - 1 : e[j] = b
    BY <1>4, <1>6 DEF Division
  <2>2. j \in 1..Len(C)
    BY <1>5, LenProperties
  <2>3. Cuts(C, e, Len(C), s)
    BY <1>5, <1>6, DivisionCuts
  <2>4. Len(FlattenSeq(SubSeq(C, 1, j))) = e[j]
    BY <1>5, <2>2, <2>3, FirstPages
  <2>5. PagesOf(print) = C
    BY <1>1, PagesAreChunks
  <2> QED BY <1>5, <2>1, <2>2, <2>4, <2>5
<1> QED BY <1>7, <1>8, <1>9, <1>10

-----------------------------------------------------------------------------
(* The theorems.                                                             *)

\* Each PDF that create_part draws shows all the segments of its part, once and in the
\* order of the score, and fades those that only its cues have (build_part_segment_map,
\* apply_combined_parts, compute_cues, page_chunks, _add_images).
THEOREM PartsShowTheirMusic == LayoutSpec => []ShowsItsMusic
  BY LayoutAlways, MusicIsShown, PTL

\* page_chunks, which puts a segment on the page as long as there is room for it, comes to
\* as few pages as any division of the part that has the user's breaks; no page is empty.
THEOREM PartsHaveFewestPages == LayoutSpec => []FewestPages
  BY LayoutAlways, PagesAreFewest, PTL

\* What page_chunks has put on one page is drawn there in full by _add_images, but for
\* half a pixel of every space above; only a segment that is alone is scaled further.
THEOREM LinesAreDrawnInFull == LayoutSpec => []FullSize
  BY LayoutAlways, DrawnInFull, PTL

\* A generation does not fail in the layout but for a page that was deleted, or for a line
\* of hardly any height where the rounding of the spacing has taken its room.
THEOREM LayoutFailsForCause == LayoutSpec => []FailsForCause
  BY LayoutAlways, FailedForCause, PTL

\* The preview's pages in the browser are those of the PDFs, where the two round the
\* spacing alike (previewUtils.ts and cutpaste.py).
THEOREM PreviewIsThePdf == LayoutSpec => []PreviewShowsPages
  BY LayoutAlways, PreviewAgrees, PTL
=============================================================================
