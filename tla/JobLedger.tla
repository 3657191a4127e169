------------------------------ MODULE JobLedger ------------------------------
(***************************************************************************)
(* What the job queue promises of each job: once enqueued it is waiting or *)
(* held until its result is committed or its failure is reported; the      *)
(* report is shown unless a job has brought its owner a result; a job goes *)
(* back to the queue only after its interruption was reported; a closed    *)
(* job is never taken up again.                                            *)
(***************************************************************************)
CONSTANTS Jobs, Owners
VARIABLES status, owner, succeeded, failed, shown

ledger == <<status, owner, succeeded, failed, shown>>

Init ==
  /\ status = [j \in Jobs |-> "new"]
  /\ owner \in [Jobs -> Owners]
  /\ succeeded = {} /\ failed = {} /\ shown = {}

Move(j, from, to) ==
  /\ status[j] = from
  /\ status' = [status EXCEPT ![j] = to]
  /\ UNCHANGED <<succeeded, failed, shown>>

Submit(j) ==
  /\ Move(j, "new", "queued")
  /\ \E o \in Owners : owner' = [owner EXCEPT ![j] = o]
Take(j) == Move(j, "queued", "held") /\ UNCHANGED owner
GiveBack(j) == j \in failed /\ Move(j, "held", "queued") /\ UNCHANGED owner
Close(j) == j \in succeeded \union failed /\ Move(j, "held", "closed") /\ UNCHANGED owner

Succeed(j) ==
  /\ status[j] = "held"
  /\ succeeded' = succeeded \union {j}
  /\ UNCHANGED <<status, owner, failed, shown>>

\* A job of the same owner has brought a result, so that its failure may stay unseen.
Served(j) == \E i \in succeeded : owner[i] = owner[j]

\* The reaper may report a failure of a job that its worker has closed, or reported and
\* given back, meanwhile.
Fail(j) ==
  /\ status[j] \in {"held", "closed"} \/ j \in failed
  /\ failed' = failed \union {j}
  /\ shown' = shown \union {j} \/ (Served(j) /\ UNCHANGED shown)
  /\ UNCHANGED <<status, owner, succeeded>>

Next == \E j \in Jobs :
  Submit(j) \/ Take(j) \/ GiveBack(j) \/ Close(j) \/ Succeed(j) \/ Fail(j)

Spec == Init /\ [][Next]_ledger
=============================================================================
