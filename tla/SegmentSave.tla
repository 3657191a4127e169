---------------------------- MODULE SegmentSave ----------------------------
(***************************************************************************)
(* The requests that write one partset's segments and part rows, as the    *)
(* MySQL transactions they are (InnoDB, REPEATABLE READ): the segment      *)
(* editor's saves (segments.py), which are run again when MySQL rolls them *)
(* back as a deadlock victim, the preview page's combine (preview.py) and  *)
(* the start of a generation, which are not.  A transaction reads the      *)
(* snapshot it took when the route looked the partset up, with its own     *)
(* writes on top; its UPDATEs, DELETEs and INSERTs work on the current     *)
(* rows under locks it keeps until it ends.                                *)
(*                                                                         *)
(* A part row is the set of tags it plays: {t} for a part, more for a      *)
(* combined one.  A page's segments are the set of their tags; a tag       *)
(* outside PartTags stands for a segment without a tag, or one of "all"    *)
(* and "(none)".  The caches the requests invalidate are PartGen's.        *)
(***************************************************************************)
EXTENDS Naturals, Sequences, SequencesExt

CONSTANTS
  Sessions,             \* the requests, one database session each
  Pages,                \* page numbers of the partset
  Tags, PartTags,       \* tags of segments, and those that make a part
  Requests,             \* what a session may ask
  Documents,            \* the tags per page the partset may start with
  MaxDeadlockRetries,   \* MAX_DEADLOCK_RETRIES
  MaxTimeouts,          \* bound: lock waits that time out (error 1205)
  None                  \* nobody: the content the partset starts with

\* The tags of every page's segments, and the part rows.
TagsByPage == [Pages -> SUBSET Tags]
PartRows == (SUBSET PartTags) \ {{}}
Doc == [Pages -> [by : Sessions \cup {None}, tags : SUBSET Tags]]

SaveRequest == [kind : {"save"}, tags : UNION {[P -> SUBSET Tags] : P \in (SUBSET Pages) \ {{}}}]
CombineRequest == [kind : {"add", "remove"}, row : {r \in PartRows : \A t \in r : r # {t}}]
GenerateRequest == [kind : {"generate"}]

ASSUME SegmentSaveAssumption ==
  /\ Pages \subseteq Nat /\ PartTags \subseteq Tags /\ IsFiniteSet(PartTags)
  /\ Documents \subseteq TagsByPage
  /\ Requests \subseteq SaveRequest \cup CombineRequest \cup GenerateRequest
  /\ MaxDeadlockRetries \in Nat /\ MaxTimeouts \in Nat /\ None \notin Sessions

VARIABLES
  doc,        \* committed: page -> who wrote it and the tags of its segments
  parts,      \* committed part rows
  request,    \* what each session asks
  txn,        \* each session's open transaction
  held,       \* the locks each session holds
  waiting,    \* the sessions whose next lock is taken
  ahead,      \* who was waiting when each of them queued up, and still is
  timeouts,   \* lock waits that have timed out so far
  skewed      \* history: the last sync of the part rows read a snapshot that
              \* an earlier committed sync had already outdated

vars == <<doc, parts, request, txn, held, waiting, ahead, timeouts, skewed>>
queueVars == <<waiting, ahead>>

(***************************************************************************)
(* Locks.  segments has an index on partset_id only, so a DELETE for one   *)
(* page locks all the partset's segment rows ("rows"), or the gap where    *)
(* they would be when there is none; gap locks do not exclude each other,  *)
(* and an insert waits for both kinds.                                     *)
(***************************************************************************)
Rows == <<"rows">>
Gap == <<"gap">>
Insert == <<"insert">>
PartsetRow == <<"partset">>
PageRow(p) == <<"page", p>>
PartRow(r) == <<"part", r>>

Locks == {Rows, Gap, PartsetRow} \cup {PageRow(p) : p \in Pages} \cup {PartRow(r) : r \in PartRows}

Conflict(want, have) == \/ want = have /\ want # Gap
                        \/ want = Insert /\ have \in {Rows, Gap}

\* left, written: the pages of a save; todo, put: the part rows to write, those of them
\* to insert; base, rows: the snapshot, rows with the session's own writes; late: since
\* the snapshot a sync was committed.
TxnPC == {"idle", "page", "delete", "flush", "sync", "rows", "commit", "rollback",
          "retry", "saved", "refused"}
Txn == [pc : TxnPC, left : SUBSET Pages, written : SUBSET Pages,
        todo : Seq(PartRows), put : SUBSET PartRows,
        base : TagsByPage, rows : SUBSET PartRows, late : BOOLEAN, tries : 0..MaxDeadlockRetries]

\* No open transaction.
Closed(pc, tries) == [pc |-> pc, left |-> {}, written |-> {}, todo |-> <<>>, put |-> {},
                      base |-> [p \in Pages |-> {}], rows |-> {}, late |-> FALSE, tries |-> tries]
Open == {s \in Sessions : txn[s].pc \notin {"idle", "retry", "saved", "refused"}}

\* Segment rows exist: committed, or inserted by an open transaction.
SegmentsExist == \/ \E p \in Pages : doc[p].tags # {}
                 \/ \E s \in Sessions : Rows \in held[s]

\* The lowest page, if any: pages are saved in order.
Lowest(S) == {p \in S : \A q \in S : p <= q}

\* The locks a session's next statement needs.
Wanted(s) ==
  CASE txn[s].pc = "page" -> {PageRow(p) : p \in Lowest(txn[s].left)}
    [] txn[s].pc = "delete" -> {IF SegmentsExist THEN Rows ELSE Gap}
    [] txn[s].pc = "flush" -> {PartsetRow} \cup
         (IF \E p \in txn[s].written : request[s].tags[p] # {} THEN {Insert} ELSE {})
    [] txn[s].pc = "rows" /\ txn[s].todo # <<>> -> {PartRow(Head(txn[s].todo))}
    [] OTHER -> {}

\* Those who queued up before s: everyone who waits if s does not.
Ahead(s) == IF s \in waiting THEN ahead[s] ELSE waiting

Enqueue(s) == /\ waiting' = waiting \cup {s}
              /\ ahead' = [ahead EXCEPT ![s] = waiting]
Dequeue(s) == /\ waiting' = waiting \ {s}
              /\ ahead' = [t \in Sessions |-> IF t = s THEN {} ELSE ahead[t] \ {s}]

\* Who stands in the way: the holders, and whoever asked first.
Blockers(s) ==
  {t \in Sessions \ {s} :
     \E want \in Wanted(s) :
       \/ \E have \in held[t] : Conflict(want, have)
       \/ t \in Ahead(s) /\ want \in Wanted(t)}

\* A circular wait: everyone of C waits for someone of C.
Circular(C) == C # {} /\ \A s \in C : s \in waiting /\ Blockers(s) \cap C # {}
Deadlocked(s) == \E C \in SUBSET Sessions :
                    /\ s \in C /\ Circular(C)
                    /\ \A D \in SUBSET C : Circular(D) => D = C

Init == /\ \E tags \in Documents : doc = [p \in Pages |-> [by |-> None, tags |-> tags[p]]]
        /\ parts = {{t} : t \in PartTags \cap UNION {doc[p].tags : p \in Pages}}
        /\ request \in [Sessions -> Requests]
        /\ txn = [s \in Sessions |-> Closed("idle", 0)]
        /\ held = [s \in Sessions |-> {}]
        /\ waiting = {} /\ ahead = [s \in Sessions |-> {}]
        /\ timeouts = 0
        /\ skewed = FALSE

(***************************************************************************)
(* The transactions, statement by statement.                               *)
(***************************************************************************)
\* The next statement of s, under the locks it needs.
Run(s, pc, t) == /\ txn[s].pc = pc
                 /\ Blockers(s) = {}
                 /\ txn' = [txn EXCEPT ![s] = t]
                 /\ held' = [held EXCEPT ![s] = @ \cup (Wanted(s) \ {Insert})
                                 \cup (IF Insert \in Wanted(s) THEN {Rows} ELSE {})]
                 /\ Dequeue(s)
                 /\ UNCHANGED <<doc, parts, request, timeouts, skewed>>

\* The first statement depends on the route.
Start(s) ==
  [Closed("idle", txn[s].tries) EXCEPT
     !.base = [p \in Pages |-> doc[p].tags], !.rows = parts,
     !.pc = CASE request[s].kind = "save" -> "page"
              [] request[s].kind = "generate" -> "sync"
              [] OTHER -> "rows",
     !.left = IF request[s].kind = "save" THEN DOMAIN request[s].tags ELSE {},
     !.put = IF request[s].kind = "add" THEN {request[s].row} ELSE {},
     !.todo = IF request[s].kind \in {"add", "remove"} THEN <<request[s].row>> ELSE <<>>]

\* The route reads the partset, which takes the snapshot.
Begin(s) == Run(s, "idle", Start(s))

\* After the rollback and the sleep db.get reads it again.  The sleep (50 ms, then
\* 100) is long enough for a session whose lock came free to run its statement.
Retry(s) == /\ \A t \in waiting : Blockers(t) # {}
            /\ Run(s, "retry", Start(s))

\* Pages in order: the UPDATE of the page row, then the DELETE of its segments.
UpdatePage(s) == Run(s, "page", [txn[s] EXCEPT !.pc = "delete"])

DeleteSegments(s) ==
  \E p \in Lowest(txn[s].left) :
    LET rest == txn[s].left \ {p}
    IN  Run(s, "delete", [txn[s] EXCEPT !.left = rest, !.written = @ \cup {p},
                                        !.pc = IF rest = {} THEN "flush" ELSE "page"])

\* db.flush: the partset row, and for a save its new segment rows.
Flush(s) == Run(s, "flush", [txn[s] EXCEPT !.pc = IF request[s].kind = "save" THEN "sync"
                                                                           ELSE "commit"])

\* Mutant: the sync runs before the flush and does not see the save's own segments.
ViewBeforeFlush(s) == txn[s].base

\* The tags of the segments a consistent read of s returns.
View(s) == [p \in Pages |-> IF p \in txn[s].written THEN request[s].tags[p] ELSE txn[s].base[p]]

\* Mutant: "all" and "(none)" are not left out.
TagsOfAll(tags) == UNION {tags[p] : p \in Pages}

TagsOf(tags) == PartTags \cap UNION {tags[p] : p \in Pages}

\* _sync_part_rows_from_tags: upserts in the order of a set, then the deletes.
Sync(s) ==
  LET tags == TagsOf(View(s))
      add == {{t} : t \in tags} \ txn[s].rows
      drop == {r \in txn[s].rows : ~(r \subseteq tags)}
  IN /\ txn[s].pc = "sync"
     /\ \E upserts \in SetToSeqs(add), deletes \in SetToSeqs(drop) :
          Run(s, "sync", [txn[s] EXCEPT !.pc = "rows", !.put = add, !.todo = upserts \o deletes])

WriteRow(s) ==
  /\ txn[s].todo # <<>>
  /\ LET row == Head(txn[s].todo)
     IN  Run(s, "rows", [txn[s] EXCEPT !.todo = Tail(@),
                !.rows = IF row \in txn[s].put THEN @ \cup {row} ELSE @ \ {row}])

\* A combine flushes the partset row after its own row, a generation after the
\* sync; a generation without a part gives up (and the session rolls back).
RowsWritten(s) ==
  /\ txn[s].todo = <<>>
  /\ Run(s, "rows", [txn[s] EXCEPT !.pc =
       CASE request[s].kind = "save" -> "commit"
         [] request[s].kind = "generate" /\ \A t \in PartTags : {t} \notin txn[s].rows
              -> "rollback"
         [] OTHER -> "flush"])

\* What s did to the part rows: the difference its own snapshot shows.
Removed(s) == IF request[s].kind = "remove" THEN {request[s].row}
              ELSE IF request[s].kind = "add" THEN {}
              ELSE {r \in parts : r \in PartRows /\ PartRow(r) \in held[s] /\ r \notin txn[s].put}

Synced(s) == request[s].kind \in {"save", "generate"}

Commit(s) ==
  /\ txn[s].pc = "commit"
  /\ doc' = [p \in Pages |-> IF p \in txn[s].written
                              THEN [by |-> s, tags |-> request[s].tags[p]] ELSE doc[p]]
  /\ parts' = (parts \cup txn[s].put) \ Removed(s)
  /\ skewed' = IF Synced(s) THEN txn[s].late ELSE skewed
  /\ txn' = [t \in Sessions |->
               IF t = s THEN Closed("saved", 0)
               ELSE [txn[t] EXCEPT !.late = @ \/ (Synced(s) /\ t \in Open)]]
  /\ held' = [held EXCEPT ![s] = {}]
  /\ UNCHANGED <<request, queueVars, timeouts>>

\* Mutant: the session is not rolled back and keeps its locks.
UndoKeepsLocks(s, t) == /\ txn' = [txn EXCEPT ![s] = t]
                        /\ Dequeue(s)
                        /\ UNCHANGED <<doc, parts, request, skewed, held>>

\* The session ends without a commit: MySQL drops its writes and its locks.
Undo(s, t) == /\ txn' = [txn EXCEPT ![s] = t]
              /\ held' = [held EXCEPT ![s] = {}]
              /\ Dequeue(s)
              /\ UNCHANGED <<doc, parts, request, skewed>>

GiveUp(s) == /\ txn[s].pc = "rollback"
             /\ Undo(s, Closed("refused", 0))
             /\ UNCHANGED timeouts

Wait(s) == /\ s \notin waiting
           /\ Blockers(s) # {}
           /\ Enqueue(s)
           /\ UNCHANGED <<doc, parts, request, txn, held, timeouts, skewed>>

\* Mutant: only the statement that failed is run again.
ResumeAfterDeadlock(s) == [txn[s] EXCEPT !.written = {}, !.tries = @ + 1]

\* Mutant: the victim is not given a second try.
GiveUpAfterDeadlock(s) == Closed("refused", 0)

\* What _retry_segment_save_on_deadlock does with error 1213.
AfterDeadlock(s) ==
  IF request[s].kind = "save" /\ txn[s].tries < MaxDeadlockRetries
  THEN Closed("retry", txn[s].tries + 1)
  ELSE Closed("refused", 0)

\* MySQL rolls back one of the sessions that wait for each other.
Deadlock(s) == Deadlocked(s) /\ Undo(s, AfterDeadlock(s)) /\ UNCHANGED timeouts

\* Error 1205 is not retried: the route answers with an error.
LockTimeout(s) == /\ s \in waiting /\ timeouts < MaxTimeouts
                  /\ timeouts' = timeouts + 1
                  /\ Undo(s, Closed("refused", 0))

Step(s) == \/ Begin(s) \/ Retry(s) \/ UpdatePage(s) \/ DeleteSegments(s) \/ Flush(s) \/ Sync(s)
           \/ WriteRow(s) \/ RowsWritten(s) \/ Commit(s) \/ GiveUp(s) \/ Wait(s)
           \/ Deadlock(s)

Next == \E s \in Sessions : Step(s) \/ LockTimeout(s)

\* Sessions run on their own threads, and MySQL breaks every circular wait.
Spec == Init /\ [][Next]_vars
LiveSpec == Spec /\ \A s \in Sessions : WF_vars(Step(s))
-----------------------------------------------------------------------------
(***************************************************************************)
(* Properties.                                                             *)
(***************************************************************************)
\* The state has the types the tables and the requests give it, and no two
\* sessions hold locks that exclude each other (gap locks may coexist).
TypeOK ==
  /\ doc \in Doc /\ parts \subseteq PartRows
  /\ request \in [Sessions -> Requests] /\ txn \in [Sessions -> Txn]
  /\ held \in [Sessions -> SUBSET Locks]
  /\ waiting \subseteq Open /\ ahead \in [Sessions -> SUBSET waiting]
  /\ \A s \in Sessions : s \notin Open => held[s] = {}
  /\ \A s, t \in Sessions : s # t => \A h \in held[s] \ {Gap} : h \notin held[t]
  /\ timeouts \in 0..MaxTimeouts /\ skewed \in BOOLEAN

\* After a save or a generation that saw every earlier one, the parts are the
\* tags of the committed segments: what the preview page lists is what the
\* editor shows.  (Two overlapping saves may leave a tag without its part until
\* the next of them: each reads the other's pages as they were before.)
PartsMatchTags ==
  ~skewed => {t \in PartTags : {t} \in parts} = TagsOf([p \in Pages |-> doc[p].tags])

\* A save of a partset that had segments is refused for a lock timeout only: no
\* combination of requests exhausts the retries of _retry_segment_save_on_deadlock.
\* (Three saves of a partset without segment rows may: their gap locks let the victim
\* back in among the others, and it is the victim again.)
RetriesSuffice ==
  SegmentsExist =>
    [](\A s \in Sessions : txn[s].pc = "refused" /\ request[s].kind = "save" => timeouts > 0)

Owner == [p \in Pages |-> doc[p].by]
Asked == [s \in Sessions |-> IF request[s].kind = "save" THEN DOMAIN request[s].tags ELSE {}]
Answer == [s \in Sessions |-> IF txn[s].pc \in {"saved", "refused"} THEN txn[s].pc ELSE "open"]

\* The saves are atomic and applied once, whatever deadlocks they went through:
\* a save answered "success" has replaced every page it names, together.
Saves == INSTANCE PageSaves WITH owner <- Owner, asked <- Asked, answer <- Answer
SavesAreAtomic == Saves!Spec

\* Every request is answered: no cycle of locks holds the editor for ever.
Answered == <>(\A s \in Sessions : Answer[s] # "open")
============================================================================
