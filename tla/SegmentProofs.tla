--------------------------- MODULE SegmentProofs ---------------------------
(***************************************************************************)
(* Theorems about the segments of a partset.  First the requests that      *)
(* write them (SegmentSave): for any number of pages, tags, sessions and   *)
(* retries, the locks exclude each other, saves implement PageSaves, and   *)
(* the part rows follow the tags.  Then the preview that is cut from them  *)
(* (PreviewCache), for any number of views, any set of geometries and any  *)
(* number of segments of each.                                             *)
(***************************************************************************)
EXTENDS SegmentSave, PreviewCache, FiniteSetTheorems, SequenceTheorems, TLAPS

-----------------------------------------------------------------------------
(* The requests that write.  TxnInv carries the types, the exclusion of    *)
(* locks and what of a save's pages is left and written: enough for        *)
(* LocksExclude and for the refinement SavesImplementPageSaves.  MatchInv  *)
(* adds, for each open session that has missed no sync, what its snapshot  *)
(* and its locks say of the part rows, which makes PartsFollowTags         *)
(* inductive.                                                              *)

\* A sequence of a finite set has each of its elements, and no other.
LEMMA SeqOfSet ==
  ASSUME NEW S, IsFiniteSet(S), NEW f \in SetToSeqs(S)
  PROVE  /\ f \in Seq(S)
         /\ {f[i] : i \in 1..Len(f)} = S
<1> DEFINE n == Cardinality(S)
<1>1. n \in Nat
  BY FS_CardinalityType
<1>2. f \in [1..n -> S] /\ \A i, j \in 1..n : i # j => f[i] # f[j]
  BY DEF SetToSeqs
<1> HIDE DEF n
<1>3. f \in Seq(S) /\ Len(f) = n
  BY <1>1, <1>2, SeqDef
<1>4. ASSUME NEW x \in S, \A i \in 1..n : f[i] # x PROVE FALSE
  <2>1. f \in [1..n -> S \ {x}]
    BY <1>2, <1>4
  <2>2. IsFiniteSet(S \ {x}) /\ Cardinality(S \ {x}) = n - 1
    BY FS_RemoveElement DEF n
  <2>3. IsFiniteSet(1..n) /\ Cardinality(1..n) = n
    BY <1>1, FS_Interval
  <2>4. Cardinality(S \ {x}) < Cardinality(1..n)
    BY <1>1, <2>2, <2>3
  <2>5. \E i, j \in 1..n : i # j /\ f[i] = f[j]
    BY <2>1, <2>2, <2>3, <2>4, FS_PigeonHole
  <2> QED BY <1>2, <2>5
<1> QED BY <1>2, <1>3, <1>4
(***************************************************************************)
(* The invariant of the open transactions.                                 *)
(***************************************************************************)
Singles(S) == {t \in PartTags : {t} \in S}
InTodo(s) == {txn[s].todo[i] : i \in 1..Len(txn[s].todo)}
DocTags == [p \in Pages |-> doc[p].tags]

\* Only a statement that needs a lock waits for one.
WaitsForLock == \A s \in waiting : txn[s].pc \in {"page", "delete", "flush", "rows"}

\* The pages of a transaction x are those the save of s names, in what is left and
\* what is written.
PagesFit(s, x) ==
  /\ x.left \cup x.written = Asked[s]
  /\ x.pc \in {"page", "delete"} => request[s].kind = "save"
  /\ x.pc \notin {"page", "delete"} => x.left = {}
  /\ x.pc = "sync" => Synced(s)
  /\ x.pc # "rows" => x.todo = <<>>
  /\ ~Synced(s) => x.put \subseteq {request[s].row}

BeforeSync(s) == \/ txn[s].pc \in {"page", "delete", "sync"}
                 \/ txn[s].pc = "flush" /\ request[s].kind = "save"

\* Before the sync the snapshot shows the part rows as they are; after it, the
\* rows to write and the rows locked are those that make them fit the tags T.
RowsBefore(s) == /\ Singles(txn[s].rows) = Singles(parts)
                 /\ \A t \in PartTags : PartRow({t}) \notin held[s]
RowsAfter(s, T) ==
  /\ txn[s].put \subseteq {{t} : t \in T}
  /\ \A t \in T : /\ {t} \in txn[s].put \cup parts
                  /\ {t} \in InTodo(s) \/ PartRow({t}) \in held[s] => {t} \in txn[s].put
  /\ \A t \in PartTags \ T : {t} \in parts => {t} \in InTodo(s) \/ PartRow({t}) \in held[s]

SyncInv(s) ==
  Synced(s) /\ ~txn[s].late =>
    /\ txn[s].base = DocTags
    /\ BeforeSync(s) => RowsBefore(s)
    /\ ~BeforeSync(s) => RowsAfter(s, TagsOf(View(s)))

TxnInv == /\ TypeOK
          /\ WaitsForLock
          /\ \A s \in Open : PagesFit(s, txn[s])

MatchInv == /\ TxnInv
            /\ \A s \in Open : SyncInv(s)
            /\ PartsMatchTags
-----------------------------------------------------------------------------
(***************************************************************************)
(* Types and locks.                                                        *)
(***************************************************************************)
ClosedPC == {"idle", "retry", "saved", "refused"}

LEMMA RequestTypes ==
  ASSUME TypeOK, NEW s \in Sessions
  PROVE  /\ request[s].kind \in {"save", "add", "remove", "generate"}
         /\ request[s].kind = "save" => /\ DOMAIN request[s].tags \subseteq Pages
                                       /\ \A p \in DOMAIN request[s].tags : request[s].tags[p] \subseteq Tags
         /\ request[s].kind \in {"add", "remove"} =>
              request[s].row \in PartRows /\ \A t \in request[s].row : request[s].row # {t}
<1>1. request[s] \in SaveRequest \cup CombineRequest \cup GenerateRequest
  BY SegmentSaveAssumption DEF TypeOK
<1>2. CASE request[s] \in SaveRequest
  BY <1>2 DEF SaveRequest
<1>3. CASE request[s] \in CombineRequest
  BY <1>3 DEF CombineRequest
<1>4. CASE request[s] \in GenerateRequest
  BY <1>4 DEF GenerateRequest
<1> QED BY <1>1, <1>2, <1>3, <1>4

LEMMA WantedLocks ==
  ASSUME TypeOK, NEW s \in Sessions
  PROVE  Wanted(s) \subseteq Locks \cup {Insert}
<1>1. txn[s] \in Txn
  BY DEF TypeOK
<1>2. CASE txn[s].pc = "page"
  BY <1>1, <1>2 DEF Wanted, Locks, Lowest, Txn
<1>3. CASE txn[s].pc = "delete"
  BY <1>3 DEF Wanted, Locks
<1>4. CASE txn[s].pc = "flush"
  BY <1>4 DEF Wanted, Locks
<1>5. CASE txn[s].pc = "rows" /\ txn[s].todo # <<>>
  <2>1. Head(txn[s].todo) \in PartRows
    BY <1>1, <1>5, HeadTailProperties DEF Txn
  <2> QED BY <1>5, <2>1 DEF Wanted, Locks
<1>6. CASE /\ txn[s].pc \notin {"page", "delete", "flush"}
           /\ ~(txn[s].pc = "rows" /\ txn[s].todo # <<>>)
  <2>1. Wanted(s) = {}
    BY <1>6, SMTT(30) DEF Wanted
  <2> QED BY <2>1
<1> QED BY <1>2, <1>3, <1>4, <1>5, <1>6

\* A statement runs: the locks it takes exclude nobody's.
LEMMA RunTypes ==
  ASSUME TypeOK, WaitsForLock, NEW s \in Sessions, NEW pc, NEW t \in Txn,
         t.pc \notin ClosedPC, Run(s, pc, t)
  PROVE  TypeOK' /\ WaitsForLock'
<1> DEFINE new == (Wanted(s) \ {Insert}) \cup (IF Insert \in Wanted(s) THEN {Rows} ELSE {})
<1>1. new \subseteq Locks
  BY WantedLocks DEF Locks
<1>2. \A u \in Sessions \ {s} : \A h \in new \ {Gap} : h \notin held[u]
  <2> SUFFICES ASSUME NEW u \in Sessions \ {s}, NEW h \in new \ {Gap}, h \in held[u] PROVE FALSE
    OBVIOUS
  <2>1. u \notin Blockers(s)
    BY DEF Run
  <2>2. CASE h \in Wanted(s)
    BY <2>1, <2>2 DEF Blockers, Conflict
  <2>3. CASE Insert \in Wanted(s) /\ h = Rows
    BY <2>1, <2>3 DEF Blockers, Conflict
  <2> QED BY <2>2, <2>3
<1> HIDE DEF new
<1>3. /\ txn' = [txn EXCEPT ![s] = t]
      /\ held' = [held EXCEPT ![s] = @ \cup new]
      /\ waiting' = waiting \ {s}
      /\ ahead' = [u \in Sessions |-> IF u = s THEN {} ELSE ahead[u] \ {s}]
      /\ UNCHANGED <<doc, parts, request, timeouts, skewed>>
  <2>1. held' = [held EXCEPT ![s] = held[s] \cup (Wanted(s) \ {Insert})
                                 \cup (IF Insert \in Wanted(s) THEN {Rows} ELSE {})]
    BY DEF Run
  <2>2. held[s] \cup (Wanted(s) \ {Insert}) \cup (IF Insert \in Wanted(s) THEN {Rows} ELSE {})
          = held[s] \cup new
    BY DEF new
  <2> QED BY <2>1, <2>2 DEF Run, Dequeue
<1>4. txn' \in [Sessions -> Txn] /\ held' \in [Sessions -> SUBSET Locks]
  BY <1>1, <1>3 DEF TypeOK
<1>5. \A u \in Sessions : u # s => txn'[u] = txn[u] /\ held'[u] = held[u]
  BY <1>3 DEF TypeOK
<1>6. txn'[s] = t /\ held'[s] = held[s] \cup new
  BY <1>3 DEF TypeOK
<1>7. Open' = Open \cup {s}
  BY <1>5, <1>6 DEF Open, ClosedPC
<1>8. waiting' \subseteq Open' /\ ahead' \in [Sessions -> SUBSET waiting']
  BY <1>3, <1>7 DEF TypeOK
<1>9. \A u \in Sessions : u \notin Open' => held'[u] = {}
  BY <1>5, <1>7 DEF TypeOK
<1>10. \A u, v \in Sessions : u # v => \A h \in held'[u] \ {Gap} : h \notin held'[v]
  BY <1>2, <1>5, <1>6 DEF TypeOK
<1>11. WaitsForLock'
  BY <1>3, <1>5 DEF WaitsForLock, TypeOK
<1> QED BY <1>3, <1>4, <1>8, <1>9, <1>10, <1>11 DEF TypeOK

\* A transaction that is rolled back holds no lock and waits for none.
LEMMA UndoTypes ==
  ASSUME TypeOK, WaitsForLock, NEW s \in Sessions, NEW t \in Txn, t.pc \in ClosedPC,
         Undo(s, t), timeouts' \in 0..MaxTimeouts
  PROVE  TypeOK' /\ WaitsForLock'
<1>1. /\ txn' = [txn EXCEPT ![s] = t]
      /\ held' = [held EXCEPT ![s] = {}]
      /\ waiting' = waiting \ {s}
      /\ ahead' = [u \in Sessions |-> IF u = s THEN {} ELSE ahead[u] \ {s}]
      /\ UNCHANGED <<doc, parts, request, skewed>>
  BY DEF Undo, Dequeue
<1>2. txn' \in [Sessions -> Txn] /\ held' \in [Sessions -> SUBSET Locks]
  BY <1>1 DEF TypeOK
<1>3. \A u \in Sessions : u # s => txn'[u] = txn[u] /\ held'[u] = held[u]
  BY <1>1 DEF TypeOK
<1>4. txn'[s] = t /\ held'[s] = {}
  BY <1>1 DEF TypeOK
<1>5. Open' = Open \ {s}
  BY <1>3, <1>4 DEF Open, ClosedPC
<1>6. waiting' \subseteq Open' /\ ahead' \in [Sessions -> SUBSET waiting']
  BY <1>1, <1>5 DEF TypeOK
<1>7. \A u \in Sessions : u \notin Open' => held'[u] = {}
  BY <1>3, <1>4, <1>5 DEF TypeOK
<1>8. \A u, v \in Sessions : u # v => \A h \in held'[u] \ {Gap} : h \notin held'[v]
  BY <1>3, <1>4 DEF TypeOK
<1>9. WaitsForLock'
  BY <1>1, <1>3 DEF WaitsForLock, TypeOK
<1> QED BY <1>1, <1>2, <1>6, <1>7, <1>8, <1>9 DEF TypeOK

LEMMA ClosedTypes ==
  ASSUME NEW pc \in TxnPC, NEW tries \in 0..MaxDeadlockRetries
  PROVE  /\ Closed(pc, tries) \in Txn
         /\ Closed(pc, tries).pc = pc /\ Closed(pc, tries).tries = tries
BY SegmentSaveAssumption, EmptySeq DEF Closed, Txn, TagsByPage


-----------------------------------------------------------------------------
(***************************************************************************)
(* Every step keeps the types, and the pages of the saves.                 *)
(***************************************************************************)
\* What a statement changes: its own transaction and its own locks.
LEMMA RunFrame ==
  ASSUME TypeOK, NEW s \in Sessions, NEW pc, NEW t, Run(s, pc, t)
  PROVE  /\ txn[s].pc = pc /\ txn'[s] = t
         /\ held'[s] = held[s] \cup (Wanted(s) \ {Insert})
                              \cup (IF Insert \in Wanted(s) THEN {Rows} ELSE {})
         /\ \A u \in Sessions : u # s => txn'[u] = txn[u] /\ held'[u] = held[u]
         /\ UNCHANGED <<doc, parts, request, skewed>>
BY DEF Run, TypeOK

LEMMA UndoFrame ==
  ASSUME TypeOK, NEW s \in Sessions, NEW t, Undo(s, t)
  PROVE  /\ txn'[s] = t /\ held'[s] = {}
         /\ \A u \in Sessions : u # s => txn'[u] = txn[u] /\ held'[u] = held[u]
         /\ UNCHANGED <<doc, parts, request, skewed>>
BY DEF Undo, TypeOK

LEMMA RunKeeps ==
  ASSUME TxnInv, NEW s \in Sessions, NEW pc, NEW t \in Txn,
         t.pc \notin ClosedPC, Run(s, pc, t), PagesFit(s, t)
  PROVE  TxnInv'
<1>1. TypeOK' /\ WaitsForLock'
  BY RunTypes DEF TxnInv
<1>2. /\ txn'[s] = t
      /\ \A u \in Sessions : u # s => txn'[u] = txn[u]
      /\ request' = request
  BY RunFrame DEF TxnInv
<1>3. PagesFit(s, txn[s])'
  BY <1>2 DEF PagesFit, Asked, Synced
<1>4. ASSUME NEW u \in Open', u # s PROVE PagesFit(u, txn[u])'
  <2>1. u \in Open
    BY <1>2, <1>4 DEF Open
  <2> QED BY <1>2, <1>4, <2>1 DEF TxnInv, PagesFit, Asked, Synced, Open
<1> QED BY <1>1, <1>3, <1>4 DEF TxnInv

LEMMA UndoKeeps ==
  ASSUME TxnInv, NEW s \in Sessions, NEW t \in Txn, t.pc \in ClosedPC,
         Undo(s, t), timeouts' \in 0..MaxTimeouts
  PROVE  TxnInv'
<1>1. TypeOK' /\ WaitsForLock'
  BY UndoTypes DEF TxnInv
<1>2. /\ txn'[s] = t
      /\ \A u \in Sessions : u # s => txn'[u] = txn[u]
      /\ request' = request
  BY UndoFrame DEF TxnInv
<1>3. ASSUME NEW u \in Open' PROVE PagesFit(u, txn[u])'
  <2>1. u \in Open /\ u # s
    BY <1>2, <1>3 DEF Open, ClosedPC
  <2> QED BY <1>2, <1>3, <2>1 DEF TxnInv, PagesFit, Asked, Synced, Open
<1> QED BY <1>1, <1>3 DEF TxnInv

LEMMA StartTypes ==
  ASSUME TypeOK, NEW s \in Sessions
  PROVE  /\ Start(s) \in Txn /\ Start(s).pc \notin ClosedPC
         /\ PagesFit(s, Start(s))
         /\ Start(s).base = DocTags /\ Start(s).rows = parts
         /\ Synced(s) => Start(s).pc \in {"page", "sync"}
<1> DEFINE c == Closed("idle", txn[s].tries)
           pc == CASE request[s].kind = "save" -> "page"
                   [] request[s].kind = "generate" -> "sync"
                   [] OTHER -> "rows"
           left == IF request[s].kind = "save" THEN DOMAIN request[s].tags ELSE {}
           put == IF request[s].kind = "add" THEN {request[s].row} ELSE {}
           todo == IF request[s].kind \in {"add", "remove"} THEN <<request[s].row>> ELSE <<>>
<1>1. c \in Txn /\ c.written = {} /\ c.todo = <<>>
  <2>1. txn[s].tries \in 0..MaxDeadlockRetries
    BY DEF TypeOK, Txn
  <2>2. c \in Txn
    BY <2>1, ClosedTypes DEF TxnPC
  <2> QED BY <2>2 DEF Closed
<1>2. DocTags \in TagsByPage /\ parts \in SUBSET PartRows
  BY DEF TypeOK, Doc, TagsByPage, DocTags
<1>3. pc \in {"page", "sync", "rows"}
  BY RequestTypes
<1>4. left \in SUBSET Pages /\ put \in SUBSET PartRows /\ todo \in Seq(PartRows)
  BY RequestTypes
<1>5. left = Asked[s] /\ (pc # "page" => left = {}) /\ (pc = "page" <=> request[s].kind = "save")
  BY RequestTypes DEF Asked
<1>6. /\ pc = "sync" => Synced(s)
      /\ pc # "rows" => todo = <<>>
      /\ ~Synced(s) => put \subseteq {request[s].row}
      /\ Synced(s) => pc \in {"page", "sync"}
  BY RequestTypes DEF Synced
<1>7. Start(s) = [c EXCEPT !.base = DocTags, !.rows = parts, !.pc = pc, !.left = left,
                           !.put = put, !.todo = todo]
  BY DEF Start, DocTags
<1> HIDE DEF c, pc, left, put, todo
<1>8. /\ Start(s) \in Txn /\ Start(s).pc = pc /\ Start(s).left = left /\ Start(s).put = put
      /\ Start(s).todo = todo /\ Start(s).written = {}
      /\ Start(s).base = DocTags /\ Start(s).rows = parts
  <2>1. pc \in TxnPC
    BY <1>3 DEF TxnPC
  <2> QED BY <1>1, <1>2, <1>4, <1>7, <2>1 DEF Txn
<1> QED BY <1>3, <1>5, <1>6, <1>8 DEF PagesFit, ClosedPC

\* The sync's rows to insert and to write, and what they are written as.
LEMMA SyncTypes ==
  ASSUME TypeOK, NEW s \in Sessions, Sync(s)
  PROVE  \E add \in SUBSET PartRows, todo \in Seq(PartRows) :
           LET tags == TagsOf(View(s))
           IN  /\ add = {{t} : t \in tags} \ txn[s].rows
               /\ {todo[i] : i \in 1..Len(todo)}
                     = add \cup {r \in txn[s].rows : ~(r \subseteq tags)}
               /\ Run(s, "sync", [txn[s] EXCEPT !.pc = "rows", !.put = add, !.todo = todo])
<1> DEFINE tags == TagsOf(View(s))
           add == {{t} : t \in tags} \ txn[s].rows
           drop == {r \in txn[s].rows : ~(r \subseteq tags)}
<1>1. PICK upserts \in SetToSeqs(add), deletes \in SetToSeqs(drop) :
        Run(s, "sync", [txn[s] EXCEPT !.pc = "rows", !.put = add, !.todo = upserts \o deletes])
  BY DEF Sync
<1>2. tags \subseteq PartTags
  BY DEF TagsOf
<1>3. IsFiniteSet(PartRows)
  BY SegmentSaveAssumption, FS_SUBSET, FS_Subset DEF PartRows
<1>4. add \subseteq PartRows /\ drop \subseteq PartRows
  <2>1. txn[s].rows \subseteq PartRows
    BY DEF TypeOK, Txn
  <2>2. \A t \in tags : {t} \in PartRows
    <3> SUFFICES ASSUME NEW t \in PartTags PROVE {t} \in PartRows
      BY <1>2
    <3>1. {t} \in SUBSET PartTags
      OBVIOUS
    <3>2. {t} \notin {{}}
      OBVIOUS
    <3> QED BY <3>1, <3>2 DEF PartRows
  <2> HIDE DEF tags
  <2> QED BY <2>1, <2>2
<1>5. IsFiniteSet(add) /\ IsFiniteSet(drop)
  BY <1>3, <1>4, FS_Subset
<1> HIDE DEF add, drop, tags
<1>6. /\ upserts \in Seq(add) /\ {upserts[i] : i \in 1..Len(upserts)} = add
      /\ deletes \in Seq(drop) /\ {deletes[i] : i \in 1..Len(deletes)} = drop
  BY <1>5, SeqOfSet
<1>7. upserts \in Seq(PartRows) /\ deletes \in Seq(PartRows)
  BY <1>4, <1>6
<1> DEFINE todo == upserts \o deletes
<1>8. /\ todo \in Seq(PartRows) /\ Len(todo) = Len(upserts) + Len(deletes)
      /\ \A i \in 1..Len(todo) :
            todo[i] = IF i <= Len(upserts) THEN upserts[i] ELSE deletes[i - Len(upserts)]
  BY <1>7, ConcatProperties
<1>9. Len(upserts) \in Nat /\ Len(deletes) \in Nat
  BY <1>7
<1> HIDE DEF todo
<1>10. ASSUME NEW i \in 1..Len(todo) PROVE todo[i] \in add \cup drop
  BY <1>6, <1>8, <1>9
<1>11. ASSUME NEW r \in add PROVE \E i \in 1..Len(todo) : todo[i] = r
  <2>1. PICK i \in 1..Len(upserts) : upserts[i] = r
    BY <1>6
  <2>2. i \in 1..Len(todo) /\ todo[i] = r
    BY <1>8, <1>9, <2>1
  <2> QED BY <2>2
<1>12. ASSUME NEW r \in drop PROVE \E i \in 1..Len(todo) : todo[i] = r
  <2>1. PICK i \in 1..Len(deletes) : deletes[i] = r
    BY <1>6
  <2> DEFINE j == Len(upserts) + i
  <2>3. j \in 1..Len(todo) /\ ~(j <= Len(upserts)) /\ j - Len(upserts) = i
    BY <1>8, <1>9, <2>1
  <2>2. todo[j] = r
    BY <1>8, <2>1, <2>3
  <2> QED BY <2>2, <2>3
<1>13. {todo[i] : i \in 1..Len(todo)} = add \cup drop
  BY <1>10, <1>11, <1>12
<1>14. Run(s, "sync", [txn[s] EXCEPT !.pc = "rows", !.put = add, !.todo = todo])
  BY <1>1 DEF todo
<1> add \in SUBSET PartRows /\ todo \in Seq(PartRows)
  BY <1>4, <1>8
<1> WITNESS add \in SUBSET PartRows, todo \in Seq(PartRows)
<1> QED BY <1>13, <1>14 DEF add, drop, tags
\* The statements of a transaction, other than its first and its sync.
LEMMA StatementTypes ==
  ASSUME TxnInv, NEW s \in Open
  PROVE  /\ s \in Sessions /\ txn[s] \in Txn /\ PagesFit(s, txn[s])
         /\ txn[s].todo # <<>> =>
              Head(txn[s].todo) \in PartRows /\ Tail(txn[s].todo) \in Seq(PartRows)
<1>1. s \in Sessions /\ txn[s] \in Txn /\ PagesFit(s, txn[s])
  BY DEF TxnInv, TypeOK, Open
<1>2. txn[s].todo \in Seq(PartRows)
  BY <1>1 DEF Txn
<1> QED BY <1>1, <1>2, HeadTailProperties

LEMMA TxnInvStep ==
  ASSUME TxnInv, [Next]_vars
  PROVE  TxnInv'
<1>1. CASE UNCHANGED vars
  BY <1>1 DEF vars, TxnInv, TypeOK, WaitsForLock, Open, PagesFit, Asked, Synced
<1> SUFFICES ASSUME NEW s \in Sessions, Step(s) \/ LockTimeout(s) PROVE TxnInv'
  BY <1>1 DEF Next
<1>2. CASE Begin(s) \/ Retry(s)
  BY <1>2, StartTypes, RunKeeps DEF Begin, Retry, TxnInv
<1>3. CASE UpdatePage(s)
  <2> DEFINE t == [txn[s] EXCEPT !.pc = "delete"]
  <2>1. Run(s, "page", t)
    BY <1>3 DEF UpdatePage
  <2>2. txn[s].pc = "page" /\ s \in Open
    BY <2>1 DEF Run, Open
  <2>3. t \in Txn /\ t.pc \notin ClosedPC /\ PagesFit(s, t)
    BY <2>2, StatementTypes DEF Txn, TxnPC, ClosedPC, PagesFit
  <2> HIDE DEF t
  <2> QED BY <2>1, <2>3, RunKeeps
<1>4. CASE DeleteSegments(s)
  <2>1. PICK p \in Lowest(txn[s].left) :
          Run(s, "delete", [txn[s] EXCEPT !.left = txn[s].left \ {p}, !.written = @ \cup {p},
                             !.pc = IF txn[s].left \ {p} = {} THEN "flush" ELSE "page"])
    BY <1>4 DEF DeleteSegments
  <2> DEFINE pc == IF txn[s].left \ {p} = {} THEN "flush" ELSE "page"
             t == [txn[s] EXCEPT !.left = txn[s].left \ {p},
                                 !.written = txn[s].written \cup {p}, !.pc = pc]
  <2>2. Run(s, "delete", t)
    BY <2>1
  <2>3. txn[s].pc = "delete" /\ s \in Open
    BY <2>2 DEF Run, Open
  <2>4. p \in txn[s].left /\ pc \in {"flush", "page"} /\ (pc = "flush" => txn[s].left \ {p} = {})
    BY DEF Lowest
  <2> HIDE DEF pc
  <2>5. txn[s] \in Txn /\ PagesFit(s, txn[s])
    BY <2>3, StatementTypes
  <2>6. /\ t \in Txn /\ t.pc = pc /\ t.left = txn[s].left \ {p}
        /\ t.written = txn[s].written \cup {p} /\ t.todo = txn[s].todo /\ t.put = txn[s].put
    BY <2>4, <2>5 DEF Txn, TxnPC
  <2> HIDE DEF t
  <2>7. t.left \cup t.written = Asked[s]
    BY <2>4, <2>5, <2>6 DEF PagesFit
  <2>8. PagesFit(s, t) /\ t.pc \notin ClosedPC
    BY <2>3, <2>4, <2>5, <2>6, <2>7 DEF PagesFit, ClosedPC
  <2> QED BY <2>2, <2>6, <2>8, RunKeeps
<1>5. CASE Flush(s)
  <2> DEFINE pc == IF request[s].kind = "save" THEN "sync" ELSE "commit"
             t == [txn[s] EXCEPT !.pc = pc]
  <2>1. Run(s, "flush", t)
    BY <1>5 DEF Flush
  <2>2. txn[s].pc = "flush" /\ s \in Open
    BY <2>1 DEF Run, Open
  <2>3. pc \in {"sync", "commit"} /\ (pc = "sync" => Synced(s))
    BY DEF Synced
  <2> HIDE DEF pc
  <2>4. t \in Txn /\ t.pc \notin ClosedPC /\ PagesFit(s, t)
    BY <2>2, <2>3, StatementTypes DEF Txn, TxnPC, ClosedPC, PagesFit
  <2> HIDE DEF t
  <2> QED BY <2>1, <2>4, RunKeeps
<1>6. CASE Sync(s)
  <2>1. PICK add \in SUBSET PartRows, todo \in Seq(PartRows) :
          Run(s, "sync", [txn[s] EXCEPT !.pc = "rows", !.put = add, !.todo = todo])
    BY <1>6, SyncTypes DEF TxnInv
  <2> DEFINE t == [txn[s] EXCEPT !.pc = "rows", !.put = add, !.todo = todo]
  <2>2. txn[s].pc = "sync" /\ s \in Open
    BY <2>1 DEF Run, Open
  <2>3. t \in Txn /\ t.pc = "rows" /\ t.left = txn[s].left /\ t.written = txn[s].written /\ t.put = add
    BY <2>2, StatementTypes DEF Txn, TxnPC
  <2> HIDE DEF t
  <2>4. t.pc \notin ClosedPC
    BY <2>3 DEF ClosedPC
  <2>5. PagesFit(s, t)
    BY <2>2, <2>3, StatementTypes DEF PagesFit
  <2> QED BY <2>1, <2>3, <2>4, <2>5, RunKeeps DEF t
<1>7. CASE WriteRow(s)
  <2> DEFINE row == Head(txn[s].todo)
             seen == IF row \in txn[s].put THEN txn[s].rows \cup {row} ELSE txn[s].rows \ {row}
             t == [txn[s] EXCEPT !.todo = Tail(txn[s].todo), !.rows = seen]
  <2>1. Run(s, "rows", t) /\ txn[s].todo # <<>>
    BY <1>7 DEF WriteRow
  <2>2. txn[s].pc = "rows" /\ s \in Open
    BY <2>1 DEF Run, Open
  <2>3. seen \subseteq PartRows /\ Tail(txn[s].todo) \in Seq(PartRows)
    BY <2>1, <2>2, StatementTypes DEF Txn
  <2> HIDE DEF seen
  <2>4. /\ t \in Txn /\ t.pc = "rows" /\ t.left = txn[s].left /\ t.written = txn[s].written
        /\ t.put = txn[s].put
    BY <2>2, <2>3, StatementTypes DEF Txn
  <2> HIDE DEF t
  <2>5. t.pc \notin ClosedPC
    BY <2>4 DEF ClosedPC
  <2>6. PagesFit(s, t)
    BY <2>2, <2>4, StatementTypes DEF PagesFit
  <2> QED BY <2>1, <2>4, <2>5, <2>6, RunKeeps
<1>8. CASE RowsWritten(s)
  <2> DEFINE pc == CASE request[s].kind = "save" -> "commit"
                     [] request[s].kind = "generate" /\ \A t \in PartTags : {t} \notin txn[s].rows
                          -> "rollback"
                     [] OTHER -> "flush"
             t == [txn[s] EXCEPT !.pc = pc]
  <2>1. Run(s, "rows", t) /\ txn[s].todo = <<>>
    BY <1>8 DEF RowsWritten
  <2>2. txn[s].pc = "rows" /\ s \in Open
    BY <2>1 DEF Run, Open
  <2>3. pc \in {"commit", "rollback", "flush"}
    OBVIOUS
  <2> HIDE DEF pc
  <2>4. t \in Txn /\ t.pc \notin ClosedPC /\ PagesFit(s, t)
    BY <2>1, <2>2, <2>3, StatementTypes DEF Txn, TxnPC, ClosedPC, PagesFit
  <2> HIDE DEF t
  <2> QED BY <2>1, <2>4, RunKeeps
<1>9. CASE Commit(s)
  <2>1. /\ txn[s].pc = "commit" /\ s \in Open
        /\ doc' = [p \in Pages |-> IF p \in txn[s].written
                                   THEN [by |-> s, tags |-> request[s].tags[p]] ELSE doc[p]]
        /\ parts' = (parts \cup txn[s].put) \ Removed(s)
        /\ skewed' = IF Synced(s) THEN txn[s].late ELSE skewed
        /\ txn' = [t \in Sessions |->
                     IF t = s THEN Closed("saved", 0)
                     ELSE [txn[t] EXCEPT !.late = txn[t].late \/ (Synced(s) /\ t \in Open)]]
        /\ held' = [held EXCEPT ![s] = {}]
        /\ UNCHANGED <<request, waiting, ahead, timeouts>>
    BY <1>9 DEF Commit, queueVars, Open
  <2>2. txn[s] \in Txn /\ PagesFit(s, txn[s]) /\ TypeOK
    BY <2>1, StatementTypes DEF TxnInv
  <2>3. doc' \in Doc
    <3> SUFFICES ASSUME NEW p \in Pages, p \in txn[s].written
                 PROVE  request[s].tags[p] \subseteq Tags
      BY <2>1, <2>2 DEF Doc, TypeOK
    <3>1. request[s].kind = "save" /\ p \in DOMAIN request[s].tags
      BY <2>2 DEF PagesFit, Asked
    <3> QED BY <2>2, <3>1, RequestTypes
  <2>4. parts' \subseteq PartRows /\ skewed' \in BOOLEAN
    BY <2>1, <2>2 DEF TypeOK, Txn
  <2>5. ASSUME NEW t \in Sessions, t # s
        PROVE  /\ txn'[t] \in Txn /\ held'[t] = held[t] /\ txn'[t].pc = txn[t].pc
               /\ PagesFit(t, txn[t]) => PagesFit(t, txn[t])'
    <3> DEFINE late == txn[t].late \/ (Synced(s) /\ t \in Open)
    <3>1. late \in BOOLEAN /\ txn[t] \in Txn
      BY <2>2 DEF TypeOK, Txn
    <3>2. txn'[t] = [txn[t] EXCEPT !.late = late]
      BY <2>1, <2>5
    <3> HIDE DEF late
    <3>3. /\ txn'[t] \in Txn /\ txn'[t].pc = txn[t].pc /\ txn'[t].left = txn[t].left
          /\ txn'[t].written = txn[t].written /\ txn'[t].todo = txn[t].todo
          /\ txn'[t].put = txn[t].put
      BY <3>1, <3>2 DEF Txn
    <3> QED BY <2>1, <2>2, <2>5, <3>3 DEF PagesFit, Asked, Synced, TypeOK
  <2>6. txn'[s] \in Txn /\ txn'[s].pc = "saved" /\ held'[s] = {}
    BY <2>1, <2>2, ClosedTypes, SegmentSaveAssumption DEF TypeOK, TxnPC
  <2>7. txn' \in [Sessions -> Txn] /\ held' \in [Sessions -> SUBSET Locks]
    BY <2>1, <2>2, <2>5, <2>6 DEF TypeOK
  <2>8. Open' = Open \ {s}
    BY <2>5, <2>6 DEF Open
  <2>9. s \notin waiting
    BY <2>1 DEF TxnInv, WaitsForLock
  <2>10. TypeOK'
    <3>1. waiting' \subseteq Open' /\ ahead' \in [Sessions -> SUBSET waiting']
      BY <2>1, <2>2, <2>8, <2>9 DEF TypeOK
    <3>2. \A u \in Sessions : u \notin Open' => held'[u] = {}
      BY <2>2, <2>5, <2>6, <2>8 DEF TypeOK
    <3>3. \A u, v \in Sessions : u # v => \A h \in held'[u] \ {Gap} : h \notin held'[v]
      BY <2>2, <2>5, <2>6 DEF TypeOK
    <3> QED BY <2>1, <2>2, <2>3, <2>4, <2>7, <3>1, <3>2, <3>3 DEF TypeOK
  <2>11. WaitsForLock'
    BY <2>1, <2>2, <2>5, <2>9 DEF TxnInv, WaitsForLock, TypeOK, Open
  <2>12. \A t \in Open' : PagesFit(t, txn[t])'
    BY <2>5, <2>8 DEF TxnInv, Open
  <2> QED BY <2>10, <2>11, <2>12 DEF TxnInv
<1>10. CASE GiveUp(s)
  BY <1>10, ClosedTypes, UndoKeeps, SegmentSaveAssumption
     DEF GiveUp, TxnInv, TypeOK, TxnPC, ClosedPC
<1>11. CASE Wait(s)
  <2>1. Wanted(s) # {}
    BY <1>11 DEF Wait, Blockers
  <2>2. txn[s].pc \in {"page", "delete", "flush", "rows"}
    BY <2>1, SMTT(30) DEF Wanted
  <2>3. /\ waiting' = waiting \cup {s} /\ ahead' = [ahead EXCEPT ![s] = waiting]
        /\ UNCHANGED <<doc, parts, request, txn, held, timeouts, skewed>>
    BY <1>11 DEF Wait, Enqueue
  <2>4. TypeOK'
    BY <2>2, <2>3 DEF TxnInv, TypeOK, Open
  <2>5. WaitsForLock'
    BY <2>2, <2>3 DEF TxnInv, WaitsForLock
  <2>6. \A t \in Open' : PagesFit(t, txn[t])'
    BY <2>3 DEF TxnInv, PagesFit, Asked, Synced, Open
  <2> QED BY <2>4, <2>5, <2>6 DEF TxnInv
<1>12. CASE Deadlock(s)
  <2>1. AfterDeadlock(s) \in Txn /\ AfterDeadlock(s).pc \in ClosedPC
    <3>1. txn[s].tries \in 0..MaxDeadlockRetries
      BY DEF TxnInv, TypeOK, Txn
    <3>2. CASE request[s].kind = "save" /\ txn[s].tries < MaxDeadlockRetries
      BY <3>1, <3>2, ClosedTypes, SegmentSaveAssumption DEF AfterDeadlock, TxnPC, ClosedPC
    <3>3. CASE ~(request[s].kind = "save" /\ txn[s].tries < MaxDeadlockRetries)
      BY <3>3, ClosedTypes, SegmentSaveAssumption DEF AfterDeadlock, TxnPC, ClosedPC
    <3> QED BY <3>2, <3>3
  <2> QED BY <1>12, <2>1, UndoKeeps DEF Deadlock, TxnInv, TypeOK
<1>13. CASE LockTimeout(s)
  <2>1. Closed("refused", 0) \in Txn /\ Closed("refused", 0).pc \in ClosedPC
    BY ClosedTypes, SegmentSaveAssumption DEF TxnPC, ClosedPC
  <2>2. timeouts' \in 0..MaxTimeouts /\ Undo(s, Closed("refused", 0))
    BY <1>13, SegmentSaveAssumption DEF LockTimeout, TxnInv, TypeOK
  <2> QED BY <2>1, <2>2, UndoKeeps
<1> QED BY <1>2, <1>3, <1>4, <1>5, <1>6, <1>7, <1>8, <1>9, <1>10, <1>11, <1>12, <1>13 DEF Step

LEMMA TxnInvInit == Init => TxnInv
<1> SUFFICES ASSUME Init PROVE TxnInv
  OBVIOUS
<1>1. /\ request \in [Sessions -> Requests]
      /\ txn = [s \in Sessions |-> Closed("idle", 0)]
      /\ held = [s \in Sessions |-> {}]
      /\ waiting = {} /\ ahead = [s \in Sessions |-> {}]
      /\ timeouts = 0 /\ skewed = FALSE
      /\ parts = {{t} : t \in PartTags \cap UNION {doc[p].tags : p \in Pages}}
  BY DEF Init
<1>2. doc \in Doc
  <2>1. PICK tags \in Documents : doc = [p \in Pages |-> [by |-> None, tags |-> tags[p]]]
    BY DEF Init
  <2>2. tags \in [Pages -> SUBSET Tags]
    BY SegmentSaveAssumption DEF TagsByPage
  <2> QED BY <2>1, <2>2 DEF Doc
<1>3. parts \subseteq PartRows
  <2> SUFFICES ASSUME NEW t \in PartTags PROVE {t} \in PartRows
    BY <1>1
  <2>1. {t} \in SUBSET PartTags /\ {t} \notin {{}}
    OBVIOUS
  <2> QED BY <2>1 DEF PartRows
<1>4. Closed("idle", 0) \in Txn /\ Closed("idle", 0).pc = "idle"
  BY ClosedTypes, SegmentSaveAssumption DEF TxnPC
<1>5. txn \in [Sessions -> Txn] /\ Open = {}
  BY <1>1, <1>4 DEF Open
<1>6. TypeOK
  <2>1. held \in [Sessions -> SUBSET Locks] /\ \A s \in Sessions : held[s] = {}
    BY <1>1
  <2>2. waiting \subseteq Open /\ ahead \in [Sessions -> SUBSET waiting]
    BY <1>1
  <2>3. timeouts \in 0..MaxTimeouts
    BY <1>1, SegmentSaveAssumption
  <2>4. skewed \in BOOLEAN
    BY <1>1
  <2> QED BY <1>1, <1>2, <1>3, <1>5, <2>1, <2>2, <2>3, <2>4 DEF TypeOK
<1> QED BY <1>1, <1>5, <1>6 DEF TxnInv, WaitsForLock

LEMMA TxnInvAlways == Spec => []TxnInv
<1>1. TxnInv /\ [Next]_vars => TxnInv'
  BY TxnInvStep
<1> QED BY TxnInvInit, <1>1, PTL DEF Spec

\* Every session's transaction has the state, the locks and the place in the lock
\* queue that a MySQL session can have, and no two sessions hold locks that exclude
\* each other, whatever runs, waits, times out or is rolled back.
THEOREM LocksExclude == Spec => []TypeOK
<1>1. TxnInv => TypeOK
  BY DEF TxnInv
<1> QED BY <1>1, TxnInvAlways, PTL

-----------------------------------------------------------------------------
(***************************************************************************)
(* The saves implement PageSaves: a commit is the abstract save, a         *)
(* rollback that is not run again the abstract refusal, and nothing else   *)
(* shows.                                                                  *)
(***************************************************************************)
LEMMA Silent ==
  ASSUME TxnInv, UNCHANGED <<doc, request>>, NEW s \in Sessions,
         \A u \in Sessions : u # s => txn'[u].pc = txn[u].pc,
         txn[s].pc \notin {"saved", "refused"}, txn'[s].pc \notin {"saved", "refused"}
  PROVE  UNCHANGED <<Owner, Asked, Answer>>
<1>1. Owner' = Owner /\ Asked' = Asked
  BY DEF Owner, Asked
<1>2. \A u \in Sessions : txn'[u].pc = txn[u].pc \/ u = s
  OBVIOUS
<1>3. Answer' = Answer
  BY <1>2 DEF Answer
<1> QED BY <1>1, <1>3

LEMMA RunSilent ==
  ASSUME TxnInv, NEW s \in Sessions, NEW pc, NEW t, Run(s, pc, t),
         pc \notin {"saved", "refused"}, t.pc \notin {"saved", "refused"}
  PROVE  UNCHANGED <<Owner, Asked, Answer>>
BY RunFrame, Silent DEF TxnInv, Run

LEMMA UndoSilent ==
  ASSUME TxnInv, NEW s \in Sessions, NEW t, Undo(s, t),
         txn[s].pc \notin {"saved", "refused"}, t.pc = "retry"
  PROVE  UNCHANGED <<Owner, Asked, Answer>>
<1>1. /\ txn'[s] = t
      /\ \A u \in Sessions : u # s => txn'[u].pc = txn[u].pc
      /\ UNCHANGED <<doc, request>>
  BY UndoFrame DEF TxnInv
<1> QED BY <1>1, Silent

LEMMA UndoRefuses ==
  ASSUME TxnInv, NEW s \in Sessions, NEW t, Undo(s, t),
         txn[s].pc \notin {"saved", "refused"}, t.pc = "refused"
  PROVE  Saves!Refuse(s)
<1>1. /\ txn'[s] = t
      /\ \A u \in Sessions : u # s => txn'[u] = txn[u]
      /\ UNCHANGED <<doc, request>>
  BY UndoFrame DEF TxnInv
<1>2. Owner' = Owner /\ Asked' = Asked
  BY <1>1 DEF Owner, Asked
<1>3. Answer[s] = "open" /\ Answer' = [Answer EXCEPT ![s] = "refused"]
  BY <1>1 DEF Answer
<1> QED BY <1>2, <1>3 DEF Saves!Refuse

LEMMA SavesInit == Init => Saves!Init
<1> SUFFICES ASSUME Init PROVE Saves!Init
  OBVIOUS
<1>1. TypeOK
  BY TxnInvInit DEF TxnInv
<1>2. Owner = [p \in Pages |-> None]
  BY DEF Init, Owner
<1>3. Asked \in [Sessions -> SUBSET Pages]
  BY <1>1, RequestTypes DEF Asked
<1>4. Answer = [s \in Sessions |-> "open"]
  BY DEF Init, Answer, Closed
<1> QED BY <1>2, <1>3, <1>4 DEF Saves!Init

LEMMA SavesStep ==
  ASSUME TxnInv, [Next]_vars
  PROVE  [Saves!Next]_<<Owner, Asked, Answer>>
<1>1. CASE UNCHANGED vars
  BY <1>1 DEF vars, Owner, Asked, Answer
<1> SUFFICES ASSUME NEW s \in Sessions, Step(s) \/ LockTimeout(s)
             PROVE  Saves!Next \/ UNCHANGED <<Owner, Asked, Answer>>
  BY <1>1 DEF Next
<1>2. CASE Begin(s) \/ Retry(s)
  BY <1>2, StartTypes, RunSilent DEF Begin, Retry, TxnInv, ClosedPC
<1>3. ASSUME NEW pc \in {"page", "delete", "flush", "sync", "rows"}, NEW t,
             Run(s, pc, t), t.pc \notin {"saved", "refused"}
      PROVE  UNCHANGED <<Owner, Asked, Answer>>
  BY <1>3, RunSilent
<1>4. CASE UpdatePage(s)
  <2> DEFINE t == [txn[s] EXCEPT !.pc = "delete"]
  <2>1. Run(s, "page", t) /\ s \in Open
    BY <1>4 DEF UpdatePage, Run, Open
  <2>2. t.pc = "delete"
    BY <2>1, StatementTypes DEF Txn
  <2> HIDE DEF t
  <2> QED BY <1>3, <2>1, <2>2
<1>5. CASE DeleteSegments(s)
  <2>1. PICK p \in Lowest(txn[s].left) :
          Run(s, "delete", [txn[s] EXCEPT !.left = txn[s].left \ {p}, !.written = @ \cup {p},
                             !.pc = IF txn[s].left \ {p} = {} THEN "flush" ELSE "page"])
    BY <1>5 DEF DeleteSegments
  <2> DEFINE t == [txn[s] EXCEPT !.left = txn[s].left \ {p}, !.written = txn[s].written \cup {p},
                                 !.pc = IF txn[s].left \ {p} = {} THEN "flush" ELSE "page"]
  <2>2. Run(s, "delete", t)
    BY <2>1
  <2>3. s \in Open
    BY <2>2 DEF Run, Open
  <2>4. t.pc \in {"flush", "page"}
    BY <2>3, StatementTypes DEF Txn
  <2> HIDE DEF t
  <2> QED BY <1>3, <2>2, <2>4
<1>6. CASE Flush(s)
  <2> DEFINE t == [txn[s] EXCEPT !.pc = IF request[s].kind = "save" THEN "sync" ELSE "commit"]
  <2>1. Run(s, "flush", t)
    BY <1>6 DEF Flush
  <2>2. s \in Open
    BY <2>1 DEF Run, Open
  <2>3. t.pc \in {"sync", "commit"}
    BY <2>2, StatementTypes DEF Txn
  <2> HIDE DEF t
  <2> QED BY <1>3, <2>1, <2>3
<1>7. CASE Sync(s)
  <2>1. PICK add \in SUBSET PartRows, todo \in Seq(PartRows) :
          Run(s, "sync", [txn[s] EXCEPT !.pc = "rows", !.put = add, !.todo = todo])
    BY <1>7, SyncTypes DEF TxnInv
  <2> DEFINE t == [txn[s] EXCEPT !.pc = "rows", !.put = add, !.todo = todo]
  <2>2. s \in Open
    BY <2>1 DEF Run, Open
  <2>3. t.pc = "rows"
    BY <2>2, StatementTypes DEF Txn
  <2>4. Run(s, "sync", t)
    BY <2>1
  <2> HIDE DEF t
  <2> QED BY <1>3, <2>3, <2>4
<1>8. CASE WriteRow(s)
  <2> DEFINE row == Head(txn[s].todo)
             t == [txn[s] EXCEPT !.todo = Tail(txn[s].todo),
                     !.rows = IF row \in txn[s].put THEN txn[s].rows \cup {row}
                              ELSE txn[s].rows \ {row}]
  <2>1. Run(s, "rows", t)
    BY <1>8 DEF WriteRow
  <2>2. s \in Open /\ txn[s].pc = "rows"
    BY <2>1 DEF Run, Open
  <2>3. t.pc = "rows"
    BY <2>2, StatementTypes DEF Txn
  <2> HIDE DEF t
  <2> QED BY <1>3, <2>1, <2>3
<1>9. CASE RowsWritten(s)
  <2> DEFINE pc == CASE request[s].kind = "save" -> "commit"
                     [] request[s].kind = "generate" /\ \A t \in PartTags : {t} \notin txn[s].rows
                          -> "rollback"
                     [] OTHER -> "flush"
             t == [txn[s] EXCEPT !.pc = pc]
  <2>1. Run(s, "rows", t)
    BY <1>9 DEF RowsWritten
  <2>2. s \in Open
    BY <2>1 DEF Run, Open
  <2>3. pc \in {"commit", "rollback", "flush"}
    OBVIOUS
  <2> HIDE DEF pc
  <2>4. t.pc = pc
    BY <2>2, StatementTypes DEF Txn
  <2> HIDE DEF t
  <2> QED BY <1>3, <2>1, <2>3, <2>4
<1>10. CASE Commit(s)
  <2>1. /\ txn[s].pc = "commit" /\ s \in Open
        /\ doc' = [p \in Pages |-> IF p \in txn[s].written
                                   THEN [by |-> s, tags |-> request[s].tags[p]] ELSE doc[p]]
        /\ txn' = [t \in Sessions |->
                     IF t = s THEN Closed("saved", 0)
                     ELSE [txn[t] EXCEPT !.late = txn[t].late \/ (Synced(s) /\ t \in Open)]]
        /\ request' = request
    BY <1>10 DEF Commit, Open
  <2>2. txn[s].written = Asked[s]
    BY <2>1, StatementTypes DEF PagesFit
  <2>3. Owner' = [p \in Pages |-> IF p \in Asked[s] THEN s ELSE Owner[p]]
    BY <2>1, <2>2 DEF Owner
  <2>4. \A t \in Sessions : t # s => txn'[t].pc = txn[t].pc
    BY <2>1 DEF TxnInv, TypeOK, Txn
  <2>5. txn'[s].pc = "saved"
    BY <2>1 DEF Closed
  <2>6. Answer[s] = "open" /\ Answer' = [Answer EXCEPT ![s] = "saved"]
    BY <2>1, <2>4, <2>5 DEF Answer
  <2>7. Asked' = Asked
    BY <2>1 DEF Asked
  <2>8. Saves!Save(s)
    BY <2>3, <2>6, <2>7 DEF Saves!Save
  <2> QED BY <2>8 DEF Saves!Next
<1>11. CASE GiveUp(s)
  <2>1. Saves!Refuse(s)
    BY <1>11, UndoRefuses DEF GiveUp, Closed
  <2> QED BY <2>1 DEF Saves!Next
<1>12. CASE Wait(s)
  BY <1>12 DEF Wait, Owner, Asked, Answer
<1>13. ASSUME s \in waiting PROVE txn[s].pc \notin {"saved", "refused"}
  BY <1>13 DEF TxnInv, WaitsForLock
<1>14. CASE Deadlock(s)
  <2>1. s \in waiting /\ Undo(s, AfterDeadlock(s))
    BY <1>14 DEF Deadlock, Deadlocked, Circular
  <2>2. AfterDeadlock(s).pc \in {"retry", "refused"}
    BY DEF AfterDeadlock, Closed
  <2>3. CASE AfterDeadlock(s).pc = "retry"
    BY <1>13, <2>1, <2>3, UndoSilent
  <2>4. CASE AfterDeadlock(s).pc = "refused"
    <3>1. Saves!Refuse(s)
      BY <1>13, <2>1, <2>4, UndoRefuses
    <3> QED BY <3>1 DEF Saves!Next
  <2> QED BY <2>2, <2>3, <2>4
<1>15. CASE LockTimeout(s)
  <2>1. Saves!Refuse(s)
    BY <1>13, <1>15, UndoRefuses DEF LockTimeout, Closed
  <2> QED BY <2>1 DEF Saves!Next
<1> QED BY <1>2, <1>4, <1>5, <1>6, <1>7, <1>8, <1>9, <1>10, <1>11, <1>12, <1>14, <1>15 DEF Step

\* A save replaces every page it names, all at once and once only, or is refused and
\* replaces none, through every deadlock, retry and lock timeout on the way.
THEOREM SavesImplementPageSaves == Spec => SavesAreAtomic
<1>1. Init => Saves!Init
  BY SavesInit
<1>2. TxnInv /\ [Next]_vars => [Saves!Next]_<<Owner, Asked, Answer>>
  BY SavesStep
<1> QED BY <1>1, <1>2, TxnInvAlways, PTL DEF Spec, SavesAreAtomic, Saves!Spec, Saves!vars

-----------------------------------------------------------------------------
(***************************************************************************)
(* The part rows and the tags.                                             *)
(***************************************************************************)
LEMMA PartLocks ==
  /\ \A r : PartRow(r) \notin {Rows, Gap, Insert, PartsetRow}
  /\ \A r, p : PartRow(r) # PageRow(p)
  /\ \A r1, r2 : PartRow(r1) = PartRow(r2) => r1 = r2
BY DEF PartRow, Rows, Gap, Insert, PartsetRow, PageRow

\* What a session does not touch keeps its invariant.
LEMMA SyncFrame ==
  ASSUME NEW u \in Sessions, txn'[u] = txn[u], held'[u] = held[u],
         UNCHANGED <<doc, parts, request>>, SyncInv(u)
  PROVE  SyncInv(u)'
<1>1. /\ Synced(u)' <=> Synced(u)
      /\ BeforeSync(u)' <=> BeforeSync(u)
      /\ View(u)' = View(u) /\ DocTags' = DocTags /\ InTodo(u)' = InTodo(u)
  BY DEF Synced, BeforeSync, View, DocTags, InTodo
<1>2. TagsOf(View(u))' = TagsOf(View(u))
  BY <1>1 DEF TagsOf
<1>3. RowsBefore(u)' <=> RowsBefore(u)
  BY DEF RowsBefore, Singles
<1>4. RowsAfter(u, TagsOf(View(u)))' <=> RowsAfter(u, TagsOf(View(u)))
  BY <1>1, <1>2 DEF RowsAfter
<1> QED BY <1>1, <1>2, <1>3, <1>4 DEF SyncInv

LEMMA RunMatch ==
  ASSUME MatchInv, TxnInv', NEW s \in Sessions, NEW pc, NEW t, Run(s, pc, t), SyncInv(s)'
  PROVE  MatchInv'
<1>1. /\ txn'[s] = t
      /\ \A u \in Sessions : u # s => txn'[u] = txn[u] /\ held'[u] = held[u]
      /\ UNCHANGED <<doc, parts, request, skewed>>
  BY RunFrame DEF MatchInv, TxnInv
<1>2. ASSUME NEW u \in Open', u # s PROVE SyncInv(u)'
  <2>1. u \in Open
    BY <1>1, <1>2 DEF Open
  <2> QED BY <1>1, <1>2, <2>1, SyncFrame DEF MatchInv, Open
<1>3. PartsMatchTags'
  BY <1>1 DEF MatchInv, PartsMatchTags, TagsOf
<1> QED BY <1>2, <1>3 DEF MatchInv

LEMMA UndoMatch ==
  ASSUME MatchInv, TxnInv', NEW s \in Sessions, NEW t, t.pc \in ClosedPC, Undo(s, t)
  PROVE  MatchInv'
<1>1. /\ txn'[s] = t
      /\ \A u \in Sessions : u # s => txn'[u] = txn[u] /\ held'[u] = held[u]
      /\ UNCHANGED <<doc, parts, request, skewed>>
  BY UndoFrame DEF MatchInv, TxnInv
<1>2. ASSUME NEW u \in Open' PROVE SyncInv(u)'
  <2>1. u \in Open /\ u # s
    BY <1>1, <1>2 DEF Open, ClosedPC
  <2> QED BY <1>1, <1>2, <2>1, SyncFrame DEF MatchInv, Open
<1>3. PartsMatchTags'
  BY <1>1 DEF MatchInv, PartsMatchTags, TagsOf
<1> QED BY <1>2, <1>3 DEF MatchInv

\* A statement that neither syncs nor writes a part row.
LEMMA SameStage ==
  ASSUME TxnInv, NEW s \in Sessions, SyncInv(s), NEW pc, NEW t, Run(s, pc, t),
         t.rows = txn[s].rows, t.put = txn[s].put, t.todo = txn[s].todo,
         t.base = txn[s].base, t.late = txn[s].late,
         BeforeSync(s) \/ t.written = txn[s].written,
         Synced(s) => (BeforeSync(s)' <=> BeforeSync(s)),
         \A r : PartRow(r) \notin Wanted(s)
  PROVE  SyncInv(s)'
<1>1. /\ txn'[s] = t
      /\ UNCHANGED <<doc, parts, request>>
      /\ \A r : PartRow(r) \in held'[s] => PartRow(r) \in held[s]
      /\ \A r : PartRow(r) \in held[s] => PartRow(r) \in held'[s]
  BY RunFrame, PartLocks DEF TxnInv
<1> SUFFICES ASSUME Synced(s), ~t.late PROVE /\ t.base = DocTags'
                                             /\ BeforeSync(s)' => RowsBefore(s)'
                                             /\ ~BeforeSync(s)' => RowsAfter(s, TagsOf(View(s)))'
  BY <1>1 DEF SyncInv, Synced
<1>2. t.base = DocTags'
  BY <1>1 DEF SyncInv, DocTags
<1>3. ASSUME BeforeSync(s)' PROVE RowsBefore(s)'
  BY <1>1, <1>3 DEF SyncInv, RowsBefore, Singles
<1>4. ASSUME ~BeforeSync(s)' PROVE RowsAfter(s, TagsOf(View(s)))'
  <2>1. RowsAfter(s, TagsOf(View(s))) /\ t.written = txn[s].written
    BY <1>4 DEF SyncInv
  <2>2. View(s)' = View(s) /\ InTodo(s)' = InTodo(s)
    BY <1>1, <2>1 DEF View, InTodo
  <2>3. TagsOf(View(s))' = TagsOf(View(s))
    BY <2>2 DEF TagsOf
  <2> DEFINE T == TagsOf(View(s))
  <2> HIDE DEF T
  <2>4. RowsAfter(s, T) /\ TagsOf(View(s))' = T
    BY <2>1, <2>3 DEF T
  <2> QED BY <1>1, <2>2, <2>4 DEF RowsAfter
<1> QED BY <1>2, <1>3, <1>4

\* The sync finds what to insert and what to delete.
LEMMA SyncMatch ==
  ASSUME TxnInv, NEW s \in Sessions, SyncInv(s), Sync(s)
  PROVE  SyncInv(s)'
<1> DEFINE T == TagsOf(View(s))
<1>1. PICK add \in SUBSET PartRows, todo \in Seq(PartRows) :
        /\ add = {{t} : t \in T} \ txn[s].rows
        /\ {todo[i] : i \in 1..Len(todo)} = add \cup {r \in txn[s].rows : ~(r \subseteq T)}
        /\ Run(s, "sync", [txn[s] EXCEPT !.pc = "rows", !.put = add, !.todo = todo])
  BY SyncTypes DEF TxnInv
<1> DEFINE x == [txn[s] EXCEPT !.pc = "rows", !.put = add, !.todo = todo]
<1>2. Run(s, "sync", x)
  BY <1>1
<1>3. txn[s].pc = "sync" /\ s \in Open /\ txn[s] \in Txn
  BY <1>2 DEF Run, Open, TxnInv, TypeOK
<1>4. /\ x.pc = "rows" /\ x.put = add /\ x.todo = todo /\ x.written = txn[s].written
      /\ x.base = txn[s].base /\ x.late = txn[s].late
  BY <1>3 DEF Txn
<1> HIDE DEF x
<1>5. Wanted(s) = {}
  BY <1>3, SMTT(30) DEF Wanted
<1>6. txn'[s] = x /\ held'[s] = held[s] /\ UNCHANGED <<doc, parts, request>>
  BY <1>2, <1>5, RunFrame DEF TxnInv
<1>7. /\ Synced(s)' <=> Synced(s)
      /\ View(s)' = View(s) /\ DocTags' = DocTags
      /\ InTodo(s)' = {todo[i] : i \in 1..Len(todo)}
      /\ ~BeforeSync(s)' /\ BeforeSync(s)
  BY <1>3, <1>4, <1>6 DEF Synced, View, DocTags, InTodo, BeforeSync
<1>8. TagsOf(View(s))' = T /\ T \subseteq PartTags
  BY <1>7 DEF TagsOf
<1> HIDE DEF T
<1> SUFFICES ASSUME Synced(s), ~txn[s].late
             PROVE  RowsAfter(s, TagsOf(View(s)))' /\ txn[s].base = DocTags
  BY <1>4, <1>6, <1>7, <1>8 DEF SyncInv
<1>9. RowsBefore(s) /\ txn[s].base = DocTags
  BY <1>7 DEF SyncInv
<1>10. \A t \in PartTags : ({t} \in txn[s].rows <=> {t} \in parts) /\ PartRow({t}) \notin held[s]
  BY <1>9 DEF RowsBefore, Singles
<1>11. add \subseteq {{t} : t \in T}
  BY <1>1
<1>12. ASSUME NEW t \in T
       PROVE  {t} \in add \cup parts /\ ({t} \in InTodo(s)' => {t} \in add)
  <2>1. {t} \in txn[s].rows \/ {t} \in add
    BY <1>1
  <2>2. {t} \subseteq T
    OBVIOUS
  <2> QED BY <1>1, <1>7, <1>8, <1>10, <2>1, <2>2
<1>13. ASSUME NEW t \in PartTags \ T, {t} \in parts PROVE {t} \in InTodo(s)'
  <2>1. {t} \in txn[s].rows /\ ~({t} \subseteq T)
    BY <1>10, <1>13
  <2> QED BY <1>1, <1>7, <2>1
<1>14. RowsAfter(s, TagsOf(View(s)))'
  BY <1>4, <1>6, <1>8, <1>10, <1>11, <1>12, <1>13 DEF RowsAfter
<1> QED BY <1>9, <1>14

\* A part row is written under its lock.
LEMMA WriteMatch ==
  ASSUME TxnInv, NEW s \in Sessions, SyncInv(s), WriteRow(s)
  PROVE  SyncInv(s)'
<1> DEFINE row == Head(txn[s].todo)
           seen == IF row \in txn[s].put THEN txn[s].rows \cup {row} ELSE txn[s].rows \ {row}
           x == [txn[s] EXCEPT !.todo = Tail(txn[s].todo), !.rows = seen]
<1>1. Run(s, "rows", x) /\ txn[s].todo # <<>>
  BY DEF WriteRow
<1>2. txn[s].pc = "rows" /\ s \in Open /\ txn[s] \in Txn
  BY <1>1 DEF Run, Open, TxnInv, TypeOK
<1>3. /\ x.pc = "rows" /\ x.put = txn[s].put /\ x.todo = Tail(txn[s].todo)
      /\ x.written = txn[s].written /\ x.base = txn[s].base /\ x.late = txn[s].late
  BY <1>2 DEF Txn
<1> HIDE DEF x
<1>4. Wanted(s) = {PartRow(row)}
  BY <1>1, <1>2 DEF Wanted
<1>5. /\ txn'[s] = x /\ UNCHANGED <<doc, parts, request>>
      /\ \A h : h \in held'[s] <=> h \in held[s] \/ h = PartRow(row)
  <2>1. Insert # PartRow(row)
    BY PartLocks
  <2> QED BY <1>1, <1>4, <2>1, RunFrame DEF TxnInv
<1>6. \A r : r \in InTodo(s) <=> r = row \/ r \in InTodo(s)'
  <2>1. txn[s].todo \in Seq(PartRows)
    BY <1>2 DEF Txn
  <2> DEFINE q == txn[s].todo
  <2>2. InTodo(s) = {q[i] : i \in 1..Len(q)} /\ InTodo(s)' = {Tail(q)[i] : i \in 1..Len(Tail(q))}
    BY <1>3, <1>5 DEF InTodo
  <2>3. /\ q \in Seq(PartRows) /\ q # <<>> /\ row = q[1] /\ Len(q) \in Nat /\ Len(q) # 0
        /\ Len(Tail(q)) = Len(q) - 1
        /\ \A i \in 1..Len(Tail(q)) : Tail(q)[i] = q[i + 1]
    BY <1>1, <2>1, HeadTailProperties, EmptySeq, LenProperties
  <2> HIDE DEF q, row
  <2>4. ASSUME NEW i \in 1..Len(q), i # 1 PROVE q[i] \in InTodo(s)'
    <3>1. i - 1 \in 1..Len(Tail(q)) /\ (i - 1) + 1 = i
      BY <2>3, <2>4
    <3>2. Tail(q)[i - 1] = q[i]
      BY <2>3, <3>1
    <3> QED BY <2>2, <3>1, <3>2
  <2>5. ASSUME NEW i \in 1..Len(Tail(q)) PROVE Tail(q)[i] \in InTodo(s)
    <3>1. i + 1 \in 1..Len(q)
      BY <2>3
    <3> QED BY <2>2, <2>3, <3>1
  <2>6. 1 \in 1..Len(q)
    BY <2>3
  <2> QED BY <2>2, <2>3, <2>4, <2>5, <2>6
<1>7. /\ Synced(s)' <=> Synced(s)
      /\ View(s)' = View(s) /\ DocTags' = DocTags
      /\ ~BeforeSync(s)' /\ ~BeforeSync(s)
  BY <1>2, <1>3, <1>5 DEF Synced, View, DocTags, BeforeSync
<1> DEFINE T == TagsOf(View(s))
<1>8. TagsOf(View(s))' = T
  BY <1>7 DEF TagsOf
<1> HIDE DEF T, row
<1> SUFFICES ASSUME Synced(s), ~txn[s].late
             PROVE  RowsAfter(s, TagsOf(View(s)))' /\ txn[s].base = DocTags
  BY <1>3, <1>5, <1>7, <1>8 DEF SyncInv
<1>9. RowsAfter(s, T) /\ txn[s].base = DocTags
  BY <1>7 DEF SyncInv, T
<1>10. \A t : PartRow({t}) = PartRow(row) => {t} = row
  BY PartLocks
<1>11. RowsAfter(s, TagsOf(View(s)))'
  BY <1>3, <1>5, <1>6, <1>8, <1>9, <1>10 DEF RowsAfter
<1> QED BY <1>9, <1>11

\* A synced session that missed no other sync leaves one part for every tag.
LEMMA SyncedCommit ==
  ASSUME TxnInv, NEW s \in Open, SyncInv(s), Synced(s), ~txn[s].late, Commit(s)
  PROVE  /\ TagsOf(DocTags)' = TagsOf(View(s))
         /\ Singles(parts)' = TagsOf(View(s))
<1>1. /\ txn[s].pc = "commit" /\ s \in Sessions
      /\ doc' = [p \in Pages |-> IF p \in txn[s].written
                                 THEN [by |-> s, tags |-> request[s].tags[p]] ELSE doc[p]]
      /\ parts' = (parts \cup txn[s].put) \ Removed(s)
  BY DEF Commit, Open
<1>2. ~BeforeSync(s) /\ txn[s].todo = <<>>
  BY <1>1, StatementTypes DEF BeforeSync, PagesFit
<1>3. txn[s].base = DocTags /\ RowsAfter(s, TagsOf(View(s)))
  BY <1>2 DEF SyncInv
<1>4. DocTags' = View(s)
  BY <1>1, <1>3 DEF DocTags, View
<1>5. TagsOf(DocTags)' = TagsOf(View(s))
  BY <1>4 DEF TagsOf
<1> DEFINE T == TagsOf(View(s))
<1>6. T \subseteq PartTags
  BY DEF TagsOf
<1> HIDE DEF T
<1>7. RowsAfter(s, T)
  BY <1>3 DEF T
<1>8. InTodo(s) = {}
  BY <1>2 DEF InTodo
<1>9. Removed(s) = {r \in parts : r \in PartRows /\ PartRow(r) \in held[s] /\ r \notin txn[s].put}
  BY DEF Removed, Synced
<1>10. parts \subseteq PartRows
  BY DEF TxnInv, TypeOK
<1>11. ASSUME NEW t \in T PROVE {t} \in parts'
  <2>1. {t} \in txn[s].put \cup parts /\ (PartRow({t}) \in held[s] => {t} \in txn[s].put)
    BY <1>7 DEF RowsAfter
  <2> QED BY <1>1, <1>9, <2>1
<1>12. ASSUME NEW t \in PartTags \ T PROVE {t} \notin parts'
  <2>1. \A u \in T : {t} # {u}
    BY <1>12
  <2>2. {t} \notin txn[s].put
    BY <1>7, <2>1 DEF RowsAfter
  <2>3. {t} \in parts => PartRow({t}) \in held[s]
    BY <1>7, <1>8, <1>12 DEF RowsAfter
  <2> QED BY <1>1, <1>9, <1>10, <2>2, <2>3
<1>13. Singles(parts)' = T
  BY <1>6, <1>11, <1>12 DEF Singles
<1> QED BY <1>5, <1>13 DEF T

\* A combine leaves the tags and their parts alone.
LEMMA CombineCommit ==
  ASSUME TxnInv, NEW s \in Open, ~Synced(s), Commit(s)
  PROVE  DocTags' = DocTags /\ Singles(parts)' = Singles(parts)
<1>1. /\ txn[s].pc = "commit" /\ s \in Sessions
      /\ doc' = [p \in Pages |-> IF p \in txn[s].written
                                 THEN [by |-> s, tags |-> request[s].tags[p]] ELSE doc[p]]
      /\ parts' = (parts \cup txn[s].put) \ Removed(s)
  BY DEF Commit, Open
<1>2. request[s].kind \in {"add", "remove"} /\ \A t \in request[s].row : request[s].row # {t}
  BY <1>1, RequestTypes DEF TxnInv, Synced
<1>3. txn[s].written = {} /\ txn[s].put \subseteq {request[s].row}
  BY <1>2, StatementTypes DEF PagesFit, Asked, Synced
<1>4. Removed(s) \subseteq {request[s].row}
  BY <1>2 DEF Removed
<1>5. \A t : {t} # request[s].row
  BY <1>2
<1>6. \A t : {t} \in parts' <=> {t} \in parts
  BY <1>1, <1>3, <1>4, <1>5
<1>7. DocTags' = DocTags
  BY <1>1, <1>3 DEF DocTags
<1> QED BY <1>6, <1>7 DEF Singles

LEMMA CommitMatch ==
  ASSUME MatchInv, TxnInv', NEW s \in Sessions, Commit(s)
  PROVE  MatchInv'
<1>1. /\ txn[s].pc = "commit" /\ s \in Open
      /\ skewed' = IF Synced(s) THEN txn[s].late ELSE skewed
      /\ txn' = [t \in Sessions |->
                   IF t = s THEN Closed("saved", 0)
                   ELSE [txn[t] EXCEPT !.late = txn[t].late \/ (Synced(s) /\ t \in Open)]]
      /\ held' = [held EXCEPT ![s] = {}]
      /\ request' = request
  BY DEF Commit, Open
<1>2. txn'[s].pc = "saved"
  BY <1>1 DEF Closed
<1>3. ASSUME NEW t \in Sessions, t # s
      PROVE  /\ held'[t] = held[t] /\ txn[t] \in Txn
             /\ txn'[t] = [txn[t] EXCEPT !.late = txn[t].late \/ (Synced(s) /\ t \in Open)]
  BY <1>1, <1>3 DEF MatchInv, TxnInv, TypeOK
<1>4. ASSUME NEW t \in Open' PROVE t \in Open /\ t # s
  <2>1. t # s
    BY <1>2, <1>4 DEF Open
  <2>2. t \in Sessions
    BY <1>4 DEF Open
  <2>3. txn'[t].pc = txn[t].pc
    BY <1>3, <2>1, <2>2 DEF Txn
  <2> QED BY <1>4, <2>1, <2>2, <2>3 DEF Open
<1>5. CASE Synced(s)
  <2>1. ASSUME NEW t \in Open' PROVE SyncInv(t)'
    <3>1. t \in Open /\ t # s /\ t \in Sessions
      BY <1>4, <2>1 DEF Open
    <3>2. txn'[t] = [txn[t] EXCEPT !.late = txn[t].late \/ TRUE] /\ txn[t] \in Txn
      BY <1>3, <1>5, <3>1
    <3>3. txn'[t].late
      BY <3>2 DEF Txn
    <3> QED BY <3>3 DEF SyncInv
  <2>2. PartsMatchTags'
    <3> SUFFICES ASSUME ~skewed' PROVE Singles(parts)' = TagsOf(DocTags)'
      BY DEF PartsMatchTags, Singles, DocTags
    <3>1. ~txn[s].late
      BY <1>1, <1>5
    <3> QED BY <1>1, <1>5, <3>1, SyncedCommit DEF MatchInv
  <2> QED BY <2>1, <2>2 DEF MatchInv
<1>6. CASE ~Synced(s)
  <2>1. DocTags' = DocTags /\ Singles(parts)' = Singles(parts) /\ skewed' = skewed
    BY <1>1, <1>6, CombineCommit DEF MatchInv
  <2>2. PartsMatchTags'
    <3>1. PartsMatchTags <=> (~skewed => Singles(parts) = TagsOf(DocTags))
      BY DEF PartsMatchTags, Singles, DocTags
    <3>2. PartsMatchTags' <=> (~skewed' => Singles(parts)' = TagsOf(DocTags)')
      BY DEF PartsMatchTags, Singles, DocTags
    <3>3. TagsOf(DocTags)' = TagsOf(DocTags)
      BY <2>1 DEF TagsOf
    <3> QED BY <2>1, <3>1, <3>2, <3>3 DEF MatchInv
  <2>3. ASSUME NEW t \in Open' PROVE SyncInv(t)'
    <3>1. t \in Open /\ t # s /\ t \in Sessions /\ SyncInv(t)
      BY <1>4, <2>3 DEF Open, MatchInv
    <3>2. held'[t] = held[t] /\ txn[t] \in Txn
      BY <1>3, <3>1
    <3>3. txn'[t] = [txn[t] EXCEPT !.late = txn[t].late \/ FALSE]
      BY <1>3, <1>6, <3>1
    <3>4. txn'[t] = txn[t]
      BY <3>2, <3>3 DEF Txn
    <3>5. \A u \in PartTags : {u} \in parts' <=> {u} \in parts
      BY <2>1 DEF Singles
    <3>6. /\ Synced(t)' <=> Synced(t)
          /\ BeforeSync(t)' <=> BeforeSync(t)
          /\ View(t)' = View(t) /\ InTodo(t)' = InTodo(t)
      <4>1. (Synced(t)' <=> Synced(t)) /\ (BeforeSync(t)' <=> BeforeSync(t))
        BY <1>1, <3>4 DEF Synced, BeforeSync
      <4>2. View(t)' = View(t) /\ InTodo(t)' = InTodo(t)
        <5>1. request' = request /\ txn'[t] = txn[t]
          BY <1>1, <3>4
        <5> QED BY <5>1 DEF View, InTodo
      <4> QED BY <4>1, <4>2
    <3>7. TagsOf(View(t))' = TagsOf(View(t))
      BY <3>6 DEF TagsOf
    <3>8. RowsBefore(t) => RowsBefore(t)'
      BY <2>1, <3>2, <3>4 DEF RowsBefore
    <3>9. RowsAfter(t, TagsOf(View(t))) => RowsAfter(t, TagsOf(View(t)))'
      <4> DEFINE T == TagsOf(View(t))
      <4>1. T \subseteq PartTags
        BY DEF TagsOf
      <4> HIDE DEF T
      <4>2. TagsOf(View(t))' = T
        BY <3>7 DEF T
      <4>3. RowsAfter(t, T) => RowsAfter(t, TagsOf(View(t)))'
        BY <3>2, <3>4, <3>5, <3>6, <4>1, <4>2 DEF RowsAfter
      <4> QED BY <4>3 DEF T
    <3> QED BY <2>1, <3>1, <3>4, <3>6, <3>7, <3>8, <3>9 DEF SyncInv
  <2> QED BY <2>2, <2>3 DEF MatchInv
<1> QED BY <1>5, <1>6

LEMMA MatchInvStep ==
  ASSUME MatchInv, [Next]_vars
  PROVE  MatchInv'
<1>1. TxnInv' /\ TxnInv
  BY TxnInvStep DEF MatchInv
<1>2. CASE UNCHANGED vars
  <2>1. \A u \in Sessions : SyncInv(u) => SyncInv(u)'
    BY <1>2, SyncFrame DEF vars
  <2>2. Open' = Open /\ Open \subseteq Sessions /\ (PartsMatchTags <=> PartsMatchTags')
    BY <1>2 DEF vars, Open, PartsMatchTags, TagsOf
  <2> QED BY <1>1, <2>1, <2>2 DEF MatchInv
<1> SUFFICES ASSUME NEW s \in Sessions, Step(s) \/ LockTimeout(s) PROVE MatchInv'
  BY <1>2 DEF Next
<1>3. s \in Open => SyncInv(s)
  BY DEF MatchInv
<1>4. CASE Begin(s) \/ Retry(s)
  <2>1. PICK pc \in {"idle", "retry"} : Run(s, pc, Start(s))
    BY <1>4 DEF Begin, Retry
  <2>2. txn[s].pc \in {"idle", "retry"} /\ s \notin Open /\ held[s] = {}
    BY <1>1, <2>1 DEF Run, Open, TxnInv, TypeOK
  <2>3. Wanted(s) = {}
    BY <2>2, SMTT(30) DEF Wanted
  <2>4. txn'[s] = Start(s) /\ held'[s] = {} /\ UNCHANGED <<doc, parts, request>>
    BY <1>1, <2>1, <2>2, <2>3, RunFrame DEF TxnInv
  <2>5. /\ Start(s).base = DocTags /\ Start(s).rows = parts
        /\ Synced(s) => Start(s).pc \in {"page", "sync"}
    BY <1>1, StartTypes DEF TxnInv
  <2>6. /\ DocTags' = DocTags /\ (Synced(s)' <=> Synced(s))
        /\ Synced(s)' => BeforeSync(s)'
        /\ RowsBefore(s)'
    BY <2>4, <2>5 DEF DocTags, Synced, BeforeSync, RowsBefore, Singles
  <2>7. SyncInv(s)'
    BY <2>4, <2>5, <2>6 DEF SyncInv
  <2> QED BY <1>1, <2>1, <2>7, RunMatch
<1>5. CASE UpdatePage(s)
  <2> DEFINE t == [txn[s] EXCEPT !.pc = "delete"]
  <2>1. Run(s, "page", t)
    BY <1>5 DEF UpdatePage
  <2>2. txn[s].pc = "page" /\ s \in Open /\ txn'[s] = t
    BY <1>1, <2>1, RunFrame DEF Run, Open, TxnInv
  <2>3. /\ t.pc = "delete" /\ t.rows = txn[s].rows /\ t.put = txn[s].put
        /\ t.todo = txn[s].todo /\ t.base = txn[s].base /\ t.late = txn[s].late
    BY <1>1, <2>2, StatementTypes DEF Txn
  <2> HIDE DEF t
  <2>4. BeforeSync(s) /\ BeforeSync(s)'
    BY <2>2, <2>3 DEF BeforeSync
  <2>5. \A r : PartRow(r) \notin Wanted(s)
    BY <2>2, PartLocks DEF Wanted
  <2>6. SyncInv(s)'
    BY <1>1, <1>3, <2>1, <2>2, <2>3, <2>4, <2>5, SameStage
  <2> QED BY <1>1, <2>1, <2>6, RunMatch
<1>6. CASE DeleteSegments(s)
  <2>1. PICK p \in Lowest(txn[s].left) :
          Run(s, "delete", [txn[s] EXCEPT !.left = txn[s].left \ {p}, !.written = @ \cup {p},
                             !.pc = IF txn[s].left \ {p} = {} THEN "flush" ELSE "page"])
    BY <1>6 DEF DeleteSegments
  <2> DEFINE t == [txn[s] EXCEPT !.left = txn[s].left \ {p}, !.written = txn[s].written \cup {p},
                                 !.pc = IF txn[s].left \ {p} = {} THEN "flush" ELSE "page"]
  <2>2. Run(s, "delete", t)
    BY <2>1
  <2>3. txn[s].pc = "delete" /\ s \in Open /\ txn'[s] = t /\ request' = request
    BY <1>1, <2>2, RunFrame DEF Run, Open, TxnInv
  <2>4. /\ t.pc \in {"flush", "page"} /\ t.rows = txn[s].rows /\ t.put = txn[s].put
        /\ t.todo = txn[s].todo /\ t.base = txn[s].base /\ t.late = txn[s].late
    BY <1>1, <2>3, StatementTypes DEF Txn
  <2>5. request[s].kind = "save"
    BY <1>1, <2>3, StatementTypes DEF PagesFit
  <2> HIDE DEF t
  <2>6. BeforeSync(s) /\ BeforeSync(s)'
    BY <2>3, <2>4, <2>5 DEF BeforeSync
  <2>7. \A r : PartRow(r) \notin Wanted(s)
    BY <2>3, PartLocks DEF Wanted
  <2>8. SyncInv(s)'
    BY <1>1, <1>3, <2>2, <2>3, <2>4, <2>6, <2>7, SameStage
  <2> QED BY <1>1, <2>2, <2>8, RunMatch
<1>7. CASE Flush(s)
  <2> DEFINE pc == IF request[s].kind = "save" THEN "sync" ELSE "commit"
             t == [txn[s] EXCEPT !.pc = pc]
  <2>1. Run(s, "flush", t)
    BY <1>7 DEF Flush
  <2> HIDE DEF pc
  <2>2. txn[s].pc = "flush" /\ s \in Open /\ txn'[s] = t /\ request' = request
    BY <1>1, <2>1, RunFrame DEF Run, Open, TxnInv
  <2>3. /\ t.pc = pc
        /\ t.rows = txn[s].rows /\ t.put = txn[s].put /\ t.written = txn[s].written
        /\ t.todo = txn[s].todo /\ t.base = txn[s].base /\ t.late = txn[s].late
    BY <1>1, <2>2, StatementTypes DEF Txn
  <2> HIDE DEF t
  <2>4. BeforeSync(s)' <=> BeforeSync(s)
    BY <2>2, <2>3 DEF BeforeSync, pc
  <2>5. \A r : PartRow(r) \notin Wanted(s)
    BY <2>2, PartLocks DEF Wanted
  <2>6. SyncInv(s)'
    BY <1>1, <1>3, <2>1, <2>2, <2>3, <2>4, <2>5, SameStage
  <2> QED BY <1>1, <2>1, <2>6, RunMatch
<1>8. CASE Sync(s)
  <2>1. PICK add \in SUBSET PartRows, todo \in Seq(PartRows) :
          Run(s, "sync", [txn[s] EXCEPT !.pc = "rows", !.put = add, !.todo = todo])
    BY <1>1, <1>8, SyncTypes DEF TxnInv
  <2>2. s \in Open
    BY <2>1 DEF Run, Open
  <2> QED BY <1>1, <1>3, <1>8, <2>1, <2>2, SyncMatch, RunMatch
<1>9. CASE WriteRow(s)
  <2>1. PICK t : Run(s, "rows", t)
    BY <1>9 DEF WriteRow
  <2>2. s \in Open
    BY <2>1 DEF Run, Open
  <2> QED BY <1>1, <1>3, <1>9, <2>1, <2>2, WriteMatch, RunMatch
<1>10. CASE RowsWritten(s)
  <2> DEFINE none == \A t \in PartTags : {t} \notin txn[s].rows
             pc == CASE request[s].kind = "save" -> "commit"
                     [] request[s].kind = "generate" /\ none -> "rollback"
                     [] OTHER -> "flush"
             t == [txn[s] EXCEPT !.pc = pc]
  <2>1. Run(s, "rows", t) /\ txn[s].todo = <<>>
    BY <1>10 DEF RowsWritten
  <2>2. txn[s].pc = "rows" /\ s \in Open /\ txn'[s] = t /\ request' = request
    BY <1>1, <2>1, RunFrame DEF Run, Open, TxnInv
  <2>3. /\ pc \in {"commit", "rollback", "flush"}
        /\ request[s].kind = "save" => pc = "commit"
    OBVIOUS
  <2> HIDE DEF pc
  <2>4. /\ t.pc = pc
        /\ t.rows = txn[s].rows /\ t.put = txn[s].put /\ t.written = txn[s].written
        /\ t.todo = txn[s].todo /\ t.base = txn[s].base /\ t.late = txn[s].late
    BY <1>1, <2>2, StatementTypes DEF Txn
  <2> HIDE DEF t
  <2>5. ~BeforeSync(s)' /\ ~BeforeSync(s)
    BY <2>2, <2>3, <2>4 DEF BeforeSync
  <2>6. Wanted(s) = {}
    BY <2>1, <2>2, SMTT(30) DEF Wanted
  <2>7. SyncInv(s)'
    BY <1>1, <1>3, <2>1, <2>2, <2>4, <2>5, <2>6, SameStage
  <2> QED BY <1>1, <2>1, <2>7, RunMatch
<1>11. CASE Commit(s)
  BY <1>1, <1>11, CommitMatch
<1>12. CASE GiveUp(s)
  <2>1. Closed("refused", 0).pc \in ClosedPC
    BY DEF Closed, ClosedPC
  <2> QED BY <1>1, <1>12, <2>1, UndoMatch DEF GiveUp
<1>13. CASE Wait(s)
  <2>1. UNCHANGED <<doc, parts, request, txn, held, skewed>>
    BY <1>13 DEF Wait
  <2>2. \A u \in Sessions : SyncInv(u) => SyncInv(u)'
    BY <2>1, SyncFrame
  <2>3. Open' = Open /\ Open \subseteq Sessions /\ (PartsMatchTags <=> PartsMatchTags')
    BY <2>1 DEF Open, PartsMatchTags, TagsOf
  <2> QED BY <1>1, <2>2, <2>3 DEF MatchInv
<1>14. CASE Deadlock(s)
  <2>1. AfterDeadlock(s).pc \in ClosedPC
    BY DEF AfterDeadlock, Closed, ClosedPC
  <2> QED BY <1>1, <1>14, <2>1, UndoMatch DEF Deadlock
<1>15. CASE LockTimeout(s)
  <2>1. Closed("refused", 0).pc \in ClosedPC
    BY DEF Closed, ClosedPC
  <2> QED BY <1>1, <1>15, <2>1, UndoMatch DEF LockTimeout
<1> QED BY <1>4, <1>5, <1>6, <1>7, <1>8, <1>9, <1>10, <1>11, <1>12, <1>13, <1>14, <1>15 DEF Step

\* After a save or a generation that saw every earlier one, the partset has one part
\* for every tag of its committed segments and none besides, however the requests
\* overlapped before it.
THEOREM PartsFollowTags == Spec => []PartsMatchTags
<1>1. Init => MatchInv
  <2> SUFFICES ASSUME Init PROVE MatchInv
    OBVIOUS
  <2>1. TxnInv /\ Open = {}
    BY TxnInvInit DEF Init, Open, Closed
  <2>2. parts = {{t} : t \in TagsOf(DocTags)}
    <3>1. \A p \in Pages : DocTags[p] = doc[p].tags
      BY DEF DocTags
    <3>2. UNION {DocTags[p] : p \in Pages} = UNION {doc[p].tags : p \in Pages}
      BY <3>1
    <3> QED BY <3>2 DEF Init, TagsOf
  <2>3. Singles(parts) = TagsOf(DocTags)
    <3> DEFINE T == TagsOf(DocTags)
    <3>1. T \subseteq PartTags
      BY DEF TagsOf
    <3> HIDE DEF T
    <3>2. Singles({{t} : t \in T}) = T
      BY <3>1 DEF Singles
    <3> QED BY <2>2, <3>2 DEF T
  <2> QED BY <2>1, <2>3 DEF MatchInv, PartsMatchTags, Singles, DocTags
<1>2. MatchInv /\ [Next]_vars => MatchInv'
  BY MatchInvStep
<1>3. MatchInv => PartsMatchTags
  BY DEF MatchInv
<1> QED BY <1>1, <1>2, <1>3, PTL DEF Spec

-----------------------------------------------------------------------------
(* The preview.  As long as no two writers meet and no copy is passed over, *)
(* the one directory that all views share holds images of the committed     *)
(* rows only.                                                               *)

ViewPC == {"idle", "rows", "cut", "publish", "unlink", "stamp", "truncate", "heights", "answered"}
ViewRecord == [pc : ViewPC, geometry : Geometries \cup {Nothing}, todo : SUBSET Slots,
         got : Geometries \cup {Nothing}]

\* A view under way knows the geometry it has read, and publishes images of that.
Sound(r) == r.pc # "idle" => r.geometry \in Geometries /\ r.todo \subseteq Cuts(r.geometry)

CacheType ==
  /\ rows \in Geometries /\ saving \in Geometries \cup {Nothing}
  /\ png \in [Slots -> Geometries \cup {Nothing}]
  /\ fp \in Geometries \cup {Nothing} /\ heights \in Geometries \cup {Nothing, "empty"}
  /\ view \in [Views -> ViewRecord]
  /\ \A v \in Views : Sound(view[v])

\* A view that builds is the only writer, and what it builds is of the committed rows.
OneWriter ==
  /\ \A v, w \in Views : Building(v) /\ Building(w) => v = w
  /\ \A v \in Views : Building(v) => saving = Nothing /\ view[v].geometry = rows

\* Whatever is in the directory was cut from the committed rows; a save that has still
\* to commit has left it empty.
FilesOfRows ==
  /\ fp \in {Nothing, rows} /\ heights \in {Nothing, "empty", rows}
  /\ \A n \in Slots : png[n] # Nothing => png[n] = rows /\ n \in Cuts(rows)
  /\ saving # Nothing => fp = Nothing /\ heights = Nothing /\ \A n \in Slots : png[n] = Nothing

Answers == \A v \in Views : At(v, "answered") => view[v].got = view[v].geometry

\* ValidFits is not inductive: an image of other rows in a directory that is not valid yet
\* would become part of a valid one.
CacheInv ==
  /\ CacheType
  /\ (~overlapped /\ ~skipped) => OneWriter /\ FilesOfRows /\ Answers

-----------------------------------------------------------------------------
LEMMA InitCache == PreviewInit => CacheInv
<1> SUFFICES ASSUME PreviewInit PROVE CacheInv
  OBVIOUS
<1>1. /\ rows \in Geometries /\ saving = Nothing /\ view = [v \in Views |-> NoView]
      /\ fp \in {Nothing, rows} /\ heights \in {Nothing, rows}
      /\ \/ png = [n \in Slots |-> Nothing]
         \/ png = [n \in Slots |-> IF n \in Cuts(rows) THEN rows ELSE Nothing]
  BY DEF PreviewInit, NoImages
<1>2. NoView \in ViewRecord /\ NoView.pc = "idle"
  BY DEF NoView, ViewRecord, ViewPC
<1>3. CacheType
  BY <1>1, <1>2 DEF CacheType, Sound
<1>4. OneWriter /\ Answers
  BY <1>1, <1>2 DEF OneWriter, Answers, Building, At
<1>5. FilesOfRows
  BY <1>1 DEF FilesOfRows
<1> QED BY <1>3, <1>4, <1>5 DEF CacheInv

\* A step of one view.
LEMMA ViewSet ==
  ASSUME CacheType, NEW v \in Views, NEW r \in ViewRecord, Sound(r), view' = [view EXCEPT ![v] = r]
  PROVE  /\ view' \in [Views -> ViewRecord] /\ \A w \in Views : Sound(view'[w])
         /\ view'[v] = r /\ \A w \in Views : w # v => view'[w] = view[w]
BY DEF CacheType

\* A request that ends.
LEMMA ViewEnds ==
  ASSUME CacheType, NEW v \in Views, Fail(v)
  PROVE  /\ view' \in [Views -> ViewRecord] /\ \A w \in Views : Sound(view'[w])
         /\ view'[v].pc = "idle" /\ \A w \in Views : w # v => view'[w] = view[w]
<1>1. NoView \in ViewRecord /\ NoView.pc = "idle" /\ Sound(NoView)
  BY DEF NoView, ViewRecord, ViewPC, Sound
<1> QED BY <1>1, ViewSet DEF Fail

\* A request that goes on with what it has read.
LEMMA ViewGoes ==
  ASSUME CacheType, NEW v \in Views, view[v].pc # "idle", NEW pc \in ViewPC, Goto(v, pc)
  PROVE  /\ view' \in [Views -> ViewRecord] /\ \A w \in Views : Sound(view'[w])
         /\ view'[v].pc = pc /\ view'[v].geometry = view[v].geometry
         /\ \A w \in Views : w # v => view'[w] = view[w]
<1> DEFINE r == [view[v] EXCEPT !.pc = pc]
<1>1. r \in ViewRecord /\ Sound(r) /\ r.pc = pc /\ r.geometry = view[v].geometry
  BY DEF CacheType, ViewRecord, Sound
<1>2. view' = [view EXCEPT ![v] = r]
  BY DEF Goto
<1> HIDE DEF r
<1> QED BY <1>1, <1>2, ViewSet

\* A view that is at no file, and one that ends, keep what is known of the others.
LEMMA ViewAside ==
  ASSUME NEW v \in Views, OneWriter, Answers, UNCHANGED <<rows, saving>>,
         \A w \in Views : w # v => view'[w] = view[w],
         Building(v)' => Building(v) /\ view'[v].geometry = view[v].geometry,
         At(v, "answered")' => view'[v].got = view'[v].geometry
  PROVE  OneWriter' /\ Answers'
<1>1. \A w \in Views : Building(w)' => Building(w) /\ view'[w].geometry = view[w].geometry
  BY DEF Building
<1>2. OneWriter'
  BY <1>1 DEF OneWriter
<1>3. Answers'
  BY DEF Answers, At
<1> QED BY <1>2, <1>3

-----------------------------------------------------------------------------
(* Views. *)

LEMMA ViewReads ==
  ASSUME CacheInv, NEW v \in Views, ReadRows(v) \/ ServeCached(v) \/ Show(v)
  PROVE  CacheInv'
<1> CacheType
  BY DEF CacheInv
<1>1. UNCHANGED <<rows, dir, png, fp, heights, saving, overlapped, skipped>>
  BY DEF ReadRows, ServeCached, Show, files, hist
<1>2. FilesOfRows => FilesOfRows'
  BY <1>1 DEF FilesOfRows
<1>3. CASE ReadRows(v)
  <2> DEFINE r == [NoView EXCEPT !.pc = "rows", !.geometry = rows]
  <2>1. r \in ViewRecord /\ Sound(r) /\ r.pc = "rows"
    BY DEF CacheType, NoView, ViewRecord, ViewPC, Sound
  <2>2. view' = [view EXCEPT ![v] = r]
    BY <1>3 DEF ReadRows
  <2> HIDE DEF r
  <2>3. /\ view' \in [Views -> ViewRecord] /\ \A w \in Views : Sound(view'[w])
        /\ view'[v].pc = "rows" /\ \A w \in Views : w # v => view'[w] = view[w]
    BY <2>1, <2>2, ViewSet
  <2>4. OneWriter /\ Answers => OneWriter' /\ Answers'
    BY <1>1, <2>3, ViewAside DEF Building, At
  <2> QED BY <1>1, <1>2, <2>3, <2>4 DEF CacheInv, CacheType
<1>4. CASE Show(v) \/ (ServeCached(v) /\ heights = "empty")
  <2>1. Fail(v)
    BY <1>4 DEF Show, ServeCached, Fail
  <2>2. /\ view' \in [Views -> ViewRecord] /\ \A w \in Views : Sound(view'[w])
        /\ view'[v].pc = "idle" /\ \A w \in Views : w # v => view'[w] = view[w]
    BY <2>1, ViewEnds
  <2>3. OneWriter /\ Answers => OneWriter' /\ Answers'
    BY <1>1, <2>2, ViewAside DEF Building, At
  <2> QED BY <1>1, <1>2, <2>2, <2>3 DEF CacheInv, CacheType
<1>5. CASE ServeCached(v) /\ heights # "empty"
  <2>1. At(v, "rows") /\ Valid(view[v].geometry)
        /\ view' = [view EXCEPT ![v] = [view[v] EXCEPT !.pc = "answered", !.got = heights]]
    BY <1>5 DEF ServeCached, CacheType
  <2> DEFINE r == [view[v] EXCEPT !.pc = "answered", !.got = heights]
  <2>2. heights \in Geometries \cup {Nothing}
    BY <1>5 DEF CacheType
  <2>3. /\ r \in ViewRecord /\ Sound(r) /\ r.pc = "answered" /\ r.got = heights
        /\ r.geometry = view[v].geometry /\ view[v].geometry \in Geometries
    BY <2>1, <2>2 DEF CacheType, ViewRecord, ViewPC, Sound, At
  <2> HIDE DEF r
  <2>4. /\ view' \in [Views -> ViewRecord] /\ \A w \in Views : Sound(view'[w])
        /\ view'[v] = r /\ \A w \in Views : w # v => view'[w] = view[w]
    BY <2>1, <2>3, ViewSet DEF r
  <2>5. FilesOfRows => heights = view[v].geometry
    BY <1>5, <2>1, <2>3, PreviewCacheAssumption DEF FilesOfRows, Valid
  <2>6. OneWriter /\ FilesOfRows /\ Answers => OneWriter' /\ Answers'
    BY <1>1, <2>3, <2>4, <2>5, ViewAside DEF Building, At
  <2> QED BY <1>1, <1>2, <2>4, <2>6 DEF CacheInv, CacheType
<1> QED BY <1>3, <1>4, <1>5

LEMMA BuildBegins ==
  ASSUME CacheInv, NEW v \in Views, StartBuild(v)
  PROVE  CacheInv'
<1> CacheType
  BY DEF CacheInv
<1> DEFINE g == view[v].geometry
           r == [view[v] EXCEPT !.pc = "cut", !.todo = Cuts(g)]
<1>1. /\ At(v, "rows") /\ view' = [view EXCEPT ![v] = r]
      /\ UNCHANGED <<rows, dir, png, fp, heights, saving, skipped>>
      /\ overlapped' = (overlapped \/ Others(v) \/ saving # Nothing \/ g # rows)
  BY DEF StartBuild, files, CacheType
<1>2. g \in Geometries /\ Cuts(g) \subseteq Slots
  BY <1>1 DEF CacheType, Sound, At, Slots
<1>3. r \in ViewRecord /\ Sound(r) /\ r.pc = "cut" /\ r.geometry = g
  BY <1>2 DEF CacheType, ViewRecord, ViewPC, Sound
<1> HIDE DEF r, g
<1>4. /\ view' \in [Views -> ViewRecord] /\ \A w \in Views : Sound(view'[w])
      /\ view'[v] = r /\ \A w \in Views : w # v => view'[w] = view[w]
  BY <1>1, <1>3, ViewSet
<1>5. CacheType'
  BY <1>1, <1>4 DEF CacheType
<1>6. ASSUME ~overlapped', ~skipped'
      PROVE  OneWriter' /\ FilesOfRows' /\ Answers'
  <2>1. ~overlapped /\ ~Others(v) /\ saving = Nothing /\ g = rows /\ ~skipped
    BY <1>1, <1>6
  <2>2. OneWriter /\ FilesOfRows /\ Answers
    BY <2>1 DEF CacheInv
  <2>3. FilesOfRows'
    BY <1>1, <2>2 DEF FilesOfRows
  <2>4. \A w \in Views : Building(w)' => w = v
    BY <1>4, <2>1 DEF Others, Building
  <2>5. OneWriter'
    BY <1>1, <1>3, <1>4, <2>1, <2>4 DEF OneWriter
  <2>6. Answers'
    BY <1>3, <1>4, <2>2 DEF Answers, At
  <2> QED BY <2>3, <2>5, <2>6
<1> QED BY <1>5, <1>6 DEF CacheInv

\* A step of a view that builds, at the files.
LEMMA BuildStep ==
  ASSUME CacheInv, NEW v \in Views, Building(v), UNCHANGED <<rows, saving, overlapped>>,
         ~skipped' => ~skipped,
         view' \in [Views -> ViewRecord], \A w \in Views : Sound(view'[w]),
         \A w \in Views : w # v => view'[w] = view[w],
         view'[v].pc = "idle" \/ view'[v].geometry = view[v].geometry,
         view'[v].pc = "answered" => view'[v].got = view[v].geometry,
         png' \in [Slots -> Geometries \cup {Nothing}],
         \A n \in Slots : \/ png'[n] \in {Nothing, png[n]}
                          \/ n \in Cuts(view[v].geometry) /\ png'[n] = view[v].geometry,
         fp' \in {fp, view[v].geometry},
         heights' \in {heights, Nothing, "empty", view[v].geometry}
  PROVE  CacheInv'
<1>1. CacheType /\ view[v].geometry \in Geometries
  BY DEF CacheInv, CacheType, Sound, Building
<1>2. CacheType'
  BY <1>1 DEF CacheType
<1>3. ASSUME ~overlapped', ~skipped'
      PROVE  OneWriter' /\ FilesOfRows' /\ Answers'
  <2>1. OneWriter /\ FilesOfRows /\ Answers
    BY <1>3 DEF CacheInv
  <2>2. saving = Nothing /\ view[v].geometry = rows
    BY <2>1 DEF OneWriter
  <2>3. FilesOfRows'
    BY <2>1, <2>2 DEF FilesOfRows
  <2>4. Building(v)' => view'[v].geometry = view[v].geometry
    BY DEF Building
  <2>5. At(v, "answered")' => view'[v].got = view'[v].geometry
    BY DEF At
  <2>6. OneWriter' /\ Answers'
    BY <2>1, <2>4, <2>5, ViewAside
  <2> QED BY <2>3, <2>6
<1> QED BY <1>2, <1>3 DEF CacheInv

LEMMA BuildGoesOn ==
  ASSUME CacheInv, NEW v \in Views,
         \/ MakeDirectory(v) \/ UnlinkOthers(v) \/ WriteFingerprint(v) \/ TruncateHeights(v)
         \/ WriteHeights(v)
  PROVE  CacheInv'
<1> DEFINE g == view[v].geometry
<1> CacheType
  BY DEF CacheInv
<1>1. /\ Building(v) /\ view[v].pc # "idle" /\ UNCHANGED <<rows, saving, overlapped, skipped>>
      /\ \/ \E pc \in ViewPC \ {"answered"} : Goto(v, pc)
         \/ Fail(v)
         \/ view' = [view EXCEPT ![v].pc = "answered", ![v].got = g]
      /\ fp' \in {fp, g} /\ heights' \in {heights, Nothing, "empty", g}
  BY DEF MakeDirectory, UnlinkOthers, WriteFingerprint, TruncateHeights, WriteHeights, hist, At,
         Building, ViewPC
<1>2. /\ png' \in [Slots -> Geometries \cup {Nothing}]
      /\ \A n \in Slots : png'[n] \in {Nothing, png[n]}
  <2>1. png' = png \/ png' = [n \in Slots |-> IF n \in Cuts(g) THEN png[n] ELSE Nothing]
    BY DEF MakeDirectory, UnlinkOthers, WriteFingerprint, TruncateHeights, WriteHeights
  <2> QED BY <2>1 DEF CacheType
<1>3. /\ view' \in [Views -> ViewRecord] /\ \A w \in Views : Sound(view'[w])
      /\ \A w \in Views : w # v => view'[w] = view[w]
      /\ view'[v].pc = "idle" \/ view'[v].geometry = g
      /\ view'[v].pc = "answered" => view'[v].got = g
  <2>1. CASE \E pc \in ViewPC \ {"answered"} : Goto(v, pc)
    BY <1>1, <2>1, ViewGoes
  <2>2. CASE Fail(v)
    BY <2>2, ViewEnds
  <2>3. CASE view' = [view EXCEPT ![v].pc = "answered", ![v].got = g]
    <3> DEFINE r == [view[v] EXCEPT !.pc = "answered", !.got = g]
    <3>1. g \in Geometries
      BY <1>1 DEF CacheType, Sound
    <3>2. r \in ViewRecord /\ r.pc = "answered" /\ r.got = g /\ r.geometry = g
      <4>1. view[v] \in ViewRecord /\ view[v].geometry = g
        BY <1>1 DEF CacheType
      <4> QED BY <4>1, <3>1 DEF ViewRecord, ViewPC
    <3>4. Sound(r)
      BY <1>1, <3>1, <3>2 DEF CacheType, Sound
    <3>3. view' = [view EXCEPT ![v] = r]
      BY <2>3 DEF CacheType
    <3> HIDE DEF r
    <3> QED BY <3>2, <3>3, <3>4, ViewSet
  <2> QED BY <1>1, <2>1, <2>2, <2>3
<1> QED BY <1>1, <1>2, <1>3, BuildStep

LEMMA ImageHandled ==
  ASSUME CacheInv, NEW v \in Views, PublishImage(v) \/ SkipImage(v)
  PROVE  CacheInv'
<1> DEFINE g == view[v].geometry
<1> CacheType
  BY DEF CacheInv
<1>1. /\ At(v, "publish") /\ UNCHANGED <<rows, saving, overlapped, fp, heights>>
  BY DEF PublishImage, SkipImage, hist, files
<1>6. ~skipped' => ~skipped
  <2>1. PublishImage(v) => skipped' = skipped
    BY DEF PublishImage, hist
  <2>2. SkipImage(v) => \E n : skipped' = (skipped \/ png[n] # Nothing)
    BY DEF SkipImage
  <2> QED BY <2>1, <2>2
<1> DEFINE Goes(n) == view' = [view EXCEPT ![v].todo = @ \ {n},
                                          ![v].pc = IF view[v].todo = {n} THEN "unlink" ELSE "publish"]
<1>2. /\ g \in Geometries /\ view[v].todo \subseteq Cuts(g) /\ Building(v) /\ Cuts(g) \subseteq Slots
  BY <1>1 DEF CacheType, Sound, At, Building, Slots
<1>3. PICK n \in view[v].todo :
        \/ Fail(v) /\ png' = png
        \/ Goes(n) /\ (png' = png \/ png' = [png EXCEPT ![n] = g])
  <2>1. CASE PublishImage(v)
    <3>1. PICK n \in view[v].todo :
            IF dir THEN png' = [png EXCEPT ![n] = g] /\ Goes(n) ELSE Fail(v) /\ UNCHANGED png
      BY <2>1 DEF PublishImage
    <3> HIDE DEF Goes
    <3> QED BY <3>1
  <2>2. CASE SkipImage(v)
    <3>1. PICK n \in view[v].todo : IF png[n] = Nothing THEN Fail(v) ELSE Goes(n)
      BY <2>2 DEF SkipImage
    <3>2. png' = png
      BY <2>2 DEF SkipImage, files
    <3> HIDE DEF Goes
    <3> QED BY <3>1, <3>2
  <2> QED BY <2>1, <2>2
<1>4. /\ png' \in [Slots -> Geometries \cup {Nothing}]
      /\ \A m \in Slots : png'[m] = png[m] \/ (m \in Cuts(g) /\ png'[m] = g)
  BY <1>2, <1>3 DEF CacheType
<1>5. /\ view' \in [Views -> ViewRecord] /\ \A w \in Views : Sound(view'[w])
      /\ \A w \in Views : w # v => view'[w] = view[w]
      /\ view'[v].pc = "idle" \/ view'[v].geometry = g
      /\ view'[v].pc # "answered"
  <2>1. CASE Fail(v)
    BY <2>1, ViewEnds
  <2>2. CASE Goes(n)
    <3> DEFINE pc == IF view[v].todo = {n} THEN "unlink" ELSE "publish"
               r == [view[v] EXCEPT !.todo = view[v].todo \ {n}, !.pc = pc]
    <3>1. r \in ViewRecord /\ Sound(r) /\ r.pc # "answered" /\ r.geometry = g
      BY <1>2 DEF CacheType, ViewRecord, ViewPC, Sound
    <3>2. view' = [view EXCEPT ![v] = r]
      BY <2>2 DEF CacheType
    <3> HIDE DEF r
    <3> QED BY <3>1, <3>2, ViewSet
  <2> QED BY <1>3, <2>1, <2>2
<1> QED BY <1>1, <1>2, <1>4, <1>5, <1>6, BuildStep

-----------------------------------------------------------------------------
(* Saves, crashes and evictions. *)

LEMMA PreviewRemoved ==
  ASSUME CacheInv, RemoveAll, UNCHANGED <<rows, view, skipped>>,
         ~overlapped' => ~overlapped /\ \A v \in Views : ~Building(v),
         saving' \in Geometries \cup {Nothing}
  PROVE  CacheInv'
<1>1. CacheType'
  BY DEF CacheInv, CacheType, RemoveAll, NoImages
<1>2. FilesOfRows'
  BY DEF FilesOfRows, RemoveAll, NoImages
<1>3. ASSUME ~overlapped', ~skipped' PROVE OneWriter' /\ Answers'
  <2>1. \A v \in Views : ~Building(v)'
    BY <1>3 DEF Building
  <2>2. Answers
    BY <1>3 DEF CacheInv
  <2> QED BY <2>1, <2>2 DEF OneWriter, Answers, At
<1> QED BY <1>1, <1>2, <1>3 DEF CacheInv

LEMMA RowsCommitted ==
  ASSUME CacheInv, CommitRows
  PROVE  CacheInv'
<1>1. saving # Nothing /\ rows' = saving /\ saving' = Nothing
      /\ UNCHANGED <<dir, png, fp, heights, view, overlapped, skipped>>
  BY DEF CommitRows, files, hist
<1>2. CacheType'
  BY <1>1 DEF CacheInv, CacheType
<1>3. ASSUME ~overlapped', ~skipped' PROVE OneWriter' /\ FilesOfRows' /\ Answers'
  <2>1. OneWriter /\ FilesOfRows /\ Answers
    BY <1>1, <1>3 DEF CacheInv
  <2>2. \A v \in Views : ~Building(v) /\ ~Building(v)'
    BY <1>1, <2>1 DEF OneWriter, Building
  <2>3. FilesOfRows'
    BY <1>1, <2>1 DEF FilesOfRows
  <2> QED BY <1>1, <2>1, <2>2, <2>3 DEF OneWriter, Answers, At
<1> QED BY <1>2, <1>3 DEF CacheInv

LEMMA Crashed ==
  ASSUME CacheInv, Crash
  PROVE  CacheInv'
<1>1. UNCHANGED <<rows, dir, png, fp, heights, overlapped, skipped>>
  BY DEF Crash, files, hist
<1>2. CASE \E v \in Views : Fail(v) /\ UNCHANGED saving
  <2>1. PICK v \in Views : Fail(v) /\ UNCHANGED saving
    BY <1>2
  <2>2. /\ view' \in [Views -> ViewRecord] /\ \A w \in Views : Sound(view'[w])
        /\ view'[v].pc = "idle" /\ \A w \in Views : w # v => view'[w] = view[w]
    BY <2>1, ViewEnds DEF CacheInv
  <2>3. OneWriter /\ Answers => OneWriter' /\ Answers'
    BY <1>1, <2>1, <2>2, ViewAside DEF Building, At
  <2> QED BY <1>1, <2>1, <2>2, <2>3 DEF CacheInv, CacheType, FilesOfRows
<1>3. CASE saving' = Nothing /\ UNCHANGED view
  <2>1. CacheType'
    BY <1>1, <1>3 DEF CacheInv, CacheType
  <2>2. OneWriter /\ FilesOfRows /\ Answers => OneWriter' /\ FilesOfRows' /\ Answers'
    BY <1>1, <1>3 DEF OneWriter, FilesOfRows, Answers, Building, At
  <2> QED BY <1>1, <2>1, <2>2 DEF CacheInv
<1> QED BY <1>2, <1>3 DEF Crash

LEMMA NextKeepsCache == CacheInv /\ [PreviewNext]_previewVars => CacheInv'
<1> SUFFICES ASSUME CacheInv, [PreviewNext]_previewVars PROVE CacheInv'
  OBVIOUS
<1>1. CASE UNCHANGED previewVars
  BY <1>1
  DEF previewVars, files, hist, CacheInv, CacheType, Sound, OneWriter, FilesOfRows, Answers, Building, At
<1>2. ASSUME NEW g \in Geometries, RemovePreview(g) PROVE CacheInv'
  BY <1>2, PreviewRemoved DEF RemovePreview
<1>3. CASE Evict
  BY <1>3, PreviewRemoved DEF Evict, CacheInv, CacheType
<1>4. CASE PreviewNext
  BY <1>2, <1>3, <1>4, ViewReads, BuildBegins, BuildGoesOn, ImageHandled, RowsCommitted, Crashed
  DEF PreviewNext, Build
<1> QED BY <1>1, <1>4

\* A directory that passes for the preview of a geometry holds the images of that geometry and
\* no others, whatever crashes, evictions and saves have left of it, as long as no two writers
\* met and no copy was passed over.
THEOREM ValidIsExact == PreviewSpec => []ValidFits
<1>1. CacheInv => ValidFits
  <2> SUFFICES ASSUME CacheInv, ~overlapped, ~skipped, NEW g \in Geometries, Valid(g)
               PROVE  png = [n \in Slots |-> IF n \in Cuts(g) THEN g ELSE Nothing]
    BY DEF ValidFits
  <2>1. FilesOfRows /\ png \in [Slots -> Geometries \cup {Nothing}]
    BY DEF CacheInv, CacheType
  <2>2. g = rows
    BY <2>1, PreviewCacheAssumption DEF FilesOfRows, Valid
  <2>3. \A n \in Slots : png[n] = IF n \in Cuts(g) THEN g ELSE Nothing
    BY <2>1, <2>2 DEF FilesOfRows, Valid
  <2> QED BY <2>1, <2>3
<1> QED BY InitCache, NextKeepsCache, <1>1, PTL DEF PreviewSpec

\* The heights a view is answered with are those of the rows it has read, under the same
\* conditions.
THEOREM HeightsAreOwn == PreviewSpec => []HeightsFit
<1>1. CacheInv => HeightsFit
  BY DEF CacheInv, Answers, HeightsFit
<1> QED BY InitCache, NextKeepsCache, <1>1, PTL DEF PreviewSpec

-----------------------------------------------------------------------------
(* The promise of a cache.                                                   *)

\* Rows change only where a save commits them.
LEMMA OnlyCommitChangesRows ==
  ASSUME PreviewNext, ~CommitRows
  PROVE  rows' = rows
BY DEF PreviewNext, Build, ReadRows, ServeCached, StartBuild, MakeDirectory, PublishImage, SkipImage,
   UnlinkOthers, WriteFingerprint, TruncateHeights, WriteHeights, Show, RemovePreview, Crash, Evict

\* What passes for a preview was cut from the rows as they are, if no two writers met.
ShowsRows == (~overlapped /\ ~skipped /\ fp # Nothing /\ Valid(fp)) => {png[n] : n \in Cuts(fp)} = {rows}

LEMMA CacheShowsRows == CacheInv => ShowsRows
<1> SUFFICES ASSUME CacheInv, ~overlapped, ~skipped, fp # Nothing, Valid(fp)
             PROVE  {png[n] : n \in Cuts(fp)} = {rows}
  BY DEF ShowsRows
<1>1. FilesOfRows /\ rows \in Geometries
  BY DEF CacheInv, CacheType
<1>2. fp = rows /\ Cuts(rows) \subseteq Slots
  BY <1>1 DEF FilesOfRows, Slots
<1>3. \A n \in Cuts(rows) : png[n] = rows
  BY <1>1, <1>2 DEF FilesOfRows, Valid
<1>4. Size[rows] \in Nat \ {0}
  BY <1>1, PreviewCacheAssumption
<1>5. 0 \in Cuts(rows)
  BY <1>4 DEF Cuts
<1> QED BY <1>2, <1>3, <1>5

\* The directory keeps the promise of a cache: what passes for a preview shows the rows as
\* they are, in every state, and the commit that changes them finds it taken down, as long
\* as no two writers met and no copy was passed over.
THEOREM PreviewKeepsTheCache == PreviewSpec => PreviewImplementsCache
<1> DEFINE shown == IF ~overlapped /\ ~skipped /\ fp # Nothing /\ Valid(fp)
                    THEN {png[n] : n \in Cuts(fp)} ELSE {}
<1>1. CacheInv => rows \in Geometries /\ shown \in {{}, {rows}}
  BY CacheShowsRows DEF CacheInv, CacheType, ShowsRows
<1>2. CacheInv /\ CommitRows => shown' = {}
  <2> SUFFICES ASSUME CacheInv, CommitRows, ~overlapped', ~skipped', fp' # Nothing
               PROVE  FALSE
    OBVIOUS
  <2>1. saving # Nothing /\ UNCHANGED <<fp, overlapped, skipped>>
    BY DEF CommitRows, files, hist
  <2>2. FilesOfRows
    BY <2>1 DEF CacheInv
  <2> QED BY <2>1, <2>2 DEF FilesOfRows
<1>3. PreviewInit => CachedPreview!Init
  BY InitCache, <1>1 DEF CachedPreview!Init
<1>4. CacheInv /\ CacheInv' /\ [PreviewNext]_previewVars => [CachedPreview!Next]_<<rows, shown>>
  <2> SUFFICES ASSUME CacheInv, CacheInv', [PreviewNext]_previewVars
               PROVE  [CachedPreview!Next]_<<rows, shown>>
    OBVIOUS
  <2>1. CASE UNCHANGED previewVars
    BY <2>1 DEF previewVars, files, hist, Valid
  <2>2. CASE CommitRows
    <3>1. shown' = {} /\ rows' \in Geometries
      BY <2>2, <1>2 DEF CacheInv, CacheType
    <3> HIDE DEF shown
    <3>2. CachedPreview!Change
      BY <3>1 DEF CachedPreview!Change, shown
    <3> QED BY <3>2 DEF CachedPreview!Next
  <2>3. CASE PreviewNext /\ ~CommitRows
    <3>1. rows' = rows /\ rows' \in Geometries
      BY <2>3, OnlyCommitChangesRows DEF CacheInv, CacheType
    <3>3. (CacheInv => ShowsRows)'
      BY CacheShowsRows, PTL
    <3>4. shown' \in {{}, {rows'}}
      BY <3>3 DEF ShowsRows
    <3> HIDE DEF shown
    <3>2. CachedPreview!Publish \/ CachedPreview!TakeDown
      BY <3>1, <3>4 DEF CachedPreview!Publish, CachedPreview!TakeDown, shown
    <3> QED BY <3>2 DEF CachedPreview!Next
  <2> QED BY <2>1, <2>2, <2>3
<1> QED BY InitCache, NextKeepsCache, <1>3, <1>4, PTL
      DEF PreviewSpec, PreviewImplementsCache, CachedPreview!Spec, CachedPreview!cache

=============================================================================
