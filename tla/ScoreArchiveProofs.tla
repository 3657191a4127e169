------------------------- MODULE ScoreArchiveProofs -------------------------
(***************************************************************************)
(* Scores and their PDFs, for any number of partsets, scores, files and    *)
(* faults: what the database says is archived is in S3, and images and     *)
(* analysis are of the archived PDF unless a replacement was disturbed.    *)
(***************************************************************************)
EXTENDS ScoreArchive, TLAPS

File == Files \cup {None}
Row == [hash : File, s3 : BOOLEAN, imslp : BOOLEAN, converted : BOOLEAN]
PartsetRow == [made : BOOLEAN, imslp : BOOLEAN, score : Scores \cup {None},
               error : BOOLEAN, complete : BOOLEAN]

\* What is in work: nothing, a PDF, a score and a PDF, a score.
NoScore == {"idle", "download", "look"}
WithFile == {"look", "check", "put", "archive", "insert", "upload", "copy", "mark", "analyse",
             "replace", "reset", "wipe"}
Archived == {"attach", "stamp", "load", "reload", "commit", "copy", "mark", "analyse",
             "reset", "wipe"}
ProcPC == NoScore \cup WithFile \cup Archived \cup {"fetch"}
Proc == [pc : ProcPC, score : Scores \cup {None}, file : File, new : BOOLEAN,
         s3 : BOOLEAN, imslp : BOOLEAN]

ArchiveType ==
  /\ row \in [Scores -> Row] /\ partset \in [Partsets -> PartsetRow]
  /\ object \in [Scores -> File] /\ cached \in [Scores -> File]
  /\ images \in [Scores -> File] /\ analysed \in [Scores -> File]
  /\ proc \in [Actors -> Proc] /\ torn \in BOOLEAN

\* A request or job knows its score and its PDF where it needs them, from where on the
\* score has a row, and from where on it is archived.
Sound(r, rows, archive) ==
  /\ r.pc \in NoScore <=> r.score = None
  /\ r.pc \in WithFile \/ (r.pc = "commit" /\ r.new) => r.file # None
  /\ r.pc \in {"look", "replace", "reset", "wipe"} => Normal[r.file] = r.file
  /\ r.pc \notin NoScore \cup {"insert"} /\ (r.pc \in {"put", "commit"} => ~r.new) =>
       rows[r.score].hash # None
  /\ r.pc \in Archived => archive[r.score] # None

ArchivedInv ==
  /\ ArchivedPdf
  /\ \A s \in Scores : row[s].converted => row[s].s3
  /\ \A p \in Partsets : partset[p].score # None => row[partset[p].score].hash # None
  /\ \A a \in Actors : Sound(proc[a], row, object)

-----------------------------------------------------------------------------
(***************************************************************************)
(* Types, and what is archived.                                            *)
(***************************************************************************)
LEMMA Nothing == /\ NoProc \in Proc /\ NoRow \in Row /\ NoPartset \in PartsetRow
                 /\ \A rows, archive : Sound(NoProc, rows, archive)
  BY DEF NoProc, NoRow, NoPartset, Proc, Row, PartsetRow, ProcPC, NoScore, WithFile, Archived,
         File, Sound

LEMMA InitArchive == Init => ArchiveType /\ ArchivedInv
<1> SUFFICES ASSUME Init PROVE ArchiveType /\ ArchivedInv
  OBVIOUS
<1> DEFINE s == CHOOSE t \in Scores : TRUE
<1>1. PICK f \in Legacy \cup {None}, converted \in BOOLEAN :
        /\ row = [t \in Scores |-> IF t = s /\ f # None THEN OldRow(f, converted) ELSE NoRow]
        /\ object = [t \in Scores |-> IF t = s THEN f ELSE None]
        /\ cached \in {object, [t \in Scores |-> None]}
  BY DEF Init
<1> HIDE DEF s
<1>2. f \in File
  BY ScoreArchiveAssumption DEF ScoreArchiveAssumption, File
<1>3. OldRow(f, converted) \in Row /\ OldRow(f, converted).s3
  BY <1>2 DEF OldRow, Row
<1>4. ArchiveType
  BY <1>1, <1>2, <1>3, Nothing DEF Init, ArchiveType, File
<1>5. \A t \in Scores : row[t].s3 \/ row[t].converted => t = s /\ f # None /\ row[t].s3
  BY <1>1, <1>3 DEF NoRow
<1>6. \A t \in Scores : row[t].s3 => object[t] # None
  BY <1>1, <1>5
<1>7. ArchivedInv
  BY <1>5, <1>6, Nothing DEF Init, ArchivedInv, ArchivedPdf, NoPartset
<1> QED BY <1>4, <1>7

\* The moves of a request or a job.
LEMMA Moves ==
  ASSUME ArchiveType, NEW a \in Actors
  PROVE  /\ \A pc : Goto(a, pc) => proc' = [proc EXCEPT ![a] = [proc[a] EXCEPT !.pc = pc]]
         /\ \A pc, f : With(a, pc, f) =>
              proc' = [proc EXCEPT ![a] = [proc[a] EXCEPT !.pc = pc, !.file = f]]
  BY DEF ArchiveType, Goto, With

LEMMA GotoTypes ==
  ASSUME ArchiveType, NEW a \in Actors, NEW pc \in ProcPC
  PROVE  LET r == [proc[a] EXCEPT !.pc = pc]
         IN  /\ r \in Proc /\ r.pc = pc /\ r.score = proc[a].score /\ r.file = proc[a].file
             /\ r.new = proc[a].new
  BY DEF ArchiveType, Proc

LEMMA ErrorKeeps ==
  ASSUME ArchiveType, NEW a, SetError(a)
  PROVE  /\ partset' \in [Partsets -> PartsetRow]
         /\ \A p \in Partsets : partset'[p].score = partset[p].score
<1>1. CASE a \in Partsets
  <2> DEFINE x == [partset[a] EXCEPT !.error = TRUE]
  <2>1. x \in PartsetRow /\ x.score = partset[a].score
    BY <1>1 DEF ArchiveType, PartsetRow
  <2>2. partset' = partset \/ partset' = [partset EXCEPT ![a] = x]
    BY <1>1 DEF SetError, ArchiveType
  <2> HIDE DEF x
  <2> QED BY <2>1, <2>2 DEF ArchiveType
<1>2. CASE a \notin Partsets
  <2>1. partset' = partset
    BY <1>2 DEF SetError, ArchiveType
  <2> QED BY <2>1 DEF ArchiveType
<1> QED BY <1>1, <1>2

\* A step of one request or job that takes no PDF away.
LEMMA ArchiveGrows ==
  ASSUME ArchiveType, ArchivedInv, NEW a \in Actors, NEW r \in Proc, Sound(r, row', object'),
         proc' = [proc EXCEPT ![a] = r],
         \A s \in Scores : object[s] # None => object'[s] # None,
         \A s \in Scores : row[s].hash # None => row'[s].hash # None,
         \A s \in Scores : row'[s].s3 => row[s].s3 \/ object'[s] # None,
         \A s \in Scores : row'[s].converted => row'[s].s3,
         \A p \in Partsets : \/ partset'[p].score \in {None, partset[p].score}
                             \/ /\ object'[partset'[p].score] # None
                                /\ row'[partset'[p].score].hash # None
  PROVE  ArchivedInv'
<1>1. \A b \in Actors : proc'[b] \in Proc /\ (b # a => proc'[b] = proc[b]) /\ proc'[a] = r
  BY DEF ArchiveType
<1>2. \A b \in Actors : Sound(proc[b], row, object) => Sound(proc[b], row', object')
  <2> TAKE b \in Actors
  <2> SUFFICES ASSUME Sound(proc[b], row, object) PROVE Sound(proc[b], row', object')
    OBVIOUS
  <2>1. proc[b].pc \notin NoScore => proc[b].score \in Scores
    BY DEF Sound, ArchiveType, Proc
  <2> QED BY <2>1 DEF Sound, NoScore, Archived
<1>3. \A b \in Actors : Sound(proc'[b], row', object')
  BY <1>1, <1>2 DEF ArchivedInv
<1>4. \A p \in Partsets : partset[p].score \in Scores \cup {None}
  BY DEF ArchiveType, PartsetRow
<1>5. ArchivedPdf'
  BY <1>4 DEF ArchivedInv, ArchivedPdf
<1>6. \A p \in Partsets : partset'[p].score # None => row'[partset'[p].score].hash # None
  BY <1>4 DEF ArchivedInv
<1> QED BY <1>3, <1>5, <1>6 DEF ArchivedInv

\* Who takes up a score: with an id of its own, or one that has a row.
Arrives(r) ==
  /\ r.score \in Scores
  /\ \/ r.pc = "put" /\ r.new /\ r.score \in Free
     \/ r.pc = "insert" /\ r.score \in Free
     \/ /\ row[r.score].hash # None
        /\ r.pc \in {"put", "commit", "check", "attach", "load", "fetch"}
        /\ r.pc \in {"put", "commit"} => ~r.new
        /\ r.pc \in {"put", "check"} => r.file = row[r.score].hash

LEMMA NewIdFree == Free # {} => NewId \in Free /\ NewId \in Scores
  BY DEF NewId, Free

LEMMA StoreArrives ==
  ASSUME ArchiveType, ArchivedInv, NEW p \in Partsets, NEW f \in Files, NEW imslp \in BOOLEAN,
         NEW doubtful, Store(p, f, imslp, doubtful)
  PROVE  \E r \in Proc : proc' = [proc EXCEPT ![p] = r] /\ Sound(r, row, object) /\ Arrives(r)
<1> USE DEF NoScore, WithFile, Archived
<1>0. f \in File /\ f # None /\ \A s \in Scores : s # None /\ s \in Scores \cup {None}
  BY ScoreArchiveAssumption DEF ScoreArchiveAssumption, File
<1>1. ASSUME NEW s \in Known, Holds(s, f),
             Begin(p, s, FALSE, ~Reusable(s) /\ (~row[s].s3 \/ s \in doubtful), f, imslp)
      PROVE  \E r \in Proc : proc' = [proc EXCEPT ![p] = r] /\ Sound(r, row, object) /\ Arrives(r)
  <2> DEFINE put == ~Reusable(s) /\ (~row[s].s3 \/ s \in doubtful)
  <2>1. s \in Scores /\ row[s].hash # None
    BY DEF Known
  <2>2. ~put => object[s] # None
    BY <2>1 DEF ArchivedInv, ArchivedPdf, Reusable
  <2>3. Begin(p, s, FALSE, put, f, imslp)
    BY <1>1
  <2> HIDE DEF put
  <2>4. CASE put
    <3> DEFINE r == [pc |-> "put", score |-> s, file |-> f, new |-> FALSE,
                     s3 |-> put /\ ~FALSE, imslp |-> imslp]
    <3>1. proc' = [proc EXCEPT ![p] = r]
      BY <2>3, <2>4 DEF Begin
    <3>2. (put /\ ~FALSE) \in BOOLEAN
      OBVIOUS
    <3>3. r \in Proc /\ r.pc = "put" /\ r.score = s /\ r.file = f /\ ~r.new
      BY <1>0, <2>1, <3>2 DEF Proc, ProcPC
    <3> HIDE DEF r
    <3>4. Sound(r, row, object) /\ Arrives(r)
      BY <1>0, <2>1, <3>3, <1>1 DEF Sound, Arrives, Holds
    <3> QED BY <3>1, <3>3, <3>4
  <2>5. CASE ~put
    <3> DEFINE r == [pc |-> "commit", score |-> s, file |-> f, new |-> FALSE,
                     s3 |-> put /\ ~FALSE, imslp |-> imslp]
    <3>1. proc' = [proc EXCEPT ![p] = r]
      BY <2>3, <2>5 DEF Begin
    <3>2. (put /\ ~FALSE) \in BOOLEAN
      OBVIOUS
    <3>3. r \in Proc /\ r.pc = "commit" /\ r.score = s /\ r.file = f /\ ~r.new
      BY <1>0, <2>1, <3>2 DEF Proc, ProcPC
    <3> HIDE DEF r
    <3>4. Sound(r, row, object) /\ Arrives(r)
      BY <1>0, <2>1, <2>2, <2>5, <3>3, <1>1 DEF Sound, Arrives, Holds
    <3> QED BY <3>1, <3>3, <3>4
  <2> QED BY <2>4, <2>5
<1>2. CASE Free # {} /\ Begin(p, NewId, TRUE, TRUE, f, imslp)
  <2> DEFINE r == [pc |-> "put", score |-> NewId, file |-> f, new |-> TRUE,
                   s3 |-> TRUE /\ ~TRUE, imslp |-> imslp]
  <2>1. proc' = [proc EXCEPT ![p] = r]
    BY <1>2 DEF Begin
  <2>2. (TRUE /\ ~TRUE) \in BOOLEAN
    OBVIOUS
  <2>3. r \in Proc /\ r.pc = "put" /\ r.score = NewId /\ r.file = f /\ r.new
    BY <1>0, <1>2, NewIdFree, <2>2 DEF Proc, ProcPC
  <2> HIDE DEF r
  <2>4. Sound(r, row, object) /\ Arrives(r)
    BY <1>0, <1>2, <2>3, NewIdFree DEF Sound, Arrives
  <2> QED BY <2>1, <2>3, <2>4
<1> QED BY <1>1, <1>2 DEF Store

LEMMA PartsetSet ==
  ASSUME ArchiveType, NEW p, NEW x \in PartsetRow, partset' = [partset EXCEPT ![p] = x]
  PROVE  /\ partset' \in [Partsets -> PartsetRow]
         /\ \A q \in Partsets : partset'[q] = IF q = p THEN x ELSE partset[q]
  BY DEF ArchiveType

\* The PDF of a score that has a row may come to be cached.
MayFill(s) == cached'[s] = cached[s] \/ (row[s].hash # None /\ cached'[s] = object[s])

\* A request that creates a partset, and the start of an import, change no score.
Requested(p) ==
  /\ UNCHANGED <<row, object, images, analysed, torn>>
  /\ cached' \in [Scores -> File] /\ \A s \in Scores : MayFill(s)
  /\ partset' \in [Partsets -> PartsetRow]
  /\ \A q \in Partsets : \/ partset'[q].score = partset[q].score
                         \/ partset'[q].score \in Known /\ row[partset'[q].score].s3
  /\ proc[p].pc = "idle"
  /\ \E r \in Proc : /\ proc' = [proc EXCEPT ![p] = r] /\ Sound(r, row, object)
                     /\ r.score = None \/ Arrives(r)

\* A request that leaves its process where it is.
LEMMA StaysIdle ==
  ASSUME ArchiveType, ArchivedInv, NEW p \in Partsets, At(p, "idle"), proc' = proc
  PROVE  \E r \in Proc : /\ proc' = [proc EXCEPT ![p] = r] /\ Sound(r, row, object)
                         /\ r.score = None \/ Arrives(r)
<1>1. /\ proc[p] \in Proc /\ proc' = [proc EXCEPT ![p] = proc[p]]
      /\ Sound(proc[p], row, object)
  BY DEF ArchiveType, ArchivedInv, Actors
<1>2. proc[p].score = None
  BY <1>1 DEF At, Sound, NoScore
<1> QED BY <1>1, <1>2

LEMMA CacheStays ==
  ASSUME ArchiveType, cached' = cached
  PROVE  cached' \in [Scores -> File] /\ \A s \in Scores : MayFill(s)
  BY DEF ArchiveType, MayFill

LEMMA CacheFills ==
  ASSUME ArchiveType, NEW f,
         cached' = [s \in Scores |-> IF s \in Looked(f) THEN InCache(s) ELSE cached[s]]
  PROVE  cached' \in [Scores -> File] /\ \A s \in Scores : MayFill(s)
<1>1. \A s \in Scores : /\ cached[s] \in File /\ object[s] \in File
                        /\ InCache(s) = cached[s] \/ InCache(s) = object[s]
  BY DEF ArchiveType, InCache
<1>2. cached' \in [Scores -> File]
  BY <1>1
<1>3. \A s \in Scores : MayFill(s)
  <2> TAKE s \in Scores
  <2>1. CASE s \in Looked(f)
    <3>1. row[s].hash # None /\ cached'[s] = InCache(s)
      BY <2>1 DEF Looked, Known
    <3> QED BY <1>1, <3>1 DEF MayFill
  <2>2. CASE s \notin Looked(f)
    BY <2>2 DEF MayFill
  <2> QED BY <2>1, <2>2
<1> QED BY <1>2, <1>3

LEMMA CreateRequested ==
  ASSUME ArchiveType, ArchivedInv, NEW p \in Partsets, Create(p)
  PROVE  Requested(p)
<1>0. partset[p] \in PartsetRow /\ partset \in [Partsets -> PartsetRow]
  BY DEF ArchiveType
<1>1. CASE CreateFromPdf(p)
  <2>1. PICK f \in Files : Store(p, f, FALSE, {})
    BY <1>1 DEF CreateFromPdf
  <2>2. \E r \in Proc : proc' = [proc EXCEPT ![p] = r] /\ Sound(r, row, object) /\ Arrives(r)
    BY <2>1, StoreArrives
  <2>3. /\ proc[p].pc = "idle" /\ partset' = partset
        /\ UNCHANGED <<row, object, cached, images, analysed, torn>>
    BY <1>1 DEF CreateFromPdf, At, store
  <2> QED BY <1>0, <2>2, <2>3, CacheStays DEF Requested
<1>2. CASE CreateFromImslp(p)
  <2>0. proc[p].pc = "idle" /\ UNCHANGED <<row, object, images, analysed, torn>>
    BY <1>2 DEF CreateFromImslp, At
  <2>1. CASE (\E s \in Known : row[s].imslp /\ Reusable(s) /\ Begin(p, s, FALSE, FALSE, None, FALSE))
             /\ UNCHANGED <<partset, cached, cnt>>
    <3>1. PICK s \in Known : row[s].converted /\ Begin(p, s, FALSE, FALSE, None, FALSE)
      BY <2>1 DEF Reusable
    <3> DEFINE r == [pc |-> "commit", score |-> s, file |-> None, new |-> FALSE,
                     s3 |-> FALSE /\ ~FALSE, imslp |-> FALSE]
    <3>2. proc' = [proc EXCEPT ![p] = r]
      BY <3>1 DEF Begin
    <3>3. (FALSE /\ ~FALSE) \in BOOLEAN
      OBVIOUS
    <3>4. s \in Scores /\ row[s].hash # None /\ s # None
      BY ScoreArchiveAssumption DEF Known, ScoreArchiveAssumption
    <3>5. object[s] # None
      BY <3>1, <3>4 DEF ArchivedInv, ArchivedPdf
    <3>6. r \in Proc /\ r.pc = "commit" /\ r.score = s /\ r.file = None /\ ~r.new
      BY <3>3, <3>4 DEF Proc, ProcPC, Archived, File
    <3> HIDE DEF r
    <3>7. Sound(r, row, object) /\ Arrives(r)
      BY <3>4, <3>5, <3>6 DEF Sound, Arrives, NoScore, WithFile, Archived
    <3> QED BY <1>0, <2>0, <2>1, <3>2, <3>6, <3>7, CacheStays DEF Requested
  <2>2. CASE (\E f \in Inline : Ingest(p, f)) /\ UNCHANGED partset
    <3>1. PICK f \in Files : Ingest(p, f)
      BY <2>2, ScoreArchiveAssumption DEF Inline, ScoreArchiveAssumption
    <3>2. \E r \in Proc : proc' = [proc EXCEPT ![p] = r] /\ Sound(r, row, object) /\ Arrives(r)
      BY <3>1, StoreArrives DEF Ingest
    <3>3. cached' \in [Scores -> File] /\ \A s \in Scores : MayFill(s)
      BY <3>1, CacheStays, CacheFills DEF Ingest
    <3> QED BY <1>0, <2>0, <2>2, <3>2, <3>3 DEF Requested
  <2>3. CASE /\ partset' = [partset EXCEPT ![p].made = TRUE, ![p].imslp = TRUE]
             /\ UNCHANGED <<proc, cached, cnt>>
    <3> DEFINE x == [partset[p] EXCEPT !.made = TRUE, !.imslp = TRUE]
    <3>1. x \in PartsetRow /\ x.score = partset[p].score
      BY <1>0 DEF PartsetRow
    <3>2. partset' = [partset EXCEPT ![p] = x]
      BY <1>0, <2>3
    <3> HIDE DEF x
    <3> QED BY <2>0, <2>3, <3>1, <3>2, PartsetSet, StaysIdle, CacheStays DEF Requested, At
  <2> QED BY <1>2, <2>1, <2>2, <2>3 DEF CreateFromImslp
<1>3. CASE CreateFromScore(p)
  <2>1. PICK s \in Known :
          /\ row[s].s3
          /\ partset' = [partset EXCEPT ![p].made = TRUE, ![p].score = s,
                                        ![p].complete = analysed[s] # None]
    BY <1>3 DEF CreateFromScore
  <2> DEFINE c == analysed[s] # None
             x == [partset[p] EXCEPT !.made = TRUE, !.score = s, !.complete = c]
  <2>2. c \in BOOLEAN /\ s \in Scores
    BY DEF Known
  <2>3. partset' = [partset EXCEPT ![p] = x]
    BY <1>0, <2>1
  <2> HIDE DEF c
  <2>4. x \in PartsetRow /\ x.score = s
    BY <1>0, <2>2 DEF PartsetRow
  <2> HIDE DEF x
  <2>5. /\ At(p, "idle") /\ proc' = proc
        /\ UNCHANGED <<row, object, cached, images, analysed, torn>>
    BY <1>3 DEF CreateFromScore, store
  <2> QED BY <2>1, <2>3, <2>4, <2>5, PartsetSet, StaysIdle, CacheStays DEF Requested, At
<1> QED BY <1>1, <1>2, <1>3 DEF Create

LEMMA StartRequested ==
  ASSUME ArchiveType, ArchivedInv, NEW p \in Partsets, Start(p)
  PROVE  Requested(p)
<1> DEFINE x == [partset[p] EXCEPT !.error = FALSE]
           l == [NoProc EXCEPT !.pc = "load", !.score = partset[p].score]
           d == [NoProc EXCEPT !.pc = "download"]
<1>1. x \in PartsetRow /\ x.score = partset[p].score /\ partset[p].score \in Scores \cup {None}
  BY DEF ArchiveType, PartsetRow
<1>2. partset' = [partset EXCEPT ![p] = x]
  BY DEF Start
<1>3. d \in Proc /\ d.pc = "download" /\ d.score = None
  BY Nothing DEF NoProc, Proc, ProcPC, NoScore
<1>4. l \in Proc /\ l.pc = "load" /\ l.score = partset[p].score
  BY <1>1, Nothing DEF NoProc, Proc, ProcPC, Archived
<1>5. proc' = [proc EXCEPT ![p] = IF partset[p].score # None THEN l ELSE d]
  BY DEF Start
<1> HIDE DEF x, l, d
<1>6. Sound(d, row, object)
  BY <1>3 DEF Sound, NoScore, WithFile, Archived
<1>7. partset[p].score # None => Sound(l, row, object) /\ Arrives(l)
  BY <1>1, <1>4 DEF Sound, NoScore, WithFile, Archived, Arrives, ArchivedInv, ArchivedPdf
<1>8. At(p, "idle") /\ UNCHANGED <<row, object, cached, images, analysed, torn>>
  BY DEF Start, store
<1> QED BY <1>1, <1>2, <1>3, <1>4, <1>5, <1>6, <1>7, <1>8, PartsetSet, CacheStays DEF Requested, At

LEMMA ProcSet ==
  ASSUME ArchiveType, NEW a \in Actors, NEW r \in Proc, proc' = [proc EXCEPT ![a] = r]
  PROVE  /\ proc' \in [Actors -> Proc] /\ proc'[a] = r
         /\ \A b \in Actors : b # a => proc'[b] = proc[b]
  BY DEF ArchiveType

LEMMA RequestedArchive ==
  ASSUME ArchiveType, ArchivedInv, NEW p \in Partsets, Requested(p)
  PROVE  ArchiveType' /\ ArchivedInv'
<1>1. PICK r \in Proc : proc' = [proc EXCEPT ![p] = r] /\ Sound(r, row, object)
  BY DEF Requested
<1>2. p \in Actors
  BY DEF Actors
<1>3. ArchiveType'
  BY <1>1, <1>2, ProcSet DEF Requested, ArchiveType
<1>4. \A q \in Partsets : \/ partset'[q].score = partset[q].score
                          \/ /\ object[partset'[q].score] # None
                             /\ row[partset'[q].score].hash # None
  BY DEF Requested, ArchivedInv, ArchivedPdf, Known
<1>5. row' = row /\ object' = object
  BY DEF Requested
<1>6. ArchivedInv'
  BY <1>1, <1>2, <1>4, <1>5, ArchiveGrows DEF ArchivedInv
<1> QED BY <1>3, <1>6

\* What a step of a request, a job or the script does to its own record: it has
\* the score in hand that it had, or takes one up, or ends.
Stepped(a, r) ==
  /\ r \in Proc /\ proc' = [proc EXCEPT ![a] = r] /\ Sound(r, row', object')

\* The rows of the scores, and the archive, after a step.
Keeps ==
  /\ row' \in [Scores -> Row] /\ object' \in [Scores -> File]
  /\ \A s \in Scores : object[s] # None => object'[s] # None
  /\ \A s \in Scores : row[s].hash # None => row'[s].hash # None
  /\ \A s \in Scores : row'[s].s3 => row[s].s3 \/ object'[s] # None
  /\ \A s \in Scores : row'[s].converted => row'[s].s3
  /\ partset' \in [Partsets -> PartsetRow]
  /\ \A p \in Partsets : \/ partset'[p].score \in {None, partset[p].score}
                         \/ /\ object'[partset'[p].score] # None
                            /\ row'[partset'[p].score].hash # None

LEMMA KeepsArchive ==
  ASSUME ArchiveType, ArchivedInv, NEW a \in Actors, \E r : Stepped(a, r), Keeps,
         cached' \in [Scores -> File], images' \in [Scores -> File],
         analysed' \in [Scores -> File], torn' \in BOOLEAN
  PROVE  ArchiveType' /\ ArchivedInv'
<1>1. PICK r : Stepped(a, r)
  OBVIOUS
<1>2. ArchiveType'
  BY <1>1, ProcSet DEF Stepped, Keeps, ArchiveType
<1> QED BY <1>1, <1>2, ArchiveGrows DEF Stepped, Keeps

LEMMA SameRows ==
  ASSUME ArchiveType, ArchivedInv, row' = row, object' = object,
         partset' \in [Partsets -> PartsetRow],
         \A p \in Partsets : partset'[p].score = partset[p].score
  PROVE  Keeps
  BY DEF Keeps, ArchiveType, ArchivedInv

\* A PDF is put.
LEMMA PutKeeps ==
  ASSUME ArchiveType, ArchivedInv, NEW s \in Scores, NEW f \in File, f # None,
         object' = [object EXCEPT ![s] = f], row' = row, partset' \in [Partsets -> PartsetRow],
         \A p \in Partsets : partset'[p].score = partset[p].score
  PROVE  Keeps /\ object'[s] = f
<1>1. /\ object' \in [Scores -> File] /\ object'[s] = f
      /\ \A t \in Scores : t # s => object'[t] = object[t]
  BY DEF ArchiveType
<1> QED BY <1>1 DEF Keeps, ArchiveType, ArchivedInv

\* A row is written.
LEMMA RowKeeps ==
  ASSUME ArchiveType, ArchivedInv, NEW s \in Scores, NEW x \in Row,
         row' = [row EXCEPT ![s] = x], object' = object, x.hash # None,
         x.s3 => row[s].s3 \/ object[s] # None, x.converted => x.s3,
         partset' \in [Partsets -> PartsetRow],
         \A p \in Partsets : \/ partset'[p].score = partset[p].score
                             \/ partset'[p].score = s /\ object[s] # None
  PROVE  Keeps
<1>1. /\ row' \in [Scores -> Row] /\ row'[s] = x
      /\ \A t \in Scores : t # s => row'[t] = row[t]
  BY DEF ArchiveType
<1> QED BY <1>1 DEF Keeps, ArchiveType, ArchivedInv

LEMMA Record ==
  ASSUME ArchiveType, ArchivedInv, NEW a \in Actors
  PROVE  /\ proc[a] \in Proc /\ Sound(proc[a], row, object) /\ None \notin Files \cup Scores
         /\ proc[a].pc \notin NoScore => Here(a) \in Scores /\ row[Here(a)] \in Row
         /\ proc[a].file \in File
  BY ScoreArchiveAssumption
  DEF ArchiveType, ArchivedInv, Sound, Proc, Here, ScoreArchiveAssumption

LEMMA EndStep == ASSUME ArchiveType, NEW a, End(a) PROVE Stepped(a, NoProc)
  BY Nothing DEF End, Stepped

LEMMA RaiseStep ==
  ASSUME ArchiveType, ArchivedInv, NEW a \in Actors, Raise(a), row' = row, object' = object
  PROVE  Stepped(a, NoProc) /\ Keeps
  BY EndStep, ErrorKeeps, SameRows DEF Raise

LEMMA GotoStep ==
  ASSUME ArchiveType, ArchivedInv, NEW a \in Actors, NEW pc \in ProcPC \ NoScore, Goto(a, pc),
         proc[a].pc \notin NoScore,
         pc \in WithFile \/ (pc = "commit" /\ proc[a].new) => proc[a].file # None,
         pc \in {"replace", "reset", "wipe"} => Normal[proc[a].file] = proc[a].file,
         pc # "insert" /\ (pc \in {"put", "commit"} => ~proc[a].new) => row'[Here(a)].hash # None,
         pc \in Archived => object'[Here(a)] # None
  PROVE  Stepped(a, [proc[a] EXCEPT !.pc = pc])
<1> DEFINE r == [proc[a] EXCEPT !.pc = pc]
<1>1. /\ r \in Proc /\ r.pc = pc /\ r.score = proc[a].score /\ r.file = proc[a].file
      /\ r.new = proc[a].new
  BY GotoTypes
<1>2. proc' = [proc EXCEPT ![a] = r]
  BY Moves
<1>3. r.score # None
  BY <1>1, Record DEF Here
<1> HIDE DEF r
<1>4. Sound(r, row', object')
  BY <1>1, <1>3 DEF Sound, NoScore, Here
<1>5. Stepped(a, r)
  BY <1>1, <1>2, <1>4 DEF Stepped
<1> QED BY <1>5 DEF r

LEMMA WithStep ==
  ASSUME ArchiveType, ArchivedInv, NEW a \in Actors, NEW f \in File, f # None,
         NEW pc \in {"copy", "replace"}, With(a, pc, f), proc[a].pc \notin NoScore,
         pc = "replace" => Normal[f] = f,
         row'[Here(a)].hash # None, object'[Here(a)] # None \/ pc = "replace"
  PROVE  Stepped(a, [proc[a] EXCEPT !.pc = pc, !.file = f])
<1> DEFINE r == [proc[a] EXCEPT !.pc = pc, !.file = f]
<1>1. r \in Proc /\ r.pc = pc /\ r.score = proc[a].score /\ r.file = f /\ r.new = proc[a].new
  BY Record DEF Proc, ProcPC, WithFile
<1>2. proc' = [proc EXCEPT ![a] = r]
  BY DEF With, ArchiveType
<1>3. r.score # None
  BY <1>1, Record DEF Here
<1> HIDE DEF r
<1>4. Sound(r, row', object')
  BY <1>1, <1>3 DEF Sound, NoScore, Archived, Here
<1>5. Stepped(a, r)
  BY <1>1, <1>2, <1>4 DEF Stepped
<1> QED BY <1>5 DEF r

\* The steps of requests and jobs.  What the caches hold is a matter of types here.
LEMMA StepArchive ==
  ASSUME ArchiveType, ArchivedInv, NEW a \in Actors, Step(a)
  PROVE  ArchiveType' /\ ArchivedInv'
<1> DEFINE s == Here(a)
<1>0. /\ proc[a] \in Proc /\ Sound(proc[a], row, object) /\ None \notin Files \cup Scores
      /\ proc[a].pc \notin NoScore => s \in Scores /\ row[s] \in Row
      /\ proc[a].file \in File
  BY Record
<1>t. /\ row \in [Scores -> Row] /\ partset \in [Partsets -> PartsetRow]
      /\ object \in [Scores -> File] /\ cached \in [Scores -> File]
      /\ images \in [Scores -> File] /\ analysed \in [Scores -> File]
      /\ torn \in BOOLEAN
      /\ \A t \in Scores : row[t].converted => row[t].s3
      /\ \A t \in Scores : row[t].s3 => object[t] # None
  BY DEF ArchiveType, ArchivedInv, ArchivedPdf
<1> HIDE DEF s
<1> USE DEF NoScore, WithFile, Archived, ProcPC
<1>1. CASE Put(a)
  <2>1. /\ proc[a].pc = "put" /\ Goto(a, "commit") /\ row' = row /\ partset' = partset
        /\ object' = [object EXCEPT ![s] = proc[a].file]
        /\ UNCHANGED <<cached, images, analysed>> /\ torn' \in BOOLEAN
    BY <1>1 DEF Put, At, s
  <2>2. proc[a].file # None /\ (~proc[a].new => row[s].hash # None)
    BY <1>0, <2>1 DEF Sound, Here, s
  <2>3. Keeps /\ object'[s] # None
    BY <1>0, <1>t, <2>1, <2>2, PutKeeps
  <2>4. Stepped(a, [proc[a] EXCEPT !.pc = "commit"])
    BY <2>1, <2>2, <2>3, GotoStep DEF s
  <2> QED BY <1>t, <2>1, <2>3, <2>4, KeepsArchive
<1>2. CASE Commit(a)
  <2>1. /\ proc[a].pc = "commit" /\ End(a) /\ UNCHANGED <<object, cached, images, analysed, torn>>
    BY <1>2 DEF Commit, At, store
  <2>2. /\ proc[a].new => proc[a].file # None
        /\ ~proc[a].new => row[s].hash # None
        /\ object[s] # None /\ s \in Scores /\ row[s] \in Row
    BY <1>0, <2>1 DEF Sound, Here, s
  <2>3. CASE row' = row /\ partset' = partset
    <3>1. Keeps
      BY <1>t, <2>1, <2>3, SameRows
    <3> QED BY <1>t, <2>1, <3>1, EndStep, KeepsArchive
  <2>4. CASE /\ partset' = [partset EXCEPT ![a].made = TRUE, ![a].score = s]
             /\ \/ /\ proc[a].new
                   /\ row' = [row EXCEPT ![s] = [NoRow EXCEPT !.hash = proc[a].file,
                                                              !.imslp = proc[a].imslp]]
                \/ /\ ~proc[a].new
                   /\ row' = [row EXCEPT ![s].s3 = @ \/ proc[a].s3, ![s].imslp = @ \/ proc[a].imslp]
    <3> DEFINE n == [NoRow EXCEPT !.hash = proc[a].file, !.imslp = proc[a].imslp]
               b == row[s].s3 \/ proc[a].s3
               c == row[s].imslp \/ proc[a].imslp
               o == [row[s] EXCEPT !.s3 = b, !.imslp = c]
               x == [partset[a] EXCEPT !.made = TRUE, !.score = s]
    <3>1. n \in Row /\ n.hash = proc[a].file /\ ~n.s3 /\ ~n.converted
      BY <1>0, Nothing DEF NoRow, Row, Proc
    <3>2. b \in BOOLEAN /\ c \in BOOLEAN
      OBVIOUS
    <3>3. ~proc[a].new => row' = [row EXCEPT ![s] = o]
      BY <1>t, <2>2, <2>4
    <3> HIDE DEF b, c
    <3>4. o \in Row /\ o.hash = row[s].hash /\ o.s3 = b /\ o.converted = row[s].converted
      BY <2>2, <3>2 DEF Row
    <3>5. o.converted => o.s3
      BY <1>t, <2>2, <3>4 DEF b
    <3>6. /\ partset' \in [Partsets -> PartsetRow]
          /\ \A q \in Partsets : \/ partset'[q].score = partset[q].score
                                 \/ partset'[q].score = s
      <4>1. CASE a \in Partsets
        <5>1. x \in PartsetRow /\ x.score = s
          BY <1>t, <2>2, <4>1 DEF PartsetRow
        <5>2. partset' = [partset EXCEPT ![a] = x]
          BY <1>t, <2>4, <4>1
        <5> HIDE DEF x
        <5> QED BY <5>1, <5>2, PartsetSet
      <4>2. CASE a \notin Partsets
        <5>1. partset' = partset
          BY <1>t, <2>4, <4>2
        <5> QED BY <1>t, <5>1
      <4> QED BY <4>1, <4>2
    <3> HIDE DEF n, o, x
    <3>7. CASE proc[a].new
      <4>1. row' = [row EXCEPT ![s] = n]
        BY <2>4, <3>7 DEF n
      <4>2. Keeps
        BY <2>1, <2>2, <3>1, <3>6, <3>7, <4>1, RowKeeps
      <4> QED BY <1>t, <2>1, <4>2, EndStep, KeepsArchive
    <3>8. CASE ~proc[a].new
      <4>1. Keeps
        BY <2>1, <2>2, <3>3, <3>4, <3>5, <3>6, <3>8, RowKeeps
      <4> QED BY <1>t, <2>1, <4>1, EndStep, KeepsArchive
    <3> QED BY <3>7, <3>8
  <2> QED BY <1>2, <2>3, <2>4 DEF Commit, s
<1>3. CASE Download(a)
  <2>1. /\ proc[a].pc = "download"
        /\ UNCHANGED <<row, object, cached, images, analysed, torn>>
    BY <1>3 DEF Download, At, store
  <2>2. CASE \E t \in Known : /\ row[t].imslp /\ Reusable(t)
                              /\ proc' = [proc EXCEPT ![a].pc = "attach", ![a].score = t]
                              /\ UNCHANGED partset
    <3>1. PICK t \in Known : /\ row[t].converted /\ partset' = partset
                             /\ proc' = [proc EXCEPT ![a].pc = "attach", ![a].score = t]
      BY <2>2 DEF Reusable
    <3> DEFINE r == [proc[a] EXCEPT !.pc = "attach", !.score = t]
    <3>2. t \in Scores /\ row[t].hash # None /\ object[t] # None
      BY <1>t, <3>1 DEF Known
    <3>3. r \in Proc /\ r.pc = "attach" /\ r.score = t
      BY <1>0, <3>2 DEF Proc
    <3>4. proc' = [proc EXCEPT ![a] = r]
      BY <3>1 DEF ArchiveType
    <3> HIDE DEF r
    <3>5. Stepped(a, r)
      BY <1>0, <2>1, <3>2, <3>3, <3>4 DEF Stepped, Sound
    <3>6. Keeps
      BY <1>t, <2>1, <3>1, SameRows
    <3> QED BY <1>t, <2>1, <3>5, <3>6, KeepsArchive
  <2>3. CASE Raise(a)
    BY <1>t, <2>1, <2>3, RaiseStep, KeepsArchive
  <2>4. CASE \E f \in Editions : Repairable(f) /\ With(a, "look", Normal[f]) /\ UNCHANGED partset
    <3>1. PICK f \in Editions :
            Repairable(f) /\ With(a, "look", Normal[f]) /\ partset' = partset
      BY <2>4
    <3>2. Normal[f] \in File /\ Normal[f] # None /\ Normal[Normal[f]] = Normal[f]
      BY <3>1, ScoreArchiveAssumption DEF ScoreArchiveAssumption, Repairable, File
    <3> DEFINE g == Normal[f]
               r == [proc[a] EXCEPT !.pc = "look", !.file = g]
    <3>3. proc' = [proc EXCEPT ![a] = r]
      BY <3>1 DEF With, ArchiveType
    <3> HIDE DEF g
    <3>4. r \in Proc /\ r.pc = "look" /\ r.score = proc[a].score /\ r.file = g
      BY <1>0, <3>2 DEF Proc, g
    <3> HIDE DEF r
    <3>5. proc[a].score = None
      BY <1>0, <2>1 DEF Sound
    <3>6. Stepped(a, r)
      BY <3>2, <3>3, <3>4, <3>5 DEF Stepped, Sound, g
    <3>7. Keeps
      BY <1>t, <2>1, <3>1, SameRows
    <3> QED BY <1>t, <2>1, <3>6, <3>7, KeepsArchive
  <2> QED BY <1>3, <2>2, <2>3, <2>4 DEF Download
<1>4. CASE LookUp(a)
  <2>1. /\ proc[a].pc = "look" /\ UNCHANGED <<object, cached, images, analysed, partset, torn>>
    BY <1>4 DEF LookUp, At, store
  <2>2. proc[a].file # None
    BY <1>0, <2>1 DEF Sound
  <2>3. CASE \E t \in Known : /\ row' = [row EXCEPT ![t].imslp = TRUE]
                              /\ proc' = [proc EXCEPT ![a].pc = "check", ![a].score = t]
    <3>1. PICK t \in Known : /\ row' = [row EXCEPT ![t].imslp = TRUE]
                             /\ proc' = [proc EXCEPT ![a].pc = "check", ![a].score = t]
      BY <2>3
    <3> DEFINE r == [proc[a] EXCEPT !.pc = "check", !.score = t]
               x == [row[t] EXCEPT !.imslp = TRUE]
    <3>2. t \in Scores /\ row[t].hash # None
      BY DEF Known
    <3>3. r \in Proc /\ r.pc = "check" /\ r.score = t /\ r.file = proc[a].file
      BY <1>0, <3>2 DEF Proc
    <3>4. x \in Row /\ x.hash = row[t].hash /\ x.s3 = row[t].s3 /\ x.converted = row[t].converted
      BY <1>t, <3>2 DEF Row
    <3>5. proc' = [proc EXCEPT ![a] = r] /\ row' = [row EXCEPT ![t] = x]
      BY <1>t, <3>1 DEF ArchiveType
    <3> HIDE DEF r, x
    <3>6. row'[t].hash # None
      BY <1>t, <3>2, <3>4, <3>5
    <3>7. Stepped(a, r)
      BY <1>0, <2>2, <3>2, <3>3, <3>5, <3>6 DEF Stepped, Sound
    <3>8. Keeps
      BY <1>t, <2>1, <3>2, <3>4, <3>5, RowKeeps
    <3> QED BY <1>t, <2>1, <3>7, <3>8, KeepsArchive
  <2>4. CASE /\ Free # {} /\ proc' = [proc EXCEPT ![a].pc = "insert", ![a].score = NewId]
             /\ UNCHANGED row
    <3> DEFINE t == NewId
               r == [proc[a] EXCEPT !.pc = "insert", !.score = t]
    <3>1. t \in Scores
      BY <2>4, NewIdFree
    <3>2. proc' = [proc EXCEPT ![a] = r]
      BY <2>4 DEF ArchiveType
    <3> HIDE DEF t
    <3>3. r \in Proc /\ r.pc = "insert" /\ r.score = t /\ r.file = proc[a].file
      BY <1>0, <3>1 DEF Proc
    <3> HIDE DEF r
    <3>4. Stepped(a, r)
      BY <1>0, <2>2, <3>1, <3>2, <3>3 DEF Stepped, Sound
    <3>5. Keeps
      BY <1>t, <2>1, <2>4, SameRows
    <3> QED BY <1>t, <2>1, <3>4, <3>5, KeepsArchive
  <2> QED BY <1>4, <2>3, <2>4 DEF LookUp
<1>5. CASE CheckArchive(a)
  <2>1. /\ proc[a].pc = "check"
        /\ UNCHANGED <<row, object, cached, images, analysed, partset, torn>>
        /\ row[s].hash # None
    BY <1>0, <1>5 DEF CheckArchive, At, store, Sound, Here, s
  <2>2. Keeps
    BY <1>t, <2>1, SameRows
  <2>3. CASE Goto(a, "attach") /\ Repairable(object[s])
    <3>1. Stepped(a, [proc[a] EXCEPT !.pc = "attach"])
      BY <2>1, <2>3, GotoStep DEF Repairable, s
    <3> QED BY <1>t, <2>1, <2>2, <3>1, KeepsArchive
  <2>4. CASE Goto(a, "archive")
    <3>1. proc[a].file # None
      BY <1>0, <2>1 DEF Sound
    <3>2. Stepped(a, [proc[a] EXCEPT !.pc = "archive"])
      BY <2>1, <2>4, <3>1, GotoStep DEF s
    <3> QED BY <1>t, <2>1, <2>2, <3>2, KeepsArchive
  <2> QED BY <1>5, <2>3, <2>4 DEF CheckArchive, s
<1>6. CASE Archive(a) \/ Upload(a) \/ Replace(a)
  <2>1. /\ proc[a].pc \in {"archive", "upload", "replace"} /\ row' = row /\ partset' = partset
        /\ object' = [object EXCEPT ![s] = proc[a].file]
        /\ UNCHANGED <<cached, images, analysed>> /\ torn' \in BOOLEAN
        /\ Goto(a, IF proc[a].pc = "archive" THEN "stamp"
                   ELSE IF proc[a].pc = "upload" THEN "attach" ELSE "reset")
    BY <1>6 DEF Archive, Upload, Replace, At, s
  <2>2. /\ proc[a].file # None /\ row[s].hash # None
        /\ proc[a].pc = "replace" => Normal[proc[a].file] = proc[a].file
    BY <1>0, <2>1 DEF Sound, Here, s
  <2>3. Keeps /\ object'[s] # None
    BY <1>0, <1>t, <2>1, <2>2, PutKeeps
  <2> DEFINE pc == IF proc[a].pc = "archive" THEN "stamp"
                   ELSE IF proc[a].pc = "upload" THEN "attach" ELSE "reset"
  <2>4. pc \in {"stamp", "attach", "reset"} /\ Goto(a, pc) /\ (pc = "reset" => proc[a].pc = "replace")
    BY <2>1
  <2> HIDE DEF pc
  <2>5. Stepped(a, [proc[a] EXCEPT !.pc = pc])
    BY <2>1, <2>2, <2>3, <2>4, GotoStep DEF s
  <2> QED BY <1>t, <2>1, <2>3, <2>5, KeepsArchive
<1>7. CASE StampArchived(a) \/ MarkConverted(a)
  <2> DEFINE x == IF At(a, "stamp") THEN [row[s] EXCEPT !.s3 = TRUE]
                  ELSE [row[s] EXCEPT !.s3 = TRUE, !.converted = TRUE]
             pc == IF At(a, "stamp") THEN "attach" ELSE "analyse"
  <2>1. /\ proc[a].pc \in {"stamp", "mark"} /\ partset' = partset /\ Goto(a, pc)
        /\ UNCHANGED <<object, cached, images, analysed, torn>>
    BY <1>7 DEF StampArchived, MarkConverted, At, store
  <2>2. row[s].hash # None /\ object[s] # None /\ (pc = "analyse" => proc[a].file # None)
    BY <1>0, <2>1 DEF Sound, Here, s, At
  <2>3. row' = [row EXCEPT ![s] = x]
    BY <1>0, <1>t, <1>7, <2>1 DEF StampArchived, MarkConverted, At, s
  <2>4. /\ x \in Row /\ x.hash = row[s].hash /\ x.s3
    BY <1>0, <2>1 DEF Row
  <2>5. pc \in {"attach", "analyse"}
    OBVIOUS
  <2> HIDE DEF x, pc
  <2>6. Keeps /\ row'[s].hash # None
    BY <1>0, <1>t, <2>1, <2>2, <2>3, <2>4, RowKeeps
  <2>7. Stepped(a, [proc[a] EXCEPT !.pc = pc])
    BY <2>1, <2>2, <2>5, <2>6, GotoStep DEF s
  <2> QED BY <1>t, <2>1, <2>6, <2>7, KeepsArchive
<1>8. CASE Insert(a)
  <2>1. /\ proc[a].pc = "insert" /\ UNCHANGED <<object, cached, images, analysed, torn>>
        /\ proc[a].file # None
    BY <1>0, <1>8 DEF Insert, At, store, Sound
  <2>2. CASE Raise(a) /\ row' = row
    BY <1>t, <2>1, <2>2, RaiseStep, KeepsArchive
  <2>3. CASE /\ row' = [row EXCEPT ![s] = [NoRow EXCEPT !.hash = proc[a].file, !.imslp = TRUE]]
             /\ Goto(a, "upload") /\ partset' = partset
    <3> DEFINE x == [NoRow EXCEPT !.hash = proc[a].file, !.imslp = TRUE]
    <3>1. x \in Row /\ x.hash = proc[a].file /\ ~x.s3 /\ ~x.converted
      BY <1>0, Nothing DEF NoRow, Row
    <3>2. row' = [row EXCEPT ![s] = x]
      BY <2>3
    <3> HIDE DEF x
    <3>3. Keeps /\ row'[s].hash # None
      BY <1>0, <1>t, <2>1, <2>3, <3>1, <3>2, RowKeeps
    <3>4. Stepped(a, [proc[a] EXCEPT !.pc = "upload"])
      BY <2>1, <2>3, <3>3, GotoStep DEF s
    <3> QED BY <1>t, <2>1, <3>3, <3>4, KeepsArchive
  <2> QED BY <1>8, <2>2, <2>3 DEF Insert, s
<1>9. CASE Attach(a)
  <2>1. /\ proc[a].pc = "attach" /\ row' = row /\ Goto(a, "load")
        /\ UNCHANGED <<object, cached, images, analysed, torn>>
        /\ partset' = [partset EXCEPT ![a].score = s]
    BY <1>9 DEF Attach, At, store, s
  <2>2. row[s].hash # None /\ object[s] # None
    BY <1>0, <2>1 DEF Sound, Here, s
  <2>3. /\ partset' \in [Partsets -> PartsetRow]
        /\ \A q \in Partsets : partset'[q].score = partset[q].score \/ partset'[q].score = s
    <3> DEFINE x == [partset[a] EXCEPT !.score = s]
    <3>1. CASE a \in Partsets
      <4>1. x \in PartsetRow /\ x.score = s /\ partset' = [partset EXCEPT ![a] = x]
        BY <1>0, <1>t, <2>1, <3>1 DEF PartsetRow
      <4> HIDE DEF x
      <4> QED BY <4>1, PartsetSet
    <3>2. CASE a \notin Partsets
      <4>1. partset' = partset
        BY <1>t, <2>1, <3>2
      <4> QED BY <1>t, <4>1
    <3> QED BY <3>1, <3>2
  <2>4. Keeps
    BY <1>t, <2>1, <2>2, <2>3 DEF Keeps
  <2>5. Stepped(a, [proc[a] EXCEPT !.pc = "load"])
    BY <2>1, <2>2, GotoStep DEF s
  <2> QED BY <1>t, <2>1, <2>4, <2>5, KeepsArchive
<1>10. CASE Load(a) \/ Reload(a)
  <2>1. /\ proc[a].pc \in {"load", "reload"} /\ row' = row /\ object' = object
        /\ UNCHANGED <<images, analysed>> /\ torn' \in BOOLEAN
    BY <1>10, <1>t DEF Load, Reload, At
  <2>2. row[s].hash # None /\ object[s] # None
    BY <1>0, <2>1 DEF Sound, Here, s
  <2>3. PICK f \in File :
          /\ cached' = [cached EXCEPT ![s] = f]
          /\ \/ Raise(a)
             \/ Repairable(f) /\ With(a, "copy", Normal[f]) /\ partset' = partset
             \/ \E pc \in {"fetch", "reload"} : Goto(a, pc) /\ partset' = partset
    <3>1. CASE Load(a)
      <4>1. InCache(s) \in File
        BY <1>0, <1>t, <2>1 DEF InCache
      <4>2. CASE InCache(s) = None
        <5>1. cached' = [cached EXCEPT ![s] = cached[s]]
          BY <1>0, <1>t, <3>1, <4>2 DEF Load, s
        <5>2. Raise(a) /\ cached[s] \in File
          BY <1>0, <1>t, <2>1, <3>1, <4>2 DEF Load, s
        <5> QED BY <5>1, <5>2
      <4>3. CASE InCache(s) # None
        BY <3>1, <4>1, <4>3 DEF Load, s
      <4> QED BY <4>2, <4>3
    <3>2. CASE Reload(a)
      <4>1. object[s] \in File
        BY <1>0, <1>t, <2>1
      <4> QED BY <2>2, <3>2, <4>1 DEF Reload, s
    <3> QED BY <1>10, <3>1, <3>2
  <2>4. cached' \in [Scores -> File]
    BY <1>t, <2>3
  <2>5. CASE Raise(a)
    BY <1>t, <2>1, <2>4, <2>5, RaiseStep, KeepsArchive
  <2>6. CASE Repairable(f) /\ With(a, "copy", Normal[f]) /\ partset' = partset
    <3>1. Normal[f] \in File /\ Normal[f] # None
      BY <2>6, ScoreArchiveAssumption DEF ScoreArchiveAssumption, Repairable, File
    <3>2. Stepped(a, [proc[a] EXCEPT !.pc = "copy", !.file = Normal[f]])
      BY <2>1, <2>2, <2>6, <3>1, WithStep DEF s
    <3>3. Keeps
      BY <1>t, <2>1, <2>6, SameRows
    <3> QED BY <1>t, <2>1, <2>4, <3>2, <3>3, KeepsArchive
  <2>7. ASSUME NEW pc \in {"fetch", "reload"}, Goto(a, pc), partset' = partset
        PROVE  ArchiveType' /\ ArchivedInv'
    <3>1. Stepped(a, [proc[a] EXCEPT !.pc = pc])
      BY <2>1, <2>2, <2>7, GotoStep DEF s
    <3>2. Keeps
      BY <1>t, <2>1, <2>7, SameRows
    <3> QED BY <1>t, <2>1, <2>4, <3>1, <3>2, KeepsArchive
  <2> QED BY <2>3, <2>5, <2>6, <2>7
<1>11. CASE Fetch(a)
  <2>1. /\ proc[a].pc = "fetch" /\ UNCHANGED <<row, object, cached, images, analysed, torn>>
        /\ row[s].hash # None
    BY <1>0, <1>11 DEF Fetch, At, store, Sound, Here, s
  <2>2. CASE Raise(a)
    BY <1>t, <2>1, <2>2, RaiseStep, KeepsArchive
  <2>3. ASSUME NEW f \in Editions, Repairable(f), With(a, "replace", Normal[f]), partset' = partset
        PROVE  ArchiveType' /\ ArchivedInv'
    <3>1. Normal[f] \in File /\ Normal[f] # None /\ Normal[Normal[f]] = Normal[f]
      BY <2>3, ScoreArchiveAssumption DEF ScoreArchiveAssumption, Repairable, File
    <3>2. Stepped(a, [proc[a] EXCEPT !.pc = "replace", !.file = Normal[f]])
      BY <2>1, <2>3, <3>1, WithStep DEF s
    <3>3. Keeps
      BY <1>t, <2>1, <2>3, SameRows
    <3> QED BY <1>t, <2>1, <3>2, <3>3, KeepsArchive
  <2> QED BY <1>11, <2>2, <2>3 DEF Fetch
<1>12. CASE ResetRow(a)
  <2>1. /\ proc[a].pc = "reset" /\ UNCHANGED <<object, cached, images>>
        /\ proc[a].file # None /\ Normal[proc[a].file] = proc[a].file /\ object[s] # None
    BY <1>0, <1>12 DEF ResetRow, At, Sound, Here, s
  <2>2. CASE Raise(a) /\ torn' = TRUE /\ row' = row /\ analysed' = analysed
    BY <1>t, <2>1, <2>2, RaiseStep, KeepsArchive
  <2>3. CASE /\ row' = [row EXCEPT ![s] = [hash |-> proc[a].file, s3 |-> TRUE, imslp |-> TRUE,
                                           converted |-> FALSE]]
             /\ analysed' = [analysed EXCEPT ![s] = None]
             /\ Goto(a, "wipe") /\ partset' = partset /\ torn' = torn
    <3> DEFINE x == [hash |-> proc[a].file, s3 |-> TRUE, imslp |-> TRUE, converted |-> FALSE]
    <3>1. x \in Row /\ x.hash = proc[a].file /\ ~x.converted /\ row' = [row EXCEPT ![s] = x]
      BY <1>0, <2>3 DEF Row
    <3> HIDE DEF x
    <3>2. Keeps /\ row'[s].hash # None
      BY <1>0, <1>t, <2>1, <2>3, <3>1, RowKeeps
    <3>3. Stepped(a, [proc[a] EXCEPT !.pc = "wipe"])
      BY <2>1, <2>3, <3>2, GotoStep DEF s
    <3>4. analysed' \in [Scores -> File]
      BY <1>t, <2>3 DEF File
    <3> QED BY <1>t, <2>1, <2>3, <3>2, <3>3, <3>4, KeepsArchive
  <2> QED BY <1>12, <2>2, <2>3 DEF ResetRow, s
<1>13. CASE Wipe(a)
  <2>1. /\ proc[a].pc = "wipe" /\ UNCHANGED <<row, object, analysed, partset>>
        /\ torn' \in BOOLEAN
        /\ cached' = [cached EXCEPT ![s] = None] /\ images' = [images EXCEPT ![s] = None]
        /\ End(a) \/ Goto(a, "copy")
    BY <1>t, <1>13 DEF Wipe, At, s
  <2>2. proc[a].file # None /\ row[s].hash # None /\ object[s] # None
    BY <1>0, <2>1 DEF Sound, Here, s
  <2>3. cached' \in [Scores -> File] /\ images' \in [Scores -> File]
    BY <1>t, <2>1 DEF File
  <2>4. Keeps
    BY <1>t, <2>1, SameRows
  <2>5. \E r : Stepped(a, r)
    BY <2>1, <2>2, GotoStep, EndStep DEF s
  <2> QED BY <1>t, <2>1, <2>3, <2>4, <2>5, KeepsArchive
<1>14. CASE Convert(a)
  <2>1. /\ proc[a].pc = "copy" /\ UNCHANGED <<row, object, cached, analysed, partset, torn>>
        /\ images' = images \/ images' = [images EXCEPT ![s] = proc[a].file]
        /\ Goto(a, "mark")
    BY <1>14 DEF Convert, At, s
  <2>2. proc[a].file # None /\ row[s].hash # None /\ object[s] # None
    BY <1>0, <2>1 DEF Sound, Here, s
  <2>3. images' \in [Scores -> File]
    BY <1>0, <1>t, <2>1
  <2>4. Keeps
    BY <1>t, <2>1, SameRows
  <2>5. Stepped(a, [proc[a] EXCEPT !.pc = "mark"])
    BY <2>1, <2>2, GotoStep DEF s
  <2> QED BY <1>t, <2>1, <2>3, <2>4, <2>5, KeepsArchive
<1>15. CASE Analyse(a)
  <2> DEFINE f == InCache(s)
             made == IF images[s] # None THEN images[s] ELSE IF f = None THEN None ELSE Normal[f]
  <2>1. proc[a].pc = "analyse" /\ UNCHANGED <<row, object, cached, torn>> /\ s \in Scores
    BY <1>0, <1>15 DEF Analyse, At
  <2>2. CASE Raise(a) /\ analysed' = analysed /\ images' = images
    BY <1>t, <2>1, <2>2, RaiseStep, KeepsArchive
  <2>3. CASE /\ analysed' = IF analysed[s] # None THEN analysed ELSE [analysed EXCEPT ![s] = made]
             /\ images' = IF analysed[s] # None THEN images ELSE [images EXCEPT ![s] = made]
             /\ partset' = [partset EXCEPT ![a].complete = TRUE] /\ End(a)
    <3>1. f \in File
      BY <1>t, <2>1 DEF InCache
    <3>2. made \in File
      BY <1>t, <2>1, <3>1, ScoreArchiveAssumption DEF ScoreArchiveAssumption, File
    <3> HIDE DEF made
    <3>3. analysed' \in [Scores -> File] /\ images' \in [Scores -> File]
      BY <1>t, <2>3, <3>2
    <3>4. /\ partset' \in [Partsets -> PartsetRow]
          /\ \A q \in Partsets : partset'[q].score = partset[q].score
      <4> DEFINE x == [partset[a] EXCEPT !.complete = TRUE]
      <4>1. CASE a \in Partsets
        <5>1. x \in PartsetRow /\ x.score = partset[a].score /\ partset' = [partset EXCEPT ![a] = x]
          BY <1>t, <2>3, <4>1 DEF PartsetRow
        <5> HIDE DEF x
        <5> QED BY <5>1, PartsetSet
      <4>2. CASE a \notin Partsets
        <5>1. partset' = partset
          BY <1>t, <2>3, <4>2
        <5> QED BY <1>t, <5>1
      <4> QED BY <4>1, <4>2
    <3>5. Keeps
      BY <1>t, <2>1, <3>4, SameRows
    <3> QED BY <1>t, <2>1, <2>3, <3>3, <3>5, EndStep, KeepsArchive
  <2> QED BY <1>15, <2>2, <2>3 DEF Analyse, s
<1> QED
  BY <1>1, <1>2, <1>3, <1>4, <1>5, <1>6, <1>7, <1>8, <1>9, <1>10, <1>11, <1>12, <1>13, <1>14,
     <1>15 DEF Step

\* The script's start, a call that fails, a kill and an eviction.
LEMMA FaultArchive ==
  ASSUME ArchiveType, ArchivedInv
  PROVE  /\ Refetch => ArchiveType' /\ ArchivedInv'
         /\ \A a \in Actors : Fail(a) \/ Kill(a) => ArchiveType' /\ ArchivedInv'
         /\ \A s \in Scores : Evict(s) => ArchiveType' /\ ArchivedInv'
<1>1. ASSUME Refetch PROVE ArchiveType' /\ ArchivedInv'
  <2>1. PICK s \in Known :
          proc' = [proc EXCEPT ![Operator] = [NoProc EXCEPT !.pc = "fetch", !.score = s]]
    BY <1>1 DEF Refetch
  <2> DEFINE r == [NoProc EXCEPT !.pc = "fetch", !.score = s]
  <2>2. s \in Scores /\ row[s].hash # None /\ s # None
    BY ScoreArchiveAssumption DEF Known, ScoreArchiveAssumption
  <2>3. r \in Proc /\ r.pc = "fetch" /\ r.score = s
    BY <2>2, Nothing DEF NoProc, Proc, ProcPC
  <2>4. proc' = [proc EXCEPT ![Operator] = r]
    BY <2>1
  <2> HIDE DEF r
  <2>5. UNCHANGED <<row, object, cached, images, analysed, partset, torn>>
    BY <1>1 DEF Refetch, store
  <2>6. Stepped(Operator, r)
    BY <2>2, <2>3, <2>4, <2>5 DEF Stepped, Sound, NoScore, WithFile, Archived
  <2>7. Keeps
    BY <2>5, SameRows DEF ArchiveType
  <2>8. Operator \in Actors
    BY DEF Actors
  <2> QED BY <2>5, <2>6, <2>7, <2>8, KeepsArchive DEF ArchiveType
<1>2. ASSUME NEW a \in Actors, Fail(a) \/ Kill(a) PROVE ArchiveType' /\ ArchivedInv'
  <2>1. /\ End(a) /\ UNCHANGED <<row, cached, images, analysed>> /\ torn' \in BOOLEAN
        /\ partset' = partset \/ SetError(a)
    BY <1>2 DEF Fail, Kill, store, ArchiveType
  <2>2. /\ partset' \in [Partsets -> PartsetRow]
        /\ \A p \in Partsets : partset'[p].score = partset[p].score
    BY <2>1, ErrorKeeps DEF ArchiveType
  <2>3. CASE object' = object
    BY <2>1, <2>2, <2>3, SameRows, EndStep, KeepsArchive DEF ArchiveType
  <2>4. CASE /\ proc[a].pc \in {"put", "archive", "upload", "replace"}
             /\ object' = [object EXCEPT ![Here(a)] = proc[a].file]
    <3>1. Here(a) \in Scores /\ proc[a].file \in File /\ proc[a].file # None
      BY <2>4, Record DEF Sound, NoScore, WithFile
    <3>2. Keeps
      BY <2>1, <2>2, <2>4, <3>1, PutKeeps
    <3> QED BY <2>1, <3>2, EndStep, KeepsArchive DEF ArchiveType
  <2> QED BY <1>2, <2>3, <2>4 DEF Fail, Kill, store
<1>3. ASSUME NEW s \in Scores, Evict(s) PROVE ArchiveType' /\ ArchivedInv'
  <2>1. /\ UNCHANGED <<row, object, analysed, partset, proc, torn>>
        /\ cached' = [cached EXCEPT ![s] = None] /\ images' = [images EXCEPT ![s] = None]
    BY <1>3 DEF Evict
  <2>2. ArchiveType'
    BY <2>1 DEF ArchiveType, File
  <2> QED BY <2>1, <2>2 DEF ArchivedInv, ArchivedPdf
<1> QED BY <1>1, <1>2, <1>3

LEMMA NextArchive ==
  ASSUME ArchiveType, ArchivedInv, [Next]_vars
  PROVE  ArchiveType' /\ ArchivedInv'
<1>1. CASE UNCHANGED vars
  BY <1>1 DEF vars, store, ArchiveType, ArchivedInv, ArchivedPdf
<1>2. ASSUME NEW p \in Partsets, Create(p) \/ Start(p) PROVE ArchiveType' /\ ArchivedInv'
  BY <1>2, CreateRequested, StartRequested, RequestedArchive
<1> QED BY <1>1, <1>2, StepArchive, FaultArchive DEF Next

\* A partset with a score, and a score whose row says so, has a PDF in S3, whichever
\* request, job or script failed or was cut off at any of its statements.
THEOREM ReferredIsArchived == Spec => []ArchivedPdf
<1>1. ArchiveType /\ ArchivedInv => ArchivedPdf
  BY DEF ArchivedInv
<1> QED BY <1>1, InitArchive, NextArchive, PTL DEF Spec

-----------------------------------------------------------------------------
(***************************************************************************)
(* Images and analysis.  A score is told apart by what its id stands for:  *)
(* nothing in the database yet, a PDF that nobody replaces, or one that is *)
(* being replaced.                                                         *)
(***************************************************************************)
On(s) == {a \in Actors : proc[a].score = s}
Fits(f, h) == f \in {None, h}

\* An id that is given and has no row yet has one user, who puts the PDF it will have.
Fresh(s) ==
  /\ row[s] = NoRow /\ cached[s] = None /\ images[s] = None /\ analysed[s] = None
  /\ \A a \in On(s) :
       /\ proc[a].pc \in {"put", "commit", "insert"} /\ (proc[a].pc # "insert" => proc[a].new)
       /\ proc[a].pc = "commit" => object[s] = proc[a].file
       /\ proc[a].pc # "commit" => object[s] = None
  /\ \A a, b \in On(s) : a = b

\* What a request or job has in hand is of the PDF the row names.
InStep(s, r) ==
  /\ r.pc \notin {"insert", "reset", "wipe"} /\ (r.pc \in {"put", "commit"} => ~r.new)
  /\ r.pc \in {"put", "archive", "upload", "check"} => r.file = row[s].hash
  /\ r.pc \in {"copy", "mark", "analyse"} => r.file = Normal[row[s].hash]
  /\ r.pc = "mark" => Fits(images[s], Normal[row[s].hash])
  /\ r.pc = "analyse" => row[s].converted

Settled(s) ==
  /\ Fits(object[s], row[s].hash) /\ Fits(cached[s], row[s].hash)
  /\ row[s].converted => Fits(images[s], Normal[row[s].hash])
  /\ Fits(analysed[s], Normal[row[s].hash])
  /\ \A a \in On(s) : InStep(s, proc[a])

\* Who comes during a replacement has not got far.
Early(r) ==
  /\ r.pc \in {"put", "commit", "check", "archive", "attach", "load", "fetch", "replace"}
  /\ r.pc \in {"put", "commit"} => ~r.new

Alone(s, a) ==
  /\ \A b \in On(s) \ {a} : Early(proc[b])
  /\ object[s] = proc[a].file
  /\ proc[a].pc = "wipe" =>
       row[s].hash = proc[a].file /\ ~row[s].converted /\ analysed[s] = None

Told(s) ==
  /\ row[s].hash = None => Fresh(s)
  /\ row[s].hash # None /\ ~Replacing(s) => Settled(s)
  /\ \A a \in On(s) : proc[a].pc \in {"reset", "wipe"} => row[s].hash # None /\ Alone(s, a)

FitInv == ~torn => \A s \in Scores : Told(s)

-----------------------------------------------------------------------------
(* What a step of one request or job does to the scores it has not in work, takes up, *)
(* gives up or goes on with.                                                          *)
\* (Its PDF may come to be cached meanwhile.)
SameData(s) ==
  /\ row'[s].hash = row[s].hash /\ row'[s].converted = row[s].converted
  /\ row[s].hash = None => row'[s] = row[s]
  /\ object'[s] = object[s] /\ MayFill(s)
  /\ images'[s] = images[s] /\ analysed'[s] = analysed[s]

OthersStay(a) == \A b \in Actors : b # a => proc'[b] = proc[b]

LEMMA ReplacedOne ==
  ASSUME NEW s \in Scores, Told(s), Replacing(s)
  PROVE  /\ row[s].hash # None
         /\ \E b \in On(s) : /\ proc[b].pc \in {"reset", "wipe"} /\ Alone(s, b)
                             /\ \A c \in On(s) : c # b => Early(proc[c])
  BY DEF Told, Replacing, On, Alone

LEMMA Elsewhere ==
  ASSUME NEW a \in Actors, OthersStay(a), NEW s \in Scores, SameData(s), Told(s),
         proc[a].score # s, proc'[a].score # s
  PROVE  Told(s)'
<1>1. On(s)' = On(s) /\ \A b \in On(s) : proc'[b] = proc[b]
  BY DEF OthersStay, On
<1>2. Replacing(s)' <=> Replacing(s)
  BY <1>1 DEF Replacing, On
<1>3. row[s].hash = None /\ Fresh(s) => Fresh(s)'
  BY <1>1 DEF Fresh, SameData, MayFill
<1>4. Settled(s) => Settled(s)'
  BY <1>1 DEF Settled, SameData, InStep, MayFill
<1>5. \A b \in On(s) : Alone(s, b) => Alone(s, b)'
  BY <1>1 DEF Alone, SameData
<1> QED BY <1>1, <1>2, <1>3, <1>4, <1>5 DEF Told, SameData

LEMMA Arrived ==
  ASSUME NEW a \in Actors, OthersStay(a), NEW s \in Scores, SameData(s), Told(s),
         proc[a].score # s, proc'[a].score = s, Arrives(proc'[a])
  PROVE  Told(s)'
<1>1. On(s)' = On(s) \cup {a} /\ a \notin On(s) /\ \A b \in On(s) : proc'[b] = proc[b]
  BY DEF OthersStay, On
<1>2. CASE s \in Free
  <2>1. row[s] = NoRow /\ object[s] = None /\ On(s) = {}
    BY <1>2 DEF Free, On
  <2>2. row[s].hash = None
    BY <2>1 DEF NoRow
  <2>3. proc'[a].pc = "insert" \/ (proc'[a].pc = "put" /\ proc'[a].new)
    BY <2>2 DEF Arrives
  <2>4. Fresh(s)'
    BY <1>1, <2>1, <2>2, <2>3 DEF Told, Fresh, SameData, MayFill
  <2> QED BY <1>1, <2>1, <2>2, <2>3, <2>4 DEF Told, SameData
<1>3. CASE s \notin Free
  <2> DEFINE r == proc'[a]
  <2>1. /\ row[s].hash # None
        /\ r.pc \in {"put", "commit", "check", "attach", "load", "fetch"}
        /\ r.pc \in {"put", "commit"} => ~r.new
        /\ r.pc \in {"put", "check"} => r.file = row[s].hash
    BY <1>3 DEF Arrives
  <2>2. row'[s].hash # None
    BY <2>1 DEF SameData
  <2>3. Replacing(s)' <=> Replacing(s)
    BY <1>1, <2>1 DEF Replacing, On
  <2>4. ~Replacing(s) => Settled(s)'
    <3> SUFFICES ASSUME ~Replacing(s) PROVE Settled(s)'
      OBVIOUS
    <3>1. Settled(s)
      BY <2>1 DEF Told
    <3>2. \A b \in On(s) : InStep(s, proc[b])'
      BY <1>1, <3>1 DEF Settled, SameData, InStep
    <3>3. InStep(s, proc[a])'
      BY <2>1 DEF SameData, InStep
    <3> QED BY <1>1, <3>1, <3>2, <3>3 DEF Settled, SameData, MayFill
  <2>5. \A b \in On(s) : Alone(s, b) => Alone(s, b)'
    <3>1. Early(r)
      BY <2>1 DEF Early
    <3> HIDE DEF r
    <3> QED BY <1>1, <3>1 DEF Alone, SameData, r
  <2> QED BY <1>1, <2>1, <2>2, <2>3, <2>4, <2>5 DEF Told
<1> QED BY <1>2, <1>3

LEMMA Left ==
  ASSUME NEW a \in Actors, OthersStay(a), NEW s \in Scores, SameData(s), Told(s),
         proc[a].score = s, proc'[a].score # s, proc[a].pc \notin {"reset", "wipe"}
  PROVE  Told(s)'
<1>1. On(s)' = On(s) \ {a} /\ \A b \in On(s)' : proc'[b] = proc[b]
  BY DEF OthersStay, On
<1>2. Replacing(s)' <=> Replacing(s)
  BY <1>1 DEF Replacing, On
<1>3. row[s].hash = None /\ Fresh(s) => Fresh(s)'
  BY <1>1 DEF Fresh, SameData, MayFill
<1>4. Settled(s) => Settled(s)'
  BY <1>1 DEF Settled, SameData, InStep, MayFill
<1>5. \A b \in On(s)' : Alone(s, b) => Alone(s, b)'
  BY <1>1 DEF Alone, SameData
<1> QED BY <1>1, <1>2, <1>3, <1>4, <1>5 DEF Told, SameData

\* Nobody replaces the PDF.
LEMMA GoesOn ==
  ASSUME NEW a \in Actors, OthersStay(a), NEW s \in Scores, Settled(s), ~Replacing(s),
         row'[s].hash = row[s].hash, row[s].hash # None,
         row[s].converted => row'[s].converted,
         Fits(object'[s], row[s].hash), Fits(cached'[s], row[s].hash),
         Fits(images'[s], Normal[row[s].hash]) \/ (~row'[s].converted /\ images'[s] = images[s]),
         Fits(analysed'[s], Normal[row[s].hash]),
         proc'[a].score = s => InStep(s, proc[a])'
  PROVE  Told(s)'
<1>1. \A b \in On(s)' : b # a => b \in On(s) /\ proc'[b] = proc[b]
  BY DEF OthersStay, On
<1>2. \A b \in On(s)' : InStep(s, proc[b])'
  <2>1. \A b \in On(s)' : b # a => InStep(s, proc[b])'
    <3> TAKE b \in On(s)'
    <3> HAVE b # a
    <3>1. InStep(s, proc[b])
      BY <1>1 DEF Settled
    <3>2. proc'[b] = proc[b]
      BY <1>1
    <3> QED BY <3>1, <3>2 DEF InStep
  <2> QED BY <2>1 DEF On
<1>3. \A b \in On(s)' : proc'[b].pc \notin {"reset", "wipe"}
  BY <1>2 DEF InStep
<1>4. Settled(s)'
  BY <1>2 DEF Settled
<1> QED BY <1>3, <1>4 DEF Told

\* Somebody else does.
LEMMA GoesBeside ==
  ASSUME NEW a \in Actors, OthersStay(a), NEW s \in Scores, SameData(s), Told(s), Replacing(s),
         proc[a].score = s, proc[a].pc \notin {"reset", "wipe"},
         proc'[a].score = s => Early(proc'[a])
  PROVE  Told(s)'
<1>1. PICK b \in On(s) : /\ proc[b].pc \in {"reset", "wipe"} /\ Alone(s, b)
                         /\ \A c \in On(s) : c # b => Early(proc[c])
  BY ReplacedOne
<1>2. row'[s].hash # None
  BY ReplacedOne DEF SameData
<1>3. b # a /\ proc'[b] = proc[b] /\ b \in On(s)'
  BY <1>1 DEF OthersStay, On
<1>4. \A c \in On(s)' : c # b => Early(proc'[c])
  BY <1>1 DEF OthersStay, On
<1>5. Replacing(s)'
  BY <1>1, <1>3 DEF Replacing, On
<1>6. Alone(s, b)'
  BY <1>1, <1>3, <1>4 DEF Alone, SameData
<1> QED BY <1>2, <1>4, <1>5, <1>6 DEF Told, Early

LEMMA OnlyHere ==
  ASSUME NEW a \in Actors, OthersStay(a), NEW s \in Scores, proc[a].score = s,
         proc'[a].score \in {s, None}, None \notin Scores,
         \A t \in Scores : t # s => SameData(t), \A t \in Scores : Told(t), Told(s)'
  PROVE  \A t \in Scores : Told(t)'
<1> TAKE t \in Scores
<1> QED BY Elsewhere

LEMMA InitFit == Init => FitInv
<1> SUFFICES ASSUME Init, NEW t \in Scores PROVE Told(t)
  BY DEF FitInv
<1> DEFINE s == CHOOSE u \in Scores : TRUE
<1>1. PICK f \in Legacy \cup {None}, converted \in BOOLEAN :
        /\ row = [u \in Scores |-> IF u = s /\ f # None THEN OldRow(f, converted) ELSE NoRow]
        /\ object = [u \in Scores |-> IF u = s THEN f ELSE None]
        /\ cached \in {object, [u \in Scores |-> None]}
  BY DEF Init
<1> HIDE DEF s
<1>2. On(t) = {} /\ images[t] = None /\ analysed[t] = None
  BY ScoreArchiveAssumption DEF Init, On, NoProc, ScoreArchiveAssumption
<1>3. NoRow.hash = None /\ OldRow(f, converted).hash = f
  BY DEF NoRow, OldRow
<1>4. row[t].hash = None => Fresh(t)
  BY <1>1, <1>2, <1>3 DEF Fresh
<1>5. Fits(object[t], row[t].hash) /\ Fits(cached[t], row[t].hash)
  BY <1>1, <1>3 DEF Fits
<1>6. Settled(t)
  BY <1>2, <1>5 DEF Settled, Fits
<1> QED BY <1>2, <1>4, <1>6 DEF Told

LEMMA Rigid == row' = row /\ store' = store => \A s \in Scores : SameData(s)
  BY DEF store, SameData, MayFill

LEMMA RequestedFit ==
  ASSUME ArchiveType, ArchivedInv, FitInv, NEW p \in Partsets, Requested(p)
  PROVE  FitInv'
<1> SUFFICES ASSUME ~torn', NEW s \in Scores PROVE Told(s)'
  BY DEF FitInv
<1>1. PICK r \in Proc : proc' = [proc EXCEPT ![p] = r] /\ (r.score = None \/ Arrives(r))
  BY DEF Requested
<1>2. /\ p \in Actors /\ proc[p].pc = "idle" /\ torn' = torn
      /\ \A t \in Scores : SameData(t)
  BY DEF Actors, Requested, SameData
<1>3. proc'[p] = r /\ OthersStay(p)
  BY <1>1, <1>2, ProcSet DEF OthersStay
<1>4. proc[p].score = None /\ s # None
  BY <1>2, Record DEF Sound, NoScore
<1>5. SameData(s) /\ Told(s)
  BY <1>2 DEF FitInv
<1> QED BY <1>1, <1>2, <1>3, <1>4, <1>5, Elsewhere, Arrived

LEMMA RefetchFit ==
  ASSUME ArchiveType, ArchivedInv, FitInv, Refetch
  PROVE  FitInv'
<1> SUFFICES ASSUME ~torn', NEW s \in Scores PROVE Told(s)'
  BY DEF FitInv
<1>1. PICK t \in Known :
        proc' = [proc EXCEPT ![Operator] = [NoProc EXCEPT !.pc = "fetch", !.score = t]]
  BY DEF Refetch
<1>2. Operator \in Actors /\ proc[Operator].pc = "idle" /\ UNCHANGED <<row, store, torn>>
  BY DEF Actors, Refetch, At
<1> DEFINE r == [NoProc EXCEPT !.pc = "fetch", !.score = t]
<1>3. t \in Scores /\ row[t].hash # None
  BY DEF Known
<1>4. r.pc = "fetch" /\ r.score = t /\ r \in Proc
  BY <1>3, Nothing DEF NoProc, Proc, ProcPC
<1> HIDE DEF r
<1>5. Arrives(r)
  BY <1>3, <1>4 DEF Arrives
<1>6. proc'[Operator] = r /\ OthersStay(Operator)
  BY <1>1, <1>2, <1>4, ProcSet DEF OthersStay, r
<1>7. proc[Operator].score = None /\ s # None
  BY <1>2, Record DEF Sound, NoScore
<1>8. SameData(s) /\ Told(s)
  BY <1>2, Rigid DEF FitInv
<1> QED BY <1>2, <1>4, <1>5, <1>6, <1>7, <1>8, Elsewhere, Arrived

LEMMA EvictFit ==
  ASSUME ArchiveType, FitInv, NEW e \in Scores, Evict(e)
  PROVE  FitInv'
<1> SUFFICES ASSUME ~torn', NEW s \in Scores PROVE Told(s)'
  BY DEF FitInv
<1>1. /\ UNCHANGED <<row, object, analysed, proc, torn>>
      /\ cached'[s] \in {None, cached[s]} /\ images'[s] \in {None, images[s]}
  BY DEF Evict, ArchiveType
<1>2. On(s)' = On(s) /\ (Replacing(s)' <=> Replacing(s))
  BY <1>1 DEF On, Replacing
<1>3. Fresh(s) => Fresh(s)'
  BY <1>1, <1>2 DEF Fresh
<1>4. Settled(s) => Settled(s)'
  BY <1>1, <1>2 DEF Settled, InStep, Fits
<1>5. \A b \in On(s) : Alone(s, b) => Alone(s, b)'
  BY <1>1, <1>2 DEF Alone
<1>6. Told(s)
  BY <1>1 DEF FitInv
<1> QED BY <1>1, <1>2, <1>3, <1>4, <1>5, <1>6 DEF Told

\* A request or job that ends.
LEMMA Ended ==
  ASSUME ArchiveType, ArchivedInv, NEW a \in Actors, End(a)
  PROVE  OthersStay(a) /\ proc'[a].score = None
  BY Nothing, ProcSet DEF End, OthersStay, NoProc

LEMMA EndsWithout ==
  ASSUME ArchiveType, ArchivedInv, NEW a \in Actors, End(a), row' = row, store' = store,
         proc[a].pc \notin {"reset", "wipe"}, \A s \in Scores : Told(s)
  PROVE  \A s \in Scores : Told(s)'
<1> TAKE s \in Scores
<1>1. OthersStay(a) /\ proc'[a].score = None /\ SameData(s) /\ s # None
  BY Ended, Rigid, Record
<1> QED BY <1>1, Elsewhere, Left

LEMMA KillFit ==
  ASSUME ArchiveType, ArchivedInv, FitInv, NEW a \in Actors, Kill(a)
  PROVE  FitInv'
<1> SUFFICES ASSUME ~torn' PROVE \A s \in Scores : Told(s)'
  BY DEF FitInv
<1>1. ~torn /\ proc[a].pc \notin {"reset", "wipe"} /\ End(a) /\ row' = row /\ store' = store
  BY DEF Kill
<1> QED BY <1>1, EndsWithout DEF FitInv

LEMMA FailFit ==
  ASSUME ArchiveType, ArchivedInv, FitInv, NEW a \in Actors, Fail(a)
  PROVE  FitInv'
<1> SUFFICES ASSUME ~torn' PROVE \A s \in Scores : Told(s)'
  BY DEF FitInv
<1>1. /\ End(a) /\ UNCHANGED <<row, cached, images, analysed>>
      /\ proc[a].pc \notin {"reset", "wipe"}
  BY DEF Fail, External
<1>t. ~torn
  BY DEF Fail
<1>2. CASE object' = object
  BY <1>1, <1>2, <1>t, EndsWithout DEF FitInv, store
<1>3. CASE /\ proc[a].pc \in {"put", "archive", "upload"}
           /\ object' = [object EXCEPT ![Here(a)] = proc[a].file]
           /\ ~Replacing(Here(a))
  <2>1. PICK s \in Scores : s = Here(a) /\ None \notin Scores
    BY <1>3, Record DEF NoScore
  <2>2. /\ object'[s] = proc[a].file
        /\ \A t \in Scores : t # s => SameData(t)
    BY <1>1, <1>3, <2>1 DEF ArchiveType, SameData, MayFill
  <2>3. OthersStay(a) /\ proc'[a].score = None /\ Told(s) /\ proc[a].score = s /\ a \in On(s)
    BY <1>1, <1>t, <2>1, Ended DEF FitInv, On, Here
  <2>4. ~Replacing(s)
    BY <1>3, <2>1
  <2>5. CASE row[s].hash = None
    <3>1. On(s)' = {}
      BY <2>1, <2>3, <2>5 DEF On, Told, Fresh, OthersStay
    <3>2. Told(s)'
      BY <1>1, <2>3, <2>5, <3>1 DEF Told, Fresh
    <3> QED BY <3>2, <2>1, <2>2, <2>3, <1>1, <1>t, OnlyHere DEF FitInv
  <2>6. CASE row[s].hash # None
    <3>1. Settled(s) /\ proc[a].file = row[s].hash
      BY <1>3, <2>3, <2>4, <2>6 DEF Told, Settled, InStep
    <3>2. Told(s)'
      BY <1>1, <2>1, <2>2, <2>3, <2>4, <2>6, <3>1, GoesOn DEF Settled, Fits
    <3> QED BY <2>1, <2>2, <2>3, <3>2, <1>1, <1>t, OnlyHere DEF FitInv
  <2> QED BY <2>5, <2>6
<1> QED BY <1>1, <1>2, <1>3 DEF Fail, At

-----------------------------------------------------------------------------
(* The steps of requests, jobs and the script. *)
LEMMA Going ==
  ASSUME ArchiveType, ArchivedInv, NEW a \in Actors, NEW pc \in ProcPC, Goto(a, pc)
  PROVE  /\ OthersStay(a) /\ proc'[a].pc = pc /\ proc'[a].score = proc[a].score
         /\ proc'[a].file = proc[a].file /\ proc'[a].new = proc[a].new
<1> DEFINE r == [proc[a] EXCEPT !.pc = pc]
<1>1. /\ r \in Proc /\ r.pc = pc /\ r.score = proc[a].score /\ r.file = proc[a].file
      /\ r.new = proc[a].new
  BY GotoTypes
<1>2. proc' = [proc EXCEPT ![a] = r]
  BY Moves
<1> HIDE DEF r
<1>3. proc'[a] = r /\ OthersStay(a)
  BY <1>1, <1>2, ProcSet DEF OthersStay
<1> QED BY <1>1, <1>3

LEMMA GoingWith ==
  ASSUME ArchiveType, ArchivedInv, NEW a \in Actors, NEW pc \in ProcPC, NEW f \in File,
         With(a, pc, f)
  PROVE  /\ OthersStay(a) /\ proc'[a].pc = pc /\ proc'[a].score = proc[a].score
         /\ proc'[a].file = f /\ proc'[a].new = proc[a].new
<1> DEFINE r == [proc[a] EXCEPT !.pc = pc, !.file = f]
<1>1. r \in Proc /\ r.pc = pc /\ r.score = proc[a].score /\ r.file = f /\ r.new = proc[a].new
  BY Record DEF Proc
<1>2. proc' = [proc EXCEPT ![a] = r]
  BY DEF With, ArchiveType
<1> HIDE DEF r
<1>3. proc'[a] = r /\ OthersStay(a)
  BY <1>1, <1>2, ProcSet DEF OthersStay
<1> QED BY <1>1, <1>3

LEMMA TakesUp ==
  ASSUME NEW a \in Actors, OthersStay(a), proc[a].score = None, None \notin Scores,
         proc'[a].score = None \/ Arrives(proc'[a]),
         \A s \in Scores : SameData(s), \A s \in Scores : Told(s)
  PROVE  \A s \in Scores : Told(s)'
<1> TAKE s \in Scores
<1> QED BY Elsewhere, Arrived

LEMMA GivesUp ==
  ASSUME ArchiveType, ArchivedInv, NEW a \in Actors, End(a), \A s \in Scores : SameData(s),
         proc[a].pc \notin {"reset", "wipe"}, \A s \in Scores : Told(s)
  PROVE  \A s \in Scores : Told(s)'
<1> TAKE s \in Scores
<1>1. OthersStay(a) /\ proc'[a].score = None /\ s # None
  BY Ended, Record
<1> QED BY <1>1, Elsewhere, Left

\* A step that changes its own record only.
LEMMA Quietly ==
  ASSUME NEW a \in Actors, OthersStay(a), NEW s \in Scores, None \notin Scores,
         proc[a].score = s, proc'[a].score = s, proc[a].pc \notin {"reset", "wipe"},
         row[s].hash # None, InStep(s, proc[a]) => InStep(s, proc[a])',
         Early(proc[a]) => Early(proc'[a]),
         \A t \in Scores : SameData(t), \A t \in Scores : Told(t)
  PROVE  \A t \in Scores : Told(t)'
<1>1. a \in On(s)
  BY DEF On
<1>2. CASE Replacing(s)
  <2>1. Early(proc[a])
    BY <1>1, <1>2, ReplacedOne
  <2>2. Told(s)'
    BY <1>2, <2>1, GoesBeside
  <2> QED BY <2>2, OnlyHere
<1>3. CASE ~Replacing(s)
  <2>1. Settled(s)
    BY <1>3 DEF Told
  <2>2. InStep(s, proc[a])
    BY <1>1, <2>1 DEF Settled
  <2>3. SameData(s)
    OBVIOUS
  <2>4. Fits(cached'[s], row[s].hash)
    BY <2>1, <2>3 DEF Settled, SameData, MayFill
  <2>5. InStep(s, proc[a])'
    BY <2>2
  <2>6. Told(s)'
    BY <1>3, <2>1, <2>3, <2>4, <2>5, GoesOn DEF Settled, SameData
  <2> QED BY <2>6, OnlyHere
<1> QED BY <1>2, <1>3

\* Where a request or job is, its score is told by.
LEMMA Stands ==
  ASSUME NEW a \in Actors, NEW s \in Scores, proc[a].score = s, Told(s)
  PROVE  /\ (proc[a].pc \in {"put", "commit"} /\ proc[a].new) \/ proc[a].pc = "insert" =>
              row[s].hash = None
         /\ row[s].hash = None => Fresh(s) /\ On(s) = {a}
         /\ row[s].hash # None /\ ~Replacing(s) => Settled(s) /\ InStep(s, proc[a])
         /\ proc[a].pc \notin {"reset", "wipe"} /\ ~Early(proc[a]) => ~Replacing(s)
         /\ proc[a].pc \in {"reset", "wipe"} => Alone(s, a) /\ row[s].hash # None
         /\ ~InWork(s, a) => On(s) = {a}
<1>1. a \in On(s)
  BY DEF On
<1>2. Replacing(s) /\ proc[a].pc \notin {"reset", "wipe"} => Early(proc[a])
  BY <1>1, ReplacedOne
<1>3. row[s].hash = None => Fresh(s) /\ On(s) = {a}
  BY <1>1 DEF Told, Fresh
<1>4. row[s].hash # None /\ ~Replacing(s) => Settled(s) /\ InStep(s, proc[a])
  BY <1>1 DEF Told, Settled
<1>5. /\ proc[a].pc \in {"put", "commit"} /\ proc[a].new => row[s].hash = None
      /\ proc[a].pc = "insert" => row[s].hash = None
  BY <1>2, <1>4 DEF InStep, Early
<1>6. ~InWork(s, a) => On(s) = {a}
  BY <1>1 DEF InWork, On
<1> QED BY <1>1, <1>2, <1>3, <1>4, <1>5, <1>6 DEF Told

\* A request or job that has no score yet.
LEMMA TakeFit ==
  ASSUME ArchiveType, ArchivedInv, FitInv, NEW a \in Actors, Download(a) \/ LookUp(a)
  PROVE  FitInv'
<1> SUFFICES ASSUME ~torn' PROVE \A s \in Scores : Told(s)'
  BY DEF FitInv
<1>1. /\ proc[a].pc \in {"download", "look"} /\ ~torn /\ store' = store
      /\ \A s \in Scores : Told(s)
  BY DEF Download, LookUp, At, FitInv
<1>2. proc[a].score = None /\ None \notin Scores /\ proc[a] \in Proc
  BY <1>1, Record DEF Sound, NoScore
<1>3. \A s \in Scores : SameData(s)
  <2>1. CASE row' = row
    BY <1>1, <2>1, Rigid
  <2>2. CASE \E t \in Known : row' = [row EXCEPT ![t].imslp = TRUE]
    <3>1. PICK t \in Known : row' = [row EXCEPT ![t].imslp = TRUE]
      BY <2>2
    <3>2. \A s \in Scores : s # t => row'[s] = row[s]
      BY <3>1 DEF ArchiveType
    <3>3. t \in Scores /\ row[t].hash # None /\ row[t] \in Row
      BY DEF Known, ArchiveType
    <3>4. row'[t].hash = row[t].hash /\ row'[t].converted = row[t].converted
      BY <3>1, <3>3 DEF ArchiveType, Row
    <3> QED BY <1>1, <3>2, <3>3, <3>4 DEF SameData, MayFill, store
  <2> QED BY <2>1, <2>2 DEF Download, LookUp
<1>4. CASE Raise(a)
  BY <1>1, <1>3, <1>4, GivesUp DEF Raise
<1>5. CASE \E t \in Known : proc' = [proc EXCEPT ![a].pc = "attach", ![a].score = t]
  <2>1. PICK t \in Known : proc' = [proc EXCEPT ![a].pc = "attach", ![a].score = t]
    BY <1>5
  <2> DEFINE r == [proc[a] EXCEPT !.pc = "attach", !.score = t]
  <2>2. t \in Scores /\ row[t].hash # None
    BY DEF Known
  <2>3. r.pc = "attach" /\ r.score = t /\ r \in Proc
    BY <1>2, <2>2 DEF Proc, ProcPC, Archived
  <2>4. proc' = [proc EXCEPT ![a] = r]
    BY <2>1 DEF ArchiveType
  <2> HIDE DEF r
  <2>5. proc'[a] = r /\ OthersStay(a) /\ Arrives(r)
    BY <2>2, <2>3, <2>4, ProcSet DEF OthersStay, Arrives
  <2> QED BY <1>1, <1>2, <1>3, <2>5, TakesUp
<1>6. CASE \E t \in Known : /\ Holds(t, proc[a].file)
                            /\ proc' = [proc EXCEPT ![a].pc = "check", ![a].score = t]
  <2>1. PICK t \in Known : /\ row[t].hash = proc[a].file
                           /\ proc' = [proc EXCEPT ![a].pc = "check", ![a].score = t]
    BY <1>6 DEF Holds
  <2> DEFINE r == [proc[a] EXCEPT !.pc = "check", !.score = t]
  <2>2. t \in Scores /\ row[t].hash # None
    BY DEF Known
  <2>3. r.pc = "check" /\ r.score = t /\ r.file = proc[a].file /\ r \in Proc
    BY <1>2, <2>2 DEF Proc, ProcPC, WithFile
  <2>4. proc' = [proc EXCEPT ![a] = r]
    BY <2>1 DEF ArchiveType
  <2> HIDE DEF r
  <2>5. proc'[a] = r /\ OthersStay(a) /\ Arrives(r)
    BY <2>1, <2>2, <2>3, <2>4, ProcSet DEF OthersStay, Arrives
  <2> QED BY <1>1, <1>2, <1>3, <2>5, TakesUp
<1>7. CASE Free # {} /\ proc' = [proc EXCEPT ![a].pc = "insert", ![a].score = NewId]
  <2>1. PICK t \in Free : proc' = [proc EXCEPT ![a].pc = "insert", ![a].score = t]
    BY <1>7, NewIdFree
  <2> DEFINE r == [proc[a] EXCEPT !.pc = "insert", !.score = t]
  <2>2. t \in Scores
    BY DEF Free
  <2>3. r.pc = "insert" /\ r.score = t /\ r \in Proc
    BY <1>2, <2>2 DEF Proc, ProcPC, WithFile
  <2>4. proc' = [proc EXCEPT ![a] = r]
    BY <2>1 DEF ArchiveType
  <2> HIDE DEF r
  <2>5. proc'[a] = r /\ OthersStay(a) /\ Arrives(r)
    BY <2>2, <2>3, <2>4, ProcSet DEF OthersStay, Arrives
  <2> QED BY <1>1, <1>2, <1>3, <2>5, TakesUp
<1>8. CASE \E f \in Editions : Repairable(f) /\ With(a, "look", Normal[f])
  <2>1. PICK f \in Editions : Repairable(f) /\ With(a, "look", Normal[f])
    BY <1>8
  <2>2. Normal[f] \in File
    BY ScoreArchiveAssumption DEF ScoreArchiveAssumption, File
  <2>3. OthersStay(a) /\ proc'[a].score = proc[a].score
    BY <2>1, <2>2, GoingWith DEF ProcPC, NoScore
  <2> QED BY <1>1, <1>2, <1>3, <2>3, TakesUp
<1> QED BY <1>4, <1>5, <1>6, <1>7, <1>8 DEF Download, LookUp

\* A step that has its score in hand.
LEMMA StepFit ==
  ASSUME ArchiveType, ArchivedInv, FitInv, NEW a \in Actors, Step(a)
  PROVE  FitInv'
<1> SUFFICES ASSUME ~torn', ~(Download(a) \/ LookUp(a)) PROVE \A t \in Scores : Told(t)'
  BY TakeFit DEF FitInv
<1> USE DEF NoScore, WithFile, Archived, ProcPC
<1>0. ~torn
  BY DEF Step, Put, Commit, CheckArchive, Archive, StampArchived, Insert, Upload, Attach, Load,
         Reload, Fetch, Replace, ResetRow, Wipe, Convert, MarkConverted, Analyse
<1>1. proc[a].pc \notin NoScore
  BY DEF Step, Put, Commit, CheckArchive, Archive, StampArchived, Insert, Upload, Attach, Load,
         Reload, Fetch, Replace, ResetRow, Wipe, Convert, MarkConverted, Analyse, At
<1>2. PICK s \in Scores : s = Here(a)
  BY <1>1, Record
<1>3. /\ proc[a] \in Proc /\ proc[a].file \in File /\ Sound(proc[a], row, object)
      /\ None \notin Scores /\ proc[a].score = s /\ row[s] \in Row
  BY <1>1, <1>2, Record DEF Here
<1>4. \A t \in Scores : Told(t)
  BY <1>0 DEF FitInv
<1>t. /\ row \in [Scores -> Row] /\ object \in [Scores -> File] /\ cached \in [Scores -> File]
      /\ images \in [Scores -> File] /\ analysed \in [Scores -> File]
  BY DEF ArchiveType
<1>s. /\ (proc[a].pc \in {"put", "commit"} /\ proc[a].new) \/ proc[a].pc = "insert" =>
           row[s].hash = None
      /\ row[s].hash = None => Fresh(s) /\ On(s) = {a}
      /\ row[s].hash # None /\ ~Replacing(s) => Settled(s) /\ InStep(s, proc[a])
      /\ proc[a].pc \notin {"reset", "wipe"} /\ ~Early(proc[a]) => ~Replacing(s)
      /\ proc[a].pc \in {"reset", "wipe"} => Alone(s, a) /\ row[s].hash # None
      /\ ~InWork(s, a) => On(s) = {a}
  BY <1>3, <1>4, Stands
<1>5. proc[a].pc # "insert" /\ (proc[a].pc \in {"put", "commit"} => ~proc[a].new) =>
        row[s].hash # None
  BY <1>1, <1>3 DEF Sound
<1>6. CASE Put(a)
  <2>1. /\ proc[a].pc = "put" /\ Goto(a, "commit") /\ ~Replacing(s)
        /\ object' = [object EXCEPT ![s] = proc[a].file]
        /\ UNCHANGED <<row, cached, images, analysed>>
    BY <1>2, <1>6 DEF Put, At
  <2>2. /\ OthersStay(a) /\ proc'[a].pc = "commit" /\ proc'[a].score = s
        /\ proc'[a].file = proc[a].file /\ proc'[a].new = proc[a].new
    BY <1>3, <2>1, Going
  <2>3. object'[s] = proc[a].file /\ \A t \in Scores : t # s => SameData(t)
    BY <1>t, <2>1 DEF SameData, MayFill
  <2>4. CASE row[s].hash = None
    <3>1. On(s)' = {a} /\ Fresh(s) /\ proc[a].new
      BY <1>3, <1>s, <2>1, <2>2, <2>4 DEF On, OthersStay, Fresh
    <3>2. Fresh(s)'
      BY <2>1, <2>2, <2>3, <3>1 DEF Fresh
    <3>3. Told(s)'
      BY <2>1, <2>2, <2>4, <3>1, <3>2 DEF Told
    <3> QED BY <1>3, <1>4, <2>2, <2>3, <3>3, OnlyHere
  <2>5. CASE row[s].hash # None
    <3>1. Settled(s) /\ proc[a].file = row[s].hash /\ ~proc[a].new
      BY <1>s, <2>1, <2>5 DEF InStep
    <3>2. InStep(s, proc[a])'
      BY <2>1, <2>2, <3>1 DEF InStep
    <3>3. Told(s)'
      BY <2>1, <2>2, <2>3, <2>5, <3>1, <3>2, GoesOn DEF Settled, Fits
    <3> QED BY <1>3, <1>4, <2>2, <2>3, <3>3, OnlyHere
  <2> QED BY <2>4, <2>5
<1>7. CASE Commit(a)
  <2>1. proc[a].pc = "commit" /\ End(a) /\ store' = store
    BY <1>7 DEF Commit, At
  <2>2. CASE row' = row
    BY <1>4, <2>1, <2>2, Rigid, GivesUp
  <2>3. CASE /\ ~proc[a].new
             /\ row' = [row EXCEPT ![s].s3 = @ \/ proc[a].s3, ![s].imslp = @ \/ proc[a].imslp]
    <3>1. /\ \A t \in Scores : t # s => row'[t] = row[t]
          /\ row'[s].hash = row[s].hash /\ row'[s].converted = row[s].converted
      BY <1>3, <1>t, <2>3 DEF Row
    <3>2. \A t \in Scores : SameData(t)
      BY <1>5, <2>1, <2>3, <3>1 DEF SameData, MayFill, store
    <3> QED BY <1>4, <2>1, <3>2, GivesUp
  <2>4. CASE /\ proc[a].new
             /\ row' = [row EXCEPT ![s] = [NoRow EXCEPT !.hash = proc[a].file, !.imslp = proc[a].imslp]]
    <3>1. row[s].hash = None /\ Fresh(s) /\ On(s) = {a} /\ object[s] = proc[a].file
      BY <1>s, <2>1, <2>4 DEF Fresh
    <3>2. OthersStay(a) /\ proc'[a].score = None
      BY <2>1, Ended
    <3>3. On(s)' = {}
      BY <1>3, <3>1, <3>2 DEF On, OthersStay
    <3>4. row'[s].hash = proc[a].file /\ ~row'[s].converted
      BY <1>t, <2>4 DEF NoRow
    <3>5. proc[a].file # None
      BY <1>3, <2>1, <2>4 DEF Sound
    <3>6. Settled(s)'
      BY <2>1, <3>1, <3>3, <3>4 DEF Settled, Fresh, Fits, store
    <3>7. Told(s)'
      BY <3>3, <3>4, <3>5, <3>6 DEF Told
    <3>8. \A t \in Scores : t # s => SameData(t)
      BY <1>t, <2>1, <2>4 DEF SameData, MayFill, store
    <3> QED BY <1>3, <1>4, <3>2, <3>7, <3>8, OnlyHere
  <2> QED BY <1>2, <1>7, <2>2, <2>3, <2>4 DEF Commit
<1>8. CASE CheckArchive(a)
  <2>1. PICK pc \in {"attach", "archive"} : Goto(a, pc)
    BY <1>8 DEF CheckArchive
  <2>2. proc[a].pc = "check" /\ \A t \in Scores : SameData(t)
    BY <1>8, Rigid DEF CheckArchive, At
  <2>3. /\ OthersStay(a) /\ proc'[a].pc = pc /\ proc'[a].score = s
        /\ proc'[a].file = proc[a].file
    BY <1>3, <2>1, Going
  <2>4. InStep(s, proc[a]) => InStep(s, proc[a])'
    BY <2>2, <2>3 DEF InStep, SameData
  <2>5. Early(proc'[a])
    BY <2>3 DEF Early
  <2> QED BY <1>3, <1>4, <1>5, <2>2, <2>3, <2>4, <2>5, Quietly
<1>9. CASE Archive(a) \/ Upload(a)
  <2>1. PICK pc \in {"stamp", "attach"} : Goto(a, pc)
    BY <1>9 DEF Archive, Upload
  <2>2. /\ proc[a].pc \in {"archive", "upload"} /\ ~Replacing(s)
        /\ object' = [object EXCEPT ![s] = proc[a].file]
        /\ UNCHANGED <<row, cached, images, analysed>>
    BY <1>2, <1>9 DEF Archive, Upload, At
  <2>3. OthersStay(a) /\ proc'[a].pc = pc /\ proc'[a].score = s
    BY <1>3, <2>1, Going
  <2>4. object'[s] = proc[a].file /\ \A t \in Scores : t # s => SameData(t)
    BY <1>t, <2>2 DEF SameData, MayFill
  <2>5. Settled(s) /\ proc[a].file = row[s].hash /\ row[s].hash # None
    BY <1>5, <1>s, <2>2 DEF InStep
  <2>6. InStep(s, proc[a])'
    BY <2>3 DEF InStep
  <2>7. Told(s)'
    BY <2>2, <2>3, <2>4, <2>5, <2>6, GoesOn DEF Settled, Fits
  <2> QED BY <1>3, <1>4, <2>3, <2>4, <2>7, OnlyHere
<1>10. CASE StampArchived(a)
  <2>1. /\ proc[a].pc = "stamp" /\ Goto(a, "attach") /\ store' = store
        /\ row' = [row EXCEPT ![s].s3 = TRUE]
    BY <1>2, <1>10 DEF StampArchived, At
  <2>2. /\ \A t \in Scores : t # s => row'[t] = row[t]
        /\ row'[s].hash = row[s].hash /\ row'[s].converted = row[s].converted
    BY <1>3, <1>t, <2>1 DEF Row
  <2>3. \A t \in Scores : SameData(t)
    BY <1>5, <2>1, <2>2 DEF SameData, MayFill, store
  <2>4. OthersStay(a) /\ proc'[a].pc = "attach" /\ proc'[a].score = s
    BY <1>3, <2>1, Going
  <2>5. InStep(s, proc[a])' /\ Early(proc'[a])
    BY <2>4 DEF InStep, Early
  <2> QED BY <1>3, <1>4, <1>5, <2>1, <2>3, <2>4, <2>5, Quietly
<1>11. CASE Insert(a)
  <2>1. proc[a].pc = "insert" /\ store' = store
    BY <1>11 DEF Insert, At
  <2>2. CASE Raise(a) /\ row' = row
    BY <1>4, <2>1, <2>2, Rigid, GivesUp DEF Raise
  <2>3. CASE /\ row' = [row EXCEPT ![s] = [NoRow EXCEPT !.hash = proc[a].file, !.imslp = TRUE]]
             /\ Goto(a, "upload")
    <3>1. row[s].hash = None /\ Fresh(s) /\ On(s) = {a} /\ object[s] = None
      BY <1>s, <2>1 DEF Fresh
    <3>2. /\ OthersStay(a) /\ proc'[a].pc = "upload" /\ proc'[a].score = s
          /\ proc'[a].file = proc[a].file
      BY <1>3, <2>3, Going
    <3>3. On(s)' = {a}
      BY <3>1, <3>2 DEF On, OthersStay
    <3>4. row'[s].hash = proc[a].file /\ ~row'[s].converted
      BY <1>t, <2>3 DEF NoRow
    <3>5. proc[a].file # None
      BY <1>3, <2>1 DEF Sound
    <3>6. InStep(s, proc[a])'
      BY <3>2, <3>4 DEF InStep
    <3>7. Settled(s)'
      BY <2>1, <3>1, <3>3, <3>4, <3>6 DEF Settled, Fresh, Fits, store
    <3>8. Told(s)'
      BY <3>2, <3>3, <3>4, <3>5, <3>7 DEF Told
    <3>9. \A t \in Scores : t # s => SameData(t)
      BY <1>t, <2>1, <2>3 DEF SameData, MayFill, store
    <3> QED BY <1>3, <1>4, <3>2, <3>8, <3>9, OnlyHere
  <2> QED BY <1>2, <1>11, <2>2, <2>3 DEF Insert
<1>12. CASE Attach(a)
  <2>1. proc[a].pc = "attach" /\ Goto(a, "load") /\ \A t \in Scores : SameData(t)
    BY <1>12, Rigid DEF Attach, At
  <2>2. OthersStay(a) /\ proc'[a].pc = "load" /\ proc'[a].score = s
    BY <1>3, <2>1, Going
  <2>3. InStep(s, proc[a])' /\ Early(proc'[a])
    BY <2>2 DEF InStep, Early
  <2> QED BY <1>3, <1>4, <1>5, <2>1, <2>2, <2>3, Quietly
<1>13. CASE Load(a) \/ Reload(a)
  <2>1. /\ proc[a].pc \in {"load", "reload"} /\ UNCHANGED <<row, object, images, analysed>>
        /\ ~Replacing(s)
    BY <1>2, <1>13, <1>s DEF Load, Reload, At, Early
  <2>2. Settled(s) /\ row[s].hash # None /\ object[s] # None
    BY <1>3, <1>5, <1>s, <2>1 DEF Sound
  <2> DEFINE f == IF proc[a].pc = "load" THEN InCache(s) ELSE object[s]
  <2>3. f = row[s].hash
    BY <2>2 DEF InCache, Settled, Fits
  <2> HIDE DEF f
  <2>4. /\ cached' = [cached EXCEPT ![s] = f]
        /\ \/ Repairable(f) /\ With(a, "copy", Normal[f])
           \/ \E pc \in {"fetch", "reload"} : Goto(a, pc)
    BY <1>2, <1>13, <2>2, <2>3 DEF Load, Reload, At, f
  <2>5. cached'[s] = row[s].hash /\ \A t \in Scores : t # s => SameData(t)
    BY <1>t, <2>1, <2>3, <2>4 DEF SameData, MayFill
  <2>6. OthersStay(a) /\ proc'[a].score = s /\ InStep(s, proc[a])'
    <3>1. CASE Repairable(f) /\ With(a, "copy", Normal[f])
      <4>1. Normal[f] \in File
        BY <1>3, <2>3, <3>1, ScoreArchiveAssumption
        DEF ScoreArchiveAssumption, Repairable, File, Row
      <4>2. /\ OthersStay(a) /\ proc'[a].pc = "copy" /\ proc'[a].score = s
            /\ proc'[a].file = Normal[f]
        BY <1>3, <3>1, <4>1, GoingWith
      <4> QED BY <2>1, <2>3, <4>2 DEF InStep
    <3>2. CASE \E pc \in {"fetch", "reload"} : Goto(a, pc)
      <4>1. PICK pc \in {"fetch", "reload"} : Goto(a, pc)
        BY <3>2
      <4>2. OthersStay(a) /\ proc'[a].pc = pc /\ proc'[a].score = s
        BY <1>3, <4>1, Going
      <4> QED BY <4>2 DEF InStep
    <3> QED BY <2>4, <3>1, <3>2
  <2>7. Told(s)'
    BY <2>1, <2>2, <2>5, <2>6, GoesOn DEF Settled, Fits
  <2> QED BY <1>3, <1>4, <2>5, <2>6, <2>7, OnlyHere
<1>14. CASE Fetch(a)
  <2>1. proc[a].pc = "fetch" /\ \A t \in Scores : SameData(t)
    BY <1>14, Rigid DEF Fetch, At
  <2>2. CASE Raise(a)
    BY <1>4, <2>1, <2>2, GivesUp DEF Raise
  <2>3. CASE \E f \in Editions : Repairable(f) /\ With(a, "replace", Normal[f])
    <3>1. PICK f \in Editions : Repairable(f) /\ With(a, "replace", Normal[f])
      BY <2>3
    <3>2. Normal[f] \in File
      BY ScoreArchiveAssumption DEF ScoreArchiveAssumption, File
    <3>3. OthersStay(a) /\ proc'[a].pc = "replace" /\ proc'[a].score = s
      BY <1>3, <3>1, <3>2, GoingWith
    <3>4. InStep(s, proc[a])' /\ Early(proc'[a])
      BY <3>3 DEF InStep, Early
    <3> QED BY <1>3, <1>4, <1>5, <2>1, <3>3, <3>4, Quietly
  <2> QED BY <1>14, <2>2, <2>3 DEF Fetch
<1>15. CASE Replace(a)
  <2>1. /\ proc[a].pc = "replace" /\ Goto(a, "reset") /\ ~InWork(s, a)
        /\ object' = [object EXCEPT ![s] = proc[a].file]
        /\ UNCHANGED <<row, cached, images, analysed>>
    BY <1>2, <1>15 DEF Replace, At
  <2>2. /\ OthersStay(a) /\ proc'[a].pc = "reset" /\ proc'[a].score = s
        /\ proc'[a].file = proc[a].file
    BY <1>3, <2>1, Going
  <2>3. object'[s] = proc[a].file /\ \A t \in Scores : t # s => SameData(t)
    BY <1>t, <2>1 DEF SameData, MayFill
  <2>4. On(s)' = {a}
    BY <1>s, <2>1, <2>2 DEF On, OthersStay
  <2>5. Replacing(s)'
    BY <2>2 DEF Replacing
  <2>6. Alone(s, a)'
    BY <2>2, <2>3, <2>4 DEF Alone
  <2>7. Told(s)'
    BY <1>5, <2>1, <2>4, <2>5, <2>6 DEF Told
  <2> QED BY <1>3, <1>4, <2>2, <2>3, <2>7, OnlyHere
<1>16. CASE ResetRow(a)
  <2>1. /\ proc[a].pc = "reset" /\ Goto(a, "wipe") /\ UNCHANGED <<object, cached, images>>
        /\ row' = [row EXCEPT ![s] = [hash |-> proc[a].file, s3 |-> TRUE, imslp |-> TRUE,
                                      converted |-> FALSE]]
        /\ analysed' = [analysed EXCEPT ![s] = None]
    BY <1>2, <1>16 DEF ResetRow, At
  <2>2. /\ OthersStay(a) /\ proc'[a].pc = "wipe" /\ proc'[a].score = s
        /\ proc'[a].file = proc[a].file
    BY <1>3, <2>1, Going
  <2>3. /\ row'[s].hash = proc[a].file /\ ~row'[s].converted /\ analysed'[s] = None
        /\ \A t \in Scores : t # s => SameData(t)
    BY <1>t, <2>1 DEF SameData, MayFill
  <2>4. proc[a].file # None
    BY <1>3, <2>1 DEF Sound
  <2>5. \A b \in On(s)' : b # a => proc'[b] = proc[b] /\ Early(proc[b])
    BY <1>s, <2>1, <2>2 DEF On, OthersStay, Alone
  <2>6. Replacing(s)'
    BY <2>2 DEF Replacing
  <2>7. object'[s] = proc[a].file
    BY <1>s, <2>1 DEF Alone
  <2>8. Alone(s, a)'
    BY <2>2, <2>3, <2>5, <2>7 DEF Alone
  <2>9. Told(s)'
    BY <2>3, <2>4, <2>5, <2>6, <2>8 DEF Told, Early
  <2> QED BY <1>3, <1>4, <2>2, <2>3, <2>9, OnlyHere
<1>17. CASE Wipe(a)
  <2>1. /\ proc[a].pc = "wipe" /\ ~InWork(s, a) /\ UNCHANGED <<row, object, analysed>>
        /\ cached' = [cached EXCEPT ![s] = None] /\ images' = [images EXCEPT ![s] = None]
        /\ End(a) \/ Goto(a, "copy")
    BY <1>2, <1>17 DEF Wipe, At
  <2>2. /\ OthersStay(a) /\ proc'[a].score \in {s, None}
        /\ proc'[a].score = s => proc'[a].pc = "copy" /\ proc'[a].file = proc[a].file
    <3>1. CASE End(a)
      BY <1>3, <3>1, Ended
    <3>2. CASE Goto(a, "copy")
      BY <1>3, <3>2, Going
    <3> QED BY <2>1, <3>1, <3>2
  <2>3. cached'[s] = None /\ images'[s] = None /\ \A t \in Scores : t # s => SameData(t)
    BY <1>t, <2>1 DEF SameData, MayFill
  <2>4. /\ Normal[proc[a].file] = proc[a].file /\ object[s] = proc[a].file
        /\ row[s].hash = proc[a].file /\ row[s].hash # None /\ analysed[s] = None
    BY <1>3, <1>s, <2>1 DEF Sound, Alone
  <2>5. \A b \in On(s)' : b = a /\ proc'[a].score = s
    BY <1>s, <2>1, <2>2 DEF On, OthersStay
  <2>6. \A b \in On(s)' : InStep(s, proc[b])'
    BY <2>1, <2>2, <2>4, <2>5 DEF InStep
  <2>7. Settled(s)'
    BY <2>1, <2>3, <2>4, <2>6 DEF Settled, Fits
  <2>8. Told(s)'
    BY <2>1, <2>2, <2>4, <2>5, <2>7 DEF Told
  <2> QED BY <1>3, <1>4, <2>2, <2>3, <2>8, OnlyHere
<1>18. CASE Convert(a)
  <2>1. /\ proc[a].pc = "copy" /\ Goto(a, "mark") /\ UNCHANGED <<row, object, cached, analysed>>
        /\ images' = IF row[s].converted /\ images[s] # None THEN images
                     ELSE [images EXCEPT ![s] = proc[a].file]
    BY <1>2, <1>18 DEF Convert, At
  <2>2. /\ OthersStay(a) /\ proc'[a].pc = "mark" /\ proc'[a].score = s
        /\ proc'[a].file = proc[a].file
    BY <1>3, <2>1, Going
  <2>3. ~Replacing(s) /\ row[s].hash # None
    BY <1>5, <1>s, <2>1 DEF Early
  <2>4. Settled(s) /\ proc[a].file = Normal[row[s].hash]
    BY <1>s, <2>1, <2>3 DEF InStep
  <2>5. Fits(images'[s], Normal[row[s].hash])
    BY <1>t, <2>1, <2>4 DEF Settled, Fits
  <2>6. \A t \in Scores : t # s => SameData(t)
    BY <1>t, <2>1 DEF SameData, MayFill
  <2>7. InStep(s, proc[a])'
    BY <2>1, <2>2, <2>4, <2>5 DEF InStep
  <2>8. Told(s)'
    BY <2>1, <2>2, <2>3, <2>4, <2>5, <2>7, GoesOn DEF Settled
  <2> QED BY <1>3, <1>4, <2>2, <2>6, <2>8, OnlyHere
<1>19. CASE MarkConverted(a)
  <2>1. /\ proc[a].pc = "mark" /\ Goto(a, "analyse") /\ store' = store
        /\ row' = [row EXCEPT ![s].converted = TRUE, ![s].s3 = TRUE]
    BY <1>2, <1>19 DEF MarkConverted, At
  <2>2. /\ OthersStay(a) /\ proc'[a].pc = "analyse" /\ proc'[a].score = s
        /\ proc'[a].file = proc[a].file
    BY <1>3, <2>1, Going
  <2>3. /\ row'[s].hash = row[s].hash /\ row'[s].converted
        /\ \A t \in Scores : t # s => SameData(t)
    BY <1>3, <1>t, <2>1 DEF Row, SameData, MayFill, store
  <2>4. ~Replacing(s) /\ row[s].hash # None
    BY <1>5, <1>s, <2>1 DEF Early
  <2>5. /\ Settled(s) /\ proc[a].file = Normal[row[s].hash]
        /\ Fits(images[s], Normal[row[s].hash])
    BY <1>s, <2>1, <2>4 DEF InStep
  <2>6. InStep(s, proc[a])'
    BY <2>2, <2>3, <2>5 DEF InStep
  <2>7. Told(s)'
    BY <2>1, <2>2, <2>3, <2>4, <2>5, <2>6, GoesOn DEF Settled, store
  <2> QED BY <1>3, <1>4, <2>2, <2>3, <2>7, OnlyHere
<1>20. CASE Analyse(a)
  <2> DEFINE f == InCache(s)
             made == IF images[s] # None THEN images[s] ELSE IF f = None THEN None ELSE Normal[f]
  <2>1. proc[a].pc = "analyse" /\ UNCHANGED <<row, object, cached>> /\ End(a)
    BY <1>20 DEF Analyse, At, Raise
  <2>2. CASE analysed' = analysed /\ images' = images
    <3>1. \A t \in Scores : SameData(t)
      BY <2>1, <2>2 DEF SameData, MayFill
    <3> QED BY <1>4, <2>1, <3>1, GivesUp
  <2>3. CASE /\ analysed' = IF analysed[s] # None THEN analysed ELSE [analysed EXCEPT ![s] = made]
             /\ images' = IF analysed[s] # None THEN images ELSE [images EXCEPT ![s] = made]
    <3>1. ~Replacing(s) /\ row[s].hash # None
      BY <1>5, <1>s, <2>1 DEF Early
    <3>2. Settled(s) /\ row[s].converted
      BY <1>s, <2>1, <3>1 DEF InStep
    <3>3. Fits(f, row[s].hash) /\ Fits(images[s], Normal[row[s].hash])
      BY <3>2 DEF InCache, Settled
    <3> HIDE DEF f
    <3>4. Fits(made, Normal[row[s].hash])
      BY <3>3 DEF Fits
    <3> HIDE DEF made
    <3>5. /\ Fits(images'[s], Normal[row[s].hash]) /\ Fits(analysed'[s], Normal[row[s].hash])
          /\ \A t \in Scores : t # s => SameData(t)
      BY <1>t, <2>1, <2>3, <3>2, <3>3, <3>4 DEF Settled, SameData, MayFill
    <3>6. OthersStay(a) /\ proc'[a].score = None
      BY <2>1, Ended
    <3>7. Told(s)'
      BY <1>3, <2>1, <3>1, <3>2, <3>5, <3>6, GoesOn DEF Settled
    <3> QED BY <1>3, <1>4, <3>5, <3>6, <3>7, OnlyHere
  <2> QED BY <1>2, <1>20, <2>2, <2>3 DEF Analyse
<1> QED
  BY <1>6, <1>7, <1>8, <1>9, <1>10, <1>11, <1>12, <1>13, <1>14, <1>15, <1>16, <1>17, <1>18,
     <1>19, <1>20 DEF Step

LEMMA NextFit ==
  ASSUME ArchiveType, ArchivedInv, FitInv, [Next]_vars
  PROVE  FitInv'
<1>1. CASE UNCHANGED vars
  BY <1>1 DEF vars, store, FitInv, Told, Fresh, Settled, InStep, Alone, On, Replacing
<1>2. ASSUME NEW p \in Partsets, Create(p) \/ Start(p) PROVE FitInv'
  BY <1>2, CreateRequested, StartRequested, RequestedFit
<1> QED BY <1>1, <1>2, StepFit, RefetchFit, EvictFit, FailFit, KillFit DEF Next

\* The page images and the analysis of a converted score are those of the PDF that its
\* row names, while no replacement is at work and none was met, refused or cut off.
THEOREM ImagesAreArchived == Spec => []ImagesFitRow
<1>1. FitInv => ImagesFitRow
  <2> SUFFICES ASSUME FitInv, NEW s \in Scores, row[s].converted, ~Replacing(s), ~torn
               PROVE  {images[s], analysed[s]} \subseteq {None, Normal[row[s].hash]}
    BY DEF ImagesFitRow
  <2>1. row[s].hash # None
    BY DEF FitInv, Told, Fresh, NoRow
  <2>2. Settled(s)
    BY <2>1 DEF FitInv, Told
  <2> QED BY <2>2 DEF Settled, Fits
<1> QED
  BY <1>1, InitArchive, NextArchive, InitFit, NextFit, PTL DEF Spec

=============================================================================
