------------------------------ MODULE Library ------------------------------
(***************************************************************************)
(* Accounts, favourites, downloads and the removal of partsets: the        *)
(* requests of library.py, auth.py, downloads.py and partset_admin.py, and *)
(* the operator's two clean-up tools, delete_failed_partsets and           *)
(* purge_score_cluster.  The tables have no foreign keys: rows of other    *)
(* tables name a partset or a score that may be gone when they commit.     *)
(*                                                                         *)
(* A request reads in one step and commits in another, and remembers what  *)
(* it read; the tools are the client Operator.  Segments, breaks, parts    *)
(* and pages of a partset are one set of child rows.  What a request does  *)
(* to a partset while it exists, the editor's saves, generation and        *)
(* import, is in the other modules; here an import only inserts its rows.  *)
(***************************************************************************)
EXTENDS Naturals, FiniteSets

CONSTANTS
  Clients, Operator,    \* browsers, and the operator's shell
  Users, Partsets, Scores,
  Existing,             \* the partsets there are at first
  BatchSize,            \* DEFAULT_BATCH_SIZE
  MaxRequests,          \* bound: requests and tool runs
  MaxFaults,            \* bound: failed S3 calls and aborted tools
  None                  \* nobody

\* A row of partsets; a removal that is under way.
Row == [owner : Users \cup {None}, score : Scores, error : BOOLEAN, count : Nat]
Removal == [op : {"delete", "failed", "purge"}, partset : Partsets \cup {None},
            stage : {"rows", "next", "s3", "cache", "count", "wipe", "batch", "score", "files"},
            rest : SUBSET (Partsets \cup Scores), scores : SUBSET Scores]

ASSUME LibraryAssumption ==
  /\ Existing \subseteq Partsets /\ Operator \notin Clients
  /\ None \notin Users \cup Partsets \cup Row \cup Removal
  /\ BatchSize \in Nat \ {0} /\ MaxRequests \in Nat /\ MaxFaults \in Nat

VARIABLES
  users,      \* rows of users
  row,        \* rows of partsets: owner, score, error, num_downloads
  favorite,   \* rows of favorites: admin or not
  downloads,  \* number of rows of downloads, per partset
  children,   \* partsets with rows in segments, breaks, parts or pages
  cached,     \* what the local cache holds of partsets: a preview and part PDFs
              \* ("derived"), page images of a turned or split page ("pages")
  jobs,       \* imports that have read their partset and not yet its rows
  score,      \* rows of scores and original_*, the archived PDF, the local cache
  req,        \* what each client has under way
  requests, faults,
  keys,       \* history: who has opened which partset with its private id
  excused     \* history: partsets removed under another operation ("overlap") or by
              \* a purge ("purged"), committed after their score was found to have
              \* none ("late"), downloaded twice at once ("downloads")

vars == <<users, row, favorite, downloads, children, cached, jobs, score, req,
          requests, faults, keys, excused>>
rows == <<row, favorite, downloads, children>>
files == <<cached, jobs>>

Exists(p) == row[p] # None
Of(s) == {p \in Partsets : Exists(p) /\ row[p].score = s}
Free(c) == req[c] = None
Removals == {"delete", "failed", "purge"}
\* A tool has looked for partsets of s and found none, and has not ended.
Doomed(s) == /\ ~Free(Operator)
             /\ req[Operator].stage \in {"wipe", "score", "files"} /\ s \in req[Operator].scores
UnderWay(p, c) == p \in jobs \/ \E d \in DOMAIN req \ {c} : ~Free(d) /\ req[d].partset = p

Fresh(u, s) == [owner |-> u, score |-> s, error |-> FALSE, count |-> 0]
\* An archived score that is analysed.
Archived == [row |-> TRUE, originals |-> TRUE, pdf |-> TRUE, cached |-> TRUE]

\* A partset whose score is not analysed has an import that failed.
Init == /\ \E owner \in [Existing -> Users \cup {None}], error \in [Existing -> BOOLEAN],
              of \in [Existing -> Scores], analysed \in SUBSET Scores :
          /\ \A p \in Existing : error[p] \/ of[p] \in analysed
          /\ score = [s \in Scores |-> [Archived EXCEPT !.originals = s \in analysed]]
          /\ children = {p \in Existing : of[p] \in analysed}
          /\ row = [p \in Partsets |->
                      IF p \in Existing THEN [Fresh(owner[p], of[p]) EXCEPT !.error = error[p]]
                                        ELSE None]
        /\ users = {row[p].owner : p \in Existing} \ {None}
        /\ favorite = [k \in Partsets \X Users |->
                         IF k[1] \in Existing /\ row[k[1]].owner = k[2] THEN "admin" ELSE "none"]
        /\ downloads = [p \in Partsets |-> 0]
        /\ cached = {"derived", "pages"} \X children /\ jobs = {}
        /\ req = [c \in Clients \cup {Operator} |-> None]
        /\ requests = 0 /\ faults = 0
        /\ keys = {<<row[p].owner, p>> : p \in Existing}
        /\ excused = {}

(***************************************************************************)
(* Requests of the browser.                                                *)
(***************************************************************************)
Ask(c, r) == /\ Free(c)
             /\ requests < MaxRequests
             /\ requests' = requests + 1
             /\ req' = [req EXCEPT ![c] = r]
             /\ UNCHANGED <<users, score, faults, excused>>
Answer(c) == req' = [req EXCEPT ![c] = None] /\ UNCHANGED requests
Opened(u, p, mode) ==
  keys' = IF mode = "owner" THEN keys \cup {<<u, p>>} ELSE keys

\* The first sign-in of a user inserts the row; two at once collide on its key.
Login(c, u) == /\ Ask(c, [op |-> "login", user |-> u, partset |-> None])
               /\ UNCHANGED <<rows, files, keys>>
CommitLogin(c) == /\ ~Free(c) /\ req[c].op = "login"
                  /\ users' = users \cup {req[c].user}
                  /\ Answer(c)
                  /\ UNCHANGED <<rows, files, score, faults, keys, excused>>

\* Adding a favourite: resolve_partset_access reads the partset and its owner.
AddFavorite(c, u, p, mode) ==
  /\ u \in users /\ Exists(p)
  /\ Ask(c, [op |-> "add", user |-> u, partset |-> p, mode |-> mode, owner |-> row[p].owner])
  /\ Opened(u, p, mode)
  /\ UNCHANGED <<rows, files>>

\* The owner's link claims a partset nobody had claimed when it was read; an
\* UPDATE that meets no row is an error and the request commits nothing.
Claims(r) == r.mode = "owner" /\ r.owner = None
\* Mutant: every favourite is an admin's.
UpsertAdmin(r) == [favorite EXCEPT ![<<r.partset, r.user>>] = "admin"]
Upsert(r) == [favorite EXCEPT ![<<r.partset, r.user>>] =
                 IF r.mode = "owner" THEN "admin" ELSE "plain"]

CommitFavorite(c) ==
  LET r == req[c] IN
  /\ ~Free(c) /\ r.op = "add"
  /\ IF Claims(r) /\ ~Exists(r.partset)
     THEN UNCHANGED <<favorite, row>>
     ELSE /\ favorite' = Upsert(r)
          /\ row' = IF Claims(r) THEN [row EXCEPT ![r.partset].owner = r.user] ELSE row
  /\ Answer(c)
  /\ UNCHANGED <<users, downloads, children, files, score, faults, keys, excused>>

RemoveFavorite(c, u, p) ==
  /\ u \in users /\ Exists(p) /\ favorite[<<p, u>>] # "none"
  /\ Free(c) /\ requests < MaxRequests /\ requests' = requests + 1
  /\ favorite' = [favorite EXCEPT ![<<p, u>>] = "none"]
  /\ UNCHANGED <<users, row, downloads, children, files, score, req, faults, keys, excused>>

\* favorite_status turns a favourite into an admin's when the private id asks.
ReadStatus(c, u, p) ==
  /\ u \in users /\ Exists(p) /\ favorite[<<p, u>>] = "plain"
  /\ Ask(c, [op |-> "status", user |-> u, partset |-> p])
  /\ Opened(u, p, "owner")
  /\ UNCHANGED <<rows, files>>
CommitStatus(c) ==
  /\ ~Free(c) /\ req[c].op = "status"
  /\ favorite' = [favorite EXCEPT ![<<req[c].partset, req[c].user>>] =
                     IF @ = "none" THEN "none" ELSE "admin"]
  /\ Answer(c)
  /\ UNCHANGED <<users, row, downloads, children, files, score, faults, keys, excused>>

\* A part is served from the cache and recorded: num_downloads is read here...
Download(c, p) ==
  /\ Exists(p) /\ <<"derived", p>> \in cached /\ p \in children
  /\ Ask(c, [op |-> "download", partset |-> p, count |-> row[p].count])
  /\ UNCHANGED <<rows, files, keys>>
\* Mutant: the attempt that failed is not undone before the next.
CountTwice(c) ==
  LET p == req[c].partset IN
  /\ ~Free(c) /\ req[c].op = "download" /\ Exists(p)
  /\ downloads' = [downloads EXCEPT ![p] = @ + 1]
  /\ row' = [row EXCEPT ![p].count = req[c].count + 2]
  /\ Answer(c)
  /\ UNCHANGED <<users, favorite, children, files, score, faults, keys, excused>>

\* ... and written back here with the row (whose table has no unique key, so the
\* retry on IntegrityError never runs).
CommitDownload(c) ==
  LET p == req[c].partset IN
  /\ ~Free(c) /\ req[c].op = "download"
  /\ IF Exists(p)
     THEN /\ downloads' = [downloads EXCEPT ![p] = @ + 1]
          /\ row' = [row EXCEPT ![p].count = req[c].count + 1]
     ELSE UNCHANGED <<downloads, row>>
  /\ excused' = IF \E d \in Clients \ {c} : ~Free(d) /\ req[d].op = "download"
                                                 /\ req[d].partset = p
                   THEN excused \cup {<<p, "downloads">>} ELSE excused
  /\ Answer(c)
  /\ UNCHANGED <<users, favorite, children, files, score, faults, keys>>

\* "Partify" an archived score: the score is looked up, then the partset is
\* committed, with the copies of an analysed score or with an import to make them.
FindScore(c, u, s) ==
  /\ u \in users \cup {None} /\ score[s].row
  /\ Ask(c, [op |-> "create", user |-> u, partset |-> None, score |-> s,
             analysed |-> score[s].originals])
  /\ UNCHANGED <<rows, files, keys>>
CommitCreate(c) ==
  LET r == req[c] IN
  /\ ~Free(c) /\ r.op = "create"
  /\ \E p \in Partsets \ (Existing \cup {k[2] : k \in keys}) :
       /\ row' = [row EXCEPT ![p] = Fresh(r.user, r.score)]
       /\ favorite' = [k \in Partsets \X Users |-> IF k = <<p, r.user>> THEN "admin" ELSE favorite[k]]
       /\ children' = IF r.analysed THEN children \cup {p} ELSE children
       /\ jobs' = IF r.analysed THEN jobs ELSE jobs \cup {p}
       /\ keys' = keys \cup {<<r.user, p>>}
       /\ excused' = IF Doomed(r.score) \/ ~score[r.score].row
                        THEN excused \cup {<<p, "late">>} ELSE excused
  /\ Answer(c)
  /\ UNCHANGED <<users, downloads, cached, score, faults>>

(***************************************************************************)
(* The worker: an import inserts rows for the partset it has read, and a   *)
(* failure of any job marks it.                                            *)
(***************************************************************************)
JobInserts(p) == /\ p \in jobs
                 /\ children' = children \cup {p} /\ jobs' = jobs \ {p}
                 /\ UNCHANGED <<users, row, favorite, downloads, cached, score, req,
                                requests, faults, keys, excused>>
JobFails(p) == /\ p \in jobs
               /\ jobs' = jobs \ {p}
               /\ row' = IF Exists(p) THEN [row EXCEPT ![p].error = TRUE] ELSE row
               /\ UNCHANGED <<users, favorite, downloads, children, cached, score, req,
                              requests, faults, keys, excused>>

(***************************************************************************)
(* delete_partset: rows in one transaction, then S3, then the local cache. *)
(***************************************************************************)
\* Mutant: the favourites stay.
WithoutOthers(ps, c) ==
  /\ row' = [p \in Partsets |-> IF p \in ps THEN None ELSE row[p]]
  /\ downloads' = [p \in Partsets |-> IF p \in ps THEN 0 ELSE downloads[p]]
  /\ children' = children \ ps
  /\ excused' = excused \cup {<<p, "overlap">> : p \in {q \in ps : UnderWay(q, c)}}
  /\ UNCHANGED favorite

Without(ps, c) ==
  /\ row' = [p \in Partsets |-> IF p \in ps THEN None ELSE row[p]]
  /\ favorite' = [k \in Partsets \X Users |-> IF k[1] \in ps THEN "none" ELSE favorite[k]]
  /\ downloads' = [p \in Partsets |-> IF p \in ps THEN 0 ELSE downloads[p]]
  /\ children' = children \ ps
  /\ excused' = excused \cup {<<p, "overlap">> : p \in {q \in ps : UnderWay(q, c)}}
                        \cup {<<p, "purged">> : p \in {q \in ps : req[c].op = "purge"}}

Deleting(op, p, rest, of) ==
  [op |-> op, stage |-> "rows", partset |-> p, rest |-> rest, scores |-> of]

Delete(c, p) == /\ Exists(p)
                /\ Ask(c, Deleting("delete", p, {}, {}))
                /\ UNCHANGED <<rows, cached, jobs, keys>>

At(c, stage) == ~Free(c) /\ req[c].op \in Removals /\ req[c].stage = stage
To(c, stage) == req' = [req EXCEPT ![c].stage = stage]

\* The commit expires the partsets of the tool's list: the first is taken as it was
\* listed, the others are read again, and the tool fails if one is gone.
DeleteRows(c) ==
  LET p == req[c].partset IN
  /\ At(c, "rows") \/ At(c, "next")
  /\ IF At(c, "next") /\ ~Exists(p)
     THEN req' = [req EXCEPT ![c] = None] /\ UNCHANGED <<rows, excused>>
     ELSE To(c, "s3") /\ Without({p}, c)
  /\ UNCHANGED <<users, cached, jobs, score, requests, faults, keys>>

\* delete_prefix may fail: the partset is gone, its cache entries stay.
DeleteObjects(c) ==
  /\ At(c, "s3")
  /\ \/ To(c, "cache") /\ UNCHANGED faults
     \/ faults < MaxFaults /\ faults' = faults + 1 /\ req' = [req EXCEPT ![c] = None]
  /\ UNCHANGED <<users, rows, cached, jobs, score, requests, keys, excused>>

\* The preview and the part PDFs go; no one invalidates the page images, which stay
\* until the eviction.  The request ends; the tool goes on with its list, then with
\* the scores.
InvalidateCaches(c) ==
  /\ At(c, "cache")
  /\ cached' = cached \ {<<"derived", req[c].partset>>}
  /\ LET r == req[c] IN
     \E p \in IF r.rest = {} THEN {None} ELSE r.rest :
       req' = [req EXCEPT ![c] =
                 IF r.op = "delete" THEN None
                 ELSE IF r.rest = {} THEN [r EXCEPT !.partset = None, !.stage = "count"]
                 ELSE [r EXCEPT !.partset = p, !.rest = r.rest \ {p}, !.stage = "next"]]
  /\ UNCHANGED <<users, rows, jobs, score, requests, faults, keys, excused>>

(***************************************************************************)
(* The operator's tools.                                                   *)
(***************************************************************************)
\* delete_failed_partsets --confirm for user u.
DeleteFailed(u) ==
  LET failed == {p \in Partsets : Exists(p) /\ row[p].owner = u /\ row[p].error} IN
  /\ failed # {}
  /\ \E p \in failed :
       Ask(Operator, Deleting("failed", p, failed \ {p}, {row[q].score : q \in failed}))
  /\ UNCHANGED <<rows, cached, jobs, keys>>

\* _purge_orphan_score counts the partsets of every score in one snapshot.
\* Mutant: nothing is counted.
AllScores == req[Operator].scores
Orphans == {s \in req[Operator].scores : Of(s) = {}}
CountPartsets ==
  /\ At(Operator, "count")
  /\ req' = [req EXCEPT ![Operator].scores = Orphans, ![Operator].rest = Orphans,
                        ![Operator].stage = "wipe"]
  /\ UNCHANGED <<users, rows, cached, jobs, score, requests, faults, keys, excused>>

\* The cache and the archived PDF go at once, one score after the other; a
\* failure of S3 is ignored.
WipeScore ==
  /\ At(Operator, "wipe")
  /\ \E s \in req[Operator].rest :
       /\ \/ score' = [score EXCEPT ![s].cached = FALSE, ![s].pdf = FALSE] /\ UNCHANGED faults
          \/ /\ faults < MaxFaults /\ faults' = faults + 1
             /\ score' = [score EXCEPT ![s].cached = FALSE]
       /\ req' = [req EXCEPT ![Operator].rest = @ \ {s}]
  /\ UNCHANGED <<users, rows, cached, jobs, requests, keys, excused>>

\* The rows of all the scores go when the tool commits, at its end.
Unrecorded(s) == [score[s] EXCEPT !.row = FALSE, !.originals = FALSE]
CommitWipe ==
  /\ At(Operator, "wipe") /\ req[Operator].rest = {}
  /\ score' = [s \in Scores |-> IF s \in req[Operator].scores THEN Unrecorded(s) ELSE score[s]]
  /\ req' = [req EXCEPT ![Operator] = None]
  /\ UNCHANGED <<users, rows, cached, jobs, requests, faults, keys, excused>>

\* purge_score_cluster --confirm: batches until it finds no partset.
Purge(s) == /\ score[s].row
            /\ Ask(Operator, [op |-> "purge", stage |-> "batch", partset |-> None,
                              rest |-> {}, scores |-> {s}])
            /\ UNCHANGED <<rows, cached, jobs, keys>>

PurgeBatch ==
  /\ At(Operator, "batch")
  /\ \E s \in req[Operator].scores, batch \in SUBSET Partsets :
       /\ batch \subseteq Of(s)
       /\ Cardinality(batch) = BatchSize \/ (batch = Of(s) /\ Cardinality(batch) < BatchSize)
       /\ IF batch = {} THEN To(Operator, "score") /\ UNCHANGED <<rows, excused>>
                        ELSE Without(batch, Operator) /\ UNCHANGED req
  /\ UNCHANGED <<users, cached, jobs, score, requests, faults, keys>>

PurgeScore ==
  /\ At(Operator, "score") /\ To(Operator, "files")
  /\ score' = [s \in Scores |-> IF s \in req[Operator].scores THEN Unrecorded(s) ELSE score[s]]
  /\ UNCHANGED <<users, rows, cached, jobs, requests, faults, keys, excused>>

PurgeFiles ==
  /\ At(Operator, "files")
  /\ \E pdf \in BOOLEAN :
       /\ pdf => faults < MaxFaults
       /\ faults' = IF pdf THEN faults + 1 ELSE faults
       /\ score' = [s \in Scores |-> IF s \in req[Operator].scores
                      THEN [score[s] EXCEPT !.cached = FALSE, !.pdf = @ /\ pdf] ELSE score[s]]
  /\ req' = [req EXCEPT ![Operator] = None]
  /\ UNCHANGED <<users, rows, cached, jobs, requests, keys, excused>>

\* The operator interrupts a tool: its transaction is rolled back, its files stay gone.
Abort == /\ ~Free(Operator)
         /\ faults < MaxFaults
         /\ faults' = faults + 1
         /\ req' = [req EXCEPT ![Operator] = None]
         /\ UNCHANGED <<users, rows, cached, jobs, score, requests, keys, excused>>

Next ==
  \/ \E c \in Clients :
       \/ \E u \in Users :
            \/ Login(c, u)
            \/ \E p \in Partsets : \/ RemoveFavorite(c, u, p) \/ ReadStatus(c, u, p)
                                   \/ \E mode \in {"owner", "public"} : AddFavorite(c, u, p, mode)
       \/ \E p \in Partsets : Download(c, p) \/ Delete(c, p)
       \/ \E u \in Users \cup {None}, s \in Scores : FindScore(c, u, s)
       \/ CommitLogin(c) \/ CommitFavorite(c) \/ CommitStatus(c) \/ CommitDownload(c)
       \/ CommitCreate(c)
  \/ \E p \in Partsets : JobInserts(p) \/ JobFails(p)
  \/ \E c \in Clients \cup {Operator} : DeleteRows(c) \/ DeleteObjects(c) \/ InvalidateCaches(c)
  \/ \E u \in Users : DeleteFailed(u)
  \/ \E s \in Scores : Purge(s)
  \/ CountPartsets \/ WipeScore \/ CommitWipe
  \/ PurgeBatch \/ PurgeScore \/ PurgeFiles \/ Abort

Spec == Init /\ [][Next]_vars
-----------------------------------------------------------------------------
(***************************************************************************)
(* Properties.                                                             *)
(***************************************************************************)
\* A partset's score is there, with its PDF: the tools remove what no partset
\* uses.  (Excused: a partset committed after a tool had looked, and the PDF
\* where the tool was aborted before it committed.)
ScoreKept ==
  \A p \in Partsets : Exists(p) /\ <<p, "late">> \notin excused =>
    /\ score[row[p].score].row
    /\ score[row[p].score].pdf \/ faults > 0

\* A partset that is removed leaves no row of another table behind, and once its
\* deletion is over no preview and no part PDF; its page images stay.  (Excused: a
\* request or an import that had read the partset before and commits after; files
\* after a failure of S3, or of a purge, which leaves them to the eviction.)
NothingLeft ==
  \A p \in Partsets : ~Exists(p) /\ <<p, "overlap">> \notin excused =>
    /\ \A u \in Users : favorite[<<p, u>>] = "none"
    /\ downloads[p] = 0
    /\ p \notin children
    /\ <<"derived", p>> \in cached => \/ <<p, "purged">> \in excused
                                      \/ faults > 0
                                      \/ \E c \in DOMAIN req : ~Free(c) /\ req[c].partset = p

\* The library gives the editor's link to those who have had it, and keeps it from
\* the others: a favourite is an admin's only for who has used the private id.
AdminHadKey ==
  \A p \in Partsets, u \in Users : favorite[<<p, u>>] = "admin" => <<u, p>> \in keys

\* num_downloads counts the rows of downloads; it falls behind only when two
\* downloads of the partset overlap, and never runs ahead.
Counted ==
  \A p \in Partsets : Exists(p) =>
    /\ row[p].count <= downloads[p]
    /\ row[p].count < downloads[p] => <<p, "downloads">> \in excused
============================================================================
