---------------------------- MODULE LibraryProofs ----------------------------
(***************************************************************************)
(* Theorems about the library, for any number of browsers, users, partsets *)
(* and scores: who gets the editor's link (KeyInv), and what removals,     *)
(* clean-up tools and downloads leave behind (LibInv).                     *)
(***************************************************************************)
EXTENDS Library, FiniteSetTheorems, TLAPS

Everyone == Clients \cup {Operator}

\* A removal keeps its kind while it goes through its stages.
RemovalsHaveOp ==
  \A c \in Everyone : req[c] # None /\ req[c].op \in Removals => "op" \in DOMAIN req[c]

\* A request under way that will make a favourite an admin's has used the private id.
AdminsToBe ==
  \A c \in Everyone :
    /\ req[c] # None /\ req[c].op = "add" /\ req[c].mode = "owner"
         => <<req[c].user, req[c].partset>> \in keys
    /\ req[c] # None /\ req[c].op = "status" => <<req[c].user, req[c].partset>> \in keys

FavoriteType == favorite \in [Partsets \X Users -> {"none", "plain", "admin"}]

\* AdminHadKey is not inductive: a request turns the key into a favourite later.
KeyInv ==
  /\ DOMAIN req = Everyone
  /\ FavoriteType
  /\ RemovalsHaveOp
  /\ AdminsToBe
  /\ AdminHadKey

-----------------------------------------------------------------------------
\* Asking leaves the other clients' requests alone.
LEMMA AskKeeps ==
  ASSUME DOMAIN req = Everyone, NEW c \in Everyone, NEW r, Ask(c, r)
  PROVE  /\ DOMAIN req' = Everyone
         /\ req'[c] = r
         /\ \A d \in Everyone : d # c => req'[d] = req[d]
  BY DEF Ask

\* A request that touches neither favourites nor keys and is none of the two kinds.
LEMMA AskOther ==
  ASSUME KeyInv, NEW c \in Everyone, NEW r, Ask(c, r),
         r.op \notin {"add", "status"}, "op" \in DOMAIN r,
         UNCHANGED <<favorite, keys>>
  PROVE  KeyInv'
<1>1. DOMAIN req' = Everyone /\ req'[c] = r /\ \A d \in Everyone : d # c => req'[d] = req[d]
  BY AskKeeps DEF KeyInv
<1>2. FavoriteType' /\ AdminHadKey'
  BY DEF KeyInv, FavoriteType, AdminHadKey
<1>3. RemovalsHaveOp'
  BY <1>1 DEF KeyInv, RemovalsHaveOp
<1>4. AdminsToBe'
  BY <1>1 DEF KeyInv, AdminsToBe
<1> QED BY <1>1, <1>2, <1>3, <1>4 DEF KeyInv

\* A request that ends.
LEMMA AnswerKeeps ==
  ASSUME KeyInv, NEW c \in Everyone, req' = [req EXCEPT ![c] = None], keys \subseteq keys'
  PROVE  DOMAIN req' = Everyone /\ RemovalsHaveOp' /\ AdminsToBe'
<1>1. DOMAIN req' = Everyone /\ req'[c] = None /\ \A d \in Everyone : d # c => req'[d] = req[d]
  BY DEF KeyInv
<1>2. RemovalsHaveOp'
  BY <1>1 DEF KeyInv, RemovalsHaveOp
<1>3. AdminsToBe'
  BY <1>1 DEF KeyInv, AdminsToBe
<1> QED BY <1>1, <1>2, <1>3

\* A step that leaves the requests.
LEMMA SameRequests ==
  ASSUME KeyInv, UNCHANGED req, keys \subseteq keys'
  PROVE  DOMAIN req' = Everyone /\ RemovalsHaveOp' /\ AdminsToBe'
  BY DEF KeyInv, RemovalsHaveOp, AdminsToBe

\* A removal that goes to its next stage.
LEMMA ToKeeps ==
  ASSUME KeyInv, NEW c \in Everyone, req[c] # None, req[c].op \in Removals,
         NEW r, r.op = req[c].op, "op" \in DOMAIN r,
         req' = [req EXCEPT ![c] = r], keys' = keys
  PROVE  DOMAIN req' = Everyone /\ RemovalsHaveOp' /\ AdminsToBe'
<1>1. DOMAIN req' = Everyone /\ req'[c] = r /\ \A d \in Everyone : d # c => req'[d] = req[d]
  BY DEF KeyInv
<1>2. RemovalsHaveOp'
  BY <1>1 DEF KeyInv, RemovalsHaveOp
<1>3. req'[c].op \notin {"add", "status"}
  BY <1>1 DEF Removals
<1>4. AdminsToBe'
  BY <1>1, <1>3 DEF KeyInv, AdminsToBe
<1> QED BY <1>1, <1>2, <1>4

\* The rows of removed partsets lose their favourites, the others keep them.
LEMMA WithoutKeeps ==
  ASSUME KeyInv, NEW ps, NEW c, Without(ps, c), keys' = keys
  PROVE  FavoriteType' /\ AdminHadKey'
<1>1. FavoriteType'
  BY DEF KeyInv, FavoriteType, Without
<1>2. AdminHadKey'
  BY DEF KeyInv, FavoriteType, AdminHadKey, Without
<1> QED BY <1>1, <1>2

-----------------------------------------------------------------------------
(* The actions that make favourites or keys, or read what a commit will use. *)

LEMMA InitKeys == Init => KeyInv
<1> SUFFICES ASSUME Init PROVE KeyInv
  OBVIOUS
<1>1. DOMAIN req = Everyone /\ \A c \in Everyone : req[c] = None
  BY DEF Init, Everyone
<1>2. FavoriteType
  BY DEF Init, FavoriteType
<1>3. AdminHadKey
  <2> SUFFICES ASSUME NEW p \in Partsets, NEW u \in Users, favorite[<<p, u>>] = "admin"
               PROVE  <<u, p>> \in keys
    BY DEF AdminHadKey
  <2>1. p \in Existing /\ row[p].owner = u
    BY DEF Init
  <2> QED BY <2>1 DEF Init
<1> QED BY <1>1, <1>2, <1>3 DEF KeyInv, RemovalsHaveOp, AdminsToBe

LEMMA AddKeepsKeys ==
  ASSUME KeyInv, NEW c \in Clients, NEW u \in Users, NEW p \in Partsets,
         NEW mode \in {"owner", "public"}, AddFavorite(c, u, p, mode)
  PROVE  KeyInv'
<1> DEFINE r == [op |-> "add", user |-> u, partset |-> p, mode |-> mode, owner |-> row[p].owner]
<1>1. Ask(c, r) /\ favorite' = favorite /\ Opened(u, p, mode)
  BY DEF AddFavorite, rows
<1>2. DOMAIN req' = Everyone /\ req'[c] = r /\ \A d \in Everyone : d # c => req'[d] = req[d]
  BY <1>1, AskKeeps DEF KeyInv, Everyone
<1>3. keys \subseteq keys' /\ (r.mode = "owner" => <<r.user, r.partset>> \in keys')
  BY <1>1 DEF Opened
<1>4. r.op \notin Removals /\ r.op # "status"
  BY DEF Removals
<1> HIDE DEF r
<1>5. FavoriteType' /\ AdminHadKey'
  BY <1>1, <1>3 DEF KeyInv, FavoriteType, AdminHadKey
<1>6. RemovalsHaveOp'
  BY <1>2, <1>4 DEF KeyInv, RemovalsHaveOp
<1>7. AdminsToBe'
  BY <1>2, <1>3, <1>4 DEF KeyInv, AdminsToBe
<1> QED BY <1>2, <1>5, <1>6, <1>7 DEF KeyInv

LEMMA StatusKeepsKeys ==
  ASSUME KeyInv, NEW c \in Clients, NEW u \in Users, NEW p \in Partsets, ReadStatus(c, u, p)
  PROVE  KeyInv'
<1> DEFINE r == [op |-> "status", user |-> u, partset |-> p]
<1>1. Ask(c, r) /\ favorite' = favorite /\ Opened(u, p, "owner")
  BY DEF ReadStatus, rows
<1>2. DOMAIN req' = Everyone /\ req'[c] = r /\ \A d \in Everyone : d # c => req'[d] = req[d]
  BY <1>1, AskKeeps DEF KeyInv, Everyone
<1>3. keys \subseteq keys' /\ <<r.user, r.partset>> \in keys'
  BY <1>1 DEF Opened
<1>4. r.op \notin Removals /\ r.op # "add"
  BY DEF Removals
<1> HIDE DEF r
<1>5. FavoriteType' /\ AdminHadKey'
  BY <1>1, <1>3 DEF KeyInv, FavoriteType, AdminHadKey
<1>6. RemovalsHaveOp'
  BY <1>2, <1>4 DEF KeyInv, RemovalsHaveOp
<1>7. AdminsToBe'
  BY <1>2, <1>3, <1>4 DEF KeyInv, AdminsToBe
<1> QED BY <1>2, <1>5, <1>6, <1>7 DEF KeyInv

LEMMA CommitFavoriteKeepsKeys ==
  ASSUME KeyInv, NEW c \in Clients, CommitFavorite(c)
  PROVE  KeyInv'
<1> DEFINE r == req[c]
<1>1. r # None /\ r.op = "add" /\ Answer(c) /\ keys' = keys
      /\ (favorite' = favorite \/ favorite' = Upsert(r))
  BY DEF CommitFavorite, Free
<1>2. r.mode = "owner" => <<r.user, r.partset>> \in keys
  BY <1>1 DEF KeyInv, AdminsToBe, Everyone
<1> HIDE DEF r
<1>3. DOMAIN req' = Everyone /\ RemovalsHaveOp' /\ AdminsToBe'
  BY <1>1, AnswerKeeps DEF Answer, Everyone
<1>4. FavoriteType'
  BY <1>1 DEF KeyInv, FavoriteType, Upsert
<1>5. AdminHadKey'
  <2> SUFFICES ASSUME NEW p \in Partsets, NEW u \in Users, favorite'[<<p, u>>] = "admin",
                      favorite[<<p, u>>] # "admin"
               PROVE  <<u, p>> \in keys
    BY <1>1 DEF KeyInv, AdminHadKey
  <2>1. <<p, u>> = <<r.partset, r.user>> /\ r.mode = "owner"
    BY <1>1 DEF KeyInv, FavoriteType, Upsert
  <2> QED BY <2>1, <1>2
<1> QED BY <1>3, <1>4, <1>5 DEF KeyInv

LEMMA CommitStatusKeepsKeys ==
  ASSUME KeyInv, NEW c \in Clients, CommitStatus(c)
  PROVE  KeyInv'
<1> DEFINE r == req[c]
<1>1. /\ r # None /\ r.op = "status" /\ Answer(c) /\ keys' = keys
      /\ favorite' = [favorite EXCEPT ![<<r.partset, r.user>>] = IF @ = "none" THEN "none" ELSE "admin"]
  BY DEF CommitStatus, Free
<1>2. <<r.user, r.partset>> \in keys
  BY <1>1 DEF KeyInv, AdminsToBe, Everyone
<1> HIDE DEF r
<1>3. DOMAIN req' = Everyone /\ RemovalsHaveOp' /\ AdminsToBe'
  BY <1>1, AnswerKeeps DEF Answer, Everyone
<1>4. FavoriteType'
  BY <1>1 DEF KeyInv, FavoriteType
<1>5. AdminHadKey'
  <2> SUFFICES ASSUME NEW p \in Partsets, NEW u \in Users, favorite'[<<p, u>>] = "admin",
                      favorite[<<p, u>>] # "admin"
               PROVE  <<u, p>> \in keys
    BY <1>1 DEF KeyInv, AdminHadKey
  <2>1. <<p, u>> = <<r.partset, r.user>>
    BY <1>1 DEF KeyInv, FavoriteType
  <2> QED BY <2>1, <1>2
<1> QED BY <1>3, <1>4, <1>5 DEF KeyInv

LEMMA CommitCreateKeepsKeys ==
  ASSUME KeyInv, NEW c \in Clients, CommitCreate(c)
  PROVE  KeyInv'
<1> DEFINE r == req[c]
<1>1. PICK p \in Partsets :
        /\ favorite' = [k \in Partsets \X Users |-> IF k = <<p, r.user>> THEN "admin" ELSE favorite[k]]
        /\ keys' = keys \cup {<<r.user, p>>}
  BY DEF CommitCreate
<1>2. DOMAIN req' = Everyone /\ RemovalsHaveOp' /\ AdminsToBe'
  BY <1>1, AnswerKeeps DEF CommitCreate, Answer, Everyone
<1> HIDE DEF r
<1>3. FavoriteType'
  BY <1>1 DEF KeyInv, FavoriteType
<1>4. AdminHadKey'
  <2> SUFFICES ASSUME NEW q \in Partsets, NEW u \in Users, favorite'[<<q, u>>] = "admin"
               PROVE  <<u, q>> \in keys'
    BY DEF AdminHadKey
  <2>1. CASE <<q, u>> = <<p, r.user>>
    BY <1>1, <2>1
  <2>2. CASE <<q, u>> # <<p, r.user>>
    BY <1>1, <2>2 DEF KeyInv, AdminHadKey
  <2> QED BY <2>1, <2>2
<1> QED BY <1>2, <1>3, <1>4 DEF KeyInv

-----------------------------------------------------------------------------
(* The other actions. *)

LEMMA RequestsKeepKeys ==
  ASSUME KeyInv, NEW c \in Clients,
         \/ \E u \in Users : Login(c, u)
         \/ \E p \in Partsets : Download(c, p) \/ Delete(c, p)
         \/ \E u \in Users \cup {None}, s \in Scores : FindScore(c, u, s)
  PROVE  KeyInv'
<1>1. ASSUME NEW u \in Users, Login(c, u) PROVE KeyInv'
  <2> DEFINE r == [op |-> "login", user |-> u, partset |-> None]
  <2>1. r.op \notin {"add", "status"} /\ "op" \in DOMAIN r
    OBVIOUS
  <2>2. Ask(c, r) /\ UNCHANGED <<favorite, keys>>
    BY <1>1 DEF Login, rows
  <2> HIDE DEF r
  <2> QED BY <2>1, <2>2, AskOther DEF Everyone
<1>2. ASSUME NEW p \in Partsets, Download(c, p) PROVE KeyInv'
  <2> DEFINE r == [op |-> "download", partset |-> p, count |-> row[p].count]
  <2>1. r.op \notin {"add", "status"} /\ "op" \in DOMAIN r
    OBVIOUS
  <2>2. Ask(c, r) /\ UNCHANGED <<favorite, keys>>
    BY <1>2 DEF Download, rows
  <2> HIDE DEF r
  <2> QED BY <2>1, <2>2, AskOther DEF Everyone
<1>3. ASSUME NEW p \in Partsets, Delete(c, p) PROVE KeyInv'
  <2> DEFINE r == Deleting("delete", p, {}, {})
  <2>1. r.op \notin {"add", "status"} /\ "op" \in DOMAIN r
    BY DEF Deleting
  <2>2. Ask(c, r) /\ UNCHANGED <<favorite, keys>>
    BY <1>3 DEF Delete, rows
  <2> HIDE DEF r
  <2> QED BY <2>1, <2>2, AskOther DEF Everyone
<1>4. ASSUME NEW u \in Users \cup {None}, NEW s \in Scores, FindScore(c, u, s) PROVE KeyInv'
  <2> DEFINE r == [op |-> "create", user |-> u, partset |-> None, score |-> s,
                   analysed |-> score[s].originals]
  <2>1. r.op \notin {"add", "status"} /\ "op" \in DOMAIN r
    OBVIOUS
  <2>2. Ask(c, r) /\ UNCHANGED <<favorite, keys>>
    BY <1>4 DEF FindScore, rows
  <2> HIDE DEF r
  <2> QED BY <2>1, <2>2, AskOther DEF Everyone
<1> QED BY <1>1, <1>2, <1>3, <1>4

LEMMA AnswersKeepKeys ==
  ASSUME KeyInv, NEW c \in Clients, CommitLogin(c) \/ CommitDownload(c)
  PROVE  KeyInv'
<1>1. req' = [req EXCEPT ![c] = None] /\ UNCHANGED <<favorite, keys>>
  BY DEF CommitLogin, CommitDownload, Answer, rows
<1>2. DOMAIN req' = Everyone /\ RemovalsHaveOp' /\ AdminsToBe'
  BY <1>1, AnswerKeeps DEF Everyone
<1> QED BY <1>1, <1>2 DEF KeyInv, FavoriteType, AdminHadKey

LEMMA RemovingFavoriteKeepsKeys ==
  ASSUME KeyInv, NEW c \in Clients, NEW u \in Users, NEW p \in Partsets, RemoveFavorite(c, u, p)
  PROVE  KeyInv'
<1>1. favorite' = [favorite EXCEPT ![<<p, u>>] = "none"] /\ UNCHANGED <<req, keys>>
  BY DEF RemoveFavorite
<1>2. DOMAIN req' = Everyone /\ RemovalsHaveOp' /\ AdminsToBe'
  BY <1>1, SameRequests
<1> QED BY <1>1, <1>2 DEF KeyInv, FavoriteType, AdminHadKey

\* Steps of jobs and tools that leave favourites and keys alone, and requests
\* or end one.
LEMMA QuietKeepsKeys ==
  ASSUME KeyInv, UNCHANGED <<favorite, keys>>,
         \/ UNCHANGED req
         \/ \E c \in Everyone : req' = [req EXCEPT ![c] = None]
  PROVE  KeyInv'
<1>1. DOMAIN req' = Everyone /\ RemovalsHaveOp' /\ AdminsToBe'
  BY SameRequests, AnswerKeeps
<1> QED BY <1>1 DEF KeyInv, FavoriteType, AdminHadKey

\* A removal that goes on, and touches favourites or not.
LEMMA StageKeepsKeys ==
  ASSUME KeyInv, NEW c \in Everyone, NEW stage, At(c, stage), NEW r,
         r.op = req[c].op, "op" \in DOMAIN r,
         req' = [req EXCEPT ![c] = r], keys' = keys,
         favorite' = favorite \/ \E ps : Without(ps, c)
  PROVE  KeyInv'
<1>1. DOMAIN req' = Everyone /\ RemovalsHaveOp' /\ AdminsToBe'
  BY ToKeeps DEF At, Free
<1>2. FavoriteType' /\ AdminHadKey'
  BY WithoutKeeps DEF KeyInv, FavoriteType, AdminHadKey
<1> QED BY <1>1, <1>2 DEF KeyInv

\* What goes on has its kind.
LEMMA OnItsWay ==
  ASSUME KeyInv, NEW c \in Everyone, NEW stage, At(c, stage)
  PROVE  "op" \in DOMAIN req[c] /\ c \in DOMAIN req
  BY DEF KeyInv, RemovalsHaveOp, At, Free

LEMMA RemovalsKeepKeys ==
  ASSUME KeyInv, NEW c \in Everyone, DeleteRows(c) \/ DeleteObjects(c) \/ InvalidateCaches(c)
  PROVE  KeyInv'
<1>1. CASE DeleteRows(c)
  <2>1. CASE req' = [req EXCEPT ![c] = None] /\ UNCHANGED rows
    BY <1>1, <2>1, QuietKeepsKeys DEF DeleteRows, rows
  <2>2. CASE To(c, "s3") /\ Without({req[c].partset}, c)
    <3> DEFINE r == [req[c] EXCEPT !.stage = "s3"]
    <3>1. PICK stage \in {"rows", "next"} : At(c, stage)
      BY <1>1 DEF DeleteRows
    <3>2. r.op = req[c].op /\ "op" \in DOMAIN r /\ keys' = keys
      BY <1>1, <3>1, OnItsWay DEF DeleteRows
    <3>3. req' = [req EXCEPT ![c] = r]
      BY <2>2 DEF To
    <3> HIDE DEF r
    <3> QED BY <2>2, <3>1, <3>2, <3>3, StageKeepsKeys
  <2> QED BY <1>1, <2>1, <2>2 DEF DeleteRows
<1>2. CASE DeleteObjects(c)
  <2>1. At(c, "s3") /\ UNCHANGED <<favorite, keys>>
    BY <1>2 DEF DeleteObjects, rows
  <2>2. CASE req' = [req EXCEPT ![c] = None]
    BY <2>1, <2>2, QuietKeepsKeys
  <2>3. CASE To(c, "cache")
    <3> DEFINE r == [req[c] EXCEPT !.stage = "cache"]
    <3>1. r.op = req[c].op /\ "op" \in DOMAIN r
      BY <2>1, OnItsWay
    <3>2. req' = [req EXCEPT ![c] = r]
      BY <2>3 DEF To
    <3> HIDE DEF r
    <3> QED BY <2>1, <3>1, <3>2, StageKeepsKeys
  <2> QED BY <1>2, <2>2, <2>3 DEF DeleteObjects
<1>3. CASE InvalidateCaches(c)
  <2>1. At(c, "cache") /\ UNCHANGED <<favorite, keys>>
    BY <1>3 DEF InvalidateCaches, rows
  <2>2. PICK r : /\ req' = [req EXCEPT ![c] = r]
                 /\ r = None \/ (r.op = req[c].op /\ "op" \in DOMAIN r)
    <3>4. PICK p : req' = [req EXCEPT ![c] =
                             IF req[c].op = "delete" THEN None
                             ELSE IF req[c].rest = {} THEN [req[c] EXCEPT !.partset = None, !.stage = "count"]
                             ELSE [req[c] EXCEPT !.partset = p, !.rest = req[c].rest \ {p}, !.stage = "next"]]
      BY <1>3 DEF InvalidateCaches
    <3> DEFINE rNext == [req[c] EXCEPT !.partset = p, !.rest = req[c].rest \ {p}, !.stage = "next"]
               rCount == [req[c] EXCEPT !.partset = None, !.stage = "count"]
    <3>1. \/ req' = [req EXCEPT ![c] = None]
          \/ req' = [req EXCEPT ![c] = rCount]
          \/ req' = [req EXCEPT ![c] = rNext]
      BY <3>4
    <3>2. rNext.op = req[c].op /\ "op" \in DOMAIN rNext
      BY <2>1, OnItsWay
    <3>3. rCount.op = req[c].op /\ "op" \in DOMAIN rCount
      BY <2>1, OnItsWay
    <3> HIDE DEF rNext, rCount
    <3> QED BY <3>1, <3>2, <3>3
  <2>3. CASE r = None
    BY <2>1, <2>2, <2>3, QuietKeepsKeys
  <2>4. CASE r.op = req[c].op /\ "op" \in DOMAIN r
    BY <2>1, <2>2, <2>4, StageKeepsKeys
  <2> QED BY <2>2, <2>3, <2>4
<1> QED BY <1>1, <1>2, <1>3

LEMMA ToolsKeepKeys ==
  ASSUME KeyInv,
         \/ \E u \in Users : DeleteFailed(u)
         \/ \E s \in Scores : Purge(s)
         \/ CountPartsets \/ WipeScore \/ CommitWipe
         \/ PurgeBatch \/ PurgeScore \/ PurgeFiles \/ Abort
  PROVE  KeyInv'
<1> Operator \in Everyone
  BY DEF Everyone
<1>1. ASSUME NEW u \in Users, DeleteFailed(u) PROVE KeyInv'
  <2>1. PICK p, f, of : Ask(Operator, Deleting("failed", p, f, of))
    BY <1>1 DEF DeleteFailed
  <2> DEFINE r == Deleting("failed", p, f, of)
  <2>2. r.op \notin {"add", "status"} /\ "op" \in DOMAIN r
    BY DEF Deleting
  <2>3. UNCHANGED <<favorite, keys>>
    BY <1>1 DEF DeleteFailed, rows
  <2> QED BY <2>1, <2>2, <2>3, AskOther
<1>2. ASSUME NEW s \in Scores, Purge(s) PROVE KeyInv'
  <2> DEFINE r == [op |-> "purge", stage |-> "batch", partset |-> None, rest |-> {}, scores |-> {s}]
  <2>1. r.op \notin {"add", "status"} /\ "op" \in DOMAIN r
    OBVIOUS
  <2>2. Ask(Operator, r) /\ UNCHANGED <<favorite, keys>>
    BY <1>2 DEF Purge, rows
  <2> HIDE DEF r
  <2> QED BY <2>1, <2>2, AskOther
<1>3. CASE CountPartsets
  <2> DEFINE r == [req[Operator] EXCEPT !.scores = Orphans, !.rest = Orphans, !.stage = "wipe"]
  <2>1. At(Operator, "count") /\ UNCHANGED <<favorite, keys>>
    BY <1>3 DEF CountPartsets, rows
  <2>2. r.op = req[Operator].op /\ "op" \in DOMAIN r
    BY <2>1, OnItsWay
  <2>3. req' = [req EXCEPT ![Operator] = r]
    BY <1>3, <2>1, OnItsWay DEF CountPartsets
  <2> HIDE DEF r
  <2> QED BY <2>1, <2>2, <2>3, StageKeepsKeys
<1>4. CASE WipeScore
  <2>1. At(Operator, "wipe") /\ UNCHANGED <<favorite, keys>>
    BY <1>4 DEF WipeScore, rows
  <2>2. PICK s : req' = [req EXCEPT ![Operator].rest = @ \ {s}]
    BY <1>4 DEF WipeScore
  <2> DEFINE r == [req[Operator] EXCEPT !.rest = @ \ {s}]
  <2>3. r.op = req[Operator].op /\ "op" \in DOMAIN r
    BY <2>1, OnItsWay
  <2>4. req' = [req EXCEPT ![Operator] = r]
    BY <2>2
  <2> HIDE DEF r
  <2> QED BY <2>1, <2>3, <2>4, StageKeepsKeys
<1>5. CASE CommitWipe \/ PurgeFiles \/ Abort
  <2>1. req' = [req EXCEPT ![Operator] = None] /\ UNCHANGED <<favorite, keys>>
    BY <1>5 DEF CommitWipe, PurgeFiles, Abort, rows
  <2> QED BY <2>1, QuietKeepsKeys
<1>6. CASE PurgeBatch
  <2>1. At(Operator, "batch") /\ keys' = keys
    BY <1>6 DEF PurgeBatch
  <2>2. CASE To(Operator, "score") /\ favorite' = favorite
    <3> DEFINE r == [req[Operator] EXCEPT !.stage = "score"]
    <3>1. r.op = req[Operator].op /\ "op" \in DOMAIN r
      BY <2>1, OnItsWay
    <3>2. req' = [req EXCEPT ![Operator] = r]
      BY <2>2 DEF To
    <3> HIDE DEF r
    <3> QED BY <2>1, <2>2, <3>1, <3>2, StageKeepsKeys
  <2>3. ASSUME NEW batch, Without(batch, Operator), UNCHANGED req PROVE KeyInv'
    <3>1. FavoriteType' /\ AdminHadKey'
      BY <2>1, <2>3, WithoutKeeps
    <3> QED BY <2>1, <2>3, <3>1, SameRequests DEF KeyInv
  <2> QED BY <1>6, <2>2, <2>3 DEF PurgeBatch, rows
<1>7. CASE PurgeScore
  <2>1. At(Operator, "score") /\ UNCHANGED <<favorite, keys>>
    BY <1>7 DEF PurgeScore, rows
  <2> DEFINE r == [req[Operator] EXCEPT !.stage = "files"]
  <2>2. r.op = req[Operator].op /\ "op" \in DOMAIN r
    BY <2>1, OnItsWay
  <2>3. req' = [req EXCEPT ![Operator] = r]
    BY <1>7 DEF PurgeScore, To
  <2> HIDE DEF r
  <2> QED BY <2>1, <2>2, <2>3, StageKeepsKeys
<1> QED BY <1>1, <1>2, <1>3, <1>4, <1>5, <1>6, <1>7

-----------------------------------------------------------------------------
LEMMA NextKeepsKeys == KeyInv /\ [Next]_vars => KeyInv'
<1> SUFFICES ASSUME KeyInv, [Next]_vars PROVE KeyInv'
  OBVIOUS
<1>1. CASE UNCHANGED vars
  BY <1>1, QuietKeepsKeys DEF vars
<1>2. ASSUME NEW p \in Partsets, JobInserts(p) \/ JobFails(p) PROVE KeyInv'
  BY <1>2, QuietKeepsKeys DEF JobInserts, JobFails
<1>3. CASE Next
  BY <1>2, <1>3, AddKeepsKeys, StatusKeepsKeys, CommitFavoriteKeepsKeys, CommitStatusKeepsKeys,
     CommitCreateKeepsKeys, RequestsKeepKeys, AnswersKeepKeys, RemovingFavoriteKeepsKeys,
     RemovalsKeepKeys, ToolsKeepKeys DEF Next, Everyone
<1> QED BY <1>1, <1>3

\* Whatever favourites, claims, creations and removals interleave, a favourite that opens
\* the editor is only in the hands of users who have used the partset's private id.
THEOREM KeysAreKept == Spec => []AdminHadKey
<1>1. KeyInv => AdminHadKey
  BY DEF KeyInv
<1> QED BY InitKeys, NextKeepsKeys, <1>1, PTL DEF Spec

-----------------------------------------------------------------------------
(* What a request and a row look like; which stages a removal goes through. *)

Request ==
  [op : {"login"}, user : Users, partset : {None}]
  \cup [op : {"add"}, user : Users, partset : Partsets, mode : {"owner", "public"},
        owner : Users \cup {None}]
  \cup [op : {"status"}, user : Users, partset : Partsets]
  \cup [op : {"download"}, partset : Partsets, count : Nat]
  \cup [op : {"create"}, user : Users \cup {None}, partset : {None}, score : Scores,
        analysed : BOOLEAN]
  \cup Removal

LibraryType ==
  /\ row \in [Partsets -> Row \cup {None}]
  /\ FavoriteType
  /\ downloads \in [Partsets -> Nat]
  /\ score \in [Scores -> [row : BOOLEAN, originals : BOOLEAN, pdf : BOOLEAN, cached : BOOLEAN]]
  /\ req \in [Everyone -> Request \cup {None}]
  /\ faults \in Nat

\* Which stages a removal has, and who runs it.
StageOf(c, r) ==
  /\ r.op \in {"failed", "purge"} <=> c = Operator
  /\ r.op = "delete" => r.stage \in {"rows", "next", "s3", "cache"}
  /\ r.op = "failed" => r.stage \in {"rows", "next", "s3", "cache", "count", "wipe"}
  /\ r.op = "purge"  => /\ r.stage \in {"batch", "score", "files"}
                        /\ \E s \in Scores : r.scores = {s}
  /\ r.op \in {"delete", "failed"} /\ r.stage \in {"rows", "next", "s3", "cache"} =>
       r.partset \in Partsets /\ r.rest \subseteq Partsets
  /\ r.op = "failed" /\ r.stage = "wipe" => r.rest \subseteq r.scores
StageInv == \A c \in Everyone : ~Free(c) => StageOf(c, req[c])

\* The partset of a request, and those a tool has still on its list.
Names(r, p) ==
  \/ r.partset = p
  \/ r.op \in Removals /\ r.stage \in {"rows", "next", "s3", "cache"} /\ p \in r.rest

\* A partset's ids are never given twice: before they are given nothing refers to them.
Used(p) == p \in Existing \/ \E k \in keys : k[2] = p
UsedInv ==
  \A p \in Partsets : ~Used(p) =>
    /\ ~Exists(p) /\ downloads[p] = 0
    /\ \A c \in Everyone : ~Free(c) => ~Names(req[c], p)

\* A download that nothing overlaps has read the present number.
CountInv ==
  /\ Counted
  /\ \A c \in Everyone, p \in Partsets :
       (~Free(c) /\ req[c].op = "download" /\ req[c].partset = p /\ Exists(p)) =>
         /\ req[c].count <= downloads[p]
         /\ req[c].count = row[p].count \/ <<p, "downloads">> \in excused

\* A tool that is about to remove a score has seen that no partset uses it.
ScoreInv ==
  /\ \A s \in Scores : Doomed(s) => \A p \in Of(s) : <<p, "late">> \in excused
  /\ \A s \in Scores : score[s].pdf \/ ~score[s].row \/ Doomed(s) \/ faults > 0
  /\ At(Operator, "files") => \A s \in Scores : s \in req[Operator].scores => ~score[s].row
  /\ \A s \in Scores : \A p \in Of(s) : <<p, "late">> \in excused \/ score[s].row

\* The removal that has the files of p still to do.
Removing(c, p) == (At(c, "s3") \/ At(c, "cache")) /\ req[c].partset = p
Left(p) ==
  /\ \A u \in Users : favorite[<<p, u>>] = "none"
  /\ downloads[p] = 0
  /\ p \notin children
  /\ <<"derived", p>> \in cached => \/ <<p, "purged">> \in excused
                                    \/ faults > 0
                                    \/ \E c \in Everyone : Removing(c, p)
  /\ p \notin jobs
  /\ \A c \in Everyone : ~Free(c) /\ req[c].partset = p => req[c].op \in Removals
GoneInv == \A p \in Partsets : ~Exists(p) /\ <<p, "overlap">> \notin excused => Left(p)

LibInv == LibraryType /\ StageInv /\ UsedInv /\ CountInv /\ ScoreInv /\ GoneInv

-----------------------------------------------------------------------------
(* What a step that leaves an invariant's data alone, or most of it, keeps. *)

LEMMA ReqSet ==
  ASSUME LibraryType, NEW c \in Everyone, NEW r, req' = [req EXCEPT ![c] = r]
  PROVE  /\ req'[c] = r /\ \A d \in Everyone : d # c => req'[d] = req[d]
         /\ DOMAIN req' = Everyone /\ DOMAIN req = Everyone
         /\ (r \in Request \cup {None} => req' \in [Everyone -> Request \cup {None}])
BY DEF LibraryType

LEMMA StageSet ==
  ASSUME LibraryType, StageInv, NEW c \in Everyone, NEW r, req' = [req EXCEPT ![c] = r],
         r # None => StageOf(c, r)
  PROVE  StageInv'
<1>1. req'[c] = r /\ \A d \in Everyone : d # c => req'[d] = req[d]
  BY ReqSet
<1>2. \A d \in Everyone : StageOf(d, req[d])' <=> StageOf(d, req'[d])
  BY DEF StageOf
<1> QED BY <1>1, <1>2 DEF StageInv, Free

LEMMA StageStays == ASSUME StageInv, req' = req PROVE StageInv'
BY DEF StageInv, StageOf, Free

\* No partset appears, and no request names one that is not there or named already.
LEMMA UsedStays ==
  ASSUME UsedInv, keys \subseteq keys',
         \A p \in Partsets : ~Exists(p) => ~Exists(p)' /\ downloads'[p] \in {0, downloads[p]},
         \A d \in Everyone, p \in Partsets :
           (req'[d] # None /\ Names(req'[d], p)) => \/ Exists(p)
                                                    \/ req[d] # None /\ Names(req[d], p)
  PROVE  UsedInv'
<1> SUFFICES ASSUME NEW p \in Partsets, ~Used(p)'
             PROVE  /\ ~Exists(p)' /\ downloads'[p] = 0
                    /\ \A c \in Everyone : req'[c] # None => ~Names(req'[c], p)
  BY DEF UsedInv, Free, Names
<1>1. ~Used(p)
  BY DEF Used
<1> QED BY <1>1 DEF UsedInv, Free

\* No count and no download changes.
LEMMA CountStays ==
  ASSUME CountInv, excused \subseteq excused',
         \A p \in Partsets : Exists(p)' =>
           Exists(p) /\ row'[p].count = row[p].count /\ downloads'[p] = downloads[p],
         \A d \in Everyone : (req'[d] # None /\ req'[d].op = "download") => req'[d] = req[d]
  PROVE  CountInv'
BY DEF CountInv, Counted, Exists, Free

\* The scores stay, and so does what the operator's tool has found out about them.
LEMMA ScoreStays ==
  ASSUME ScoreInv, faults \in Nat, faults' \in Nat, faults <= faults', excused \subseteq excused',
         \A s \in Scores : (score'[s].row <=> score[s].row) /\ (score[s].pdf => score'[s].pdf),
         \A p \in Partsets : Exists(p)' => Exists(p) /\ row'[p].score = row[p].score,
         \A s \in Scores : Doomed(s)' <=> Doomed(s),
         At(Operator, "files")' => At(Operator, "files") /\ req'[Operator].scores = req[Operator].scores
  PROVE  ScoreInv'
<1>1. \A s \in Scores : Doomed(s)' => \A p \in Of(s)' : <<p, "late">> \in excused'
  BY DEF ScoreInv, Of, Exists
<1> DEFINE Failed == faults > 0
<1>5. Failed => Failed'
  OBVIOUS
<1>6. \A s \in Scores : score[s].pdf \/ ~score[s].row \/ Doomed(s) \/ Failed
  BY DEF ScoreInv
<1> HIDE DEF Failed
<1>7. \A s \in Scores : score'[s].pdf \/ ~score'[s].row \/ Doomed(s)' \/ Failed'
  BY <1>5, <1>6
<1>2. \A s \in Scores : score'[s].pdf \/ ~score'[s].row \/ Doomed(s)' \/ faults' > 0
  BY <1>7 DEF Failed
<1>3. At(Operator, "files")' => \A s \in Scores : s \in req'[Operator].scores => ~score'[s].row
  BY DEF ScoreInv
<1>4. \A s \in Scores : \A p \in Of(s)' : <<p, "late">> \in excused' \/ score'[s].row
  <2>1. \A s \in Scores : Of(s)' \subseteq Of(s)
    BY DEF Of, Exists
  <2> QED BY <2>1 DEF ScoreInv
<1> QED BY <1>1, <1>2, <1>3, <1>4 DEF ScoreInv

\* No partset is removed, and those that are gone stay without rows, files and requests.
LEMMA GoneStays ==
  ASSUME GoneInv, faults \in Nat, faults' \in Nat, faults <= faults', excused \subseteq excused',
         \A p \in Partsets : ~Exists(p)' => ~Exists(p),
         \A p \in Partsets : (~Exists(p) /\ Left(p)) =>
           /\ \A u \in Users : favorite'[<<p, u>>] \in {"none", favorite[<<p, u>>]}
           /\ downloads'[p] = downloads[p]
           /\ p \in children' => p \in children
           /\ <<"derived", p>> \in cached' => /\ <<"derived", p>> \in cached
                                              /\ \A c \in Everyone : Removing(c, p) => Removing(c, p)' \/ faults' > 0
           /\ p \in jobs' => p \in jobs
           /\ \A c \in Everyone : (req'[c] # None /\ req'[c].partset = p) =>
                req'[c].op \in Removals \/ req'[c] = req[c]
  PROVE  GoneInv'
<1> SUFFICES ASSUME NEW p \in Partsets, ~Exists(p)', <<p, "overlap">> \notin excused'
             PROVE  Left(p)'
  BY DEF GoneInv
<1>1. ~Exists(p) /\ Left(p)
  BY DEF GoneInv
<1>2. <<"derived", p>> \in cached' => \/ <<p, "purged">> \in excused'
                                      \/ faults' > 0
                                      \/ \E c \in Everyone : Removing(c, p)'
  BY <1>1 DEF Left
<1> QED BY <1>1, <1>2 DEF Left, Free

-----------------------------------------------------------------------------
(* Requests that are begun: the tables stay. *)

LEMMA Asked ==
  ASSUME LibInv, NEW c \in Everyone, NEW r \in Request, Ask(c, r), UNCHANGED rows,
         UNCHANGED files, keys \subseteq keys', StageOf(c, r),
         r.op = "failed" => r.stage = "rows", r.op = "purge" => r.stage = "batch",
         \A p \in Partsets : Names(r, p) => Exists(p),
         r.op = "download" => r.count = row[r.partset].count
  PROVE  LibInv'
<1>1. /\ LibraryType /\ StageInv /\ UsedInv /\ CountInv /\ ScoreInv /\ GoneInv
      /\ Free(c) /\ req' = [req EXCEPT ![c] = r]
      /\ UNCHANGED <<row, favorite, downloads, children, cached, jobs, score, faults, excused>>
  BY DEF LibInv, Ask, rows, files
<1>2. req'[c] = r /\ \A d \in Everyone : d # c => req'[d] = req[d]
  BY <1>1, ReqSet
<1>3. LibraryType'
  BY <1>1, ReqSet DEF LibraryType, FavoriteType
<1>4. StageInv'
  BY <1>1, StageSet
<1>5. UsedInv'
  <2>1. \A p \in Partsets : ~Exists(p) => ~Exists(p)' /\ downloads'[p] \in {0, downloads[p]}
    BY <1>1 DEF Exists
  <2>2. \A d \in Everyone, p \in Partsets :
          (req'[d] # None /\ Names(req'[d], p)) => Exists(p) \/ (req[d] # None /\ Names(req[d], p))
    BY <1>2
  <2> QED BY <1>1, <2>1, <2>2, UsedStays
<1>6. CountInv'
  <2>1. Counted'
    BY <1>1 DEF CountInv, Counted, Exists
  <2> SUFFICES ASSUME NEW d \in Everyone, NEW p \in Partsets, req'[d] # None,
                      req'[d].op = "download", req'[d].partset = p, Exists(p)
               PROVE  /\ req'[d].count <= downloads[p]
                      /\ req'[d].count = row[p].count \/ <<p, "downloads">> \in excused
    BY <1>1, <2>1 DEF CountInv, Free, Exists
  <2>2. CASE d = c
    BY <1>1, <1>2, <2>2 DEF CountInv, Counted, Exists
  <2>3. CASE d # c
    BY <1>1, <1>2, <2>3 DEF CountInv, Free
  <2> QED BY <2>2, <2>3
<1>7. ScoreInv'
  <2>1. \A s \in Scores : Doomed(s)' <=> Doomed(s)
    BY <1>1, <1>2 DEF Doomed, Free, StageOf, Everyone
  <2>2. At(Operator, "files")' => At(Operator, "files") /\ req'[Operator].scores = req[Operator].scores
    BY <1>1, <1>2 DEF At, Free, Removals, StageOf, Everyone
  <2>3. faults \in Nat /\ faults' \in Nat /\ faults <= faults'
    BY <1>1 DEF LibraryType
  <2> QED BY <1>1, <2>1, <2>2, <2>3, ScoreStays DEF Exists
<1>8. GoneInv'
  <2>1. faults \in Nat /\ faults' \in Nat /\ faults <= faults'
    BY <1>1 DEF LibraryType
  <2>2. \A p \in Partsets : ~Exists(p) => \A d \in Everyone :
          /\ Removing(d, p) => Removing(d, p)'
          /\ (req'[d] # None /\ req'[d].partset = p) => req'[d] = req[d]
    BY <1>1, <1>2 DEF Removing, At, Free, Names
  <2> QED BY <1>1, <2>1, <2>2, GoneStays DEF Exists
<1> QED BY <1>3, <1>4, <1>5, <1>6, <1>7, <1>8 DEF LibInv

LEMMA InitLib == Init => LibInv
<1> SUFFICES ASSUME Init PROVE LibInv
  OBVIOUS
<1>1. req = [c \in Everyone |-> None] /\ downloads = [p \in Partsets |-> 0] /\ faults = 0
      /\ jobs = {} /\ excused = {} /\ cached = {"derived", "pages"} \X children
  BY DEF Init, Everyone
<1>2. PICK owner \in [Existing -> Users \cup {None}], error \in [Existing -> BOOLEAN],
           of \in [Existing -> Scores], analysed \in SUBSET Scores :
        /\ \A p \in Existing : error[p] \/ of[p] \in analysed
        /\ score = [s \in Scores |-> [Archived EXCEPT !.originals = s \in analysed]]
        /\ children = {p \in Existing : of[p] \in analysed}
        /\ row = [p \in Partsets |->
                    IF p \in Existing THEN [Fresh(owner[p], of[p]) EXCEPT !.error = error[p]] ELSE None]
  BY Zenon DEF Init
<1>3. \A p \in Partsets : IF p \in Existing
        THEN row[p] \in Row /\ row[p].count = 0 /\ row[p].owner = owner[p] ELSE row[p] = None
  BY <1>2, LibraryAssumption DEF Fresh, Row
<1>4. \A s \in Scores : score[s] \in [row : BOOLEAN, originals : BOOLEAN, pdf : BOOLEAN, cached : BOOLEAN]
                        /\ score[s].row /\ score[s].pdf
  <2> TAKE s \in Scores
  <2> DEFINE o == s \in analysed
  <2>1. o \in BOOLEAN /\ score[s] = [Archived EXCEPT !.originals = o]
    BY <1>2
  <2> HIDE DEF o
  <2> QED BY <2>1 DEF Archived
<1>5. \A c \in Everyone : Free(c)
  BY <1>1 DEF Free
<1>6. FavoriteType /\ \A p \in Partsets, u \in Users : ~Exists(p) => favorite[<<p, u>>] = "none"
  <2>1. favorite = [k \in Partsets \X Users |->
                      IF k[1] \in Existing /\ row[k[1]].owner = k[2] THEN "admin" ELSE "none"]
    BY DEF Init
  <2>2. \A p \in Partsets : ~Exists(p) => p \notin Existing
    BY <1>3, LibraryAssumption DEF Exists
  <2> QED BY <2>1, <2>2 DEF FavoriteType
<1>7. LibraryType
  <2>1. row \in [Partsets -> Row \cup {None}]
    BY <1>2, <1>3
  <2>2. score \in [Scores -> [row : BOOLEAN, originals : BOOLEAN, pdf : BOOLEAN, cached : BOOLEAN]]
    BY <1>2, <1>4
  <2> QED BY <1>1, <1>6, <2>1, <2>2 DEF LibraryType
<1>8. StageInv
  BY <1>5 DEF StageInv
<1>9. UsedInv
  BY <1>1, <1>3, <1>5 DEF UsedInv, Used, Exists
<1>10. CountInv
  BY <1>1, <1>3, <1>5 DEF CountInv, Counted, Exists
<1>11. ScoreInv
  <2>1. Operator \in Everyone /\ Free(Operator)
    BY <1>5 DEF Everyone
  <2> QED BY <1>4, <2>1 DEF ScoreInv, Doomed, At, Of
<1>12. GoneInv
  <2> SUFFICES ASSUME NEW p \in Partsets, ~Exists(p) PROVE Left(p)
    BY DEF GoneInv
  <2>1. p \notin Existing
    BY <1>3, LibraryAssumption DEF Exists
  <2> QED BY <1>1, <1>2, <1>5, <1>6, <2>1 DEF Left
<1> QED BY <1>7, <1>8, <1>9, <1>10, <1>11, <1>12 DEF LibInv

LEMMA RequestsBegin ==
  ASSUME LibInv, NEW c \in Clients,
         \/ \E u \in Users :
              \/ Login(c, u)
              \/ \E p \in Partsets : \/ ReadStatus(c, u, p)
                                     \/ \E mode \in {"owner", "public"} : AddFavorite(c, u, p, mode)
         \/ \E p \in Partsets : Download(c, p) \/ Delete(c, p)
         \/ \E u \in Users \cup {None}, s \in Scores : FindScore(c, u, s)
  PROVE  LibInv'
<1> c \in Everyone /\ c # Operator
  BY LibraryAssumption DEF Everyone
<1> LibraryType
  BY DEF LibInv
<1>1. ASSUME NEW u \in Users, Login(c, u) PROVE LibInv'
  <2> DEFINE r == [op |-> "login", user |-> u, partset |-> None]
  <2>1. r \in Request /\ StageOf(c, r) /\ r.op = "login" /\ r.partset = None
    BY DEF Request, StageOf
  <2>2. Ask(c, r) /\ UNCHANGED rows /\ UNCHANGED files /\ keys \subseteq keys'
    BY <1>1 DEF Login, rows, files
  <2> HIDE DEF r
  <2>3. \A p \in Partsets : ~Names(r, p)
    BY <2>1, LibraryAssumption DEF Names, Removals
  <2> QED BY <2>1, <2>2, <2>3, Asked
<1>2. ASSUME NEW u \in Users, NEW p \in Partsets, ReadStatus(c, u, p) PROVE LibInv'
  <2> DEFINE r == [op |-> "status", user |-> u, partset |-> p]
  <2>1. r \in Request /\ StageOf(c, r) /\ r.op = "status" /\ r.partset = p
    BY DEF Request, StageOf
  <2>2. Ask(c, r) /\ UNCHANGED rows /\ UNCHANGED files /\ keys \subseteq keys' /\ Exists(p)
    BY <1>2 DEF ReadStatus, Opened, rows, files
  <2> HIDE DEF r
  <2>3. \A q \in Partsets : Names(r, q) => Exists(q)
    BY <2>1, <2>2 DEF Names, Removals
  <2> QED BY <2>1, <2>2, <2>3, Asked
<1>3. ASSUME NEW u \in Users, NEW p \in Partsets, NEW mode \in {"owner", "public"},
             AddFavorite(c, u, p, mode) PROVE LibInv'
  <2> DEFINE r == [op |-> "add", user |-> u, partset |-> p, mode |-> mode, owner |-> row[p].owner]
  <2>1. Ask(c, r) /\ UNCHANGED rows /\ UNCHANGED files /\ keys \subseteq keys' /\ Exists(p)
    BY <1>3 DEF AddFavorite, Opened, rows, files
  <2>2. row[p].owner \in Users \cup {None}
    BY <2>1 DEF LibraryType, Exists, Row
  <2>3. r \in Request /\ StageOf(c, r) /\ r.op = "add" /\ r.partset = p
    BY <2>2 DEF Request, StageOf
  <2> HIDE DEF r
  <2>4. \A q \in Partsets : Names(r, q) => Exists(q)
    BY <2>1, <2>3 DEF Names, Removals
  <2> QED BY <2>1, <2>3, <2>4, Asked
<1>4. ASSUME NEW p \in Partsets, Download(c, p) PROVE LibInv'
  <2> DEFINE r == [op |-> "download", partset |-> p, count |-> row[p].count]
  <2>1. Ask(c, r) /\ UNCHANGED rows /\ UNCHANGED files /\ keys \subseteq keys' /\ Exists(p)
    BY <1>4 DEF Download, rows, files
  <2>2. row[p].count \in Nat
    BY <2>1 DEF LibraryType, Exists, Row
  <2>3. r \in Request /\ StageOf(c, r) /\ r.op = "download" /\ r.partset = p /\ r.count = row[p].count
    BY <2>2 DEF Request, StageOf
  <2> HIDE DEF r
  <2>4. \A q \in Partsets : Names(r, q) => Exists(q)
    BY <2>1, <2>3 DEF Names, Removals
  <2> QED BY <2>1, <2>3, <2>4, Asked
<1>5. ASSUME NEW p \in Partsets, Delete(c, p) PROVE LibInv'
  <2> DEFINE r == Deleting("delete", p, {}, {})
  <2>1. Ask(c, r) /\ UNCHANGED rows /\ UNCHANGED files /\ keys \subseteq keys' /\ Exists(p)
    BY <1>5 DEF Delete, rows, files
  <2>2. r \in Request /\ StageOf(c, r) /\ r.op = "delete" /\ r.partset = p /\ r.rest = {}
    BY DEF Request, Removal, StageOf, Deleting
  <2> HIDE DEF r
  <2>3. \A q \in Partsets : Names(r, q) => Exists(q)
    BY <2>1, <2>2 DEF Names
  <2> QED BY <2>1, <2>2, <2>3, Asked
<1>6. ASSUME NEW u \in Users \cup {None}, NEW s \in Scores, FindScore(c, u, s) PROVE LibInv'
  <2> DEFINE r == [op |-> "create", user |-> u, partset |-> None, score |-> s,
                   analysed |-> score[s].originals]
  <2>1. Ask(c, r) /\ UNCHANGED rows /\ UNCHANGED files /\ keys \subseteq keys'
    BY <1>6 DEF FindScore, rows, files
  <2>2. score[s].originals \in BOOLEAN
    BY DEF LibraryType
  <2>3. r \in Request /\ StageOf(c, r) /\ r.op = "create" /\ r.partset = None
    BY <2>2 DEF Request, StageOf
  <2> HIDE DEF r
  <2>4. \A q \in Partsets : ~Names(r, q)
    BY <2>3, LibraryAssumption DEF Names, Removals
  <2> QED BY <2>1, <2>3, <2>4, Asked
<1> QED BY <1>1, <1>2, <1>3, <1>4, <1>5, <1>6

LEMMA ToolsBegin ==
  ASSUME LibInv, (\E u \in Users : DeleteFailed(u)) \/ \E s \in Scores : Purge(s)
  PROVE  LibInv'
<1> Operator \in Everyone /\ LibraryType
  BY DEF Everyone, LibInv
<1>1. ASSUME NEW u \in Users, DeleteFailed(u) PROVE LibInv'
  <2> DEFINE failed == {p \in Partsets : Exists(p) /\ row[p].owner = u /\ row[p].error}
             of == {row[q].score : q \in failed}
  <2>1. PICK p \in failed : Ask(Operator, Deleting("failed", p, failed \ {p}, of))
    BY <1>1 DEF DeleteFailed
  <2>2. UNCHANGED rows /\ UNCHANGED files /\ keys \subseteq keys'
    BY <1>1 DEF DeleteFailed, rows, files
  <2>3. of \in SUBSET Scores /\ failed \subseteq Partsets /\ \A q \in failed : Exists(q)
    BY DEF LibraryType, Exists, Row
  <2> HIDE DEF of, failed
  <2> DEFINE r == Deleting("failed", p, failed \ {p}, of)
  <2>4. r \in Request /\ StageOf(Operator, r) /\ r.op = "failed" /\ r.stage = "rows"
        /\ r.partset = p /\ r.rest = failed \ {p}
    BY <2>3 DEF Request, Removal, StageOf, Deleting
  <2>5. Ask(Operator, r)
    BY <2>1
  <2> HIDE DEF r
  <2>6. \A q \in Partsets : Names(r, q) => Exists(q)
    BY <2>3, <2>4 DEF Names
  <2> QED BY <2>2, <2>4, <2>5, <2>6, Asked
<1>2. ASSUME NEW s \in Scores, Purge(s) PROVE LibInv'
  <2> DEFINE r == [op |-> "purge", stage |-> "batch", partset |-> None, rest |-> {}, scores |-> {s}]
  <2>1. Ask(Operator, r) /\ UNCHANGED rows /\ UNCHANGED files /\ keys \subseteq keys'
    BY <1>2 DEF Purge, rows, files
  <2>2. r \in Request /\ StageOf(Operator, r) /\ r.op = "purge" /\ r.stage = "batch"
        /\ r.partset = None /\ r.rest = {}
    BY DEF Request, Removal, StageOf
  <2> HIDE DEF r
  <2>3. \A p \in Partsets : ~Names(r, p)
    BY <2>2, LibraryAssumption DEF Names
  <2> QED BY <2>1, <2>2, <2>3, Asked
<1> QED BY <1>1, <1>2

-----------------------------------------------------------------------------
(* Requests that commit. *)

LEMMA ClientEnds ==
  ASSUME LibInv, NEW c \in Clients, req[c] # None, req[c].op \notin Removals, Answer(c)
  PROVE  /\ req' \in [Everyone -> Request \cup {None}] /\ StageInv'
         /\ req'[c] = None /\ \A d \in Everyone : d # c => req'[d] = req[d]
         /\ \A s \in Scores : Doomed(s)' <=> Doomed(s)
         /\ At(Operator, "files")' => At(Operator, "files") /\ req'[Operator].scores = req[Operator].scores
         /\ \A d \in Everyone, p \in Partsets : Removing(d, p) => Removing(d, p)'
<1> c \in Everyone /\ c # Operator /\ Operator \in Everyone
  BY LibraryAssumption DEF Everyone
<1> LibraryType /\ StageInv /\ None \in Request \cup {None}
  BY DEF LibInv
<1>1. req' = [req EXCEPT ![c] = None]
  BY DEF Answer
<1>2. req'[c] = None /\ \A d \in Everyone : d # c => req'[d] = req[d]
  BY <1>1, ReqSet
<1>3. req' \in [Everyone -> Request \cup {None}]
  BY <1>1, ReqSet
<1>4. StageInv'
  BY <1>1, StageSet
<1>5. \A s \in Scores : Doomed(s)' <=> Doomed(s)
  BY <1>2 DEF Doomed, Free
<1>6. At(Operator, "files")' => At(Operator, "files") /\ req'[Operator].scores = req[Operator].scores
  BY <1>2 DEF At, Free
<1>7. \A d \in Everyone, p \in Partsets : Removing(d, p) => Removing(d, p)'
  BY <1>2 DEF Removing, At, Free
<1> QED BY <1>2, <1>3, <1>4, <1>5, <1>6, <1>7

\* What the invariant says of one client's request.
LEMMA RequestFacts ==
  ASSUME LibInv, NEW c \in Clients, ~Free(c)
  PROVE  /\ c \in Everyone /\ c # Operator /\ req[c] # None /\ req[c] \in Request /\ LibraryType
         /\ req[c].op \in {"add", "status"} => req[c].partset \in Partsets /\ req[c].user \in Users
         /\ req[c].op = "add" => req[c].mode \in {"owner", "public"}
         /\ req[c].op = "download" => req[c].partset \in Partsets /\ req[c].count \in Nat
         /\ req[c].op = "create" => /\ req[c].user \in Users \cup {None} /\ req[c].score \in Scores
                                    /\ req[c].analysed \in BOOLEAN
<1>1. c \in Everyone /\ c # Operator /\ req[c] # None /\ LibraryType
  BY LibraryAssumption DEF Everyone, LibInv, Free
<1>2. req[c] \in Request
  BY <1>1 DEF LibraryType
<1> QED BY <1>1, <1>2 DEF Request, Removal

\* A request that ends and changes at most favourites, owners and errors.
LEMMA EndsLightly ==
  ASSUME LibInv, LibraryType',
         NEW c \in Clients, req[c] # None, req[c].op \notin Removals, Answer(c),
         keys' = keys, UNCHANGED <<downloads, children, cached, jobs, score, faults, excused>>,
         \A p \in Partsets : /\ Exists(p)' <=> Exists(p)
                             /\ Exists(p) => /\ row'[p].score = row[p].score
                                             /\ row'[p].count = row[p].count,
         \A p \in Partsets, u \in Users :
           favorite'[<<p, u>>] = favorite[<<p, u>>] \/ Exists(p) \/ req[c].partset = p
             \/ favorite'[<<p, u>>] = "none"
  PROVE  LibInv'
<1>1. /\ StageInv' /\ req'[c] = None /\ \A d \in Everyone : d # c => req'[d] = req[d]
      /\ \A s \in Scores : Doomed(s)' <=> Doomed(s)
      /\ At(Operator, "files")' => At(Operator, "files") /\ req'[Operator].scores = req[Operator].scores
      /\ \A d \in Everyone, p \in Partsets : Removing(d, p) => Removing(d, p)'
  BY ClientEnds
<1>2. UsedInv /\ CountInv /\ ScoreInv /\ GoneInv /\ faults \in Nat /\ faults' \in Nat
  BY DEF LibInv, LibraryType
<1>3. UsedInv'
  <2>1. \A d \in Everyone, p \in Partsets :
          (req'[d] # None /\ Names(req'[d], p)) => req[d] # None /\ Names(req[d], p)
    BY <1>1
  <2> QED BY <1>2, <2>1, UsedStays
<1>4. CountInv'
  <2>1. \A d \in Everyone : (req'[d] # None /\ req'[d].op = "download") => req'[d] = req[d]
    BY <1>1
  <2> QED BY <1>2, <2>1, CountStays
<1>5. ScoreInv'
  BY <1>1, <1>2, ScoreStays
<1>6. GoneInv'
  <2>1. \A p \in Partsets : Left(p) => req[c].partset # p
    BY DEF Left, Free, Everyone
  <2>2. \A p \in Partsets : (~Exists(p) /\ Left(p)) =>
           /\ \A u \in Users : favorite'[<<p, u>>] \in {"none", favorite[<<p, u>>]}
           /\ \A d \in Everyone : (req'[d] # None /\ req'[d].partset = p) => req'[d] = req[d]
    BY <1>1, <2>1
  <2> QED BY <1>1, <1>2, <2>2, GoneStays
<1> QED BY <1>1, <1>3, <1>4, <1>5, <1>6 DEF LibInv

LEMMA LightCommits ==
  ASSUME LibInv, NEW c \in Clients, CommitLogin(c) \/ CommitFavorite(c) \/ CommitStatus(c)
  PROVE  LibInv'
<1>1. ~Free(c) /\ req[c].op \in {"login", "add", "status"} /\ req[c].op \notin Removals /\ Answer(c)
      /\ UNCHANGED <<downloads, children, cached, jobs, score, faults, excused, keys>>
  BY DEF CommitLogin, CommitFavorite, CommitStatus, rows, files, Removals
<1>2. /\ req[c] # None /\ LibraryType
      /\ req[c].op \in {"add", "status"} => req[c].partset \in Partsets /\ req[c].user \in Users
  BY <1>1, RequestFacts
<1>3. req' \in [Everyone -> Request \cup {None}]
  BY <1>1, <1>2, ClientEnds
<1>4. CASE CommitLogin(c)
  <2>1. UNCHANGED <<row, favorite>>
    BY <1>4 DEF CommitLogin, rows
  <2>2. LibraryType'
    BY <1>1, <1>2, <1>3, <2>1 DEF LibraryType, FavoriteType
  <2> QED BY <1>1, <1>2, <2>1, <2>2, EndsLightly DEF Exists
<1>5. CASE CommitStatus(c)
  <2> DEFINE k == <<req[c].partset, req[c].user>>
  <2>1. row' = row /\ k \in Partsets \X Users
        /\ favorite' = [favorite EXCEPT ![k] = IF favorite[k] = "none" THEN "none" ELSE "admin"]
    BY <1>2, <1>5 DEF CommitStatus
  <2>2. FavoriteType'
    BY <1>2, <2>1 DEF LibraryType, FavoriteType
  <2>3. LibraryType'
    BY <1>1, <1>2, <1>3, <2>1, <2>2 DEF LibraryType
  <2>4. \A p \in Partsets, u \in Users : favorite'[<<p, u>>] = favorite[<<p, u>>] \/ req[c].partset = p
    BY <1>2, <2>1 DEF LibraryType, FavoriteType
  <2> QED BY <1>1, <1>2, <2>1, <2>3, <2>4, EndsLightly DEF Exists
<1>6. CASE CommitFavorite(c)
  <2> DEFINE r == req[c]
  <2>1. \/ UNCHANGED <<favorite, row>>
        \/ /\ favorite' = Upsert(r)
           /\ row' = IF Claims(r) THEN [row EXCEPT ![r.partset].owner = r.user] ELSE row
           /\ Claims(r) => Exists(r.partset)
    BY <1>6 DEF CommitFavorite
  <2>2. r.partset \in Partsets /\ r.user \in Users
    BY <1>2, <1>6 DEF CommitFavorite
  <2> HIDE DEF r
  <2>3. FavoriteType' /\ \A p \in Partsets, u \in Users :
                           favorite'[<<p, u>>] = favorite[<<p, u>>] \/ r.partset = p
    BY <1>2, <2>1, <2>2 DEF LibraryType, FavoriteType, Upsert
  <2>4. /\ row' \in [Partsets -> Row \cup {None}]
        /\ \A p \in Partsets : /\ Exists(p)' <=> Exists(p)
                               /\ Exists(p) => /\ row'[p].score = row[p].score
                                               /\ row'[p].count = row[p].count
    <3>1. CASE row' = row
      BY <1>2, <3>1 DEF LibraryType, Exists
    <3>2. CASE row' = [row EXCEPT ![r.partset].owner = r.user] /\ Exists(r.partset)
      <4> DEFINE new == [row[r.partset] EXCEPT !.owner = r.user]
      <4>1. row' = [row EXCEPT ![r.partset] = new]
        BY <3>2
      <4>2. row[r.partset] \in Row
        BY <1>2, <2>2, <3>2 DEF LibraryType, Exists
      <4>3. new \in Row /\ new.score = row[r.partset].score /\ new.count = row[r.partset].count
        BY <2>2, <4>2 DEF Row
      <4>4. new # None
        BY <4>3, LibraryAssumption
      <4> HIDE DEF new
      <4> QED BY <1>2, <2>2, <3>2, <4>1, <4>3, <4>4 DEF LibraryType, Exists
    <3> QED BY <2>1, <3>1, <3>2
  <2>5. LibraryType'
    BY <1>1, <1>2, <1>3, <2>3, <2>4 DEF LibraryType
  <2> USE DEF r
  <2> QED BY <1>1, <1>2, <2>3, <2>4, <2>5, EndsLightly
<1> QED BY <1>4, <1>5, <1>6

LEMMA FavoriteRemoved ==
  ASSUME LibInv, NEW c \in Clients, NEW u \in Users, NEW p \in Partsets, RemoveFavorite(c, u, p)
  PROVE  LibInv'
<1>1. /\ favorite' = [favorite EXCEPT ![<<p, u>>] = "none"]
      /\ UNCHANGED <<row, downloads, children, cached, jobs, score, req, faults, keys, excused>>
  BY DEF RemoveFavorite, files
<1>2. LibraryType /\ StageInv /\ UsedInv /\ CountInv /\ ScoreInv /\ GoneInv /\ faults \in Nat
  BY DEF LibInv, LibraryType
<1>3. LibraryType'
  BY <1>1, <1>2 DEF LibraryType, FavoriteType
<1>4. StageInv'
  BY <1>1, <1>2, StageStays
<1>5. UsedInv'
  BY <1>1, <1>2, UsedStays DEF Exists
<1>6. CountInv'
  BY <1>1, <1>2, CountStays DEF Exists
<1>7. ScoreInv'
  BY <1>1, <1>2, ScoreStays DEF Exists, Doomed, At, Free
<1>8. GoneInv'
  <2>1. \A q \in Partsets, v \in Users : favorite'[<<q, v>>] \in {"none", favorite[<<q, v>>]}
    BY <1>1, <1>2 DEF LibraryType, FavoriteType
  <2>2. \A d \in Everyone, q \in Partsets : Removing(d, q)' <=> Removing(d, q)
    BY <1>1 DEF Removing, At, Free
  <2> QED BY <1>1, <1>2, <2>1, <2>2, GoneStays DEF Exists
<1> QED BY <1>3, <1>4, <1>5, <1>6, <1>7, <1>8 DEF LibInv

LEMMA DownloadCommits ==
  ASSUME LibInv, NEW c \in Clients, CommitDownload(c)
  PROVE  LibInv'
<1> DEFINE p == req[c].partset
           n == req[c].count + 1
           new == [row[p] EXCEPT !.count = n]
<1>1. /\ ~Free(c) /\ req[c].op = "download" /\ req[c].op \notin Removals /\ Answer(c)
      /\ UNCHANGED <<favorite, children, cached, jobs, score, faults, keys>>
      /\ excused \subseteq excused'
  BY DEF CommitDownload, files, Removals
<1>2. /\ req[c] # None /\ LibraryType /\ p \in Partsets /\ req[c].count \in Nat /\ c \in Everyone
      /\ StageInv /\ UsedInv /\ CountInv /\ ScoreInv /\ GoneInv /\ faults \in Nat
  BY <1>1, RequestFacts DEF LibInv, LibraryType
<1>3. /\ req' \in [Everyone -> Request \cup {None}] /\ StageInv'
      /\ req'[c] = None /\ \A d \in Everyone : d # c => req'[d] = req[d]
      /\ \A s \in Scores : Doomed(s)' <=> Doomed(s)
      /\ At(Operator, "files")' => At(Operator, "files") /\ req'[Operator].scores = req[Operator].scores
      /\ \A d \in Everyone, q \in Partsets : Removing(d, q) => Removing(d, q)'
  BY <1>1, <1>2, ClientEnds
<1>4. IF Exists(p)
      THEN downloads' = [downloads EXCEPT ![p] = @ + 1] /\ row' = [row EXCEPT ![p] = new]
      ELSE UNCHANGED <<downloads, row>>
  BY DEF CommitDownload
<1>5. Exists(p) => new \in Row /\ new # None /\ new.score = row[p].score /\ new.count = n
  BY <1>2, LibraryAssumption DEF LibraryType, Exists, Row
<1> HIDE DEF new
<1>6. LibraryType'
  <2>1. row' \in [Partsets -> Row \cup {None}]
    BY <1>2, <1>4, <1>5 DEF LibraryType
  <2>2. downloads' \in [Partsets -> Nat]
    BY <1>2, <1>4 DEF LibraryType
  <2> QED BY <1>1, <1>2, <1>3, <2>1, <2>2 DEF LibraryType, FavoriteType
<1>7. \A q \in Partsets : Exists(q)' <=> Exists(q)
  BY <1>2, <1>4, <1>5 DEF LibraryType, Exists
<1>8. \A q \in Partsets : q # p => row'[q] = row[q] /\ downloads'[q] = downloads[q]
  BY <1>2, <1>4 DEF LibraryType
<1>9. Exists(p) => row'[p].count = n /\ row'[p].score = row[p].score /\ downloads'[p] = downloads[p] + 1
  BY <1>2, <1>4, <1>5 DEF LibraryType
<1>10. UsedInv'
  <2>1. \A q \in Partsets : ~Exists(q) => ~Exists(q)' /\ downloads'[q] \in {0, downloads[q]}
    BY <1>4, <1>7, <1>8
  <2>2. \A d \in Everyone, q \in Partsets :
          (req'[d] # None /\ Names(req'[d], q)) => req[d] # None /\ Names(req[d], q)
    BY <1>3
  <2> QED BY <1>1, <1>2, <2>1, <2>2, UsedStays
<1>11. CountInv'
  <2>1. Exists(p) => /\ req[c].count <= downloads[p] /\ row[p].count <= downloads[p]
                     /\ downloads[p] \in Nat /\ row[p].count \in Nat
                     /\ row[p].count < downloads[p] => <<p, "downloads">> \in excused
                     /\ req[c].count = row[p].count \/ <<p, "downloads">> \in excused
    BY <1>1, <1>2 DEF CountInv, Counted, LibraryType, Exists, Row, Free
  <2>2. \A d \in Everyone : (d # c /\ req[d] # None /\ req[d].op = "download" /\ req[d].partset = p)
                              => <<p, "downloads">> \in excused'
    <3> SUFFICES ASSUME NEW d \in Everyone, d # c, req[d] # None, req[d].op = "download",
                        req[d].partset = p
                 PROVE  <<p, "downloads">> \in excused'
      OBVIOUS
    <3>1. d \in Clients
      BY <1>2 DEF StageInv, StageOf, Free, Everyone
    <3> QED BY <3>1 DEF CommitDownload, Free
  <2>3. Counted'
    <3> SUFFICES ASSUME NEW q \in Partsets, Exists(q)
                 PROVE  /\ row'[q].count <= downloads'[q]
                        /\ row'[q].count < downloads'[q] => <<q, "downloads">> \in excused'
      BY <1>7 DEF Counted
    <3>1. CASE q = p
      BY <1>1, <1>2, <1>9, <2>1, <3>1
    <3>2. CASE q # p
      BY <1>1, <1>2, <1>8, <3>2 DEF CountInv, Counted
    <3> QED BY <3>1, <3>2
  <2>4. ASSUME NEW d \in Everyone, NEW q \in Partsets, req'[d] # None, req'[d].op = "download",
               req'[d].partset = q, Exists(q)
        PROVE  /\ req'[d].count <= downloads'[q]
               /\ req'[d].count = row'[q].count \/ <<q, "downloads">> \in excused'
    <3>1. d # c /\ req'[d] = req[d]
      BY <1>3, <2>4
    <3>2. CASE q = p
      <4>1. req[d].count <= downloads[p] /\ downloads[p] \in Nat /\ req[d].count \in Nat
        BY <1>2, <2>4, <3>1, <3>2 DEF CountInv, LibraryType, Free, Request, Removal
      <4> QED BY <1>9, <2>2, <2>4, <3>1, <3>2, <4>1
    <3>3. CASE q # p
      BY <1>1, <1>2, <1>8, <2>4, <3>1, <3>3 DEF CountInv, Free
    <3> QED BY <3>2, <3>3
  <2> QED BY <1>7, <2>3, <2>4 DEF CountInv, Free
<1>12. ScoreInv'
  <2>1. \A q \in Partsets : Exists(q)' => Exists(q) /\ row'[q].score = row[q].score
    BY <1>7, <1>8, <1>9
  <2> QED BY <1>1, <1>2, <1>3, <2>1, ScoreStays
<1>13. GoneInv'
  <2>1. \A q \in Partsets : ~Exists(q) => downloads'[q] = downloads[q]
    BY <1>4, <1>8
  <2>2. \A d \in Everyone, q \in Partsets : (req'[d] # None /\ req'[d].partset = q) => req'[d] = req[d]
    BY <1>3
  <2> QED BY <1>1, <1>2, <1>3, <1>7, <2>1, <2>2, GoneStays
<1> QED BY <1>3, <1>6, <1>10, <1>11, <1>12, <1>13 DEF LibInv

LEMMA CreationCommits ==
  ASSUME LibInv, NEW c \in Clients, CommitCreate(c)
  PROVE  LibInv'
<1> DEFINE r == req[c]
<1>1. /\ ~Free(c) /\ r.op = "create" /\ r.op \notin Removals /\ Answer(c)
      /\ UNCHANGED <<downloads, cached, score, faults>>
  BY DEF CommitCreate, Removals
<1>2. /\ r # None /\ LibraryType /\ c \in Everyone /\ r.user \in Users \cup {None} /\ r.score \in Scores
      /\ StageInv /\ UsedInv /\ CountInv /\ ScoreInv /\ GoneInv /\ faults \in Nat
  BY <1>1, RequestFacts DEF LibInv, LibraryType
<1>3. /\ req' \in [Everyone -> Request \cup {None}] /\ StageInv'
      /\ req'[c] = None /\ \A d \in Everyone : d # c => req'[d] = req[d]
      /\ \A s \in Scores : Doomed(s)' <=> Doomed(s)
      /\ At(Operator, "files")' => At(Operator, "files") /\ req'[Operator].scores = req[Operator].scores
      /\ \A d \in Everyone, q \in Partsets : Removing(d, q) => Removing(d, q)'
  BY <1>1, <1>2, ClientEnds
<1> HIDE DEF r
<1>4. PICK p \in Partsets \ (Existing \cup {k[2] : k \in keys}) :
        /\ row' = [row EXCEPT ![p] = Fresh(r.user, r.score)]
        /\ favorite' = [k \in Partsets \X Users |-> IF k = <<p, r.user>> THEN "admin" ELSE favorite[k]]
        /\ children' = IF r.analysed THEN children \cup {p} ELSE children
        /\ jobs' = IF r.analysed THEN jobs ELSE jobs \cup {p}
        /\ keys' = keys \cup {<<r.user, p>>}
        /\ excused' = IF Doomed(r.score) \/ ~score[r.score].row
                        THEN excused \cup {<<p, "late">>} ELSE excused
  BY DEF CommitCreate, r
<1>5. ~Used(p) /\ Used(p)'
  <2>1. ~Used(p)
    BY <1>4 DEF Used
  <2>2. <<r.user, p>> \in keys' /\ <<r.user, p>>[2] = p
    BY <1>4
  <2> QED BY <2>1, <2>2 DEF Used
<1>6. ~Exists(p) /\ downloads[p] = 0 /\ \A d \in Everyone : req[d] # None => ~Names(req[d], p)
  BY <1>2, <1>5 DEF UsedInv, Free
<1>7. Fresh(r.user, r.score) \in Row /\ Fresh(r.user, r.score).count = 0
      /\ Fresh(r.user, r.score).score = r.score /\ Fresh(r.user, r.score) # None
  <2> DEFINE u == r.user  s == r.score
  <2>1. u \in Users \cup {None} /\ s \in Scores
    BY <1>2
  <2> HIDE DEF u, s
  <2>2. Fresh(u, s) \in Row /\ Fresh(u, s).count = 0 /\ Fresh(u, s).score = s
    BY <2>1 DEF Fresh, Row
  <2>3. Fresh(u, s) # None
    BY <2>2, LibraryAssumption
  <2> QED BY <2>2, <2>3 DEF u, s
<1>8. /\ row' \in [Partsets -> Row \cup {None}] /\ Exists(p)' /\ row'[p].count = 0 /\ row'[p].score = r.score
      /\ \A q \in Partsets : q # p => row'[q] = row[q] /\ (Exists(q)' <=> Exists(q))
  BY <1>2, <1>4, <1>7 DEF LibraryType, Exists
<1>9. excused \subseteq excused' /\ keys \subseteq keys'
  BY <1>4
<1>10. LibraryType'
  <2>1. FavoriteType'
    BY <1>2, <1>4 DEF LibraryType, FavoriteType
  <2> QED BY <1>1, <1>2, <1>3, <1>8, <2>1 DEF LibraryType
<1>11. UsedInv'
  <2> SUFFICES ASSUME NEW q \in Partsets, ~Used(q)'
               PROVE  /\ ~Exists(q)' /\ downloads'[q] = 0
                      /\ \A d \in Everyone : req'[d] # None => ~Names(req'[d], q)
    BY DEF UsedInv, Free, Names
  <2>1. ~Used(q) /\ q # p
    BY <1>5, <1>9 DEF Used
  <2> QED BY <1>1, <1>2, <1>3, <1>8, <2>1 DEF UsedInv, Free
<1>12. CountInv'
  <2>1. Counted'
    <3> SUFFICES ASSUME NEW q \in Partsets, Exists(q)'
                 PROVE  /\ row'[q].count <= downloads'[q]
                        /\ row'[q].count < downloads'[q] => <<q, "downloads">> \in excused'
      BY DEF Counted
    <3>1. CASE q = p
      BY <1>1, <1>6, <1>8, <3>1
    <3>2. CASE q # p
      BY <1>1, <1>2, <1>8, <1>9, <3>2 DEF CountInv, Counted
    <3> QED BY <3>1, <3>2
  <2>2. ASSUME NEW d \in Everyone, NEW q \in Partsets, req'[d] # None, req'[d].op = "download",
               req'[d].partset = q, Exists(q)'
        PROVE  /\ req'[d].count <= downloads'[q]
               /\ req'[d].count = row'[q].count \/ <<q, "downloads">> \in excused'
    <3>1. req'[d] = req[d] /\ req[d] # None /\ q # p
      BY <1>3, <1>6, <2>2 DEF Names
    <3> QED BY <1>1, <1>2, <1>8, <1>9, <2>2, <3>1 DEF CountInv, Free
  <2> QED BY <2>1, <2>2 DEF CountInv, Free
<1>13. ScoreInv'
  <2> DEFINE Kept(s, q) == (Doomed(s) => <<q, "late">> \in excused')
                            /\ (<<q, "late">> \in excused' \/ score[s].row)
  <2>1. \A s \in Scores : \A q \in Of(s)' : Kept(s, q)
    <3> SUFFICES ASSUME NEW s \in Scores, NEW q \in Of(s)' PROVE Kept(s, q)
      OBVIOUS
    <3>1. CASE q = p
      <4>1. s = r.score
        BY <1>8, <3>1 DEF Of
      <4> QED BY <1>4, <3>1, <4>1
    <3>2. CASE q # p
      <4>1. q \in Of(s)
        BY <1>8, <3>2 DEF Of
      <4> QED BY <1>2, <1>9, <4>1 DEF ScoreInv
    <3> QED BY <3>1, <3>2
  <2>2. \A s \in Scores : Doomed(s)' => \A q \in Of(s)' : <<q, "late">> \in excused'
    BY <1>3, <2>1
  <2>3. \A s \in Scores : \A q \in Of(s)' : <<q, "late">> \in excused' \/ score'[s].row
    BY <1>1, <2>1
  <2>4. At(Operator, "files")' => \A s \in Scores : s \in req'[Operator].scores => ~score'[s].row
    BY <1>1, <1>2, <1>3 DEF ScoreInv
  <2> DEFINE Failed == faults > 0
  <2>5. Failed' <=> Failed
    BY <1>1
  <2>6. \A s \in Scores : score[s].pdf \/ ~score[s].row \/ Doomed(s) \/ Failed
    BY <1>2 DEF ScoreInv
  <2> HIDE DEF Failed
  <2>7. \A s \in Scores : score'[s].pdf \/ ~score'[s].row \/ Doomed(s)' \/ Failed'
    BY <1>1, <1>3, <2>5, <2>6
  <2> USE DEF Failed
  <2> QED BY <2>2, <2>3, <2>4, <2>7 DEF ScoreInv
<1>14. GoneInv'
  <2> SUFFICES ASSUME NEW q \in Partsets, ~Exists(q)', <<q, "overlap">> \notin excused'
               PROVE  Left(q)'
    BY DEF GoneInv
  <2>1. q # p /\ ~Exists(q) /\ Left(q)
    BY <1>2, <1>8, <1>9 DEF GoneInv
  <2>2. \A u \in Users : favorite'[<<q, u>>] = favorite[<<q, u>>]
    BY <1>2, <1>4, <2>1 DEF LibraryType, FavoriteType
  <2>3. q \notin children' /\ q \notin jobs'
    BY <1>4, <2>1 DEF Left
  <2>4. <<"derived", q>> \in cached' => \/ <<q, "purged">> \in excused'
                                        \/ faults' > 0
                                        \/ \E d \in Everyone : Removing(d, q)'
    BY <1>1, <1>3, <1>9, <2>1 DEF Left
  <2>5. \A d \in Everyone : req'[d] # None /\ req'[d].partset = q => req'[d].op \in Removals
    BY <1>3, <2>1 DEF Left, Free
  <2> QED BY <1>1, <2>1, <2>2, <2>3, <2>4, <2>5 DEF Left, Free
<1> QED BY <1>3, <1>10, <1>11, <1>12, <1>13, <1>14 DEF LibInv

LEMMA JobsKeep ==
  ASSUME LibInv, NEW p \in Partsets, JobInserts(p) \/ JobFails(p)
  PROVE  LibInv'
<1> DEFINE new == [row[p] EXCEPT !.error = TRUE]
<1>1. /\ p \in jobs /\ jobs' = jobs \ {p} /\ children' \subseteq children \cup {p}
      /\ row' = row \/ (Exists(p) /\ row' = [row EXCEPT ![p] = new])
      /\ UNCHANGED <<favorite, downloads, cached, score, req, faults, keys, excused>>
  BY DEF JobInserts, JobFails
<1>2. LibraryType /\ StageInv /\ UsedInv /\ CountInv /\ ScoreInv /\ GoneInv /\ faults \in Nat
  BY DEF LibInv, LibraryType
<1>3. Exists(p) => new \in Row /\ new # None /\ new.score = row[p].score /\ new.count = row[p].count
  BY <1>2, LibraryAssumption DEF LibraryType, Exists, Row
<1> HIDE DEF new
<1>4. /\ row' \in [Partsets -> Row \cup {None}]
      /\ \A q \in Partsets : /\ Exists(q)' <=> Exists(q)
                             /\ Exists(q) => row'[q].score = row[q].score /\ row'[q].count = row[q].count
  BY <1>1, <1>2, <1>3 DEF LibraryType, Exists
<1>5. LibraryType'
  BY <1>1, <1>2, <1>4 DEF LibraryType, FavoriteType
<1>6. StageInv'
  BY <1>1, <1>2, StageStays
<1>7. UsedInv'
  BY <1>1, <1>2, <1>4, UsedStays
<1>8. CountInv'
  BY <1>1, <1>2, <1>4, CountStays
<1>9. ScoreInv'
  <2>1. \A s \in Scores : Doomed(s)' <=> Doomed(s)
    BY <1>1 DEF Doomed, Free
  <2>2. At(Operator, "files")' => At(Operator, "files") /\ req'[Operator].scores = req[Operator].scores
    BY <1>1 DEF At, Free
  <2> QED BY <1>1, <1>2, <1>4, <2>1, <2>2, ScoreStays
<1>10. GoneInv'
  <2>1. \A d \in Everyone, q \in Partsets : Removing(d, q)' <=> Removing(d, q)
    BY <1>1 DEF Removing, At, Free
  <2>2. \A q \in Partsets : Left(q) => q # p
    BY <1>1 DEF Left
  <2> QED BY <1>1, <1>2, <1>4, <2>1, <2>2, GoneStays
<1> QED BY <1>5, <1>6, <1>7, <1>8, <1>9, <1>10 DEF LibInv

-----------------------------------------------------------------------------
(* Removals. *)

LEMMA RemovalFacts ==
  ASSUME LibInv, NEW c \in Everyone, NEW stage, At(c, stage)
  PROVE  /\ req[c] # None /\ req[c].op \in Removals /\ req[c] \in Removal /\ req[c].stage = stage
         /\ StageOf(c, req[c]) /\ LibraryType
<1>1. req[c] # None /\ req[c].op \in Removals /\ req[c].stage = stage
  BY DEF At, Free
<1>2. LibraryType /\ StageOf(c, req[c])
  BY <1>1 DEF LibInv, StageInv, Free
<1>3. req[c] \in Removal
  BY <1>1, <1>2 DEF LibraryType, Request, Removals
<1> QED BY <1>1, <1>2, <1>3

\* A removal goes on or ends, and the rows stay.
LEMMA GoesOn ==
  ASSUME LibInv, NEW c \in Everyone, req[c] # None, req[c].op \in Removals,
         NEW new \in Removal \cup {None}, req' = [req EXCEPT ![c] = new],
         new # None => StageOf(c, new) /\ \A q \in Partsets : Names(new, q) => Names(req[c], q),
         UNCHANGED rows, UNCHANGED <<jobs, keys, excused>>, cached' \subseteq cached,
         faults' \in Nat, faults <= faults', ScoreInv',
         score' \in [Scores -> [row : BOOLEAN, originals : BOOLEAN, pdf : BOOLEAN, cached : BOOLEAN]],
         \A q \in Partsets : Removing(c, q) => <<"derived", q>> \notin cached' \/ faults' > 0 \/ Removing(c, q)'
  PROVE  LibInv'
<1>1. LibraryType /\ StageInv /\ UsedInv /\ CountInv /\ GoneInv /\ faults \in Nat
  BY DEF LibInv, LibraryType
<1>2. req'[c] = new /\ \A d \in Everyone : d # c => req'[d] = req[d]
  BY <1>1, ReqSet
<1>3. new \in Request \cup {None} /\ UNCHANGED <<row, favorite, downloads, children>>
  BY DEF Request, rows
<1>4. new # None => new.op \in Removals
  BY DEF Removal, Removals
<1>5. LibraryType'
  BY <1>1, <1>3, ReqSet DEF LibraryType, FavoriteType
<1>6. StageInv'
  BY <1>1, StageSet
<1>7. UsedInv'
  <2>1. \A d \in Everyone, q \in Partsets :
          (req'[d] # None /\ Names(req'[d], q)) => req[d] # None /\ Names(req[d], q)
    BY <1>2
  <2> QED BY <1>1, <1>3, <2>1, UsedStays DEF Exists
<1>8. CountInv'
  <2>1. \A d \in Everyone : (req'[d] # None /\ req'[d].op = "download") => req'[d] = req[d]
    BY <1>2, <1>4 DEF Removals
  <2> QED BY <1>1, <1>3, <2>1, CountStays DEF Exists
<1>9. GoneInv'
  <2>1. \A d \in Everyone, q \in Partsets :
          /\ Removing(d, q) => <<"derived", q>> \notin cached' \/ faults' > 0 \/ Removing(d, q)'
          /\ (req'[d] # None /\ req'[d].partset = q) => req'[d].op \in Removals \/ req'[d] = req[d]
    BY <1>2, <1>4 DEF Removing, At, Free
  <2> QED BY <1>1, <1>3, <2>1, GoneStays DEF Exists
<1> QED BY <1>5, <1>6, <1>7, <1>8, <1>9 DEF LibInv

\* The rows of the partsets ps are deleted.
LEMMA RowsGo ==
  ASSUME LibInv, NEW c \in Everyone, req[c] # None, req[c].op \in Removals,
         NEW new \in Removal, req' = [req EXCEPT ![c] = new], StageOf(c, new),
         \A q \in Partsets : Names(new, q) => Names(req[c], q),
         req[c].stage \in {"rows", "next", "batch"}, new.stage \in {"s3", "batch"},
         NEW ps, Without(ps, c), UNCHANGED <<cached, jobs, score, faults, keys>>,
         \A q \in ps : req[c].op = "purge" \/ (new.stage = "s3" /\ new.partset = q)
  PROVE  LibInv'
<1>1. LibraryType /\ StageInv /\ UsedInv /\ CountInv /\ ScoreInv /\ GoneInv /\ faults \in Nat
  BY DEF LibInv, LibraryType
<1>2. req'[c] = new /\ \A d \in Everyone : d # c => req'[d] = req[d]
  BY <1>1, ReqSet
<1>3. new \in Request /\ new.op \in Removals /\ new # None
  BY LibraryAssumption DEF Request, Removal, Removals
<1>4. /\ \A p \in Partsets : /\ row'[p] = (IF p \in ps THEN None ELSE row[p])
                             /\ downloads'[p] = (IF p \in ps THEN 0 ELSE downloads[p])
                             /\ \A u \in Users : favorite'[<<p, u>>] =
                                                   (IF p \in ps THEN "none" ELSE favorite[<<p, u>>])
      /\ children' = children \ ps /\ excused \subseteq excused'
  BY DEF Without
<1>5. \A p \in Partsets : Exists(p)' <=> Exists(p) /\ p \notin ps
  BY <1>4 DEF Exists
<1>6. LibraryType'
  <2>1. row' \in [Partsets -> Row \cup {None}]
    BY <1>1 DEF Without, LibraryType
  <2>2. downloads' \in [Partsets -> Nat]
    BY <1>1 DEF Without, LibraryType
  <2>3. FavoriteType'
    BY <1>1 DEF Without, LibraryType, FavoriteType
  <2> QED BY <1>1, <1>3, <2>1, <2>2, <2>3, ReqSet DEF LibraryType
<1>7. StageInv'
  BY <1>1, StageSet
<1>8. UsedInv'
  <2>1. \A d \in Everyone, q \in Partsets :
          (req'[d] # None /\ Names(req'[d], q)) => req[d] # None /\ Names(req[d], q)
    BY <1>2
  <2> QED BY <1>1, <1>4, <1>5, <2>1, UsedStays
<1>9. CountInv'
  <2>1. \A d \in Everyone : (req'[d] # None /\ req'[d].op = "download") => req'[d] = req[d]
    BY <1>2, <1>3 DEF Removals
  <2> QED BY <1>1, <1>4, <1>5, <2>1, CountStays
<1>10. ScoreInv'
  <2>1. \A s \in Scores : Doomed(s)' <=> Doomed(s)
    BY <1>2 DEF Doomed, Free
  <2>2. At(Operator, "files")' => At(Operator, "files") /\ req'[Operator].scores = req[Operator].scores
    BY <1>2 DEF At, Free
  <2> QED BY <1>1, <1>4, <1>5, <2>1, <2>2, ScoreStays
<1>11. GoneInv'
  <2> SUFFICES ASSUME NEW p \in Partsets, ~Exists(p)', <<p, "overlap">> \notin excused'
               PROVE  Left(p)'
    BY DEF GoneInv
  <2>1. CASE p \in ps
    <3>1. ~UnderWay(p, c)
      BY <2>1 DEF Without
    <3>2. p \notin jobs /\ \A d \in Everyone : d # c /\ req[d] # None => req[d].partset # p
      BY <1>1, <3>1 DEF UnderWay, LibraryType, Free
    <3>3. <<p, "purged">> \in excused' \/ Removing(c, p)'
      BY <1>2, <1>3, <2>1 DEF Without, Removing, At, Free
    <3> QED BY <1>2, <1>3, <1>4, <2>1, <3>2, <3>3 DEF Left, Free
  <2>2. CASE p \notin ps
    <3>1. Left(p)
      BY <1>1, <1>4, <1>5, <2>2 DEF GoneInv
    <3>2. \A d \in Everyone : Removing(d, p) => Removing(d, p)'
      BY <1>2 DEF Removing, At, Free
    <3>3. <<"derived", p>> \in cached' => \/ <<p, "purged">> \in excused'
                                          \/ faults' > 0
                                          \/ \E d \in Everyone : Removing(d, p)'
      BY <1>4, <3>1, <3>2 DEF Left
    <3>4. \A d \in Everyone : req'[d] # None /\ req'[d].partset = p => req'[d].op \in Removals
      BY <1>2, <1>3, <3>1 DEF Left, Free
    <3> QED BY <1>4, <2>2, <3>1, <3>3, <3>4 DEF Left, Free
  <2> QED BY <2>1, <2>2
<1> QED BY <1>6, <1>7, <1>8, <1>9, <1>10, <1>11 DEF LibInv

LEMMA RowsDeleted ==
  ASSUME LibInv, NEW c \in Everyone, DeleteRows(c)
  PROVE  LibInv'
<1> DEFINE p == req[c].partset
           new == [req[c] EXCEPT !.stage = "s3"]
<1>1. /\ At(c, "rows") \/ At(c, "next")
      /\ UNCHANGED <<cached, jobs, score, faults, keys>>
      /\ \/ req' = [req EXCEPT ![c] = None] /\ UNCHANGED rows /\ UNCHANGED excused
         \/ req' = [req EXCEPT ![c] = new] /\ Without({p}, c)
  BY DEF DeleteRows, To
<1>2. /\ req[c] # None /\ req[c].op \in Removals /\ req[c] \in Removal /\ req[c].stage \in {"rows", "next"}
      /\ StageOf(c, req[c]) /\ LibraryType
  BY <1>1, RemovalFacts
<1>3. /\ new \in Removal /\ new.op = req[c].op /\ new.partset = p /\ new.stage = "s3"
      /\ new.rest = req[c].rest /\ new.scores = req[c].scores
  BY <1>2 DEF Removal
<1> HIDE DEF new
<1>4. ~Removing(c, p) /\ \A q \in Partsets : ~Removing(c, q)
  BY <1>2 DEF Removing, At
<1>5. CASE req' = [req EXCEPT ![c] = None] /\ UNCHANGED rows /\ UNCHANGED excused
  <2>1. ScoreInv'
    <3>1. req'[c] = None /\ \A d \in Everyone : d # c => req'[d] = req[d]
      BY <1>2, <1>5, ReqSet
    <3>2. \A s \in Scores : Doomed(s)' <=> Doomed(s)
      BY <1>2, <3>1 DEF Doomed, Free, Everyone
    <3>3. At(Operator, "files")' => At(Operator, "files") /\ req'[Operator].scores = req[Operator].scores
      BY <3>1 DEF At, Free, Everyone
    <3> QED BY <1>1, <1>5, <3>2, <3>3, ScoreStays DEF LibInv, LibraryType, rows, Exists
  <2>2. faults' \in Nat /\ faults <= faults' /\ cached' \subseteq cached
        /\ score' \in [Scores -> [row : BOOLEAN, originals : BOOLEAN, pdf : BOOLEAN, cached : BOOLEAN]]
    BY <1>1, <1>2 DEF LibraryType
  <2> QED BY <1>1, <1>2, <1>4, <1>5, <2>1, <2>2, GoesOn
<1>6. CASE req' = [req EXCEPT ![c] = new] /\ Without({p}, c)
  <2>1. StageOf(c, new) /\ \A q \in Partsets : Names(new, q) => Names(req[c], q)
    BY <1>2, <1>3 DEF StageOf, Names
  <2> DEFINE ps == {p}
  <2>2. Without(ps, c) /\ \A q \in ps : new.stage = "s3" /\ new.partset = q
    BY <1>3, <1>6
  <2> HIDE DEF ps, p
  <2>3. UNCHANGED <<cached, jobs, score, faults, keys>> /\ req' = [req EXCEPT ![c] = new]
        /\ req[c].stage \in {"rows", "next", "batch"} /\ new.stage \in {"s3", "batch"}
    BY <1>1, <1>2, <1>3, <1>6
  <2> QED BY <1>2, <1>3, <2>1, <2>2, <2>3, RowsGo
<1> QED BY <1>1, <1>5, <1>6

\* The scores stay while a removal is at what belongs to partsets.
LEMMA ScoresStay ==
  ASSUME LibInv, NEW c \in Everyone, req[c] # None,
         req[c].stage \notin {"wipe", "score", "files"},
         NEW new, req' = [req EXCEPT ![c] = new],
         new # None => new.stage \notin {"wipe", "score", "files"},
         UNCHANGED <<row, score, excused>>, faults' \in Nat, faults <= faults'
  PROVE  ScoreInv'
<1>1. req'[c] = new /\ \A d \in Everyone : d # c => req'[d] = req[d]
  BY ReqSet DEF LibInv
<1>2. \A s \in Scores : Doomed(s)' <=> Doomed(s)
  BY <1>1 DEF Doomed, Free, Everyone
<1>3. At(Operator, "files")' => At(Operator, "files") /\ req'[Operator].scores = req[Operator].scores
  BY <1>1 DEF At, Free, Everyone
<1> QED BY <1>2, <1>3, ScoreStays DEF LibInv, LibraryType, Exists

LEMMA ObjectsDeleted ==
  ASSUME LibInv, NEW c \in Everyone, DeleteObjects(c)
  PROVE  LibInv'
<1> DEFINE new == [req[c] EXCEPT !.stage = "cache"]
<1>1. /\ At(c, "s3") /\ UNCHANGED <<row, cached, jobs, score, keys, excused>> /\ UNCHANGED rows
      /\ \/ req' = [req EXCEPT ![c] = new] /\ UNCHANGED faults
         \/ req' = [req EXCEPT ![c] = None] /\ faults' = faults + 1
  BY DEF DeleteObjects, To, rows
<1>2. /\ req[c] # None /\ req[c].op \in Removals /\ req[c] \in Removal /\ req[c].stage = "s3"
      /\ StageOf(c, req[c]) /\ LibraryType /\ faults \in Nat
  BY <1>1, RemovalFacts DEF LibraryType
<1>3. /\ new \in Removal /\ new.op = req[c].op /\ new.partset = req[c].partset /\ new.stage = "cache"
      /\ new.rest = req[c].rest /\ new.scores = req[c].scores
  BY <1>2 DEF Removal
<1> HIDE DEF new
<1>4. faults' \in Nat /\ faults <= faults' /\ cached' \subseteq cached
      /\ score' \in [Scores -> [row : BOOLEAN, originals : BOOLEAN, pdf : BOOLEAN, cached : BOOLEAN]]
  BY <1>1, <1>2 DEF LibraryType
<1>5. CASE req' = [req EXCEPT ![c] = new] /\ UNCHANGED faults
  <2>1. StageOf(c, new) /\ \A q \in Partsets : Names(new, q) => Names(req[c], q)
    BY <1>2, <1>3 DEF StageOf, Names
  <2>2. new # None
    BY <1>3, LibraryAssumption
  <2>3. \A q \in Partsets : Removing(c, q) => Removing(c, q)'
    BY <1>2, <1>3, <1>5, <2>2, ReqSet DEF Removing, At, Free
  <2>4. ScoreInv'
    BY <1>1, <1>2, <1>3, <1>4, <1>5, ScoresStay
  <2> QED BY <1>1, <1>2, <1>3, <1>4, <1>5, <2>1, <2>3, <2>4, GoesOn
<1>6. CASE req' = [req EXCEPT ![c] = None] /\ faults' = faults + 1
  <2>1. faults' > 0
    BY <1>2, <1>6
  <2>2. ScoreInv'
    BY <1>1, <1>2, <1>4, <1>6, ScoresStay
  <2> QED BY <1>1, <1>2, <1>4, <1>6, <2>1, <2>2, GoesOn
<1> QED BY <1>1, <1>5, <1>6

LEMMA CachesInvalidated ==
  ASSUME LibInv, NEW c \in Everyone, InvalidateCaches(c)
  PROVE  LibInv'
<1> DEFINE r == req[c]
<1>0. PICK p : /\ r.rest # {} => p \in r.rest
               /\ req' = [req EXCEPT ![c] =
                           IF r.op = "delete" THEN None
                           ELSE IF r.rest = {} THEN [r EXCEPT !.partset = None, !.stage = "count"]
                           ELSE [r EXCEPT !.partset = p, !.rest = r.rest \ {p}, !.stage = "next"]]
  BY DEF InvalidateCaches
<1> DEFINE next == [r EXCEPT !.partset = p, !.rest = r.rest \ {p}, !.stage = "next"]
           count == [r EXCEPT !.partset = None, !.stage = "count"]
<1>1. /\ At(c, "cache") /\ UNCHANGED <<row, jobs, score, faults, keys, excused>> /\ UNCHANGED rows
      /\ cached' = cached \ {<<"derived", r.partset>>}
      /\ req' = [req EXCEPT ![c] = IF r.op = "delete" THEN None ELSE IF r.rest = {} THEN count ELSE next]
  BY <1>0 DEF InvalidateCaches, rows
<1>2. /\ r # None /\ r.op \in Removals /\ r \in Removal /\ r.stage = "cache"
      /\ StageOf(c, r) /\ LibraryType
  BY <1>1, RemovalFacts
<1>3. r.op \in {"delete", "failed"} /\ r.rest \subseteq Partsets
  BY <1>2 DEF StageOf, Removals
<1>4. /\ count \in Removal /\ count.op = r.op /\ count.partset = None /\ count.stage = "count"
      /\ count.rest = r.rest
  BY <1>2 DEF Removal
<1>6. r.rest # {} => /\ next \in Removal /\ next.op = r.op /\ next.partset = p /\ next.stage = "next"
                     /\ next.rest = r.rest \ {p}
  BY <1>2, <1>3, <1>0 DEF Removal
<1> DEFINE new == IF r.op = "delete" THEN None ELSE IF r.rest = {} THEN count ELSE next
<1>7. new # None => \/ r.op = "failed" /\ r.rest = {} /\ new = count
                    \/ r.op = "failed" /\ r.rest # {} /\ new = next
  BY <1>3
<1>8. req' = [req EXCEPT ![c] = new] /\ new \in Removal \cup {None}
  BY <1>1, <1>4, <1>6
<1> HIDE DEF count, next, new
<1>9. new # None => /\ StageOf(c, new) /\ \A q \in Partsets : Names(new, q) => Names(r, q)
                    /\ new.stage \in {"rows", "next", "s3", "cache", "count"}
  <2>1. ASSUME r.op = "failed", new = count
        PROVE  StageOf(c, new) /\ \A q \in Partsets : Names(new, q) => Names(r, q)
    BY <1>2, <1>4, <2>1, LibraryAssumption DEF StageOf, Names
  <2>2. ASSUME r.op = "failed", r.rest # {}, new = next
        PROVE  StageOf(c, new) /\ \A q \in Partsets : Names(new, q) => Names(r, q)
    BY <1>2, <1>3, <1>0, <1>6, <2>2 DEF StageOf, Names
  <2> QED BY <1>4, <1>6, <1>7, <2>1, <2>2
<1>10. faults' \in Nat /\ faults <= faults' /\ cached' \subseteq cached
       /\ score' \in [Scores -> [row : BOOLEAN, originals : BOOLEAN, pdf : BOOLEAN, cached : BOOLEAN]]
  BY <1>1, <1>2 DEF LibraryType
<1>11. ScoreInv'
  BY <1>1, <1>2, <1>8, <1>9, <1>10, ScoresStay
<1>12. \A q \in Partsets : Removing(c, q) => <<"derived", q>> \notin cached'
  BY <1>1 DEF Removing
<1> QED BY <1>1, <1>2, <1>8, <1>9, <1>10, <1>11, <1>12, GoesOn

-----------------------------------------------------------------------------
(* The operator's tools at the scores. *)

\* A tool is about to remove the scores it has found without partsets.
LEMMA Founds ==
  ASSUME LibInv, NEW new \in Removal, req[Operator] # None, req' = [req EXCEPT ![Operator] = new],
         UNCHANGED <<row, score, faults, excused>>, new.stage \in {"wipe", "score"},
         ~(req[Operator].stage \in {"wipe", "score", "files"}),
         \A s \in new.scores : Of(s) = {}
  PROVE  ScoreInv'
<1>1. req'[Operator] = new /\ new # None /\ Operator \in Everyone
  BY ReqSet, LibraryAssumption DEF LibInv, Everyone
<1>2. \A s \in Scores : Doomed(s)' <=> s \in new.scores
  BY <1>1 DEF Doomed, Free
<1>3. \A s \in Scores : ~Doomed(s)
  BY DEF Doomed
<1>4. \A s \in Scores : Of(s)' = Of(s)
  BY DEF Of, Exists
<1>5. ~At(Operator, "files")'
  BY <1>1 DEF At
<1> DEFINE Failed == faults > 0
<1>6. \A s \in Scores : score[s].pdf \/ ~score[s].row \/ Failed
  BY <1>3 DEF LibInv, ScoreInv
<1>7. (Failed' <=> Failed) /\ score' = score
  OBVIOUS
<1> HIDE DEF Failed
<1>8. \A s \in Scores : score'[s].pdf \/ ~score'[s].row \/ Failed'
  BY <1>6, <1>7
<1>9. \A s \in Scores : score'[s].pdf \/ ~score'[s].row \/ Doomed(s)' \/ faults' > 0
  BY <1>8 DEF Failed
<1>10. \A s \in Scores : Doomed(s)' => \A p \in Of(s)' : <<p, "late">> \in excused'
  BY <1>2, <1>4
<1>11. \A s \in Scores : \A p \in Of(s)' : <<p, "late">> \in excused' \/ score'[s].row
  BY <1>4, <1>7 DEF LibInv, ScoreInv
<1> QED BY <1>5, <1>9, <1>10, <1>11 DEF ScoreInv

\* Of the scores that are removed or were found without partsets, some lose their files
\* or their row; none but those loses anything.
LEMMA ScoresGo ==
  ASSUME LibInv, NEW new \in Removal \cup {None}, req[Operator] # None,
         req' = [req EXCEPT ![Operator] = new],
         UNCHANGED <<row, excused>>, faults' \in Nat, faults <= faults',
         req[Operator].stage \in {"wipe", "score", "files"},
         new # None => new.stage \in {"wipe", "files"} /\ new.scores = req[Operator].scores,
         \A s \in Scores : s \notin req[Operator].scores => score'[s] = score[s],
         \A s \in Scores : s \in req[Operator].scores =>
           /\ ~score[s].row => ~score'[s].row
           /\ new = None => (faults' > 0 \/ ~score'[s].row)
           /\ (new # None /\ new.stage = "files") => ~score'[s].row
  PROVE  ScoreInv'
<1>1. req'[Operator] = new /\ Operator \in Everyone
  BY ReqSet DEF LibInv, Everyone
<1>2. \A s \in Scores : Doomed(s) <=> s \in req[Operator].scores
  BY DEF Doomed, Free
<1>3. \A s \in Scores : Doomed(s)' <=> new # None /\ s \in req[Operator].scores
  BY <1>1 DEF Doomed, Free
<1>4. \A s \in Scores : Of(s)' = Of(s)
  BY DEF Of, Exists
<1>5. ScoreInv
  BY DEF LibInv
<1>6. \A s \in Scores : Doomed(s)' => \A p \in Of(s)' : <<p, "late">> \in excused'
  BY <1>2, <1>3, <1>4, <1>5 DEF ScoreInv
<1>7. \A s \in Scores : \A p \in Of(s)' : <<p, "late">> \in excused' \/ score'[s].row
  BY <1>2, <1>4, <1>5 DEF ScoreInv
<1> DEFINE Failed == faults > 0
<1>8. (Failed => Failed') /\ \A s \in Scores : score[s].pdf \/ ~score[s].row \/ Doomed(s) \/ Failed
  BY <1>5 DEF LibInv, LibraryType, ScoreInv
<1>9. new = None => \A s \in Scores : s \in req[Operator].scores => Failed' \/ ~score'[s].row
  OBVIOUS
<1>12. At(Operator, "files")' => \A s \in Scores : s \in req'[Operator].scores => ~score'[s].row
  BY <1>1 DEF At, Free
<1> HIDE DEF Failed
<1>10. \A s \in Scores : score'[s].pdf \/ ~score'[s].row \/ Doomed(s)' \/ Failed'
  BY <1>2, <1>3, <1>8, <1>9
<1>11. \A s \in Scores : score'[s].pdf \/ ~score'[s].row \/ Doomed(s)' \/ faults' > 0
  BY <1>10 DEF Failed
<1> QED BY <1>6, <1>7, <1>11, <1>12 DEF ScoreInv

LEMMA ToolsGoOn ==
  ASSUME LibInv, CountPartsets \/ WipeScore \/ CommitWipe
  PROVE  LibInv'
<1> DEFINE r == req[Operator]
<1> Operator \in Everyone
  BY DEF Everyone
<1>1. /\ UNCHANGED <<row, cached, jobs, keys, excused>> /\ UNCHANGED rows
      /\ cached' \subseteq cached
  BY DEF CountPartsets, WipeScore, CommitWipe, rows
<1>2. CASE CountPartsets
  <2> DEFINE new == [r EXCEPT !.scores = Orphans, !.rest = Orphans, !.stage = "wipe"]
  <2>1. At(Operator, "count") /\ UNCHANGED <<score, faults>>
    BY <1>2 DEF CountPartsets
  <2>2. /\ r # None /\ r.op \in Removals /\ r \in Removal /\ r.stage = "count"
        /\ StageOf(Operator, r) /\ LibraryType
    BY <2>1, RemovalFacts
  <2>3. Orphans \in SUBSET Scores /\ \A s \in Orphans : Of(s) = {}
    BY <2>2 DEF Orphans, Removal
  <2>4. req' = [req EXCEPT ![Operator] = new]
    BY <1>2, <2>2 DEF CountPartsets, LibraryType
  <2>5. /\ new \in Removal /\ new.op = r.op /\ new.partset = r.partset /\ new.stage = "wipe"
        /\ new.scores = Orphans /\ new.rest = Orphans
    BY <2>2, <2>3 DEF Removal
  <2> HIDE DEF new
  <2>6. StageOf(Operator, new) /\ \A q \in Partsets : Names(new, q) => Names(r, q)
    BY <2>2, <2>5 DEF StageOf, Names
  <2>7. ScoreInv'
    BY <1>1, <2>1, <2>2, <2>3, <2>4, <2>5, Founds
  <2>8. faults' \in Nat /\ faults <= faults' /\ (\A q \in Partsets : ~Removing(Operator, q))
        /\ score' \in [Scores -> [row : BOOLEAN, originals : BOOLEAN, pdf : BOOLEAN, cached : BOOLEAN]]
    BY <2>1, <2>2 DEF LibraryType, Removing, At
  <2> QED BY <1>1, <2>2, <2>4, <2>5, <2>6, <2>7, <2>8, GoesOn
<1>3. CASE WipeScore
  <2>1. At(Operator, "wipe")
    BY <1>3 DEF WipeScore
  <2>2. /\ r # None /\ r.op \in Removals /\ r \in Removal /\ r.stage = "wipe"
        /\ StageOf(Operator, r) /\ LibraryType
    BY <2>1, RemovalFacts
  <2>3. PICK s \in r.rest :
          /\ \/ score' = [score EXCEPT ![s].cached = FALSE, ![s].pdf = FALSE] /\ UNCHANGED faults
             \/ /\ faults < MaxFaults /\ faults' = faults + 1
                /\ score' = [score EXCEPT ![s].cached = FALSE]
          /\ req' = [req EXCEPT ![Operator].rest = @ \ {s}]
    BY <1>3 DEF WipeScore
  <2> DEFINE new == [r EXCEPT !.rest = r.rest \ {s}]
             a == [score[s] EXCEPT !.cached = FALSE, !.pdf = FALSE]
             b == [score[s] EXCEPT !.cached = FALSE]
  <2>4. r.rest \subseteq r.scores /\ s \in r.scores /\ s \in Scores
    BY <2>2 DEF StageOf, Removal, Removals
  <2>5. req' = [req EXCEPT ![Operator] = new]
    BY <2>3
  <2>6. /\ new \in Removal /\ new.op = r.op /\ new.partset = r.partset /\ new.stage = "wipe"
        /\ new.scores = r.scores /\ new.rest = r.rest \ {s}
    BY <2>2 DEF Removal
  <2>7. score' = [score EXCEPT ![s] = a] \/ score' = [score EXCEPT ![s] = b]
    BY <2>3, <2>4, <2>2 DEF LibraryType
  <2>8. a \in [row : BOOLEAN, originals : BOOLEAN, pdf : BOOLEAN, cached : BOOLEAN] /\ a.row = score[s].row
    BY <2>2, <2>4 DEF LibraryType
  <2>9. b \in [row : BOOLEAN, originals : BOOLEAN, pdf : BOOLEAN, cached : BOOLEAN] /\ b.row = score[s].row
    BY <2>2, <2>4 DEF LibraryType
  <2> HIDE DEF new, a, b
  <2>10. /\ score' \in [Scores -> [row : BOOLEAN, originals : BOOLEAN, pdf : BOOLEAN, cached : BOOLEAN]]
         /\ score'[s] \in {a, b} /\ \A x \in Scores : x # s => score'[x] = score[x]
    BY <2>2, <2>4, <2>7, <2>8, <2>9 DEF LibraryType
  <2>11. /\ StageOf(Operator, new) /\ \A q \in Partsets : Names(new, q) => Names(r, q)
    BY <2>2, <2>4, <2>6 DEF StageOf, Names, Removals
  <2>12. faults' \in Nat /\ faults <= faults' /\ \A q \in Partsets : ~Removing(Operator, q)
    BY <2>2, <2>3 DEF LibraryType, Removing, At
  <2>13. ScoreInv'
    <3>1. \A x \in Scores : x \notin r.scores => score'[x] = score[x]
      BY <2>4, <2>10
    <3>2. \A x \in Scores : ~score[x].row => ~score'[x].row
      BY <2>8, <2>9, <2>10
    <3>3. new # None /\ new.stage # "files"
      BY <2>6, LibraryAssumption
    <3> QED BY <1>1, <2>2, <2>5, <2>6, <2>12, <3>1, <3>2, <3>3, ScoresGo
  <2> QED BY <1>1, <2>2, <2>5, <2>6, <2>10, <2>11, <2>12, <2>13, GoesOn
<1>4. CASE CommitWipe
  <2>1. At(Operator, "wipe") /\ UNCHANGED faults /\ req' = [req EXCEPT ![Operator] = None]
        /\ score' = [s \in Scores |-> IF s \in r.scores THEN Unrecorded(s) ELSE score[s]]
    BY <1>4 DEF CommitWipe
  <2>2. /\ r # None /\ r.op \in Removals /\ r.stage = "wipe" /\ LibraryType
    BY <2>1, RemovalFacts
  <2>3. \A s \in Scores : /\ Unrecorded(s) \in [row : BOOLEAN, originals : BOOLEAN, pdf : BOOLEAN, cached : BOOLEAN]
                          /\ ~Unrecorded(s).row
    BY <2>2 DEF LibraryType, Unrecorded
  <2>4. /\ score' \in [Scores -> [row : BOOLEAN, originals : BOOLEAN, pdf : BOOLEAN, cached : BOOLEAN]]
        /\ \A s \in Scores : IF s \in r.scores THEN ~score'[s].row ELSE score'[s] = score[s]
    BY <2>1, <2>2, <2>3 DEF LibraryType
  <2>5. faults' \in Nat /\ faults <= faults' /\ \A q \in Partsets : ~Removing(Operator, q)
    BY <2>1, <2>2 DEF LibraryType, Removing, At
  <2>6. ScoreInv'
    BY <1>1, <2>1, <2>2, <2>4, <2>5, ScoresGo
  <2> QED BY <1>1, <2>1, <2>2, <2>4, <2>5, <2>6, GoesOn
<1> QED BY <1>2, <1>3, <1>4

LEMMA PurgesGoOn ==
  ASSUME LibInv, PurgeBatch \/ PurgeScore \/ PurgeFiles
  PROVE  LibInv'
<1> DEFINE r == req[Operator]
<1> Operator \in Everyone
  BY DEF Everyone
<1>1. CASE PurgeBatch
  <2>1. At(Operator, "batch") /\ UNCHANGED <<cached, jobs, score, faults, keys>>
    BY <1>1 DEF PurgeBatch
  <2>2. /\ r # None /\ r.op \in Removals /\ r \in Removal /\ r.stage = "batch"
        /\ StageOf(Operator, r) /\ LibraryType /\ r.op = "purge"
    BY <2>1, RemovalFacts DEF StageOf, Removals
  <2>3. PICK s \in r.scores, batch \in SUBSET Partsets :
          /\ Cardinality(batch) = BatchSize \/ (batch = Of(s) /\ Cardinality(batch) < BatchSize)
          /\ IF batch = {} THEN To(Operator, "score") /\ UNCHANGED <<rows, excused>>
                           ELSE Without(batch, Operator) /\ UNCHANGED req
    BY <1>1 DEF PurgeBatch
  <2>4. CASE batch # {}
    <3>1. Without(batch, Operator) /\ req' = [req EXCEPT ![Operator] = r]
      BY <2>2, <2>3, <2>4 DEF LibraryType
    <3> QED BY <2>1, <2>2, <3>1, RowsGo
  <2>5. CASE batch = {}
    <3> DEFINE new == [r EXCEPT !.stage = "score"]
    <3>1. req' = [req EXCEPT ![Operator] = new] /\ UNCHANGED <<row, excused>> /\ UNCHANGED rows
      BY <2>3, <2>5 DEF To, rows
    <3>2. /\ new \in Removal /\ new.op = r.op /\ new.partset = r.partset /\ new.stage = "score"
          /\ new.scores = r.scores /\ new.rest = r.rest
      BY <2>2 DEF Removal
    <3> HIDE DEF new
    <3>3. Of(s) = {} /\ r.scores = {s}
      <4>1. Cardinality({}) = 0
        BY FS_EmptySet
      <4>2. Of(s) = {}
        BY <2>3, <2>5, <4>1, LibraryAssumption
      <4> QED BY <2>2, <4>2 DEF StageOf
    <3>4. /\ StageOf(Operator, new) /\ \A q \in Partsets : Names(new, q) => Names(r, q)
      BY <2>2, <3>2 DEF StageOf, Names, Removals
    <3>5. ScoreInv'
      <4>1. \A x \in new.scores : Of(x) = {}
        BY <3>2, <3>3
      <4> QED BY <2>1, <2>2, <3>1, <3>2, <4>1, Founds
    <3>6. faults' \in Nat /\ faults <= faults' /\ (\A q \in Partsets : ~Removing(Operator, q))
          /\ cached' \subseteq cached
          /\ score' \in [Scores -> [row : BOOLEAN, originals : BOOLEAN, pdf : BOOLEAN, cached : BOOLEAN]]
      BY <2>1, <2>2 DEF LibraryType, Removing, At
    <3> QED BY <2>1, <2>2, <3>1, <3>2, <3>4, <3>5, <3>6, GoesOn
  <2> QED BY <2>4, <2>5
<1>2. CASE PurgeScore
  <2> DEFINE new == [r EXCEPT !.stage = "files"]
  <2>1. /\ At(Operator, "score") /\ req' = [req EXCEPT ![Operator] = new]
        /\ score' = [s \in Scores |-> IF s \in r.scores THEN Unrecorded(s) ELSE score[s]]
        /\ UNCHANGED <<row, cached, jobs, faults, keys, excused>> /\ UNCHANGED rows
    BY <1>2 DEF PurgeScore, To, rows
  <2>2. /\ r # None /\ r.op \in Removals /\ r \in Removal /\ r.stage = "score"
        /\ StageOf(Operator, r) /\ LibraryType
    BY <2>1, RemovalFacts
  <2>3. /\ new \in Removal /\ new.op = r.op /\ new.partset = r.partset /\ new.stage = "files"
        /\ new.scores = r.scores /\ new.rest = r.rest
    BY <2>2 DEF Removal
  <2> HIDE DEF new
  <2>4. \A s \in Scores : /\ Unrecorded(s) \in [row : BOOLEAN, originals : BOOLEAN, pdf : BOOLEAN, cached : BOOLEAN]
                          /\ ~Unrecorded(s).row
    BY <2>2 DEF LibraryType, Unrecorded
  <2>5. /\ score' \in [Scores -> [row : BOOLEAN, originals : BOOLEAN, pdf : BOOLEAN, cached : BOOLEAN]]
        /\ \A s \in Scores : IF s \in r.scores THEN ~score'[s].row ELSE score'[s] = score[s]
    BY <2>1, <2>2, <2>4 DEF LibraryType
  <2>6. /\ faults' \in Nat /\ faults <= faults' /\ (\A q \in Partsets : ~Removing(Operator, q))
        /\ cached' \subseteq cached
    BY <2>1, <2>2 DEF LibraryType, Removing, At
  <2>7. /\ StageOf(Operator, new) /\ \A q \in Partsets : Names(new, q) => Names(r, q)
    BY <2>2, <2>3 DEF StageOf, Names, Removals
  <2>8. ScoreInv'
    <3>1. new # None
      BY <2>3, LibraryAssumption
    <3> QED BY <2>1, <2>2, <2>3, <2>5, <2>6, <3>1, ScoresGo
  <2> QED BY <2>1, <2>2, <2>3, <2>5, <2>6, <2>7, <2>8, GoesOn
<1>3. CASE PurgeFiles
  <2>1. /\ At(Operator, "files") /\ req' = [req EXCEPT ![Operator] = None]
        /\ UNCHANGED <<row, cached, jobs, keys, excused>> /\ UNCHANGED rows
    BY <1>3 DEF PurgeFiles, rows
  <2>2. /\ r # None /\ r.op \in Removals /\ r.stage = "files" /\ LibraryType
    BY <2>1, RemovalFacts
  <2>3. PICK pdf \in BOOLEAN :
          /\ faults' = IF pdf THEN faults + 1 ELSE faults
          /\ score' = [s \in Scores |-> IF s \in r.scores
                         THEN [score[s] EXCEPT !.cached = FALSE, !.pdf = @ /\ pdf] ELSE score[s]]
    BY <1>3 DEF PurgeFiles
  <2>4. ASSUME NEW s \in Scores
        PROVE  /\ score'[s] \in [row : BOOLEAN, originals : BOOLEAN, pdf : BOOLEAN, cached : BOOLEAN]
               /\ score'[s].row = score[s].row /\ (s \notin r.scores => score'[s] = score[s])
    <3> DEFINE o == score[s].pdf /\ pdf
    <3>1. o \in BOOLEAN /\ (s \in r.scores => score'[s] = [score[s] EXCEPT !.cached = FALSE, !.pdf = o])
          /\ (s \notin r.scores => score'[s] = score[s])
      BY <2>3
    <3> HIDE DEF o
    <3> QED BY <2>2, <3>1 DEF LibraryType
  <2>5. score' \in [Scores -> [row : BOOLEAN, originals : BOOLEAN, pdf : BOOLEAN, cached : BOOLEAN]]
    BY <2>3, <2>4
  <2>8. faults' \in {faults, faults + 1}
    BY <2>3
  <2>6. /\ faults' \in Nat /\ faults <= faults' /\ (\A q \in Partsets : ~Removing(Operator, q))
        /\ cached' \subseteq cached
    BY <2>1, <2>2, <2>8 DEF LibraryType, Removing, At
  <2>7. ScoreInv'
    <3>1. \A s \in Scores : s \in r.scores => ~score'[s].row
      BY <2>1, <2>4 DEF LibInv, ScoreInv
    <3> QED BY <2>1, <2>2, <2>4, <2>6, <3>1, ScoresGo
  <2> QED BY <2>1, <2>2, <2>5, <2>6, <2>7, GoesOn
<1> QED BY <1>1, <1>2, <1>3

LEMMA ToolAborts ==
  ASSUME LibInv, Abort
  PROVE  LibInv'
<1> DEFINE r == req[Operator]
<1> Operator \in Everyone
  BY DEF Everyone
<1>1. /\ r # None /\ req' = [req EXCEPT ![Operator] = None] /\ faults' = faults + 1
      /\ UNCHANGED <<row, cached, jobs, score, keys, excused>> /\ UNCHANGED rows
  BY DEF Abort, rows, Free
<1>2. LibraryType /\ r \in Request /\ StageOf(Operator, r) /\ faults \in Nat
  BY <1>1 DEF LibInv, LibraryType, StageInv, Free
<1>3. r.op \in Removals /\ r \in Removal
  BY <1>2 DEF StageOf, Removals, Request
<1>4. /\ faults' \in Nat /\ faults <= faults' /\ faults' > 0 /\ cached' \subseteq cached
      /\ score' \in [Scores -> [row : BOOLEAN, originals : BOOLEAN, pdf : BOOLEAN, cached : BOOLEAN]]
  BY <1>1, <1>2 DEF LibraryType
<1>5. ScoreInv'
  <2>1. CASE r.stage \in {"wipe", "score", "files"}
    <3>1. (\A s \in Scores : s \notin r.scores => score'[s] = score[s])
          /\ \A s \in Scores : ~score[s].row => ~score'[s].row
      BY <1>1
    <3> QED BY <1>1, <1>4, <2>1, <3>1, ScoresGo
  <2>2. CASE r.stage \notin {"wipe", "score", "files"}
    BY <1>1, <1>4, <2>2, ScoresStay
  <2> QED BY <2>1, <2>2
<1> QED BY <1>1, <1>3, <1>4, <1>5, GoesOn

-----------------------------------------------------------------------------
LEMMA NextKeepsLib == LibInv /\ [Next]_vars => LibInv'
<1> SUFFICES ASSUME LibInv, [Next]_vars PROVE LibInv'
  OBVIOUS
<1>1. CASE UNCHANGED vars
  <2>1. UNCHANGED <<row, favorite, downloads, children, cached, jobs, score, req, faults, keys, excused>>
    BY <1>1 DEF vars
  <2>2. LibraryType' /\ StageInv' /\ UsedInv'
    BY <2>1, StageStays, UsedStays DEF LibInv, LibraryType, FavoriteType, Exists
  <2>3. CountInv' /\ ScoreInv'
    BY <2>1, CountStays, ScoreStays DEF LibInv, LibraryType, Exists, Doomed, At, Free
  <2>4. \A d \in Everyone, q \in Partsets : Removing(d, q)' <=> Removing(d, q)
    BY <2>1 DEF Removing, At, Free
  <2>5. GoneInv'
    BY <2>1, <2>4, GoneStays DEF LibInv, LibraryType, Exists
  <2> QED BY <2>2, <2>3, <2>5 DEF LibInv
<1>2. CASE Next
  BY <1>2, RequestsBegin, ToolsBegin, LightCommits, FavoriteRemoved, DownloadCommits, CreationCommits,
     JobsKeep, RowsDeleted, ObjectsDeleted, CachesInvalidated, ToolsGoOn, PurgesGoOn, ToolAborts
  DEF Next, Everyone
<1> QED BY <1>1, <1>2

\* However removals, tools, creations and commits of requests that read before them interleave,
\* a partset that is gone leaves no row behind, and once its deletion is over no preview and
\* no part PDF; of its page images the theorem says nothing: delete_partset leaves them.
THEOREM RemovalsAreComplete == Spec => []NothingLeft
<1>1. LibInv => NothingLeft
  <2> SUFFICES ASSUME LibInv, NEW p \in Partsets, ~Exists(p), <<p, "overlap">> \notin excused
               PROVE  /\ \A u \in Users : favorite[<<p, u>>] = "none"
                      /\ downloads[p] = 0
                      /\ p \notin children
                      /\ <<"derived", p>> \in cached => \/ <<p, "purged">> \in excused
                                                        \/ faults > 0
                                                        \/ \E c \in DOMAIN req : ~Free(c) /\ req[c].partset = p
    BY DEF NothingLeft
  <2>1. Left(p) /\ DOMAIN req = Everyone
    BY DEF LibInv, GoneInv, LibraryType
  <2>2. \A c \in Everyone : Removing(c, p) => ~Free(c) /\ req[c].partset = p
    BY DEF Removing, At
  <2> QED BY <2>1, <2>2 DEF Left
<1> QED BY InitLib, NextKeepsLib, <1>1, PTL DEF Spec

\* A tool that removes scores removes none that a partset uses, but for a partset committed
\* after the tool had looked.
THEOREM UsedScoresStay == Spec => []ScoreKept
<1>1. LibInv => ScoreKept
  <2> SUFFICES ASSUME LibInv, NEW p \in Partsets, Exists(p), <<p, "late">> \notin excused
               PROVE  score[row[p].score].row /\ (score[row[p].score].pdf \/ faults > 0)
    BY DEF ScoreKept
  <2> DEFINE s == row[p].score
             Failed == faults > 0
  <2>1. s \in Scores
    BY DEF LibInv, LibraryType, Exists, Row
  <2>2. p \in Of(s)
    BY DEF Of
  <2>3. score[s].row /\ ~Doomed(s)
    BY <2>1, <2>2 DEF LibInv, ScoreInv
  <2>4. score[s].pdf \/ ~score[s].row \/ Doomed(s) \/ Failed
    BY <2>1 DEF LibInv, ScoreInv
  <2> HIDE DEF s, Failed
  <2>5. score[s].pdf \/ Failed
    BY <2>3, <2>4
  <2> QED BY <2>3, <2>5 DEF s, Failed
<1> QED BY InitLib, NextKeepsLib, <1>1, PTL DEF Spec

\* num_downloads never runs ahead of the downloads, and falls behind only where two downloads
\* of one partset overlapped.
THEOREM DownloadsAreCounted == Spec => []Counted
<1>1. LibInv => Counted
  BY DEF LibInv, CountInv
<1> QED BY InitLib, NextKeepsLib, <1>1, PTL DEF Spec

=============================================================================
