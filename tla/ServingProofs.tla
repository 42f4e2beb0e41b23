---------------------------- MODULE ServingProofs ----------------------------
(***************************************************************************)
(* Theorems about Serving, for any repositories, files, calls, builds and  *)
(* bounds.  A content of a file is the number of the commit that changed   *)
(* it, so that later contents are greater: the invariant bounds every      *)
(* content that is stored, or held by a call or a build between two reads, *)
(* by what the repository has had, and says which rows back a hash.        *)
(***************************************************************************)
EXTENDS Serving, FiniteSetTheorems, SequenceTheorems, TLAPS

-----------------------------------------------------------------------------
(* Lists, most recently used first *)

\* A part of a list.
LEMMA Part ==
  ASSUME NEW E, NEW s \in Seq(E), NEW m \in Nat, NEW n \in Nat,
         0 < m, m <= n + 1, n <= Len(s),
         NEW k, k = n - m + 1, NEW p, p = SubSeq(s, m, n)
  PROVE  p \in Seq(E) /\ Len(p) = k /\ \A j \in 1 .. k : p[j] = s[m + j - 1]
<1>1. \A j \in m .. n : s[j] \in E
  OBVIOUS
<1> QED BY <1>1, SubSeqProperties

\* A list without its i-th entry.
LEMMA RemovedAt ==
  ASSUME NEW E, NEW s \in Seq(E), NEW i \in 1 .. Len(s)
  PROVE  /\ RemoveAt(s, i) \in Seq(E)
         /\ Len(RemoveAt(s, i)) = Len(s) - 1
         /\ \A j \in 1 .. Len(s) - 1 :
              RemoveAt(s, i)[j] = IF j < i THEN s[j] ELSE s[j + 1]
<1> DEFINE l == SubSeq(s, 1, i - 1)
           r == SubSeq(s, i + 1, Len(s))
<1>1. RemoveAt(s, i) = l \o r
  BY DEF RemoveAt
<1> HIDE DEF l, r
<1>2. l \in Seq(E) /\ Len(l) = i - 1 /\ \A j \in 1 .. i - 1 : l[j] = s[j]
  BY Part DEF l
<1>3. r \in Seq(E) /\ Len(r) = Len(s) - i /\ \A j \in 1 .. Len(s) - i : r[j] = s[i + j]
  BY Part DEF r
<1>4. l \o r \in Seq(E) /\ Len(l \o r) = Len(l) + Len(r)
  BY <1>2, <1>3, ConcatProperties
<1>5. ASSUME NEW j \in 1 .. Len(s) - 1
      PROVE  (l \o r)[j] = IF j < i THEN s[j] ELSE s[j + 1]
  <2>0. l \in Seq(E) /\ r \in Seq(E) /\ j \in 1 .. Len(l) + Len(r)
    BY <1>2, <1>3
  <2>1. (l \o r)[j] = IF j <= Len(l) THEN l[j] ELSE r[j - Len(l)]
    BY <2>0, ConcatProperties
  <2>2. CASE j < i
    <3>1. j \in 1 .. i - 1 /\ j <= i - 1
      BY <2>2
    <3> QED BY <1>2, <2>1, <2>2, <3>1
  <2>3. CASE ~(j < i)
    <3> DEFINE k == j - (i - 1)
    <3>1. Len(s) \in Nat /\ i \in Nat /\ j \in Nat
      OBVIOUS
    <3>2. k \in 1 .. Len(s) - i /\ i + k = j + 1 /\ ~(j <= i - 1)
      BY <2>3, <3>1
    <3> HIDE DEF k
    <3>3. (l \o r)[j] = r[k] /\ r[k] = s[i + k]
      BY <1>2, <1>3, <2>1, <3>2 DEF k
    <3> QED BY <2>3, <3>2, <3>3
  <2> QED BY <2>2, <2>3
<1> QED BY <1>1, <1>2, <1>3, <1>4, <1>5

\* A list without its last entry.
LEMMA FrontOf ==
  ASSUME NEW E, NEW s \in Seq(E), Len(s) > 0
  PROVE  /\ Front(s) \in Seq(E)
         /\ Len(Front(s)) = Len(s) - 1
         /\ \A j \in 1 .. Len(s) - 1 : Front(s)[j] = s[j]
         /\ Last(s) = s[Len(s)]
         /\ Last(s) \in E
<1>1. \E n \in Nat : Len(s) = n + 1
  <2>1. Len(s) \in Nat /\ Len(s) - 1 \in Nat /\ Len(s) = (Len(s) - 1) + 1
    OBVIOUS
  <2> QED BY <2>1
<1> PICK n \in Nat : Len(s) = n + 1
  BY <1>1
<1> DEFINE p == SubSeq(s, 1, n)
<1>2. Len(s) - 1 = n
  OBVIOUS
<1>3. Front(s) = p /\ Last(s) = s[Len(s)]
  BY <1>2 DEF Front, Last
<1> HIDE DEF p
<1>4. p \in Seq(E) /\ Len(p) = n /\ \A j \in 1 .. n : p[j] = s[j]
  BY Part DEF p
<1> QED BY <1>2, <1>3, <1>4

\* A list with an entry pushed to its front.
LEMMA Pushed ==
  ASSUME NEW E, NEW s \in Seq(E), NEW e \in E
  PROVE  /\ <<e>> \o s \in Seq(E)
         /\ Len(<<e>> \o s) = Len(s) + 1
         /\ (<<e>> \o s)[1] = e
         /\ \A j \in 1 .. Len(s) : (<<e>> \o s)[j + 1] = s[j]
OBVIOUS

-----------------------------------------------------------------------------
\* The data

Row == [v : Nat, by : {"deep", "tree", "abs"}]

Db == [repo : Repos, rows : [Files -> SUBSET Row], hash : [Files -> Nat],
       gone : SUBSET Files, sha : Nat]

Conn == [repo : Repos, db : Nat, seen : Nat]

Check == [at : {"cached"}, fresh : BOOLEAN, stale : SUBSET Files,
          asof : [Files -> Nat], db : Nat]

Call == [at : {"open", "stat", "use", "compare", "render", "refresh", "extract",
               "store", "queue"},
         kind : {"list", "search", "describe", "packages", "request"},
         repo : Repos, todo : SUBSET Repos, db : Nat, lost : BOOLEAN, base : Nat,
         asof : [Files -> Nat], hash : [Files -> Nat], stale : SUBSET Files,
         left : SUBSET Files, file : Files \cup {None}, text : Nat, found : Nat,
         warned : BOOLEAN]

Build == [at : {"start", "label", "diff", "read"},
          kind : {"run", "cli", "full", "incremental"},
          repo : Repos, from : Nat, sha : Nat, left : SUBSET Files,
          unhashed : SUBSET Files, rows : [Files -> SUBSET Row],
          hash : [Files -> Nat], skew : SUBSET Files]

Typed ==
  /\ commits \in [Repos -> Seq([Files -> Nat])]
  /\ dbs \in Seq(Db)
  /\ path \in [Repos -> 0 .. Len(dbs)]
  /\ clock \in Nat
  /\ written \in Seq(1 .. clock) /\ Len(written) = Len(dbs)
  /\ pool \in Seq(Conn)
  /\ index \subseteq Repos /\ recent \subseteq Files /\ flag \subseteq Repos
  /\ checks \in [Repos -> {Idle} \cup Check]
  /\ call \in [Calls -> {Idle} \cup Call]
  /\ build \in [Builds -> {Idle} \cup Build]
  /\ calls \in 0 .. MaxCalls /\ builds \in 0 .. MaxBuilds

-----------------------------------------------------------------------------
\* The inductive invariant

\* A file's later contents are greater, unless it is absent.
CommitsGrow ==
  \A r \in Repos :
    /\ commits[r] # <<>>
    /\ \A k \in DOMAIN commits[r], f \in Files :
         /\ commits[r][k][f] <= k
         /\ \A j \in 1 .. k : \/ commits[r][k][f] = None
                              \/ commits[r][j][f] <= commits[r][k][f]

\* The repository has had this content of the file, or a later one.
Had(r, f, v) == \E j \in DOMAIN commits[r] : v <= commits[r][j][f]

\* A content at least as new as the one committed under a label.
Covers(r, sha, f, v) == sha # None => commits[r][sha][f] <= v

\* The claims of a database for the file are those of this content or of a later one.
Backed(i, f, v) ==
  \/ v = None
  \/ \E row \in dbs[i].rows[f] : row.v >= v
  \/ <<i, f>> \in skewed

\* A database and the repository it is of.
Of(i, r) == i \in DOMAIN dbs /\ dbs[i].repo = r

DbSound(i) ==
  LET db == dbs[i]
  IN /\ db.sha <= Len(commits[db.repo])
     /\ \A f \in Files : /\ Backed(i, f, db.hash[f])
                         /\ \A row \in db.rows[f] : /\ Had(db.repo, f, row.v)
                                                    /\ Covers(db.repo, db.sha, f, row.v)

CheckSound(r, x) ==
  x.at = "cached" =>
    /\ Of(x.db, r)
    /\ \A f \in Files : /\ Had(r, f, x.asof[f])
                        /\ f \notin x.stale => Backed(x.db, f, x.asof[f])

\* What a call took out of a file between the read for the hash and the transaction.
Extracted(x) ==
  /\ x.text <= x.found /\ x.asof[x.file] <= x.found
  /\ Had(x.repo, x.file, x.found)
  /\ \A row \in dbs[x.db].rows[x.file] : row.by = "deep" => row.v <= x.found
  /\ Covers(x.repo, dbs[x.db].sha, x.file, x.found)

CallSound(x) ==
  x.at # "idle" =>
    /\ x.at # "queue" => Exists(x.repo)
    /\ \A r \in x.todo : Exists(r)
    /\ x.at \notin {"open", "queue"} => Of(x.db, x.repo)
    /\ x.at \in {"open", "stat", "use"} =>
         x.asof = NoHash /\ x.stale = {} /\ x.left = {}
    /\ \A f \in Files : Had(x.repo, f, x.asof[f])
    /\ x.at = "compare" =>
         /\ x.base = x.db
         /\ \A f \in Files :
              /\ Backed(x.db, f, x.hash[f])
              /\ f \notin x.left \cup x.stale => Backed(x.db, f, x.asof[f])
    /\ x.at \in {"refresh", "extract", "store", "render"} /\ x.base = x.db /\ ~x.warned =>
         \A f \in Files \ x.left : Backed(x.db, f, x.asof[f])
    /\ x.at = "render" => x.left = {}
    /\ x.at \in {"extract", "store"} =>
         x.file \in x.left /\ Had(x.repo, x.file, x.text)
    /\ x.at = "store" => Extracted(x)

BuildSound(x) ==
  x.at # "idle" =>
    /\ x.sha <= Len(commits[x.repo])
    /\ x.at = "diff" => x.from \in DOMAIN commits[x.repo]
    /\ x.kind = "incremental" /\ x.at = "read" => x.sha # None
    /\ x.kind = "cli" => x.at = "read" /\ x.sha = None
    /\ x.at = "label" => x.kind = "full"
    /\ x.at # "read" => x.rows = NoRows /\ x.hash = NoHash /\ x.unhashed = {}
    /\ x.left \cap x.unhashed = {}
    /\ \A f \in Files :
         /\ f \in x.left => x.hash[f] = None
         /\ \/ x.hash[f] = None
            \/ \E row \in x.rows[f] : row.v = x.hash[f]
            \/ f \in x.skew
         /\ \A row \in x.rows[f] : /\ Had(x.repo, f, row.v)
                                   /\ Covers(x.repo, x.sha, f, row.v)

PoolSound == \A i \in 1 .. Len(pool) : Of(pool[i].db, pool[i].repo)

Located ==
  /\ \A r \in Repos : Exists(r) => dbs[path[r]].repo = r
  /\ \A r \in index : Exists(r)

Sound ==
  /\ CommitsGrow
  /\ \A i \in DOMAIN dbs : DbSound(i)
  /\ \A r \in Repos : CheckSound(r, checks[r])
  /\ \A c \in Calls : CallSound(call[c])
  /\ \A b \in Builds : BuildSound(build[b])
  /\ PoolSound
  /\ Located

-----------------------------------------------------------------------------
\* What a step may do to commits and databases

\* Commits are only added; a database keeps its label, and the rows that back a
\* content are replaced by rows that do.
Grows ==
  /\ \A r \in Repos : Exists(r) => Exists(r)'
  /\ \A r \in Repos : \A j \in DOMAIN commits[r] :
       j \in DOMAIN commits'[r] /\ commits'[r][j] = commits[r][j]
  /\ \A i \in DOMAIN dbs :
       /\ i \in DOMAIN dbs'
       /\ dbs'[i].repo = dbs[i].repo /\ dbs'[i].sha = dbs[i].sha
       /\ \A f \in Files :
            /\ \A v \in Nat : Backed(i, f, v) => Backed(i, f, v)'
            /\ \A row \in dbs'[i].rows[f] : row.by = "deep" => row \in dbs[i].rows[f]

LEMMA StoreSame ==
  ASSUME UNCHANGED <<commits, dbs, path, skewed>>
  PROVE  Grows
BY DEF Grows, Exists, Backed

LEMMA CommitFields ==
  ASSUME Typed, CommitsGrow, NEW r \in Repos
  PROVE  /\ commits[r] \in Seq([Files -> Nat]) /\ Len(commits[r]) \in Nat \ {0}
         /\ DOMAIN commits[r] = 1 .. Len(commits[r])
         /\ Len(commits[r]) \in DOMAIN commits[r]
         /\ \A j \in DOMAIN commits[r] : commits[r][j] \in [Files -> Nat]
         /\ Latest(r) \in [Files -> Nat]
<1>1. commits[r] \in Seq([Files -> Nat]) /\ commits[r] # <<>>
  BY DEF Typed, CommitsGrow
<1>2. Len(commits[r]) \in Nat \ {0} /\ DOMAIN commits[r] = 1 .. Len(commits[r])
  BY <1>1
<1>3. \A j \in DOMAIN commits[r] : commits[r][j] \in [Files -> Nat]
  BY <1>1, <1>2
<1> QED BY <1>1, <1>2, <1>3 DEF Latest

LEMMA DbFields ==
  ASSUME Typed, NEW i \in DOMAIN dbs
  PROVE  dbs[i] \in Db
BY DEF Typed

LEMMA HadKept ==
  ASSUME Grows, NEW r \in Repos, NEW f \in Files, NEW v, Had(r, f, v)
  PROVE  Had(r, f, v)'
BY DEF Grows, Had

LEMMA CoversKept ==
  ASSUME Typed, CommitsGrow, Grows, NEW r \in Repos, NEW f \in Files, NEW v,
         NEW sha \in Nat, sha <= Len(commits[r]), Covers(r, sha, f, v)
  PROVE  Covers(r, sha, f, v)'
<1>1. sha # None => sha \in DOMAIN commits[r]
  BY CommitFields DEF None
<1> QED BY <1>1 DEF Grows, Covers

\* What was had is no later than what the file now is, if it is there.
LEMMA HadBefore ==
  ASSUME Typed, CommitsGrow, NEW r \in Repos, NEW f \in Files, NEW v \in Nat,
         Had(r, f, v), Latest(r)[f] # None
  PROVE  v <= Latest(r)[f]
<1>1. PICK j \in DOMAIN commits[r] : v <= commits[r][j][f]
  BY DEF Had
<1>2. j \in 1 .. Len(commits[r]) /\ commits[r][j][f] \in Nat /\ Latest(r)[f] \in Nat
  BY <1>1, CommitFields
<1>3. commits[r][j][f] <= Latest(r)[f]
  BY <1>2, CommitFields DEF CommitsGrow, Latest
<1> QED BY <1>1, <1>2, <1>3

LEMMA HadLatest ==
  ASSUME Typed, CommitsGrow, NEW r \in Repos, NEW f \in Files
  PROVE  Had(r, f, Latest(r)[f]) /\ Had(r, f, None)
<1>1. Len(commits[r]) \in DOMAIN commits[r] /\ Latest(r)[f] \in Nat
  BY CommitFields
<1> QED BY <1>1 DEF Had, Latest, None

\* A label that was given covers what is read later.
LEMMA CoversLatest ==
  ASSUME Typed, CommitsGrow, NEW r \in Repos, NEW f \in Files,
         NEW sha \in Nat, sha <= Len(commits[r]), Latest(r)[f] # None
  PROVE  Covers(r, sha, f, Latest(r)[f])
<1> SUFFICES ASSUME sha # None
             PROVE  commits[r][sha][f] <= Latest(r)[f]
  BY DEF Covers
<1>1. sha \in 1 .. Len(commits[r])
  BY CommitFields DEF None
<1> QED BY <1>1, CommitFields DEF CommitsGrow, Latest

LEMMA CallKept ==
  ASSUME Typed, Sound, Grows, NEW x \in {Idle} \cup Call, CallSound(x)
  PROVE  CallSound(x)'
<1> SUFFICES ASSUME x.at # "idle"
             PROVE  CallSound(x)'
  BY DEF CallSound
<1>0. x \in Call
  BY DEF Idle
<1>1. /\ x.repo \in Repos /\ x.todo \subseteq Repos /\ x.asof \in [Files -> Nat]
      /\ x.hash \in [Files -> Nat] /\ x.left \subseteq Files /\ x.text \in Nat
      /\ x.found \in Nat /\ x.db \in Nat
  BY <1>0 DEF Call
<1>2. /\ x.at # "queue" => Exists(x.repo)'
      /\ \A r \in x.todo : Exists(r)'
  BY <1>1 DEF CallSound, Grows
<1>3. x.at \notin {"open", "queue"} => Of(x.db, x.repo) /\ Of(x.db, x.repo)'
  BY DEF CallSound, Grows, Of
<1>4. \A f \in Files : Had(x.repo, f, x.asof[f])'
  BY <1>1, HadKept DEF CallSound
<1>5. x.at = "compare" =>
        /\ x.base = x.db
        /\ \A f \in Files :
             /\ Backed(x.db, f, x.hash[f])'
             /\ f \notin x.left \cup x.stale => Backed(x.db, f, x.asof[f])'
  BY <1>1, <1>3 DEF CallSound, Grows, Of
<1>6. x.at \in {"refresh", "extract", "store", "render"} /\ x.base = x.db /\ ~x.warned =>
         \A f \in Files \ x.left : Backed(x.db, f, x.asof[f])'
  BY <1>1, <1>3 DEF CallSound, Grows, Of
<1>7. x.at \in {"extract", "store"} =>
         x.file \in x.left /\ Had(x.repo, x.file, x.text)'
  BY <1>1, HadKept DEF CallSound
<1>8. ASSUME x.at = "store"
      PROVE  Extracted(x)'
  <2>1. Extracted(x) /\ Of(x.db, x.repo) /\ x.file \in Files
    BY <1>1, <1>8 DEF CallSound
  <2>2. dbs[x.db].sha \in Nat /\ dbs[x.db].sha <= Len(commits[x.repo])
    BY <2>1, DbFields DEF Sound, DbSound, Of, Db
  <2>3. Covers(x.repo, dbs[x.db].sha, x.file, x.found)'
    <3> DEFINE sha == dbs[x.db].sha
    <3>1. dbs'[x.db].sha = sha
      BY <2>1 DEF Grows, Of
    <3>2. \A s : s = sha => Covers(x.repo, s, x.file, x.found)'
      BY <1>1, <2>1, <2>2, CoversKept DEF Extracted, Sound
    <3> QED BY <3>1, <3>2 DEF Covers
  <2>4. Had(x.repo, x.file, x.found)'
    BY <1>1, <2>1, HadKept DEF Extracted
  <2>5. \A row \in dbs'[x.db].rows[x.file] : row.by = "deep" => row.v <= x.found
    BY <2>1 DEF Grows, Of, Extracted
  <2> QED BY <2>1, <2>3, <2>4, <2>5 DEF Extracted
<1> QED BY <1>2, <1>3, <1>4, <1>5, <1>6, <1>7, <1>8 DEF CallSound

LEMMA CheckKept ==
  ASSUME Grows, NEW r \in Repos, NEW x \in {Idle} \cup Check, CheckSound(r, x)
  PROVE  CheckSound(r, x)'
<1> SUFFICES ASSUME x.at = "cached"
             PROVE  CheckSound(r, x)'
  BY DEF CheckSound
<1>1. x.asof \in [Files -> Nat]
  BY DEF Check, Idle
<1>2. Of(x.db, r) /\ Of(x.db, r)'
  BY DEF CheckSound, Grows, Of
<1>3. \A f \in Files : Had(r, f, x.asof[f])'
  BY HadKept DEF CheckSound
<1>4. \A f \in Files : f \notin x.stale => Backed(x.db, f, x.asof[f])'
  BY <1>1, <1>2 DEF CheckSound, Grows, Of
<1> QED BY <1>2, <1>3, <1>4 DEF CheckSound

LEMMA BuildKept ==
  ASSUME Typed, Sound, Grows, commits' \in [Repos -> Seq([Files -> Nat])],
         NEW x \in {Idle} \cup Build, BuildSound(x)
  PROVE  BuildSound(x)'
<1> SUFFICES ASSUME x.at # "idle"
             PROVE  BuildSound(x)'
  BY DEF BuildSound
<1>1. x.repo \in Repos /\ x.sha \in Nat /\ x.rows \in [Files -> SUBSET Row]
  BY DEF Build, Idle
<1>2. x.sha <= Len(commits[x.repo]) /\ CommitsGrow
  BY DEF BuildSound, Sound
<1>3. Len(commits[x.repo]) <= Len(commits'[x.repo])
  <2>1. Len(commits[x.repo]) \in DOMAIN commits'[x.repo]
    BY <1>1, <1>2, CommitFields DEF Grows
  <2> QED BY <1>1, <2>1
<1>4. x.sha <= Len(commits'[x.repo])
  BY <1>1, <1>2, <1>3, CommitFields
<1>5. x.at = "diff" => x.from \in DOMAIN commits'[x.repo]
  BY <1>1 DEF BuildSound, Grows
<1>6. \A f \in Files : \A row \in x.rows[f] :
        Had(x.repo, f, row.v)' /\ Covers(x.repo, x.sha, f, row.v)'
  BY <1>1, <1>2, HadKept, CoversKept DEF BuildSound
<1> QED BY <1>4, <1>5, <1>6 DEF BuildSound

\* A database whose rows a step leaves.
LEMMA DbKept ==
  ASSUME Typed, Sound, Grows, commits' \in [Repos -> Seq([Files -> Nat])],
         NEW i \in DOMAIN dbs,
         dbs'[i].rows = dbs[i].rows, dbs'[i].hash = dbs[i].hash
  PROVE  DbSound(i)'
<1>1. /\ dbs[i].repo \in Repos /\ dbs[i].sha \in Nat /\ dbs[i].hash \in [Files -> Nat]
      /\ dbs[i].rows \in [Files -> SUBSET Row] /\ DbSound(i)
  BY DbFields DEF Sound, Db
<1>2. dbs[i].sha <= Len(commits[dbs[i].repo]) /\ CommitsGrow
  BY <1>1 DEF DbSound, Sound
<1>3. Len(commits[dbs[i].repo]) <= Len(commits'[dbs[i].repo])
  <2>1. Len(commits[dbs[i].repo]) \in DOMAIN commits'[dbs[i].repo]
    BY <1>1, <1>2, CommitFields DEF Grows
  <2> QED BY <1>1, <2>1
<1>4. dbs'[i].repo = dbs[i].repo /\ dbs'[i].sha = dbs[i].sha
  BY DEF Grows
<1>5. dbs'[i].sha <= Len(commits'[dbs'[i].repo])
  BY <1>1, <1>2, <1>3, <1>4, CommitFields
<1>6. \A f \in Files : Backed(i, f, dbs[i].hash[f])'
  BY <1>1 DEF DbSound, Grows
<1>7. \A r, s : r = dbs[i].repo /\ s = dbs[i].sha =>
        \A f \in Files : \A row \in dbs[i].rows[f] :
          Had(r, f, row.v)' /\ Covers(r, s, f, row.v)'
  BY <1>1, <1>2, HadKept, CoversKept DEF DbSound
<1>8. \A f \in Files : \A row \in dbs'[i].rows[f] :
        Had(dbs[i].repo, f, row.v)' /\ Covers(dbs[i].repo, dbs[i].sha, f, row.v)'
  BY <1>4, <1>7 DEF Had, Covers
<1> QED BY <1>4, <1>5, <1>6, <1>8 DEF DbSound, Backed

-----------------------------------------------------------------------------
\* Steps of a call

\* A step that leaves commits, databases and builds.
LEMMA QuietKept ==
  ASSUME Typed, Sound, UNCHANGED <<commits, store, index, checks, build, skewed>>,
         pool' \in Seq(Conn), PoolSound', recent' \subseteq Files, flag' \subseteq Repos,
         calls' \in 0 .. MaxCalls, builds' \in 0 .. MaxBuilds,
         call' \in [Calls -> {Idle} \cup Call],
         \A d \in Calls : CallSound(call[d])'
  PROVE  Typed' /\ Sound'
<1>1. Grows
  BY StoreSame DEF store
<1>2. Typed'
  BY DEF Typed, store
<1>3. \A i \in DOMAIN dbs' : DbSound(i)'
  BY <1>1, DbKept DEF store, Typed
<1>4. \A r \in Repos : CheckSound(r, checks[r])'
  <2> TAKE r \in Repos
  <2>1. CheckSound(r, checks[r])'
    BY <1>1, CheckKept DEF Typed, Sound, CheckSound
  <2> QED BY <2>1
<1>5. \A b \in Builds : BuildSound(build[b])'
  BY <1>1, BuildKept DEF Typed, Sound
<1>6. CommitsGrow' /\ Located'
  BY DEF Sound, CommitsGrow, Located, Exists, store
<1> QED BY <1>2, <1>3, <1>4, <1>5, <1>6 DEF Sound

\* One call moves on.
LEMMA CallMoves ==
  ASSUME Typed, Sound, Grows, NEW c \in Calls, NEW new \in {Idle} \cup Call,
         CallSound(new)', call' = [call EXCEPT ![c] = new]
  PROVE  /\ call' \in [Calls -> {Idle} \cup Call]
         /\ \A d \in Calls : CallSound(call[d])'
<1>1. call \in [Calls -> {Idle} \cup Call]
  BY DEF Typed
<1>2. call' \in [Calls -> {Idle} \cup Call]
  BY <1>1
<1>3. ASSUME NEW d \in Calls
      PROVE  CallSound(call[d])'
  <2>1. \A x : x = call'[d] => CallSound(x)'
    <3>1. CASE d = c
      BY <1>1, <3>1
    <3>2. CASE d # c
      <4>1. call'[d] = call[d] /\ CallSound(call[d]) /\ call[d] \in {Idle} \cup Call
        BY <1>1, <3>2 DEF Sound
      <4> QED BY <4>1, CallKept
    <3> QED BY <3>1, <3>2
  <2> QED BY <2>1
<1> QED BY <1>2, <1>3

LEMMA CallTurn ==
  ASSUME Typed, Sound, NEW c \in Calls, NEW new \in {Idle} \cup Call, CallSound(new),
         call' = [call EXCEPT ![c] = new],
         UNCHANGED <<commits, store, index, checks, build, skewed>>,
         pool' \in Seq(Conn), PoolSound', recent' \subseteq Files, flag' \subseteq Repos,
         calls' \in 0 .. MaxCalls, builds' \in 0 .. MaxBuilds
  PROVE  Typed' /\ Sound'
<1>1. Grows
  BY StoreSame DEF store
<1>2. CallSound(new)'
  BY <1>1, CallKept
<1> QED BY <1>1, <1>2, CallMoves, QuietKept

LEMMA IdleSound == CallSound(Idle) /\ Idle \in {Idle} \cup Call /\ BuildSound(Idle)
BY DEF Idle, CallSound, BuildSound

LEMMA CallFields ==
  ASSUME Typed, Sound, NEW c \in Calls, call[c].at # "idle"
  PROVE  /\ call[c] \in Call /\ CallSound(call[c]) /\ call[c].repo \in Repos
         /\ call[c].at \notin {"open", "queue"} =>
              /\ Of(call[c].db, call[c].repo) /\ call[c].db \in DOMAIN dbs
              /\ dbs[call[c].db] \in Db /\ dbs[call[c].db].repo = call[c].repo
<1>1. call[c] \in Call /\ CallSound(call[c])
  BY DEF Typed, Sound, Idle
<1>2. call[c].repo \in Repos
  BY <1>1 DEF Call
<1> QED BY <1>1, <1>2, DbFields DEF CallSound, Of

\* Once it is checked, what is stale is to be refreshed, and the rest is backed.
LEMMA CheckedSound ==
  ASSUME Typed, Sound, NEW x \in Call, x.at \in {"use", "compare"},
         Exists(x.repo), Of(x.db, x.repo), \A r \in x.todo : Exists(r),
         \A f \in Files : Had(x.repo, f, x.asof[f]),
         x.base = x.db => \A f \in Files \ x.stale : Backed(x.db, f, x.asof[f])
  PROVE  Checked(x) \in {Idle} \cup Call /\ CallSound(Checked(x))
<1> DEFINE at == IF x.stale = {} THEN "render" ELSE "refresh"
           y == [x EXCEPT !.at = at, !.left = x.stale, !.stale = {}, !.hash = NoHash]
<1>1. CASE x.kind = "packages"
  BY <1>1, IdleSound DEF Checked
<1>2. CASE x.kind # "packages"
  <2>1. Checked(x) = y
    BY <1>2 DEF Checked, Call
  <2>2. /\ y \in Call /\ y.at = at /\ y.left = x.stale /\ y.stale = {} /\ y.db = x.db
        /\ y.base = x.base /\ y.asof = x.asof /\ y.repo = x.repo /\ y.todo = x.todo
    BY DEF Call, NoHash, None
  <2> HIDE DEF y
  <2>3. CallSound(y)
    BY <2>2 DEF CallSound
  <2> QED BY <2>1, <2>2, <2>3
<1> QED BY <1>1, <1>2

\* On to the next stale file: the one that is left off is backed by then, or warned
\* about.
LEMMA AfterSound ==
  ASSUME Typed, Sound, Grows, NEW z \in Call, CallSound(z),
         z.at \in {"refresh", "extract", "store"},
         NEW f \in z.left, NEW x,
         \/ x = [z EXCEPT !.left = @ \ {f}, !.warned = TRUE]
         \/ /\ x = [z EXCEPT !.left = @ \ {f}]
            /\ z.base = z.db => Backed(z.db, f, z.asof[f])'
  PROVE  After(x) \in Call /\ CallSound(After(x))'
<1> DEFINE at == IF x.left = {} THEN "render" ELSE "refresh"
           y == After(x)
<1>1. CallSound(z)'
  BY CallKept
<1>2. /\ x \in Call /\ x.left = z.left \ {f}
      /\ \/ x.warned = TRUE
         \/ x.warned = z.warned /\ (z.base = z.db => Backed(z.db, f, z.asof[f])')
      /\ x.repo = z.repo /\ x.todo = z.todo /\ x.db = z.db
      /\ x.base = z.base /\ x.asof = z.asof
  <2>1. CASE x = [z EXCEPT !.left = @ \ {f}, !.warned = TRUE]
    <3>1. /\ x \in Call /\ x.left = z.left \ {f} /\ x.warned = TRUE
          /\ x.repo = z.repo /\ x.todo = z.todo /\ x.db = z.db
          /\ x.base = z.base /\ x.asof = z.asof
      BY <2>1 DEF Call
    <3> QED BY <3>1
  <2>2. CASE /\ x = [z EXCEPT !.left = @ \ {f}]
             /\ z.base = z.db => Backed(z.db, f, z.asof[f])'
    <3>1. /\ x \in Call /\ x.left = z.left \ {f} /\ x.warned = z.warned
          /\ x.repo = z.repo /\ x.todo = z.todo /\ x.db = z.db
          /\ x.base = z.base /\ x.asof = z.asof
      BY <2>2 DEF Call
    <3> QED BY <2>2, <3>1
  <2> QED BY <2>1, <2>2
<1>3. /\ y \in Call /\ y.at = at /\ y.left = x.left /\ y.warned = x.warned
      /\ y.repo = x.repo /\ y.todo = x.todo /\ y.db = x.db
      /\ y.base = x.base /\ y.asof = x.asof
  BY <1>2 DEF After, Call, None
<1> HIDE DEF y
<1>4. CallSound(y)'
  BY <1>1, <1>2, <1>3 DEF CallSound
<1> QED BY <1>3, <1>4 DEF y

\* The connections of the other repositories.
LEMMA OthersSound ==
  ASSUME Typed, Sound, NEW r
  PROVE  /\ Others(r) \in Seq(Conn)
         /\ \A i \in 1 .. Len(Others(r)) : Of(Others(r)[i].db, Others(r)[i].repo)
<1>1. pool \in Seq(Conn) /\ PoolSound
  BY DEF Typed, Sound
<1>2. CASE Entry(r) = {}
  BY <1>1, <1>2 DEF Others, PoolSound
<1>3. CASE Entry(r) # {}
  <2> DEFINE i == CHOOSE i \in Entry(r) : TRUE
  <2>1. i \in 1 .. Len(pool) /\ Others(r) = RemoveAt(pool, i)
    BY <1>3 DEF Others, Entry
  <2> HIDE DEF i
  <2>2. /\ RemoveAt(pool, i) \in Seq(Conn)
        /\ Len(RemoveAt(pool, i)) = Len(pool) - 1
        /\ \A j \in 1 .. Len(pool) - 1 :
             RemoveAt(pool, i)[j] = IF j < i THEN pool[j] ELSE pool[j + 1]
    BY <1>1, <2>1, RemovedAt
  <2>3. \A j \in 1 .. Len(pool) - 1 :
          \E k \in 1 .. Len(pool) : RemoveAt(pool, i)[j] = pool[k]
    BY <1>1, <2>1, <2>2
  <2> QED BY <1>1, <2>1, <2>2, <2>3 DEF PoolSound
<1> QED BY <1>2, <1>3

\* A connection put before some of them.
LEMMA PushedSound ==
  ASSUME NEW e \in Conn, Of(e.db, e.repo), NEW s \in Seq(Conn),
         \A i \in 1 .. Len(s) : Of(s[i].db, s[i].repo)
  PROVE  /\ <<e>> \o s \in Seq(Conn)
         /\ \A i \in 1 .. Len(<<e>> \o s) :
              Of((<<e>> \o s)[i].db, (<<e>> \o s)[i].repo)
<1>1. /\ <<e>> \o s \in Seq(Conn) /\ Len(<<e>> \o s) = Len(s) + 1
      /\ (<<e>> \o s)[1] = e
      /\ \A i \in 2 .. Len(s) + 1 : (<<e>> \o s)[i] = s[i - 1]
  BY Pushed
<1> QED BY <1>1

LEMMA OpenCachedStep ==
  ASSUME Typed, Sound, NEW c \in Calls, OpenCached(c)
  PROVE  Typed' /\ Sound'
<1>1. PICK i \in Entry(call[c].repo) :
        /\ pool' = <<pool[i]>> \o Others(call[c].repo)
        /\ call' = [call EXCEPT ![c].at = "use", ![c].db = pool[i].db,
                                ![c].lost = FALSE]
  BY DEF OpenCached
<1>2. /\ call[c].at = "open" /\ call[c] \in Call /\ CallSound(call[c])
      /\ i \in 1 .. Len(pool) /\ pool[i].repo = call[c].repo /\ pool[i] \in Conn
      /\ Of(pool[i].db, pool[i].repo)
  BY <1>1, CallFields DEF OpenCached, Entry, Typed, Sound, PoolSound
<1> DEFINE new == [call[c] EXCEPT !.at = "use", !.db = pool[i].db, !.lost = FALSE]
<1>3. call' = [call EXCEPT ![c] = new]
  BY <1>1, <1>2 DEF Typed
<1>4. /\ new \in Call /\ new.at = "use" /\ new.db = pool[i].db /\ new.repo = call[c].repo
      /\ new.todo = call[c].todo /\ new.asof = call[c].asof /\ new.stale = call[c].stale
      /\ new.left = call[c].left
  BY <1>2 DEF Call, Conn
<1> HIDE DEF new
<1>5. CallSound(new)
  BY <1>2, <1>4 DEF CallSound
<1>6. pool' \in Seq(Conn) /\ \A j \in 1 .. Len(pool') : Of(pool'[j].db, pool'[j].repo)
  BY <1>1, <1>2, OthersSound, PushedSound
<1>7. UNCHANGED <<commits, store, index, checks, build, skewed, recent, flag, calls, builds>>
  BY DEF OpenCached
<1>8. PoolSound'
  BY <1>6, <1>7 DEF PoolSound, Of, store
<1> QED BY <1>3, <1>4, <1>5, <1>6, <1>7, <1>8, CallTurn DEF Typed

\* Nothing about a call depends on whether its connection was closed.
LEMMA LostSound ==
  ASSUME NEW x \in Call, CallSound(x), NEW lost \in BOOLEAN
  PROVE  [x EXCEPT !.lost = lost] \in Call /\ CallSound([x EXCEPT !.lost = lost])
<1> DEFINE y == [x EXCEPT !.lost = lost]
<1>1. /\ y \in Call /\ y.at = x.at /\ y.kind = x.kind /\ y.repo = x.repo
      /\ y.todo = x.todo /\ y.db = x.db /\ y.base = x.base /\ y.asof = x.asof
      /\ y.hash = x.hash /\ y.stale = x.stale /\ y.left = x.left /\ y.file = x.file
      /\ y.text = x.text /\ y.found = x.found /\ y.warned = x.warned
  BY DEF Call
<1> HIDE DEF y
<1>2. CallSound(y)
  BY <1>1 DEF CallSound, Extracted
<1> QED BY <1>1, <1>2 DEF y

LEMMA OpenFileStep ==
  ASSUME Typed, Sound, NEW c \in Calls, OpenFile(c)
  PROVE  Typed' /\ Sound'
<1> DEFINE r == call[c].repo
           rest == Others(r)
           full == Len(rest) >= MaxOpen
           Lost(d) == \/ Entry(r) # {} /\ Uses(d, r)
                      \/ full /\ Uses(d, Last(rest).repo)
           new == [call[c] EXCEPT !.at = "stat", !.db = path[r], !.lost = FALSE]
<1>1. /\ call[c].at = "open" /\ call[c] \in Call /\ CallSound(call[c]) /\ r \in Repos
      /\ Exists(r)
  BY CallFields DEF OpenFile, CallSound
<1>2. path[r] \in DOMAIN dbs /\ path[r] \in Nat /\ Of(path[r], r)
  BY <1>1 DEF Typed, Sound, Located, Exists, Of, None
<1>3. /\ new \in Call /\ new.at = "stat" /\ new.db = path[r] /\ new.repo = r
      /\ new.todo = call[c].todo /\ new.asof = call[c].asof /\ new.stale = call[c].stale
      /\ new.left = call[c].left
  BY <1>1, <1>2 DEF Call
<1>4. \A d \in Calls : call'[d] = IF d = c THEN new
                                  ELSE IF Lost(d) THEN [call[d] EXCEPT !.lost = TRUE]
                                  ELSE call[d]
  BY DEF OpenFile
<1>5. ASSUME NEW d \in Calls, Lost(d)
      PROVE  call[d] \in Call /\ CallSound(call[d])
  BY <1>5, CallFields DEF Uses
<1>6. CallSound(new)
  BY <1>1, <1>2, <1>3 DEF CallSound
<1>7. UNCHANGED <<commits, store, index, checks, build, skewed, recent, flag, calls, builds>>
      /\ call' = [d \in Calls |-> call'[d]]
  BY DEF OpenFile
<1>8. Grows
  BY <1>7, StoreSame DEF store
<1> HIDE DEF new, Lost
<1>9. \A d \in Calls : call'[d] \in {Idle} \cup Call /\ CallSound(call[d])'
  <2> TAKE d \in Calls
  <2>1. \E x \in {Idle} \cup Call : call'[d] = x /\ CallSound(x)
    <3>1. CASE d = c
      BY <1>3, <1>4, <1>6, <3>1
    <3>2. CASE d # c /\ Lost(d)
      BY <1>4, <1>5, <3>2, LostSound
    <3>3. CASE d # c /\ ~Lost(d)
      BY <1>4, <3>3 DEF Typed, Sound
    <3> QED BY <3>1, <3>2, <3>3
  <2>2. PICK x \in {Idle} \cup Call : call'[d] = x /\ CallSound(x)
    BY <2>1
  <2>3. CallSound(x)'
    BY <1>8, <2>2, CallKept
  <2> QED BY <2>2, <2>3
<1>10. pool' \in Seq(Conn) /\ \A j \in 1 .. Len(pool') : Of(pool'[j].db, pool'[j].repo)
  <2>1. rest \in Seq(Conn) /\ \A i \in 1 .. Len(rest) : Of(rest[i].db, rest[i].repo)
    BY OthersSound
  <2>2. pool' = IF full THEN Front(rest) ELSE rest
    BY DEF OpenFile
  <2> HIDE DEF rest
  <2>3. CASE full
    <3>1. Len(rest) > 0
      BY <2>1, <2>3, ServingAssumption DEF ServingAssumption
    <3>2. /\ Front(rest) \in Seq(Conn) /\ Len(Front(rest)) = Len(rest) - 1
          /\ \A j \in 1 .. Len(rest) - 1 : Front(rest)[j] = rest[j]
      BY <2>1, <3>1, FrontOf
    <3>3. pool' = Front(rest) /\ Len(rest) \in Nat
      BY <2>1, <2>2, <2>3
    <3>4. \A j \in 1 .. Len(pool') : j \in 1 .. Len(rest) /\ pool'[j] = rest[j]
      BY <3>2, <3>3
    <3> QED BY <2>1, <3>2, <3>3, <3>4
  <2> QED BY <2>1, <2>2, <2>3
<1>11. PoolSound'
  BY <1>7, <1>10 DEF PoolSound, Of, store
<1>12. call' \in [Calls -> {Idle} \cup Call]
  BY <1>7, <1>9
<1> QED BY <1>7, <1>9, <1>10, <1>11, <1>12, QuietKept DEF Typed

LEMMA StatFileStep ==
  ASSUME Typed, Sound, NEW c \in Calls, StatFile(c)
  PROVE  Typed' /\ Sound'
<1> DEFINE r == call[c].repo
           e == [repo |-> r, db |-> call[c].db, seen |-> written[path[r]]]
           new == [call[c] EXCEPT !.at = "use"]
<1>1. /\ call[c].at = "stat" /\ call[c] \in Call /\ CallSound(call[c]) /\ r \in Repos
      /\ Exists(r) /\ Of(call[c].db, r)
  BY CallFields DEF StatFile, CallSound
<1>2. written[path[r]] \in Nat
  BY <1>1 DEF Typed, Exists, None
<1>3. e \in Conn /\ e.db = call[c].db /\ e.repo = r
  BY <1>1, <1>2 DEF Conn, Call
<1>4. pool' = <<e>> \o pool /\ call' = [call EXCEPT ![c] = new]
  BY <1>1 DEF StatFile, Typed
<1>5. /\ new \in Call /\ new.at = "use" /\ new.db = call[c].db /\ new.repo = r
      /\ new.todo = call[c].todo /\ new.asof = call[c].asof /\ new.stale = call[c].stale
      /\ new.left = call[c].left
  BY <1>1 DEF Call
<1>6. UNCHANGED <<commits, store, index, checks, build, skewed, recent, flag, calls, builds>>
  BY DEF StatFile
<1> HIDE DEF new, e
<1>7. CallSound(new)
  BY <1>1, <1>5 DEF CallSound
<1>8. pool' \in Seq(Conn) /\ \A j \in 1 .. Len(pool') : Of(pool'[j].db, pool'[j].repo)
  BY <1>1, <1>3, <1>4, PushedSound DEF Typed, Sound, PoolSound
<1>9. PoolSound'
  BY <1>6, <1>8 DEF PoolSound, Of, store
<1> QED BY <1>4, <1>5, <1>6, <1>7, <1>8, <1>9, CallTurn DEF Typed

LEMMA NewCallSound ==
  ASSUME Typed, Sound, NEW kind \in {"list", "search", "describe", "packages", "request"},
         NEW r \in Repos, NEW todo \in SUBSET Repos,
         NEW at \in {"open", "queue"}, at = "open" => Exists(r),
         \A q \in todo : Exists(q), NEW x,
         \/ x = NewCall(kind, r, todo) /\ at = "open"
         \/ x = [NewCall(kind, r, todo) EXCEPT !.at = at]
  PROVE  x \in Call /\ CallSound(x)
<1>1. /\ x \in Call /\ x.at = at /\ x.repo = r /\ x.todo = todo /\ x.asof = NoHash
      /\ x.stale = {} /\ x.left = {}
  <2>1. CASE x = NewCall(kind, r, todo) /\ at = "open"
    BY <2>1 DEF NewCall, Call, NoHash, None
  <2>2. CASE x = [NewCall(kind, r, todo) EXCEPT !.at = at]
    BY <2>2 DEF NewCall, Call, NoHash, None
  <2> QED BY <2>1, <2>2
<1>2. \A f \in Files : NoHash[f] = None /\ Had(r, f, None)
  BY HadLatest DEF NoHash, Sound
<1>3. CallSound(x)
  BY <1>1, <1>2 DEF CallSound
<1> QED BY <1>1, <1>3

\* A call begins, and nothing else happens.
LEMMA BeginsStep ==
  ASSUME Typed, Sound, NEW c \in Calls, NEW new \in Call, CallSound(new), Begins(c, new),
         UNCHANGED <<commits, store, server, flag, build, builds, skewed>>
  PROVE  Typed' /\ Sound'
<1>1. calls' \in 0 .. MaxCalls
  BY ServingAssumption DEF Begins, Typed, ServingAssumption
<1>2. PoolSound'
  BY DEF Sound, PoolSound, Of, store, server
<1> QED BY <1>1, <1>2, CallTurn DEF Typed, Begins, server

LEMMA TurnStep ==
  ASSUME Typed, Sound, NEW c \in Calls, NEW new \in {Idle} \cup Call, CallSound(new),
         call' = [call EXCEPT ![c] = new],
         UNCHANGED <<commits, store, server, flag, build, calls, builds, skewed>>
  PROVE  Typed' /\ Sound'
<1>1. PoolSound'
  BY DEF Sound, PoolSound, Of, store, server
<1> QED BY <1>1, CallTurn DEF Typed, server

LEMMA ListStep ==
  ASSUME Typed, Sound, NEW c \in Calls, ListRepos(c) \/ SearchSymbols(c)
  PROVE  Typed' /\ Sound'
<1>1. \E kind \in {"list", "search"}, r \in Repos, todo \in SUBSET Repos :
        /\ Exists(r) /\ \A q \in todo : Exists(q)
        /\ Begins(c, NewCall(kind, r, todo))
  BY DEF ListRepos, SearchSymbols, Typed, Sound, Located
<1>2. PICK kind \in {"list", "search"}, r \in Repos, todo \in SUBSET Repos :
        /\ Exists(r) /\ \A q \in todo : Exists(q)
        /\ Begins(c, NewCall(kind, r, todo))
  BY <1>1
<1>3. NewCall(kind, r, todo) \in Call /\ CallSound(NewCall(kind, r, todo))
  BY <1>2, NewCallSound
<1> QED BY <1>2, <1>3, BeginsStep DEF ListRepos, SearchSymbols

LEMMA PackageStep ==
  ASSUME Typed, Sound, NEW c \in Calls, NEW r \in Repos,
         NEW kind \in {"describe", "packages"}, PackageCall(c, r, kind)
  PROVE  Typed' /\ Sound'
<1>1. NewCall(kind, r, {}) \in Call /\ CallSound(NewCall(kind, r, {}))
  BY NewCallSound DEF PackageCall
<1> QED BY <1>1, BeginsStep DEF PackageCall

LEMMA RequestStep ==
  ASSUME Typed, Sound, NEW c \in Calls, NEW r \in Repos, RequestExtraction(c, r)
  PROVE  Typed' /\ Sound'
<1> DEFINE at == IF Exists(r) THEN "open" ELSE "queue"
           new == [NewCall("request", r, {}) EXCEPT !.at = at]
<1>1. new \in Call /\ CallSound(new)
  BY NewCallSound
<1>2. Begins(c, new)
  BY DEF RequestExtraction
<1> QED BY <1>1, <1>2, BeginsStep DEF RequestExtraction

LEMMA VisitStep ==
  ASSUME Typed, Sound, NEW c \in Calls, Visit(c)
  PROVE  Typed' /\ Sound'
<1>1. CASE Ends(c)
  BY <1>1, IdleSound, TurnStep DEF Ends, Visit
<1>2. ASSUME NEW r \in call[c].todo,
             call' = [call EXCEPT ![c].at = "open", ![c].repo = r, ![c].todo = @ \ {r}]
      PROVE  Typed' /\ Sound'
  <2> DEFINE new == [call[c] EXCEPT !.at = "open", !.repo = r, !.todo = @ \ {r}]
  <2>1. call[c].at = "use" /\ call[c] \in Call /\ CallSound(call[c])
    BY CallFields DEF Visit
  <2>2. call' = [call EXCEPT ![c] = new]
    BY <1>2, <2>1 DEF Typed
  <2>3. /\ new \in Call /\ new.at = "open" /\ new.repo = r /\ new.todo = call[c].todo \ {r}
        /\ new.asof = call[c].asof /\ new.stale = call[c].stale /\ new.left = call[c].left
        /\ r \in Repos
    BY <1>2, <2>1 DEF Call
  <2> HIDE DEF new
  <2>4. call[c].asof = NoHash /\ \A f \in Files : NoHash[f] = None /\ Had(r, f, None)
    BY <2>1, <2>3, HadLatest DEF CallSound, NoHash, Sound
  <2>5. CallSound(new)
    BY <2>1, <2>3, <2>4, <1>2 DEF CallSound
  <2> QED BY <2>2, <2>3, <2>5, TurnStep DEF Visit
<1> QED BY <1>1, <1>2 DEF Visit

LEMMA EndStep ==
  ASSUME Typed, Sound, NEW c \in Calls, Render(c) \/ Cancel(c)
  PROVE  Typed' /\ Sound'
<1>1. call' = [call EXCEPT ![c] = Idle]
  BY DEF Render, Cancel, Ends
<1>2. UNCHANGED <<commits, store, server, flag, build, calls, builds, skewed>>
  BY DEF Render, Cancel
<1> QED BY <1>1, <1>2, IdleSound, TurnStep

LEMMA CompareCommitsStep ==
  ASSUME Typed, Sound, NEW c \in Calls, CompareCommits(c)
  PROVE  Typed' /\ Sound'
<1>1. CASE Ends(c)
  BY <1>1, IdleSound, TurnStep DEF Ends, CompareCommits
<1>2. CASE call' = [call EXCEPT ![c].at = "queue"]
  <2> DEFINE new == [call[c] EXCEPT !.at = "queue"]
  <2>1. call[c].at = "use" /\ call[c] \in Call /\ CallSound(call[c])
    BY CallFields DEF CompareCommits
  <2>2. call' = [call EXCEPT ![c] = new]
    BY <1>2, <2>1 DEF Typed
  <2>3. /\ new \in Call /\ new.at = "queue" /\ new.repo = call[c].repo
        /\ new.todo = call[c].todo /\ new.asof = call[c].asof
    BY <2>1 DEF Call
  <2> HIDE DEF new
  <2>4. CallSound(new)
    BY <2>1, <2>3 DEF CallSound
  <2> QED BY <2>2, <2>3, <2>4, TurnStep DEF CompareCommits
<1> QED BY <1>1, <1>2 DEF CompareCommits

LEMMA AsksFields ==
  ASSUME Typed, Sound, NEW c \in Calls, Asks(c)
  PROVE  /\ call[c].at = "use" /\ call[c] \in Call /\ CallSound(call[c])
         /\ call[c].repo \in Repos /\ Exists(call[c].repo) /\ Of(call[c].db, call[c].repo)
         /\ call[c].asof = NoHash /\ call[c].stale = {} /\ call[c].left = {}
         /\ \A r \in call[c].todo : Exists(r)
         /\ \A f \in Files : Had(call[c].repo, f, call[c].asof[f])
         /\ \A f \in Files : \A i : Backed(i, f, call[c].asof[f])
<1>1. /\ call[c].at = "use" /\ call[c] \in Call /\ CallSound(call[c])
      /\ call[c].repo \in Repos
  BY CallFields DEF Asks
<1> QED BY <1>1 DEF CallSound, NoHash, Backed

LEMMA CheckNothingStep ==
  ASSUME Typed, Sound, NEW c \in Calls, CheckNothing(c)
  PROVE  Typed' /\ Sound'
<1>1. Checked(call[c]) \in {Idle} \cup Call /\ CallSound(Checked(call[c]))
  BY AsksFields, CheckedSound DEF CheckNothing
<1> QED BY <1>1, TurnStep DEF CheckNothing

LEMMA CheckCachedStep ==
  ASSUME Typed, Sound, NEW c \in Calls, CheckCached(c)
  PROVE  Typed' /\ Sound'
<1> DEFINE r == call[c].repo
           check == checks[r]
           x == [call[c] EXCEPT !.stale = check.stale, !.asof = check.asof,
                                !.base = check.db]
<1>1. /\ call[c].at = "use" /\ call[c] \in Call /\ r \in Repos
      /\ Exists(r) /\ Of(call[c].db, r) /\ \A q \in call[c].todo : Exists(q)
  BY AsksFields DEF CheckCached
<1>2. check \in Check /\ CheckSound(r, check) /\ check.at = "cached"
  BY <1>1 DEF CheckCached, Cached, Typed, Sound, Idle
<1>3. /\ x \in Call /\ x.at = "use" /\ x.repo = r /\ x.todo = call[c].todo
      /\ x.db = call[c].db /\ x.base = check.db /\ x.asof = check.asof
      /\ x.stale = check.stale
  BY <1>1, <1>2 DEF Call, Check
<1>4. call' = [call EXCEPT ![c] = Checked(x)]
  BY DEF CheckCached
<1> HIDE DEF x, check
<1>5. Checked(x) \in {Idle} \cup Call /\ CallSound(Checked(x))
  BY <1>1, <1>2, <1>3, CheckedSound DEF CheckSound
<1> QED BY <1>4, <1>5, TurnStep DEF CheckCached

\* A call changes databases, with what is cached about them.
LEMMA StoreTurn ==
  ASSUME Typed, Sound, Grows, NEW c \in Calls, NEW new \in {Idle} \cup Call,
         call' = [call EXCEPT ![c] = new], CallSound(new)',
         UNCHANGED <<commits, path, pool, index, flag, build, calls, builds, skewed>>,
         dbs' \in Seq(Db), Len(dbs') = Len(dbs), \A i \in DOMAIN dbs : DbSound(i)',
         clock' \in Nat, written' \in Seq(1 .. clock'), Len(written') = Len(written),
         recent' \subseteq Files, checks' \in [Repos -> {Idle} \cup Check],
         \A q \in Repos : CheckSound(q, checks[q])'
  PROVE  Typed' /\ Sound'
<1>1. Typed'
  BY CallMoves DEF Typed
<1>2. DOMAIN dbs' = DOMAIN dbs
  BY DEF Typed
<1>3. \A b \in Builds : BuildSound(build[b])'
  BY BuildKept DEF Typed, Sound
<1>4. CommitsGrow' /\ Located' /\ PoolSound'
  <2>1. PoolSound'
    BY <1>2 DEF Typed, Sound, PoolSound, Of, Grows
  <2>2. \A r \in Repos : Exists(r) => path[r] \in DOMAIN dbs /\ dbs[path[r]].repo = r
    BY DEF Typed, Sound, Located, Exists, None
  <2>3. Located'
    BY <2>2 DEF Sound, Located, Exists, Grows
  <2> QED BY <2>1, <2>3 DEF Sound, CommitsGrow
<1>5. \A d \in Calls : CallSound(call[d])'
  BY CallMoves
<1> QED BY <1>1, <1>2, <1>3, <1>4, <1>5 DEF Sound

\* The check of a repository is replaced.
LEMMA ChecksTurn ==
  ASSUME Typed, Sound, Grows, NEW r \in Repos, NEW check \in {Idle} \cup Check,
         CheckSound(r, check), checks' = [checks EXCEPT ![r] = check]
  PROVE  /\ checks' \in [Repos -> {Idle} \cup Check]
         /\ \A q \in Repos : CheckSound(q, checks[q])'
<1>1. checks' \in [Repos -> {Idle} \cup Check]
  BY DEF Typed
<1>2. ASSUME NEW q \in Repos
      PROVE  CheckSound(q, checks[q])'
  <2>1. \A x : x = checks'[q] => CheckSound(q, x)'
    <3>1. CASE q = r
      BY <3>1, CheckKept DEF Typed
    <3>2. CASE q # r
      BY <3>2, CheckKept DEF Typed, Sound
    <3> QED BY <3>1, <3>2
  <2> QED BY <2>1 DEF CheckSound
<1> QED BY <1>1, <1>2

LEMMA ChecksKept ==
  ASSUME Typed, Sound, Grows, checks' = checks
  PROVE  /\ checks' \in [Repos -> {Idle} \cup Check]
         /\ \A q \in Repos : CheckSound(q, checks[q])'
<1>1. ASSUME NEW q \in Repos
      PROVE  CheckSound(q, checks[q])'
  BY CheckKept DEF Typed, Sound, CheckSound
<1> QED BY <1>1 DEF Typed

LEMMA CheckQueryStep ==
  ASSUME Typed, Sound, NEW c \in Calls, CheckQuery(c)
  PROVE  Typed' /\ Sound'
<1> DEFINE r == call[c].repo
           db == dbs[call[c].db]
           files == IF call[c].lost THEN {} ELSE Covered(db)
           x == [call[c] EXCEPT !.at = "compare", !.left = files, !.hash = db.hash,
                                !.base = call[c].db]
           new == IF files = {} THEN Checked(call[c]) ELSE x
<1>1. /\ call[c].at = "use" /\ call[c] \in Call /\ r \in Repos /\ call[c].stale = {}
      /\ Exists(r) /\ Of(call[c].db, r) /\ \A q \in call[c].todo : Exists(q)
      /\ \A f \in Files : Had(r, f, call[c].asof[f])
      /\ \A f \in Files : \A i : Backed(i, f, call[c].asof[f])
  BY AsksFields DEF CheckQuery
<1>2. db \in Db /\ DbSound(call[c].db) /\ call[c].db \in DOMAIN dbs
  BY <1>1, DbFields DEF Of, Sound
<1>3. files \subseteq Files
  BY DEF Covered
<1>4. /\ x \in Call /\ x.at = "compare" /\ x.repo = r /\ x.todo = call[c].todo
      /\ x.db = call[c].db /\ x.base = call[c].db /\ x.asof = call[c].asof
      /\ x.hash = db.hash /\ x.left = files /\ x.stale = {}
  BY <1>1, <1>2, <1>3 DEF Call, Db
<1>5. call' = [call EXCEPT ![c] = new] /\ checks' = [checks EXCEPT ![r] = Idle]
  BY DEF CheckQuery
<1>6. Checked(call[c]) \in {Idle} \cup Call /\ CallSound(Checked(call[c]))
  BY AsksFields, CheckedSound DEF CheckQuery
<1>7. \A f \in Files : Backed(call[c].db, f, db.hash[f])
  BY <1>2 DEF DbSound
<1> HIDE DEF x, files, db
<1>8. CallSound(x)
  BY <1>1, <1>4, <1>7 DEF CallSound
<1>9. new \in {Idle} \cup Call /\ CallSound(new)
  BY <1>4, <1>6, <1>8
<1> HIDE DEF new
<1>10. CheckSound(r, Idle)
  BY DEF CheckSound, Idle
<1>11. PICK y \in {Idle} \cup Call : call' = [call EXCEPT ![c] = y] /\ CallSound(y)
  BY <1>5, <1>9
<1>13. Grows /\ CallSound(y)' /\ \A i \in DOMAIN dbs : DbSound(i)'
  <2>1. UNCHANGED <<commits, dbs, path, skewed>>
    BY DEF CheckQuery, store
  <2>2. Grows /\ CallSound(y)'
    BY <1>11, <2>1, StoreSame, CallKept
  <2> QED BY <2>1, <2>2, DbKept DEF Typed
<1>12. /\ checks' \in [Repos -> {Idle} \cup Check]
       /\ \A q \in Repos : CheckSound(q, checks[q])'
  BY <1>1, <1>5, <1>10, <1>13, ChecksTurn
<1> QED BY <1>11, <1>12, <1>13, StoreTurn DEF CheckQuery, store, Typed

\* A tombstone is all that a database gets from a check.
LEMMA TombstoneKept ==
  ASSUME Typed, Sound, NEW i \in DOMAIN dbs, NEW f \in Files,
         dbs' = [dbs EXCEPT ![i].gone = @ \cup {f}], UNCHANGED <<commits, path, skewed>>
  PROVE  /\ dbs' \in Seq(Db) /\ Len(dbs') = Len(dbs) /\ Grows
         /\ \A j \in DOMAIN dbs : DbSound(j)'
<1> DEFINE db == [dbs[i] EXCEPT !.gone = @ \cup {f}]
<1>1. /\ db \in Db /\ db.repo = dbs[i].repo /\ db.rows = dbs[i].rows
      /\ db.hash = dbs[i].hash /\ db.sha = dbs[i].sha
  BY DbFields DEF Db
<1>2. dbs' = [dbs EXCEPT ![i] = db]
  BY DEF Typed
<1> HIDE DEF db
<1>3. dbs' \in Seq(Db) /\ Len(dbs') = Len(dbs) /\ DOMAIN dbs' = DOMAIN dbs
  <2>1. dbs \in Seq(Db) /\ i \in 1 .. Len(dbs)
    BY DEF Typed
  <2>2. db \in Db
    BY <1>1
  <2>3. [dbs EXCEPT ![i] = db] \in Seq(Db) /\ Len([dbs EXCEPT ![i] = db]) = Len(dbs)
    BY <2>1, <2>2, ExceptSeq
  <2> QED BY <1>2, <2>1, <2>3
<1>4. \A j \in DOMAIN dbs :
        /\ dbs'[j].repo = dbs[j].repo /\ dbs'[j].rows = dbs[j].rows
        /\ dbs'[j].hash = dbs[j].hash /\ dbs'[j].sha = dbs[j].sha
  BY <1>1, <1>2 DEF Typed
<1>5. Grows
  BY <1>3, <1>4 DEF Grows, Backed, Exists
<1>6. \A j \in DOMAIN dbs : DbSound(j)'
  BY <1>4, <1>5, DbKept DEF Typed
<1> QED BY <1>3, <1>5, <1>6

LEMMA CheckFileStep ==
  ASSUME Typed, Sound, NEW c \in Calls, NEW f \in Files, CheckFile(c, f)
  PROVE  Typed' /\ Sound'
<1> DEFINE r == call[c].repo
           v == Latest(r)[f]
           i == call[c].db
           x == [call[c] EXCEPT !.left = @ \ {f}, !.asof[f] = v,
                                !.stale = IF v \notin {None, call[c].hash[f]}
                                          THEN @ \cup {f} ELSE @]
           check == [at |-> "cached", fresh |-> TRUE, stale |-> x.stale,
                     asof |-> x.asof, db |-> x.base]
           new == IF x.left # {} THEN x ELSE Checked(x)
<1>1. /\ call[c].at = "compare" /\ call[c] \in Call /\ CallSound(call[c]) /\ r \in Repos
      /\ Of(i, r) /\ i \in DOMAIN dbs
  BY CallFields DEF CheckFile
<1>2. v \in Nat /\ Had(r, f, v)
  BY <1>1, CommitFields, HadLatest DEF Sound
<1>3. /\ x \in Call /\ x.at = "compare" /\ x.repo = r /\ x.todo = call[c].todo
      /\ x.db = i /\ x.base = call[c].base /\ x.hash = call[c].hash
      /\ x.left = call[c].left \ {f}
  BY <1>1, <1>2 DEF Call
<1>4. /\ x.asof = [call[c].asof EXCEPT ![f] = v]
      /\ x.stale = IF v \notin {None, call[c].hash[f]} THEN call[c].stale \cup {f}
                   ELSE call[c].stale
  BY <1>1, <1>2 DEF Call
<1>5. \A g \in Files : x.asof[g] = IF g = f THEN v ELSE call[c].asof[g]
  BY <1>1, <1>4 DEF Call
<1>6. /\ call' = [call EXCEPT ![c] = new]
      /\ IF x.left # {} THEN checks' = checks ELSE checks' = [checks EXCEPT ![r] = check]
      /\ dbs' = dbs \/ dbs' = [dbs EXCEPT ![i].gone = @ \cup {f}]
      /\ UNCHANGED <<commits, path, written, clock, pool, index, recent, flag, build,
                     calls, builds, skewed>>
  BY DEF CheckFile
<1> HIDE DEF x, v
<1>7. \A g \in Files : g \notin x.left \cup x.stale => Backed(i, g, x.asof[g])
  <2> SUFFICES ASSUME NEW g \in Files, g \notin x.left \cup x.stale
               PROVE  Backed(i, g, x.asof[g])
    OBVIOUS
  <2>1. CASE g # f
    BY <1>1, <1>3, <1>4, <1>5, <2>1 DEF CallSound
  <2>2. CASE g = f
    <3>1. x.asof[f] = v /\ v \in {None, call[c].hash[f]}
      BY <1>4, <1>5, <2>2
    <3>2. Backed(i, f, call[c].hash[f]) /\ Backed(i, f, None)
      BY <1>1 DEF CallSound, Backed
    <3> QED BY <2>2, <3>1, <3>2
  <2> QED BY <2>1, <2>2
<1>8. /\ \A g \in Files : Had(r, g, x.asof[g])
      /\ x.base = i /\ Exists(r) /\ \A q \in x.todo : Exists(q)
      /\ \A g \in Files : Backed(i, g, x.hash[g])
  BY <1>1, <1>2, <1>3, <1>5 DEF CallSound
<1>9. CallSound(x)
  BY <1>1, <1>3, <1>7, <1>8 DEF CallSound
<1>10. x.left = {} => Checked(x) \in {Idle} \cup Call /\ CallSound(Checked(x))
  BY <1>1, <1>3, <1>7, <1>8, CheckedSound
<1>11. new \in {Idle} \cup Call /\ CallSound(new)
  BY <1>3, <1>9, <1>10
<1>12. x.left = {} => check \in Check /\ CheckSound(r, check)
  BY <1>1, <1>3, <1>7, <1>8 DEF Check, Call, CheckSound
<1> HIDE DEF check, new
<1>13. /\ dbs' \in Seq(Db) /\ Len(dbs') = Len(dbs) /\ Grows
       /\ \A j \in DOMAIN dbs : DbSound(j)'
  <2>1. CASE dbs' = dbs
    BY <1>6, <2>1, StoreSame, DbKept DEF Typed
  <2>2. CASE dbs' = [dbs EXCEPT ![i].gone = @ \cup {f}]
    BY <1>1, <1>6, <2>2, TombstoneKept
  <2> QED BY <1>6, <2>1, <2>2
<1>14. /\ checks' \in [Repos -> {Idle} \cup Check]
       /\ \A q \in Repos : CheckSound(q, checks[q])'
  BY <1>1, <1>6, <1>12, <1>13, ChecksTurn, ChecksKept
<1>15. PICK y \in {Idle} \cup Call : call' = [call EXCEPT ![c] = y] /\ CallSound(y)
  BY <1>6, <1>11
<1>16. CallSound(y)'
  BY <1>13, <1>15, CallKept
<1> QED BY <1>6, <1>13, <1>14, <1>15, <1>16, StoreTurn DEF Typed

-----------------------------------------------------------------------------
\* Refreshing what is stale

\* A step of a call that changes nothing else.
LEMMA TurnNext ==
  ASSUME Typed, Sound, NEW c \in Calls, NEW new \in {Idle} \cup Call, CallSound(new)',
         call' = [call EXCEPT ![c] = new],
         UNCHANGED <<commits, store, server, flag, build, calls, builds, skewed>>
  PROVE  Typed' /\ Sound'
<1>1. UNCHANGED <<commits, dbs, path, skewed>>
  BY DEF store
<1>2. Grows
  BY <1>1, StoreSame
<1>3. \A i \in DOMAIN dbs : DbSound(i)'
  BY <1>1, <1>2, DbKept DEF Typed
<1>4. /\ checks' \in [Repos -> {Idle} \cup Check]
      /\ \A q \in Repos : CheckSound(q, checks[q])'
  BY <1>2, ChecksKept DEF server
<1> QED BY <1>1, <1>2, <1>3, <1>4, StoreTurn DEF Typed, store, server

LEMMA LeaveStep ==
  ASSUME Typed, Sound, NEW c \in Calls,
         RefreshFails(c) \/ \E f \in Files : SkipRecent(c, f)
  PROVE  Typed' /\ Sound'
<1>1. /\ call[c].at \in {"refresh", "extract", "store"}
      /\ UNCHANGED <<commits, store, server, flag, build, calls, builds, skewed>>
  BY DEF RefreshFails, SkipRecent
<1>2. call[c] \in Call /\ CallSound(call[c])
  BY <1>1, CallFields
<1>3. \E f \in call[c].left :
        call' = [call EXCEPT ![c] =
                   After([call[c] EXCEPT !.left = @ \ {f}, !.warned = TRUE])]
  BY <1>2 DEF RefreshFails, Failed, CallSound, SkipRecent
<1>4. PICK z \in Call : z = call[c]
  BY <1>2
<1>5. PICK f \in z.left :
        call' = [call EXCEPT ![c] = After([z EXCEPT !.left = @ \ {f}, !.warned = TRUE])]
  BY <1>3, <1>4
<1>6. Grows
  BY <1>1, StoreSame DEF store
<1>7. PICK y \in Call : /\ y = After([z EXCEPT !.left = @ \ {f}, !.warned = TRUE])
                        /\ CallSound(y)'
  BY <1>1, <1>2, <1>4, <1>5, <1>6, AfterSound
<1> QED BY <1>1, <1>5, <1>7, TurnNext

LEMMA ReadStaleStep ==
  ASSUME Typed, Sound, NEW c \in Calls, NEW f \in Files, ReadStale(c, f)
  PROVE  Typed' /\ Sound'
<1> DEFINE r == call[c].repo
           v == Latest(r)[f]
           new == [call[c] EXCEPT !.at = "extract", !.file = f, !.text = v]
<1>1. /\ call[c].at = "refresh" /\ f \in call[c].left
      /\ call[c] \in Call /\ CallSound(call[c]) /\ r \in Repos
      /\ UNCHANGED <<commits, store, server, flag, build, calls, builds, skewed>>
  BY CallFields DEF ReadStale
<1>2. v \in Nat /\ Had(r, f, v)
  BY <1>1, CommitFields, HadLatest DEF Sound
<1>3. call' = [call EXCEPT ![c] = new]
  BY <1>1 DEF ReadStale, Typed
<1> HIDE DEF v
<1>4. /\ new \in Call /\ new.at = "extract" /\ new.file = f /\ new.text = v
      /\ new.repo = r /\ new.todo = call[c].todo /\ new.db = call[c].db
      /\ new.base = call[c].base /\ new.asof = call[c].asof /\ new.left = call[c].left
      /\ new.warned = call[c].warned
  BY <1>1, <1>2 DEF Call
<1> HIDE DEF new
<1>5. CallSound(new)
  BY <1>1, <1>2, <1>4 DEF CallSound
<1> QED BY <1>1, <1>3, <1>4, <1>5, TurnStep

\* What is extracted is no older than what was compared, than any row of the build,
\* and than the commit of the label.
LEMMA ExtractStaleStep ==
  ASSUME Typed, Sound, NEW c \in Calls, ExtractStale(c)
  PROVE  Typed' /\ Sound'
<1> DEFINE r == call[c].repo
           f == call[c].file
           v == Latest(r)[f]
           i == call[c].db
           new == [call[c] EXCEPT !.at = "store", !.found = v]
<1>1. /\ call[c].at = "extract" /\ call[c] \in Call /\ CallSound(call[c]) /\ r \in Repos
      /\ Of(i, r) /\ i \in DOMAIN dbs /\ dbs[i] \in Db /\ dbs[i].repo = r
      /\ UNCHANGED <<commits, store, server, flag, build, calls, builds, skewed>>
      /\ v # None
  BY CallFields DEF ExtractStale
<1>2. /\ f \in call[c].left /\ f \in Files
      /\ call[c].text \in Nat /\ call[c].asof[f] \in Nat
      /\ Had(r, f, call[c].text) /\ Had(r, f, call[c].asof[f])
  BY <1>1 DEF CallSound, Call
<1>3. v \in Nat /\ Had(r, f, v) /\ CommitsGrow
  BY <1>1, <1>2, CommitFields, HadLatest DEF Sound
<1>4. call[c].text <= v /\ call[c].asof[f] <= v
  BY <1>1, <1>2, <1>3, HadBefore
<1>5. DbSound(i) /\ dbs[i].sha \in Nat /\ dbs[i].rows[f] \subseteq Row
  BY <1>1, <1>2 DEF Sound, Db
<1>6. \A row \in dbs[i].rows[f] : row.v <= v
  <2> TAKE row \in dbs[i].rows[f]
  <2>1. row.v \in Nat /\ Had(r, f, row.v)
    BY <1>1, <1>2, <1>5 DEF Row, DbSound
  <2> QED BY <1>1, <1>2, <1>3, <2>1, HadBefore
<1>7. Covers(r, dbs[i].sha, f, v)
  BY <1>1, <1>2, <1>3, <1>5, CoversLatest DEF DbSound
<1>8. call' = [call EXCEPT ![c] = new]
  BY <1>1 DEF ExtractStale, Typed
<1> HIDE DEF v
<1>9. /\ new \in Call /\ new.at = "store" /\ new.file = f /\ new.text = call[c].text
      /\ new.repo = r /\ new.todo = call[c].todo /\ new.db = i /\ new.found = v
      /\ new.base = call[c].base /\ new.asof = call[c].asof /\ new.left = call[c].left
      /\ new.warned = call[c].warned
  BY <1>1, <1>3 DEF Call
<1> HIDE DEF new
<1>10. Extracted(new)
  BY <1>3, <1>4, <1>6, <1>7, <1>9 DEF Extracted
<1>11. CallSound(new)
  BY <1>1, <1>2, <1>9, <1>10 DEF CallSound
<1> QED BY <1>1, <1>8, <1>9, <1>11, TurnStep

\* The transaction of a refresh: what it deletes it replaces by what is no older.
LEMMA StoreStaleStep ==
  ASSUME Typed, Sound, NEW c \in Calls, StoreStale(c)
  PROVE  Typed' /\ Sound'
<1>0. /\ call[c].at = "store" /\ call[c] \in Call /\ CallSound(call[c])
      /\ UNCHANGED <<commits, path, pool, index, checks, flag, build, calls, builds, skewed>>
  BY CallFields DEF StoreStale
<1>1. PICK z \in Call : z = call[c]
  BY <1>0
<1> DEFINE i == z.db
           f == z.file
           deleted == {row \in dbs[i].rows[f] : row.by = "deep" /\ f \in Deep}
           e == [v |-> z.found, by |-> "abs"]
           db == [dbs[i] EXCEPT !.rows[f] = (@ \ deleted) \cup {e},
                                !.hash[f] = z.text, !.gone = @ \ {f}]
<1>2. /\ z.at = "store" /\ CallSound(z) /\ f \in z.left /\ f \in Files
      /\ z.text \in Nat /\ z.found \in Nat /\ z.repo \in Repos
      /\ z.asof[f] \in Nat /\ Extracted(z) /\ Of(i, z.repo)
  BY <1>0, <1>1 DEF CallSound, Call
<1>3. i \in DOMAIN dbs /\ dbs[i] \in Db /\ dbs[i].repo = z.repo /\ DbSound(i)
      /\ i \in 1 .. Len(dbs) /\ dbs \in Seq(Db)
  BY <1>2, DbFields DEF Of, Sound, Typed
<1>4. e \in Row /\ e.v = z.found /\ e.by = "abs"
  BY <1>2 DEF Row
<1> HIDE DEF e, deleted
<1>5. /\ db \in Db /\ db.repo = dbs[i].repo /\ db.sha = dbs[i].sha
      /\ db.rows = [dbs[i].rows EXCEPT ![f] = (@ \ deleted) \cup {e}]
      /\ db.hash = [dbs[i].hash EXCEPT ![f] = z.text]
  BY <1>2, <1>3, <1>4 DEF Db
<1>6. dbs' = [dbs EXCEPT ![i] = db]
  BY <1>1 DEF StoreStale, deleted, e
<1>7. dbs' \in Seq(Db) /\ Len(dbs') = Len(dbs) /\ DOMAIN dbs' = DOMAIN dbs
  <2>1. [dbs EXCEPT ![i] = db] \in Seq(Db) /\ Len([dbs EXCEPT ![i] = db]) = Len(dbs)
    BY <1>3, <1>5, ExceptSeq
  <2> QED BY <1>3, <1>6, <2>1
<1>8. dbs'[i] = db /\ \A j \in DOMAIN dbs : j # i => dbs'[j] = dbs[j]
  BY <1>3, <1>6
<1> HIDE DEF db
<1>9. /\ dbs'[i].rows[f] = (dbs[i].rows[f] \ deleted) \cup {e}
      /\ dbs'[i].hash[f] = z.text
      /\ \A g \in Files : g # f => /\ dbs'[i].rows[g] = dbs[i].rows[g]
                                  /\ dbs'[i].hash[g] = dbs[i].hash[g]
  BY <1>2, <1>3, <1>5, <1>8 DEF Db
\* Backed by a deleted row is backed by the new one.
<1>10. \A v \in Nat : Backed(i, f, v) \/ v <= z.found => Backed(i, f, v)'
  <2> SUFFICES ASSUME NEW v \in Nat, Backed(i, f, v) \/ v <= z.found
               PROVE  Backed(i, f, v)'
    OBVIOUS
  <2>1. CASE v <= z.found
    <3>1. e \in dbs'[i].rows[f] /\ e.v >= v
      BY <1>2, <1>4, <1>9, <2>1
    <3> QED BY <3>1 DEF Backed
  <2>2. CASE Backed(i, f, v) /\ ~(v <= z.found)
    <3>1. ASSUME NEW row \in dbs[i].rows[f], row.v >= v
          PROVE  row \in dbs'[i].rows[f]
      <4>1. row.v \in Nat
        BY <1>2, <1>3 DEF Db, Row
      <4>2. row \notin deleted
        BY <1>2, <2>2, <3>1, <4>1 DEF Extracted, deleted
      <4> QED BY <1>9, <4>2
    <3> QED BY <1>0, <2>2, <3>1 DEF Backed
  <2> QED BY <2>1, <2>2
<1>11. Grows
  <2>1. \A j \in DOMAIN dbs : /\ dbs'[j].repo = dbs[j].repo /\ dbs'[j].sha = dbs[j].sha
                              /\ j \in DOMAIN dbs'
    BY <1>5, <1>7, <1>8
  <2>2. ASSUME NEW j \in DOMAIN dbs, NEW g \in Files
        PROVE  /\ \A v \in Nat : Backed(j, g, v) => Backed(j, g, v)'
               /\ \A row \in dbs'[j].rows[g] : row.by = "deep" => row \in dbs[j].rows[g]
    <3>1. CASE j = i /\ g = f
      BY <1>4, <1>9, <1>10, <3>1
    <3>2. CASE ~(j = i /\ g = f)
      <4>1. dbs'[j].rows[g] = dbs[j].rows[g]
        BY <1>8, <1>9, <3>2
      <4> QED BY <1>0, <4>1 DEF Backed
    <3> QED BY <3>1, <3>2
  <2> QED BY <1>0, <2>1, <2>2 DEF Grows, Exists
<1>12. \A j \in DOMAIN dbs : DbSound(j)'
  <2>1. \A j \in DOMAIN dbs : j # i => DbSound(j)'
    BY <1>0, <1>8, <1>11, DbKept DEF Typed
  <2>2. DbSound(i)'
    <3>1. /\ dbs'[i].sha = dbs[i].sha /\ dbs'[i].repo = z.repo
          /\ dbs'[i].sha <= Len(commits'[z.repo])
      BY <1>0, <1>3, <1>5, <1>8 DEF DbSound
    <3>2. \A g \in Files : Backed(i, g, dbs[i].hash[g])
      BY <1>3 DEF DbSound
    <3>3. ASSUME NEW g \in Files, NEW v, v = dbs'[i].hash[g]
          PROVE  Backed(i, g, v)'
      <4>1. CASE g = f
        BY <1>2, <1>9, <1>10, <3>3, <4>1 DEF Extracted
      <4>2. CASE g # f
        <5>1. v = dbs[i].hash[g] /\ v \in Nat
          BY <1>3, <1>9, <3>3, <4>2 DEF Db
        <5> QED BY <1>3, <1>11, <3>2, <5>1 DEF Grows
      <4> QED BY <4>1, <4>2
    <3>4. ASSUME NEW g \in Files, NEW row \in dbs'[i].rows[g]
          PROVE  Had(z.repo, g, row.v) /\ Covers(z.repo, dbs[i].sha, g, row.v)
      <4>1. CASE row \in dbs[i].rows[g]
        BY <1>3, <4>1 DEF DbSound
      <4>2. CASE row \notin dbs[i].rows[g]
        <5>1. g = f /\ row.v = z.found
          BY <1>4, <1>9, <3>4, <4>2
        <5> QED BY <1>2, <5>1 DEF Extracted
      <4> QED BY <4>1, <4>2
    <3> QED BY SMTT(30), <1>0, <3>1, <3>3, <3>4 DEF DbSound, Had, Covers, Backed
  <2> QED BY <2>1, <2>2
<1>13. PICK y \in Call : /\ y = After([z EXCEPT !.left = @ \ {f}])
                         /\ CallSound(y)'
  <2>1. Backed(i, f, z.asof[f])'
    BY <1>2, <1>10 DEF Extracted
  <2> QED BY <1>1, <1>2, <1>11, <2>1, AfterSound
<1>14. call' = [call EXCEPT ![c] = y]
  BY <1>1, <1>13 DEF StoreStale
<1>15. /\ clock' \in Nat /\ written' \in Seq(1 .. clock') /\ Len(written') = Len(written)
  <2>1. written \in Seq(1 .. clock) /\ clock \in Nat /\ i \in 1 .. Len(written)
    BY <1>3 DEF Typed
  <2>2. CASE UNCHANGED <<written, clock>>
    BY <2>1, <2>2
  <2>3. CASE clock' = clock + 1 /\ written' = [written EXCEPT ![i] = clock + 1]
    <3>1. written \in Seq(1 .. clock + 1)
      BY <2>1
    <3>2. /\ [written EXCEPT ![i] = clock + 1] \in Seq(1 .. clock + 1)
          /\ Len([written EXCEPT ![i] = clock + 1]) = Len(written)
      BY <2>1, <3>1, ExceptSeq
    <3> QED BY <2>1, <2>3, <3>2
  <2> QED BY <1>1, <2>2, <2>3 DEF StoreStale
<1>16. recent' \subseteq Files
  BY <1>1, <1>2 DEF StoreStale, Typed
<1>17. /\ checks' \in [Repos -> {Idle} \cup Check]
       /\ \A q \in Repos : CheckSound(q, checks[q])'
  BY <1>0, <1>11, ChecksKept
<1> QED BY <1>0, <1>7, <1>11, <1>12, <1>13, <1>14, <1>15, <1>16, <1>17, StoreTurn

-----------------------------------------------------------------------------
\* Steps of a build

LEMMA BuildMoves ==
  ASSUME Typed, Sound, Grows, commits' \in [Repos -> Seq([Files -> Nat])],
         NEW b \in Builds, NEW new \in {Idle} \cup Build, BuildSound(new)',
         build' = [build EXCEPT ![b] = new]
  PROVE  /\ build' \in [Builds -> {Idle} \cup Build]
         /\ \A d \in Builds : BuildSound(build[d])'
<1>1. build' \in [Builds -> {Idle} \cup Build]
  BY DEF Typed
<1>2. ASSUME NEW d \in Builds
      PROVE  BuildSound(build[d])'
  <2>1. \A x : x = build'[d] => BuildSound(x)'
    <3>1. CASE d = b
      BY <3>1 DEF Typed
    <3>2. CASE d # b
      <4>1. build'[d] = build[d] /\ BuildSound(build[d]) /\ build[d] \in {Idle} \cup Build
        BY <3>2 DEF Typed, Sound
      <4> QED BY <4>1, BuildKept
    <3> QED BY <3>1, <3>2
  <2> QED BY <2>1
<1> QED BY <1>1, <1>2

\* A step that leaves what is served.
LEMMA BuildTurn ==
  ASSUME Typed, Sound, NEW b \in Builds, NEW new \in {Idle} \cup Build, BuildSound(new),
         build' = [build EXCEPT ![b] = new],
         UNCHANGED <<commits, store, server, skewed, calls>>,
         call' \in [Calls -> {Idle} \cup Call], \A c \in Calls : CallSound(call[c])',
         flag' \subseteq Repos, builds' \in 0 .. MaxBuilds
  PROVE  Typed' /\ Sound'
<1>1. UNCHANGED <<commits, dbs, path, skewed>>
  BY DEF store
<1>2. Grows
  BY <1>1, StoreSame
<1>3. BuildSound(new)'
  BY <1>1, <1>2, BuildKept DEF Typed
<1>4. /\ build' \in [Builds -> {Idle} \cup Build]
      /\ \A d \in Builds : BuildSound(build[d])'
  BY <1>1, <1>2, <1>3, BuildMoves DEF Typed
<1>5. \A i \in DOMAIN dbs' : DbSound(i)'
  BY <1>1, <1>2, DbKept DEF Typed
<1>6. \A q \in Repos : CheckSound(q, checks[q])'
  BY <1>2, ChecksKept DEF server
<1>7. CommitsGrow' /\ Located' /\ PoolSound'
  BY <1>1 DEF Sound, CommitsGrow, Located, Exists, PoolSound, Of, server
<1>8. Typed'
  BY <1>4 DEF Typed, store, server
<1> QED BY <1>4, <1>5, <1>6, <1>7, <1>8 DEF Sound

LEMMA CallsSame ==
  ASSUME Typed, Sound, Grows, call' = call
  PROVE  /\ call' \in [Calls -> {Idle} \cup Call]
         /\ \A c \in Calls : CallSound(call[c])'
<1>1. ASSUME NEW c \in Calls
      PROVE  CallSound(call[c])'
  <2>1. \A x : x = call[c] => CallSound(x)'
    BY CallKept DEF Typed, Sound
  <2> QED BY <2>1
<1> QED BY <1>1 DEF Typed

LEMMA BuildOnly ==
  ASSUME Typed, Sound, NEW b \in Builds, NEW new \in {Idle} \cup Build, BuildSound(new),
         build' = [build EXCEPT ![b] = new],
         UNCHANGED <<commits, store, server, call, calls, skewed>>,
         flag' \subseteq Repos, builds' \in 0 .. MaxBuilds
  PROVE  Typed' /\ Sound'
<1>1. Grows
  BY StoreSame DEF store
<1> QED BY <1>1, CallsSame, BuildTurn

\* A build that begins has read nothing.
LEMMA NewBuildSound ==
  ASSUME Typed, Sound, NEW r \in Repos, NEW x,
         \/ x = NewBuild("run", r)
         \/ x = [NewBuild("cli", r) EXCEPT !.at = "read", !.left = Files]
  PROVE  x \in Build /\ BuildSound(x)
<1>1. /\ x \in Build /\ x.repo = r /\ x.sha = None /\ x.rows = NoRows
      /\ x.hash = NoHash /\ x.unhashed = {}
      /\ \/ x.at = "start" /\ x.kind = "run"
         \/ x.at = "read" /\ x.kind \in {"run", "cli"}
  <2>1. CASE x = NewBuild("run", r)
    BY <2>1 DEF NewBuild, Build, NoRows, NoHash, None
  <2>2. CASE x = [NewBuild("cli", r) EXCEPT !.at = "read", !.left = Files]
    BY <2>2 DEF NewBuild, Build, NoRows, NoHash, None
  <2> QED BY <2>1, <2>2
<1>2. None <= Len(commits[r])
  BY CommitFields DEF Sound, None
<1>3. \A f \in Files : x.hash[f] = None /\ x.rows[f] = {}
  BY <1>1 DEF NoRows, NoHash
<1> QED BY <1>1, <1>2, <1>3 DEF BuildSound

LEMMA QueueStep ==
  ASSUME Typed, Sound, NEW c \in Calls, NEW b \in Builds, Queue(c, b)
  PROVE  Typed' /\ Sound'
<1>1. call[c].at = "queue" /\ call[c] \in Call /\ call[c].repo \in Repos
  BY CallFields DEF Queue
<1>2. PICK x \in Build : x = NewBuild("run", call[c].repo) /\ BuildSound(x)
  BY <1>1, NewBuildSound
<1>3. /\ build' = [build EXCEPT ![b] = x] /\ builds' \in 0 .. MaxBuilds
      /\ flag' \subseteq Repos /\ call' = [call EXCEPT ![c] = Idle]
      /\ UNCHANGED <<commits, store, server, skewed, calls>>
  BY <1>1, <1>2, ServingAssumption DEF Queue, Starts, Ends, Typed, ServingAssumption
<1>4. Grows
  BY <1>3, StoreSame DEF store
<1>5. CallSound(Idle)' /\ Idle \in {Idle} \cup Call
  BY <1>4, IdleSound, CallKept
<1>6. /\ call' \in [Calls -> {Idle} \cup Call]
      /\ \A d \in Calls : CallSound(call[d])'
  BY <1>3, <1>4, <1>5, CallMoves
<1> QED BY <1>2, <1>3, <1>6, BuildTurn

LEMMA ExtractStep ==
  ASSUME Typed, Sound, NEW b \in Builds, NEW r \in Repos, Extract(b, r)
  PROVE  Typed' /\ Sound'
<1>1. PICK x \in Build :
        x = [NewBuild("cli", r) EXCEPT !.at = "read", !.left = Files] /\ BuildSound(x)
  BY NewBuildSound
<1>2. /\ build' = [build EXCEPT ![b] = x] /\ builds' \in 0 .. MaxBuilds
      /\ flag' \subseteq Repos
      /\ UNCHANGED <<commits, store, server, call, skewed, calls>>
  BY <1>1, ServingAssumption DEF Extract, Starts, Typed, ServingAssumption
<1> QED BY <1>1, <1>2, BuildOnly

\* A build is over.
LEMMA OverStep ==
  ASSUME Typed, Sound, NEW b \in Builds, build[b].at # "idle", Over(b),
         UNCHANGED <<commits, store, server, call, calls, builds, skewed>>
  PROVE  Typed' /\ Sound'
<1>1. build' = [build EXCEPT ![b] = Idle] /\ flag' \subseteq Repos
      /\ builds' \in 0 .. MaxBuilds
  BY DEF Over, Typed
<1> QED BY <1>1, IdleSound, BuildOnly

LEMMA BuildFields ==
  ASSUME Typed, Sound, NEW b \in Builds, build[b].at # "idle"
  PROVE  /\ build[b] \in Build /\ BuildSound(build[b]) /\ build[b].repo \in Repos
         /\ build[b].sha \in Nat /\ build[b].rows \in [Files -> SUBSET Row]
         /\ build[b].hash \in [Files -> Nat]
<1>1. build[b] \in Build /\ BuildSound(build[b])
  BY DEF Typed, Sound, Idle
<1> QED BY <1>1 DEF Build

LEMMA ExtractFileStep ==
  ASSUME Typed, Sound, NEW b \in Builds, NEW f \in Files, ExtractFile(b, f)
  PROVE  Typed' /\ Sound'
<1> DEFINE x == build[b]
           v == Latest(x.repo)[f]
<1>1. /\ x.at = "read" /\ x.kind = "cli" /\ f \in x.left /\ x \in Build /\ BuildSound(x)
      /\ x.repo \in Repos /\ x.rows \in [Files -> SUBSET Row]
      /\ UNCHANGED <<commits, store, server, flag, call, calls, builds, skewed>>
  BY BuildFields DEF ExtractFile
<1>2. PICK rows \in {{}, {Built(f, v)}} :
        /\ v = None => rows = {}
        /\ build' = [build EXCEPT ![b].left = @ \ {f}, ![b].rows[f] = rows,
                                  ![b].unhashed = @ \cup {f}]
  BY DEF ExtractFile
<1>3. v \in Nat /\ Had(x.repo, f, v)
  BY <1>1, CommitFields, HadLatest DEF Sound
<1>4. rows \subseteq Row /\ \A row \in rows : row.v = v
  BY <1>2, <1>3 DEF Built, Row
<1> HIDE DEF v
<1> DEFINE new == [x EXCEPT !.left = @ \ {f}, !.rows[f] = rows, !.unhashed = @ \cup {f}]
<1>5. build' = [build EXCEPT ![b] = new]
  BY ZenonT(40), <1>1, <1>2 DEF Typed
<1>6. /\ new \in Build /\ new.at = "read" /\ new.kind = "cli" /\ new.repo = x.repo
      /\ new.sha = x.sha /\ new.left = x.left \ {f} /\ new.hash = x.hash
      /\ new.unhashed = x.unhashed \cup {f} /\ new.skew = x.skew
      /\ new.rows = [x.rows EXCEPT ![f] = rows]
  BY <1>1, <1>4 DEF Build
<1> HIDE DEF new
<1>7. \A g \in Files : new.rows[g] = IF g = f THEN rows ELSE x.rows[g]
  BY <1>1, <1>6
<1>8. x.hash[f] = None /\ x.sha = None
  BY <1>1 DEF BuildSound
<1>9. BuildSound(new)
  <2>1. \A g \in Files :
          \/ new.hash[g] = None
          \/ \E row \in new.rows[g] : row.v = new.hash[g]
          \/ g \in new.skew
    BY <1>1, <1>6, <1>7, <1>8 DEF BuildSound
  <2>2. \A g \in Files : \A row \in new.rows[g] :
          Had(x.repo, g, row.v) /\ Covers(x.repo, None, g, row.v)
    BY <1>1, <1>3, <1>4, <1>7, <1>8 DEF BuildSound, Covers
  <2> QED BY <1>1, <1>6, <1>8, <2>1, <2>2 DEF BuildSound
<1> QED BY <1>1, <1>5, <1>6, <1>9, BuildOnly DEF Typed

LEMMA HashFileStep ==
  ASSUME Typed, Sound, NEW b \in Builds, NEW f \in Files, HashFile(b, f)
  PROVE  Typed' /\ Sound'
<1> DEFINE x == build[b]
           v == Latest(x.repo)[f]
           same == \E row \in x.rows[f] : row.v = v
           skew == IF same THEN x.skew ELSE x.skew \cup {f}
           new == [x EXCEPT !.unhashed = @ \ {f}, !.hash[f] = v, !.skew = skew]
<1>1. /\ x.at = "read" /\ f \in x.unhashed /\ x \in Build /\ BuildSound(x)
      /\ x.repo \in Repos /\ x.hash \in [Files -> Nat]
      /\ UNCHANGED <<commits, store, server, flag, call, calls, builds, skewed>>
  BY BuildFields DEF HashFile
<1>2. v \in Nat
  BY <1>1, CommitFields DEF Sound
<1>3. build' = [build EXCEPT ![b] = new]
  BY <1>1 DEF HashFile, Typed
<1>4. skew \subseteq Files /\ x.skew \subseteq skew /\ (same \/ f \in skew)
  BY <1>1 DEF Build
<1> HIDE DEF v, skew
<1>5. /\ new \in Build /\ new.at = "read" /\ new.kind = x.kind /\ new.repo = x.repo
      /\ new.sha = x.sha /\ new.left = x.left /\ new.rows = x.rows
      /\ new.unhashed = x.unhashed \ {f} /\ new.skew = skew
      /\ new.hash = [x.hash EXCEPT ![f] = v]
  BY <1>1, <1>2, <1>4 DEF Build
<1> HIDE DEF new
<1>6. \A g \in Files : new.hash[g] = IF g = f THEN v ELSE x.hash[g]
  BY <1>1, <1>5
<1>7. BuildSound(new)
  <2>1. \A g \in Files :
          \/ new.hash[g] = None
          \/ \E row \in new.rows[g] : row.v = new.hash[g]
          \/ g \in new.skew
    BY <1>1, <1>4, <1>5, <1>6 DEF BuildSound
  <2>2. \A g \in Files : g \in new.left => new.hash[g] = None
    BY <1>1, <1>5, <1>6 DEF BuildSound
  <2> QED BY <1>1, <1>5, <2>1, <2>2 DEF BuildSound
<1> QED BY <1>1, <1>3, <1>5, <1>7, BuildOnly DEF Typed

LEMMA RunExtractionStep ==
  ASSUME Typed, Sound, NEW b \in Builds, RunExtraction(b)
  PROVE  Typed' /\ Sound'
<1> DEFINE x == build[b]
           r == x.repo
           from == IF Exists(r) THEN dbs[path[r]].sha ELSE None
           listed == {f \in Files : Latest(r)[f] # None}
           at == IF from = None THEN "label" ELSE "diff"
           kind == IF from = None THEN "full" ELSE "incremental"
           left == IF from = None THEN listed ELSE {}
           new == [x EXCEPT !.at = at, !.kind = kind, !.left = left, !.from = from]
<1>1. /\ x.at = "start" /\ x \in Build /\ BuildSound(x) /\ r \in Repos
      /\ UNCHANGED <<commits, store, server, flag, call, calls, builds, skewed>>
  BY BuildFields DEF RunExtraction
<1>2. from \in Nat /\ (from # None => from \in DOMAIN commits[r])
  <2>1. CASE Exists(r)
    <3>1. path[r] \in DOMAIN dbs /\ dbs[path[r]].repo = r
      BY <1>1, <2>1 DEF Typed, Sound, Located, Exists, None
    <3>2. dbs[path[r]] \in Db /\ DbSound(path[r])
      BY <3>1, DbFields DEF Sound
    <3>3. from \in Nat /\ from <= Len(commits[r])
      BY <2>1, <3>1, <3>2 DEF Db, DbSound
    <3> QED BY <1>1, <3>3, CommitFields DEF Sound, None
  <2>2. CASE ~Exists(r)
    BY <2>2 DEF None
  <2> QED BY <2>1, <2>2
<1>3. build' = [build EXCEPT ![b] = new]
  BY <1>1 DEF RunExtraction, Typed
<1>4. left \subseteq Files
  OBVIOUS
<1> HIDE DEF from, left
<1>5. /\ new \in Build /\ new.at = at /\ new.kind = kind /\ new.repo = r
      /\ new.sha = x.sha /\ new.left = left /\ new.rows = x.rows /\ new.hash = x.hash
      /\ new.unhashed = x.unhashed /\ new.skew = x.skew /\ new.from = from
  BY <1>1, <1>2, <1>4 DEF Build
<1> HIDE DEF new
<1>6. BuildSound(new)
  BY <1>1, <1>2, <1>5 DEF BuildSound, NoHash
<1> QED BY <1>1, <1>3, <1>5, <1>6, BuildOnly DEF Typed

LEMMA LabelStep ==
  ASSUME Typed, Sound, NEW b \in Builds, Label(b)
  PROVE  Typed' /\ Sound'
<1> DEFINE x == build[b]
<1>1. /\ x.at = "label" /\ x \in Build /\ BuildSound(x) /\ x.repo \in Repos
      /\ UNCHANGED <<commits, store, server, flag, call, calls, builds, skewed>>
  BY BuildFields DEF Label
<1>2. PICK sha \in {None, Len(commits[x.repo])} :
        build' = [build EXCEPT ![b].at = "read", ![b].sha = sha]
  BY DEF Label
<1>3. sha \in Nat /\ sha <= Len(commits[x.repo])
  BY <1>1, CommitFields DEF Sound, None
<1> DEFINE new == [x EXCEPT !.at = "read", !.sha = sha]
<1>4. build' = [build EXCEPT ![b] = new]
  BY <1>1, <1>2 DEF Typed
<1>5. /\ new \in Build /\ new.at = "read" /\ new.kind = x.kind /\ new.repo = x.repo
      /\ new.sha = sha /\ new.left = x.left /\ new.rows = x.rows /\ new.hash = x.hash
      /\ new.unhashed = x.unhashed /\ new.skew = x.skew
  BY <1>1, <1>3 DEF Build
<1> HIDE DEF new
<1>6. x.kind = "full" /\ x.unhashed = {} /\ \A f \in Files : x.hash[f] = None /\ x.rows[f] = {}
  BY <1>1 DEF BuildSound, NoRows, NoHash
<1>7. BuildSound(new)
  BY <1>3, <1>5, <1>6 DEF BuildSound
<1> QED BY <1>1, <1>4, <1>5, <1>7, BuildOnly DEF Typed

LEMMA DiffCommitsStep ==
  ASSUME Typed, Sound, NEW b \in Builds, DiffCommits(b)
  PROVE  Typed' /\ Sound'
<1> DEFINE x == build[b]
           r == x.repo
           to == Len(commits[r])
           changed == {f \in Files : commits[r][x.from][f] # commits[r][to][f]}
           new == [x EXCEPT !.at = "read", !.sha = to, !.left = changed]
<1>1. /\ x.at = "diff" /\ x \in Build /\ BuildSound(x) /\ x.repo \in Repos
      /\ UNCHANGED <<commits, store, server, call, calls, builds, skewed>>
  BY BuildFields DEF DiffCommits
<1>2. CASE Over(b)
  BY <1>1, <1>2, OverStep
<1>3. CASE /\ build' = [build EXCEPT ![b].at = "read", ![b].sha = to, ![b].left = changed]
           /\ UNCHANGED flag
  <2>1. to \in Nat \ {0} /\ changed \subseteq Files
    BY <1>1, CommitFields DEF Sound
  <2>2. build' = [build EXCEPT ![b] = new]
    BY <1>1, <1>3 DEF Typed
  <2> HIDE DEF to, changed
  <2>3. /\ new \in Build /\ new.at = "read" /\ new.kind = x.kind /\ new.repo = r
        /\ new.sha = to /\ new.left = changed /\ new.rows = x.rows /\ new.hash = x.hash
        /\ new.unhashed = x.unhashed /\ new.skew = x.skew
    BY <1>1, <2>1 DEF Build
  <2> HIDE DEF new
  <2>4. /\ x.kind # "cli" /\ x.unhashed = {}
        /\ \A f \in Files : x.hash[f] = None /\ x.rows[f] = {}
    BY <1>1 DEF BuildSound, NoRows, NoHash
  <2>5. to <= Len(commits[r]) /\ to # None
    BY <2>1 DEF to, None
  <2>6. BuildSound(new)
    BY <2>3, <2>4, <2>5 DEF BuildSound
  <2> QED BY <1>1, <1>3, <2>2, <2>3, <2>6, BuildOnly DEF Typed
<1> QED BY <1>2, <1>3 DEF DiffCommits

LEMMA ReadRemoteStep ==
  ASSUME Typed, Sound, NEW b \in Builds, NEW f \in Files, ReadRemote(b, f)
  PROVE  Typed' /\ Sound'
<1> DEFINE x == build[b]
           r == x.repo
           at == IF x.kind = "incremental" THEN x.sha ELSE Len(commits[r])
           v == commits[r][at][f]
           rows == {[v |-> v, by |-> "tree"]}
           new == [x EXCEPT !.left = @ \ {f}, !.hash[f] = v, !.rows[f] = rows]
           skipped == [x EXCEPT !.left = @ \ {f}]
<1>1. /\ x.at = "read" /\ x.kind \in {"full", "incremental"} /\ f \in x.left
      /\ x \in Build /\ BuildSound(x) /\ r \in Repos /\ x.sha \in Nat
      /\ x.rows \in [Files -> SUBSET Row] /\ x.hash \in [Files -> Nat]
      /\ UNCHANGED <<commits, store, server, flag, call, calls, builds, skewed>>
  BY BuildFields DEF ReadRemote
<1>2. CASE build' = [build EXCEPT ![b].left = @ \ {f}]
  <2>1. build' = [build EXCEPT ![b] = skipped]
    BY <1>1, <1>2 DEF Typed
  <2>2. /\ skipped \in Build /\ skipped.at = x.at /\ skipped.kind = x.kind
        /\ skipped.repo = r /\ skipped.sha = x.sha /\ skipped.left = x.left \ {f}
        /\ skipped.rows = x.rows /\ skipped.hash = x.hash
        /\ skipped.unhashed = x.unhashed /\ skipped.skew = x.skew
    BY <1>1 DEF Build
  <2> HIDE DEF skipped
  <2>3. BuildSound(skipped)
    BY <1>1, <2>2 DEF BuildSound
  <2> QED BY <1>1, <2>1, <2>2, <2>3, BuildOnly DEF Typed
<1>3. CASE /\ v # None
           /\ build' = [build EXCEPT ![b].left = @ \ {f}, ![b].hash[f] = v,
                                     ![b].rows[f] = {[v |-> v, by |-> "tree"]}]
  <2>1. x.sha <= Len(commits[r]) /\ (x.kind = "incremental" => x.sha # None)
    BY <1>1 DEF BuildSound
  <2>2. at \in DOMAIN commits[r] /\ v \in Nat
    <3>1. at \in DOMAIN commits[r]
      BY <1>1, <2>1, CommitFields DEF Sound, None
    <3> QED BY <1>1, <3>1, CommitFields DEF Sound
  <2>3. Had(r, f, v)
    BY <2>2 DEF Had
  <2>4. Covers(r, x.sha, f, v)
    <3>1. CASE x.kind = "incremental"
      BY <2>2, <3>1 DEF Covers
    <3>2. CASE x.kind # "incremental"
      <4>1. v = Latest(r)[f]
        BY <3>2 DEF Latest
      <4> QED BY <1>1, <1>3, <2>1, <4>1, CoversLatest DEF Sound
    <3> QED BY <3>1, <3>2
  <2>5. build' = [build EXCEPT ![b] = new]
    BY ZenonT(80), <1>1, <1>3 DEF Typed
  <2>6. rows \in SUBSET Row /\ \A row \in rows : row.v = v
    BY <2>2 DEF Row
  <2>7. \E row \in rows : row.v = v
    OBVIOUS
  <2> HIDE DEF at, v, rows
  <2>8. /\ new \in Build /\ new.at = x.at /\ new.kind = x.kind
        /\ new.repo = r /\ new.sha = x.sha /\ new.left = x.left \ {f}
        /\ new.rows = [x.rows EXCEPT ![f] = rows] /\ new.hash = [x.hash EXCEPT ![f] = v]
        /\ new.unhashed = x.unhashed /\ new.skew = x.skew
    BY <1>1, <2>2, <2>6 DEF Build
  <2> HIDE DEF new
  <2>9. /\ \A g \in Files : new.rows[g] = IF g = f THEN rows ELSE x.rows[g]
        /\ \A g \in Files : new.hash[g] = IF g = f THEN v ELSE x.hash[g]
    <3>1. /\ x.rows \in [Files -> SUBSET Row] /\ x.hash \in [Files -> Nat]
          /\ new.rows = [x.rows EXCEPT ![f] = rows] /\ new.hash = [x.hash EXCEPT ![f] = v]
      BY <1>1, <2>8
    <3>2. \A g \in Files : new.rows[g] = IF g = f THEN rows ELSE x.rows[g]
      BY <3>1
    <3>3. \A g \in Files : new.hash[g] = IF g = f THEN v ELSE x.hash[g]
      BY <3>1
    <3> QED BY <3>2, <3>3
  <2>10. \A g \in Files :
           /\ g \in new.left => new.hash[g] = None
           /\ \/ new.hash[g] = None
              \/ \E row \in new.rows[g] : row.v = new.hash[g]
              \/ g \in new.skew
           /\ \A row \in new.rows[g] : Had(r, g, row.v) /\ Covers(r, x.sha, g, row.v)
    <3> TAKE g \in Files
    <3>1. CASE g = f
      <4>1. new.rows[g] = rows /\ new.hash[g] = v /\ g \notin new.left
        BY <2>8, <2>9, <3>1
      <4> QED BY <2>3, <2>4, <2>6, <2>7, <3>1, <4>1
    <3>2. CASE g # f
      BY <1>1, <2>8, <2>9, <3>2 DEF BuildSound
    <3> QED BY <3>1, <3>2
  <2>11. BuildSound(new)
    BY <1>1, <2>8, <2>10 DEF BuildSound
  <2> QED BY <1>1, <2>5, <2>8, <2>11, BuildOnly DEF Typed
<1> QED BY <1>2, <1>3 DEF ReadRemote

\* A new database takes the place of the repository's: what backs its hashes is what
\* its build extracted, or it is skewed.
LEMMA PublishStep ==
  ASSUME Typed, Sound, NEW b \in Builds, Publish(b)
  PROVE  Typed' /\ Sound'
<1> PICK x \in Build : x = build[b] /\ BuildSound(x) /\ x.at = "read"
  BY BuildFields DEF Publish
<1> PICK n \in Nat : n = Len(dbs) + 1
  BY DEF Typed
<1> DEFINE db == Database(x.repo, x.rows, x.hash, x.sha)
<1>1. /\ x \in Build /\ BuildSound(x) /\ x.at = "read" /\ x.repo \in Repos /\ x.sha \in Nat
      /\ x.rows \in [Files -> SUBSET Row] /\ x.hash \in [Files -> Nat]
      /\ UNCHANGED <<commits, server, call, calls, builds>>
      /\ path' = [path EXCEPT ![x.repo] = n]
      /\ clock' = clock + 1 /\ written' = Append(written, clock + 1)
      /\ skewed' = skewed \cup {<<n, f>> : f \in x.skew}
      /\ dbs' = Append(dbs, db) /\ Over(b)
  BY BuildFields DEF Publish
<1>2. /\ db \in Db /\ db.repo = x.repo /\ db.rows = x.rows /\ db.hash = x.hash
      /\ db.sha = x.sha
  BY <1>1 DEF Database, Db
<1> HIDE DEF db
<1>3. dbs \in Seq(Db) /\ Len(dbs) \in Nat /\ DOMAIN dbs = 1 .. Len(dbs)
  BY DEF Typed
<1>4. /\ dbs' \in Seq(Db) /\ Len(dbs') = n /\ DOMAIN dbs' = 1 .. n /\ dbs'[n] = db
      /\ \A i \in DOMAIN dbs : i \in DOMAIN dbs' /\ dbs'[i] = dbs[i]
  BY <1>1, <1>2, <1>3
<1>5. Grows
  <2>1. \A r \in Repos : Exists(r) => Exists(r)'
    BY <1>1, <1>3 DEF Exists, None, Typed
  <2>2. ASSUME NEW i \in DOMAIN dbs, NEW f \in Files, NEW v \in Nat, Backed(i, f, v)
        PROVE  Backed(i, f, v)'
    BY <1>1, <1>4, <2>2 DEF Backed
  <2> QED BY <1>1, <1>4, <2>1, <2>2 DEF Grows
<1>6. DbSound(n)'
  <2>1. /\ dbs'[n].repo = x.repo /\ dbs'[n].rows = x.rows /\ dbs'[n].hash = x.hash
        /\ dbs'[n].sha = x.sha
    BY <1>2, <1>4
  <2>2. x.sha <= Len(commits'[x.repo])
    BY <1>1 DEF BuildSound
  <2>3. ASSUME NEW f \in Files
        PROVE  Backed(n, f, x.hash[f])'
    <3>1. \/ x.hash[f] = None
          \/ \E row \in x.rows[f] : row.v = x.hash[f]
          \/ f \in x.skew
      BY <1>1 DEF BuildSound
    <3>2. ASSUME NEW row \in x.rows[f], row.v = x.hash[f]
          PROVE  row.v >= x.hash[f]
      BY <1>1, <3>2 DEF Row
    <3> QED BY <1>1, <2>1, <3>1, <3>2 DEF Backed
  <2>4. \A f \in Files : \A row \in x.rows[f] :
          Had(x.repo, f, row.v)' /\ Covers(x.repo, x.sha, f, row.v)'
    BY <1>1 DEF BuildSound, Had, Covers
  <2> QED BY <2>1, <2>2, <2>3, <2>4 DEF DbSound, Backed, Had, Covers
<1>7. \A i \in DOMAIN dbs' : DbSound(i)'
  <2>1. \A i \in DOMAIN dbs : DbSound(i)'
    BY <1>1, <1>4, <1>5, DbKept DEF Typed
  <2>2. \A i \in DOMAIN dbs' : i \in DOMAIN dbs \/ i = n
    BY <1>3, <1>4
  <2> QED BY <1>6, <2>1, <2>2
<1>8. /\ build' \in [Builds -> {Idle} \cup Build]
      /\ \A d \in Builds : BuildSound(build[d])'
  <2>1. BuildSound(Idle)'
    BY DEF BuildSound, Idle
  <2> QED BY <1>1, <1>5, <2>1, BuildMoves DEF Over, Typed
<1>9. \A q \in Repos : CheckSound(q, checks[q])'
  BY <1>1, <1>5, ChecksKept DEF server
<1>10. /\ call' \in [Calls -> {Idle} \cup Call]
       /\ \A c \in Calls : CallSound(call[c])'
  BY <1>1, <1>5, CallsSame
<1>11. path' \in [Repos -> 0 .. Len(dbs')]
  BY <1>1, <1>3, <1>4 DEF Typed
<1>12. Located' /\ PoolSound' /\ CommitsGrow'
  <2>1. ASSUME NEW r \in Repos, path'[r] # None
        PROVE  dbs'[path'[r]].repo = r
    <3>1. CASE r = x.repo
      BY <1>1, <1>2, <1>4, <3>1 DEF Typed
    <3>2. CASE r # x.repo
      <4>1. path'[r] = path[r] /\ path[r] \in DOMAIN dbs /\ dbs[path[r]].repo = r
        BY <1>1, <1>3, <2>1, <3>2 DEF Typed, Sound, Located, Exists, None
      <4> QED BY <1>4, <4>1
    <3> QED BY <3>1, <3>2
  <2>2. \A r \in index' : Exists(r)'
    BY <1>1, <1>5 DEF server, Typed, Sound, Located, Grows
  <2>3. PoolSound'
    BY <1>1, <1>4 DEF server, Typed, Sound, PoolSound, Of
  <2> QED BY <1>1, <2>1, <2>2, <2>3 DEF Located, Exists, Sound, CommitsGrow
<1>13. clock' \in Nat /\ written' \in Seq(1 .. clock') /\ Len(written') = Len(dbs')
  <2>1. written \in Seq(1 .. clock) /\ clock \in Nat /\ Len(written) = Len(dbs)
    BY DEF Typed
  <2>2. written \in Seq(1 .. clock + 1) /\ clock + 1 \in 1 .. clock + 1
    BY <2>1
  <2> QED BY <1>1, <1>4, <2>1, <2>2
<1>14. Typed'
  BY <1>1, <1>4, <1>8, <1>10, <1>11, <1>13 DEF Typed, Over, server
<1> QED BY <1>7, <1>8, <1>9, <1>10, <1>12, <1>14 DEF Sound

LEMMA BuildFailsStep ==
  ASSUME Typed, Sound, NEW b \in Builds, BuildFails(b)
  PROVE  Typed' /\ Sound'
BY OverStep DEF BuildFails

-----------------------------------------------------------------------------
\* Steps of the repositories, and of time

LEMMA CommitStep ==
  ASSUME Typed, Sound, NEW r \in Repos, NEW f \in Files, Commit(r, f)
  PROVE  Typed' /\ Sound'
<1> PICK n \in Nat \ {0}, old \in [Files -> Nat] : n = Len(commits[r]) /\ old = Latest(r)
  BY CommitFields DEF Sound
<1> PICK v \in {None, n + 1} :
      /\ v # old[f]
      /\ commits' = [commits EXCEPT ![r] = Append(@, [Latest(r) EXCEPT ![f] = v])]
  BY DEF Commit
<1>0. v \in Nat /\ v <= n + 1 /\ (v = None \/ v = n + 1)
  BY DEF None
<1> PICK new \in [Files -> Nat] : new = [old EXCEPT ![f] = v]
  BY <1>0
<1>1. /\ commits \in [Repos -> Seq([Files -> Nat])] /\ CommitsGrow
      /\ commits[r] \in Seq([Files -> Nat]) /\ DOMAIN commits[r] = 1 .. n
      /\ commits[r][n] = old
      /\ UNCHANGED <<store, server, flag, call, build, calls, builds, skewed>>
  BY CommitFields DEF Typed, Sound, Commit, Latest
<1>2. commits' = [commits EXCEPT ![r] = Append(commits[r], new)]
  BY <1>1
<1>3. /\ commits' \in [Repos -> Seq([Files -> Nat])]
      /\ \A q \in Repos : q # r => commits'[q] = commits[q]
      /\ commits'[r] = Append(commits[r], new)
  BY <1>1, <1>2
<1>4. /\ DOMAIN commits'[r] = 1 .. n + 1 /\ commits'[r][n + 1] = new
      /\ \A j \in 1 .. n : commits'[r][j] = commits[r][j]
      /\ commits'[r] # <<>>
  BY <1>1, <1>3
<1>5. Grows
  BY <1>1, <1>3, <1>4 DEF Grows, Exists, Backed, store
<1>6. CommitsGrow'
  <2>1. ASSUME NEW k \in 1 .. n + 1, NEW g \in Files
        PROVE  /\ commits'[r][k][g] <= k
               /\ \A j \in 1 .. k : \/ commits'[r][k][g] = None
                                    \/ commits'[r][j][g] <= commits'[r][k][g]
    <3>1. CASE k \in 1 .. n
      <4>1. k \in DOMAIN commits[r] /\ commits'[r][k] = commits[r][k]
        BY <1>1, <1>4, <3>1
      <4>2. \A j \in 1 .. k : commits'[r][j] = commits[r][j]
        BY <1>4, <3>1
      <4> QED BY <1>1, <4>1, <4>2 DEF CommitsGrow
    <3>2. CASE k = n + 1
      <4>1. new[g] = IF g = f THEN v ELSE old[g]
        OBVIOUS
      <4>2. n \in DOMAIN commits[r] /\ n \in 1 .. n
        BY <1>1
      <4>3. /\ old[g] <= n
            /\ \A j \in 1 .. n : old[g] = None \/ commits[r][j][g] <= old[g]
        BY <1>1, <4>2 DEF CommitsGrow
      <4>4. \A j \in 1 .. n : commits[r][j][g] <= j /\ commits[r][j][g] \in Nat
        <5> TAKE j \in 1 .. n
        <5>1. j \in DOMAIN commits[r] /\ commits[r][j] \in [Files -> Nat]
          BY <1>1, CommitFields
        <5> QED BY <1>1, <5>1 DEF CommitsGrow
      <4>5. new[g] <= n + 1 /\ new[g] \in Nat
        BY <1>0, <4>1, <4>3
      <4>6. ASSUME NEW j \in 1 .. n
            PROVE  new[g] = None \/ commits[r][j][g] <= new[g]
        BY <1>0, <4>1, <4>3, <4>4
      <4> QED BY <1>4, <3>2, <4>5, <4>6
    <3> QED BY <3>1, <3>2
  <2> QED BY <1>1, <1>3, <1>4, <2>1 DEF CommitsGrow
<1>7. \A i \in DOMAIN dbs' : DbSound(i)'
  BY <1>1, <1>3, <1>5, DbKept DEF store, Typed
<1>8. /\ \A q \in Repos : CheckSound(q, checks[q])'
      /\ \A c \in Calls : CallSound(call[c])'
      /\ \A b \in Builds : BuildSound(build[b])'
  <2>1. \A c \in Calls : CallSound(call[c])'
    BY <1>1, <1>5, CallsSame
  <2>2. \A q \in Repos : CheckSound(q, checks[q])'
    BY <1>1, <1>5, ChecksKept DEF server
  <2>3. \A b \in Builds : BuildSound(build[b])'
    BY <1>1, <1>3, <1>5, BuildKept DEF Typed, Sound
  <2> QED BY <2>1, <2>2, <2>3
<1>9. PoolSound' /\ Located'
  BY <1>1 DEF Sound, PoolSound, Located, Of, Exists, store, server
<1>10. Typed'
  BY <1>1, <1>3 DEF Typed, store, server
<1> QED BY <1>6, <1>7, <1>8, <1>9, <1>10 DEF Sound

LEMMA CheckExpiresStep ==
  ASSUME Typed, Sound, NEW r \in Repos, CheckExpires(r)
  PROVE  Typed' /\ Sound'
<1> PICK x \in Check : x = checks[r]
  BY DEF CheckExpires, Cached, Typed, Idle
<1>1. /\ CheckSound(r, x) /\ checks' = [checks EXCEPT ![r].fresh = FALSE]
      /\ UNCHANGED <<commits, store, pool, index, recent, flag, call, build, calls,
                     builds, skewed>>
  BY DEF CheckExpires, Sound
<1> DEFINE y == [x EXCEPT !.fresh = FALSE]
<1>2. checks' = [checks EXCEPT ![r] = y]
  BY <1>1 DEF Typed
<1>3. y \in Check /\ y.db = x.db /\ y.asof = x.asof /\ y.stale = x.stale /\ y.at = x.at
  BY DEF Check
<1> HIDE DEF y
<1>4. CheckSound(r, y)
  BY <1>1, <1>3 DEF CheckSound
<1>5. Grows
  BY <1>1, StoreSame DEF store
<1>6. /\ checks' \in [Repos -> {Idle} \cup Check]
      /\ \A q \in Repos : CheckSound(q, checks[q])'
  BY <1>2, <1>3, <1>4, <1>5, ChecksTurn
<1>7. \A c \in Calls : CallSound(call[c])'
  BY <1>1, <1>5, CallsSame
<1>8. \A b \in Builds : BuildSound(build[b])'
  BY <1>1, <1>5, BuildKept DEF Typed, Sound
<1>9. \A i \in DOMAIN dbs' : DbSound(i)'
  BY <1>1, <1>5, DbKept DEF store, Typed
<1>10. PoolSound' /\ Located' /\ CommitsGrow'
  BY <1>1 DEF Sound, PoolSound, Located, Of, Exists, store, CommitsGrow
<1>11. Typed'
  BY <1>1, <1>6 DEF Typed, store
<1> QED BY <1>6, <1>7, <1>8, <1>9, <1>10, <1>11 DEF Sound

\* A step that leaves everything the invariant speaks of.
LEMMA StillStep ==
  ASSUME Typed, Sound, recent' \subseteq Files,
         UNCHANGED <<commits, store, pool, index, checks, flag, call, build, calls,
                     builds, skewed>>
  PROVE  Typed' /\ Sound'
<1>1. Grows
  BY StoreSame DEF store
<1>2. PoolSound' /\ pool' \in Seq(Conn)
  BY DEF Sound, PoolSound, Of, store, Typed
<1> QED BY <1>1, <1>2, CallsSame, QuietKept DEF Typed

LEMMA NextStep ==
  ASSUME Typed, Sound, [Next]_vars
  PROVE  Typed' /\ Sound'
<1>1. CASE UNCHANGED vars
  BY <1>1, StillStep DEF vars, server, Typed
<1>2. ASSUME NEW r \in Repos, NEW f \in Files, Commit(r, f)
      PROVE  Typed' /\ Sound'
  BY <1>2, CommitStep
<1>3. ASSUME NEW c \in Calls, ListRepos(c) \/ SearchSymbols(c) \/ Cancel(c)
      PROVE  Typed' /\ Sound'
  BY <1>3, ListStep, EndStep
<1>4. ASSUME NEW c \in Calls, CallStep(c)
      PROVE  Typed' /\ Sound'
  <2>1. ASSUME NEW f \in Files, CheckFile(c, f) \/ SkipRecent(c, f) \/ ReadStale(c, f)
        PROVE  Typed' /\ Sound'
    BY <2>1, CheckFileStep, LeaveStep, ReadStaleStep
  <2>2. ASSUME NEW b \in Builds, Queue(c, b)
        PROVE  Typed' /\ Sound'
    BY <2>2, QueueStep
  <2>3. CASE OpenCached(c) \/ OpenFile(c) \/ StatFile(c) \/ Visit(c)
    BY <2>3, OpenCachedStep, OpenFileStep, StatFileStep, VisitStep
  <2>4. CASE CheckNothing(c) \/ CheckCached(c) \/ CheckQuery(c)
    BY <2>4, CheckNothingStep, CheckCachedStep, CheckQueryStep
  <2>5. CASE ExtractStale(c) \/ RefreshFails(c) \/ StoreStale(c)
    BY <2>5, ExtractStaleStep, LeaveStep, StoreStaleStep
  <2>6. CASE Render(c) \/ CompareCommits(c)
    BY <2>6, EndStep, CompareCommitsStep
  <2> QED BY <1>4, <2>1, <2>2, <2>3, <2>4, <2>5, <2>6 DEF CallStep
<1>5. ASSUME NEW c \in Calls, NEW r \in Repos,
             \/ RequestExtraction(c, r)
             \/ \E kind \in {"describe", "packages"} : PackageCall(c, r, kind)
      PROVE  Typed' /\ Sound'
  BY <1>5, RequestStep, PackageStep
<1>6. ASSUME NEW b \in Builds, BuildStep(b)
      PROVE  Typed' /\ Sound'
  <2>1. ASSUME NEW f \in Files, ExtractFile(b, f) \/ HashFile(b, f) \/ ReadRemote(b, f)
        PROVE  Typed' /\ Sound'
    BY <2>1, ExtractFileStep, HashFileStep, ReadRemoteStep
  <2>2. CASE RunExtraction(b) \/ Label(b) \/ DiffCommits(b)
    BY <2>2, RunExtractionStep, LabelStep, DiffCommitsStep
  <2>3. CASE Publish(b) \/ BuildFails(b)
    BY <2>3, PublishStep, BuildFailsStep
  <2> QED BY <1>6, <2>1, <2>2, <2>3 DEF BuildStep
<1>7. ASSUME NEW b \in Builds, NEW r \in Repos, Extract(b, r)
      PROVE  Typed' /\ Sound'
  BY <1>7, ExtractStep
<1>8. ASSUME NEW r \in Repos, CheckExpires(r)
      PROVE  Typed' /\ Sound'
  BY <1>8, CheckExpiresStep
<1>9. ASSUME NEW f \in Files, DebounceEnds(f)
      PROVE  Typed' /\ Sound'
  BY <1>9, StillStep DEF DebounceEnds, Typed
<1> QED BY <1>1, <1>2, <1>3, <1>4, <1>5, <1>6, <1>7, <1>8, <1>9 DEF Next

-----------------------------------------------------------------------------
\* The initial states

\* The databases of the repositories are numbered, each once.
LEMMA Numbered ==
  ASSUME ServingAssumption, NEW indexed \in SUBSET Repos
  PROVE  /\ SetToSeq(indexed) \in Seq(indexed)
         /\ \A r \in indexed : \E i \in DOMAIN SetToSeq(indexed) :
              SetToSeq(indexed)[i] = r
<1> DEFINE n == Cardinality(indexed)
           order == SetToSeq(indexed)
<1>1. IsFiniteSet(indexed)
  BY FS_Subset DEF ServingAssumption
<1>2. n \in Nat /\ ExistsBijection(1 .. n, indexed)
  BY <1>1, FS_CardinalityType
<1>3. \E f \in [1 .. n -> indexed] : IsInjective(f)
  BY <1>2 DEF ExistsBijection, Bijection, Injection
<1>4. order \in [1 .. n -> indexed] /\ IsInjective(order)
  BY <1>3 DEF SetToSeq
<1> HIDE DEF order
<1>5. order \in Injection(1 .. n, indexed)
  BY <1>4 DEF Injection
<1>6. Cardinality(1 .. n) = n
  BY <1>2, FS_Interval
<1>7. order \in Surjection(1 .. n, indexed)
  BY <1>1, <1>5, <1>6, FS_Injection
<1> QED BY <1>2, <1>4, <1>7 DEF Surjection, order

LEMMA InitSound ==
  ASSUME ServingAssumption, Init
  PROVE  Typed /\ Sound
<1> DEFINE Rows == [f \in Files |-> {Built(f, 1)}]
           Hash == [f \in Files |-> 1]
           New(r) == Database(r, Rows, Hash, IF r \in Rooted THEN None ELSE 1)
<1> PICK indexed \in SUBSET Repos :
      LET order == SetToSeq(indexed)
      IN /\ dbs = [i \in 1 .. Len(order) |-> New(order[i])]
         /\ path = [r \in Repos |->
                      IF r \in indexed THEN CHOOSE i \in DOMAIN order : order[i] = r
                      ELSE None]
         /\ written = [i \in 1 .. Len(order) |-> 1]
         /\ index = indexed
  BY DEF Init
<1> PICK order \in Seq(indexed) :
      /\ \A r \in indexed : \E i \in DOMAIN order : order[i] = r
      /\ dbs = [i \in 1 .. Len(order) |-> New(order[i])]
      /\ path = [r \in Repos |->
                   IF r \in indexed THEN CHOOSE i \in DOMAIN order : order[i] = r
                   ELSE None]
      /\ written = [i \in 1 .. Len(order) |-> 1]
  BY Numbered
<1>1. /\ commits = [r \in Repos |-> <<Hash>>] /\ clock = 1 /\ pool = <<>>
      /\ checks = [r \in Repos |-> Idle] /\ recent = {} /\ flag = {}
      /\ call = [c \in Calls |-> Idle] /\ build = [b \in Builds |-> Idle]
      /\ calls = 0 /\ builds = 0 /\ skewed = {}
  BY DEF Init
<1>2. Len(order) \in Nat /\ DOMAIN order = 1 .. Len(order)
      /\ \A i \in 1 .. Len(order) : order[i] \in Repos
  OBVIOUS
<1>3. ASSUME NEW f \in Files
      PROVE  /\ Rows[f] = {Built(f, 1)} /\ Built(f, 1) \in Row /\ Built(f, 1).v = 1
             /\ Hash[f] = 1
  BY DEF Built, Row
<1>4. Rows \in [Files -> SUBSET Row] /\ Hash \in [Files -> Nat]
  BY <1>3
<1> HIDE DEF Rows, Hash
<1>5. ASSUME NEW r \in Repos
      PROVE  /\ New(r) \in Db /\ New(r).repo = r /\ New(r).rows = Rows
             /\ New(r).hash = Hash /\ New(r).sha \in {None, 1}
  BY <1>4 DEF Database, Db, None
<1> HIDE DEF New
<1>6. /\ dbs \in Seq(Db) /\ Len(dbs) = Len(order) /\ DOMAIN dbs = 1 .. Len(order)
      /\ \A i \in DOMAIN dbs : dbs[i] = New(order[i])
  BY <1>2, <1>5
<1>7. \A r \in indexed : path[r] \in DOMAIN dbs /\ dbs[path[r]].repo = r
  <2> TAKE r \in indexed
  <2>1. path[r] \in DOMAIN order /\ order[path[r]] = r
    OBVIOUS
  <2> QED BY <1>2, <1>5, <1>6, <2>1
<1>8. \A r \in Repos : r \notin indexed => path[r] = None
  OBVIOUS
<1>9. ASSUME NEW r \in Repos
      PROVE  /\ commits[r] = <<Hash>> /\ Len(commits[r]) = 1 /\ DOMAIN commits[r] = {1}
             /\ commits[r][1] = Hash /\ commits[r] \in Seq([Files -> Nat])
  BY <1>1, <1>4
<1>10. CommitsGrow
  BY <1>3, <1>9 DEF CommitsGrow
<1>11. \A i \in DOMAIN dbs : DbSound(i)
  <2> TAKE i \in DOMAIN dbs
  <2>1. /\ order[i] \in Repos /\ dbs[i].repo = order[i] /\ dbs[i].rows = Rows
        /\ dbs[i].hash = Hash /\ dbs[i].sha \in {None, 1}
    BY <1>2, <1>5, <1>6
  <2>2. dbs[i].sha <= Len(commits[order[i]])
    BY <1>9, <2>1 DEF None
  <2>3. ASSUME NEW f \in Files
        PROVE  /\ Backed(i, f, 1)
               /\ Had(order[i], f, 1) /\ Covers(order[i], dbs[i].sha, f, 1)
    <3>1. Built(f, 1) \in dbs[i].rows[f] /\ Built(f, 1).v >= 1
      BY <1>3, <2>1
    <3>2. 1 \in DOMAIN commits[order[i]] /\ commits[order[i]][1][f] = 1
      BY <1>3, <1>9, <2>1
    <3>3. Backed(i, f, 1)
      BY <3>1 DEF Backed
    <3>4. Had(order[i], f, 1)
      BY <3>2 DEF Had
    <3>5. Covers(order[i], dbs[i].sha, f, 1)
      BY <2>1, <3>2 DEF Covers
    <3> QED BY <3>3, <3>4, <3>5
  <2> QED BY <1>3, <2>1, <2>2, <2>3 DEF DbSound
<1>12. Typed
  <2>1. commits \in [Repos -> Seq([Files -> Nat])]
    BY <1>1, <1>9
  <2>2. path \in [Repos -> 0 .. Len(dbs)]
    <3>1. DOMAIN dbs \subseteq 0 .. Len(dbs) /\ None \in 0 .. Len(dbs)
      BY <1>2, <1>6 DEF None
    <3>2. \A r \in Repos : path[r] \in 0 .. Len(dbs)
      BY <1>7, <1>8, <3>1
    <3>3. path = [r \in Repos |-> path[r]]
      OBVIOUS
    <3> QED BY <3>2, <3>3
  <2>3. written \in Seq(1 .. clock) /\ Len(written) = Len(dbs)
    BY <1>1, <1>2, <1>6
  <2>4. index \subseteq Repos /\ pool \in Seq(Conn)
    BY <1>1 DEF Init
  <2>5. calls \in 0 .. MaxCalls /\ builds \in 0 .. MaxBuilds
    BY <1>1 DEF ServingAssumption
  <2>6. /\ checks \in [Repos -> {Idle} \cup Check]
        /\ call \in [Calls -> {Idle} \cup Call] /\ build \in [Builds -> {Idle} \cup Build]
    BY <1>1
  <2> QED BY <1>1, <1>6, <2>1, <2>2, <2>3, <2>4, <2>5, <2>6 DEF Typed
<1>13. Located
  <2>1. \A r \in Repos : path[r] # None => dbs[path[r]].repo = r
    BY <1>7, <1>8
  <2>2. \A r \in indexed : path[r] # None
    <3>1. \A i \in DOMAIN dbs : i # None
      BY <1>2, <1>6 DEF None
    <3> QED BY <1>7, <3>1
  <2>3. index = indexed
    OBVIOUS
  <2> QED BY <2>1, <2>2, <2>3 DEF Located, Exists
<1>14. PoolSound
  BY <1>1 DEF PoolSound
<1>15. \A r \in Repos : CheckSound(r, checks[r])
  BY <1>1 DEF CheckSound, Idle
<1> QED BY <1>1, <1>10, <1>11, <1>12, <1>13, <1>14, <1>15, IdleSound DEF Sound

LEMMA AlwaysSound == Spec => [](Typed /\ Sound)
<1>1. Init => Typed /\ Sound
  BY InitSound, ServingAssumption
<1>2. (Typed /\ Sound) /\ [Next]_vars => (Typed /\ Sound)'
  BY NextStep
<1> QED BY <1>1, <1>2, PTL DEF Spec

-----------------------------------------------------------------------------
\* Theorems

\* Every repository's path leads to a database of it, modification times were given
\* out, and a call that uses a connection has opened a database.  DBPool and the
\* staleness checker index files by repository.
THEOREM TypeCorrect == Spec => []TypeOK
<1>1. Typed /\ Sound => TypeOK
  <2> SUFFICES ASSUME Typed, Sound
               PROVE  TypeOK
    OBVIOUS
  <2>1. \A r \in Repos : path[r] \in 0 .. Len(dbs) /\ (Exists(r) => dbs[path[r]].repo = r)
    BY DEF Typed, Sound, Located
  <2>2. \A i \in DOMAIN dbs : written[i] \in 1 .. clock
    BY DEF Typed
  <2>3. \A c \in Calls : call[c].at \notin {"idle", "open", "queue"} =>
                           call[c].db \in 1 .. Len(dbs)
    BY CallFields DEF Typed
  <2> QED BY <2>1, <2>2, <2>3 DEF TypeOK, Typed
<1> QED BY <1>1, AlwaysSound, PTL

\* describe_package answers without a warning only with claims at least as new as the
\* content its staleness check compared, for any number of calls, extractions and
\* connections.  StalenessChecker.
THEOREM CurrentAnswers == Spec => []AnswerCurrent
<1>1. Typed /\ Sound => AnswerCurrent
  <2> SUFFICES ASSUME Typed, Sound, NEW c \in Calls, call[c].at = "render",
                      ~call[c].warned, call[c].base = call[c].db, NEW f \in Files
               PROVE  Backed(call[c].db, f, call[c].asof[f])
    BY DEF AnswerCurrent, Backed
  <2>1. CallSound(call[c]) /\ call[c].left = {}
    BY DEF Sound, CallSound
  <2> QED BY <2>1 DEF CallSound
<1> QED BY <1>1, AlwaysSound, PTL

\* A remote extraction labels a database with no commit newer than the claims it
\* stored, whatever is committed while it runs and however files are refreshed in the
\* database afterwards.  RunExtraction.
THEOREM HonestLabels == Spec => []LabelHonest
<1>1. Typed /\ Sound => LabelHonest
  <2> SUFFICES ASSUME Typed, Sound, NEW i \in DOMAIN dbs, dbs[i].sha # None,
                      NEW f \in Files, NEW row \in dbs[i].rows[f]
               PROVE  row.v >= commits[dbs[i].repo][dbs[i].sha][f]
    BY DEF LabelHonest
  <2>1. commits[dbs[i].repo][dbs[i].sha][f] <= row.v
    BY DEF Sound, DbSound, Covers
  <2>2. dbs[i] \in Db /\ DbSound(i)
    BY DbFields DEF Sound
  <2>3. dbs[i].repo \in Repos /\ dbs[i].sha \in Nat \ {0} /\ row.v \in Nat
    BY <2>2 DEF Db, Row, None
  <2>4. commits[dbs[i].repo][dbs[i].sha][f] \in Nat
    BY <2>2, <2>3, CommitFields DEF Sound, DbSound
  <2> QED BY <2>1, <2>3, <2>4
<1> QED BY <1>1, AlwaysSound, PTL

-----------------------------------------------------------------------------
\* Who clears the flag of a repository

\* The build of a repository's flag: what ExtractionTracker.Complete will be called for.
Owns(b, r) == build[b].at # "idle" /\ build[b].kind # "cli" /\ build[b].repo = r

\* One build moves; a repository it owned it still owns, or is not flagged any more.
LEMMA FlagTurn ==
  ASSUME Typed, FlagOwned, NEW b \in Builds, NEW new, build' = [build EXCEPT ![b] = new],
         \A r \in flag' : \/ r \in flag
                          \/ new.at # "idle" /\ new.kind # "cli" /\ new.repo = r,
         \A r \in flag' : Owns(b, r) =>
            new.at # "idle" /\ new.kind # "cli" /\ new.repo = r
  PROVE  FlagOwned'
<1>1. /\ build'[b] = new
      /\ \A d \in Builds : d # b => build'[d] = build[d]
  BY DEF Typed
<1> SUFFICES ASSUME NEW r \in flag'
             PROVE  \E d \in Builds : build'[d].at # "idle" /\ build'[d].kind # "cli"
                                      /\ build'[d].repo = r
  BY DEF FlagOwned
<1>2. CASE new.at # "idle" /\ new.kind # "cli" /\ new.repo = r
  BY <1>1, <1>2
<1>3. CASE r \in flag /\ ~Owns(b, r)
  <2>1. PICK d \in Builds : Owns(d, r)
    BY <1>3 DEF FlagOwned, Owns
  <2>2. d # b
    BY <1>3, <2>1
  <2> QED BY <1>1, <2>1, <2>2 DEF Owns
<1> QED BY <1>2, <1>3

LEMMA OverFlag ==
  ASSUME Typed, FlagOwned, NEW b \in Builds, build[b].at # "idle", Over(b)
  PROVE  FlagOwned'
BY FlagTurn DEF Over, Owns

LEMMA BuildFlag ==
  ASSUME Typed, Sound, FlagOwned, NEW b \in Builds, BuildStep(b)
  PROVE  FlagOwned'
<1> DEFINE x == build[b]
<1>1. x.at # "idle" /\ x \in Build
  <2>1. x.at # "idle"
    BY DEF BuildStep, ExtractFile, HashFile, ReadRemote, RunExtraction, Label,
           DiffCommits, Publish, BuildFails
  <2> QED BY <2>1, BuildFields
<1>2. ASSUME NEW new, build' = [build EXCEPT ![b] = new], flag' = flag,
             new.at # "idle", new.repo = x.repo, new.kind = x.kind \/ new.kind # "cli"
      PROVE  FlagOwned'
  BY <1>2, FlagTurn DEF Owns
<1>3. ASSUME NEW f \in Files, ExtractFile(b, f)
      PROVE  FlagOwned'
  <2>1. PICK rows :
          build' = [build EXCEPT ![b].left = @ \ {f}, ![b].rows[f] = rows,
                                 ![b].unhashed = @ \cup {f}]
    BY <1>3 DEF ExtractFile
  <2> DEFINE new == [x EXCEPT !.left = @ \ {f}, !.rows[f] = rows,
                              !.unhashed = @ \cup {f}]
  <2>2. build' = [build EXCEPT ![b] = new] /\ flag' = flag
    <3>1. build' = [build EXCEPT ![b] = new]
      BY <1>1, <2>1 DEF Typed
    <3> QED BY <1>3, <3>1 DEF ExtractFile
  <2>3. new.at = x.at /\ new.repo = x.repo /\ new.kind = x.kind
    BY <1>1 DEF Build
  <2> QED BY <1>1, <1>2, <2>2, <2>3
<1>4. ASSUME NEW f \in Files, HashFile(b, f)
      PROVE  FlagOwned'
  <2> DEFINE v == Latest(x.repo)[f]
             skew == IF \E row \in x.rows[f] : row.v = v THEN x.skew ELSE x.skew \cup {f}
             new == [x EXCEPT !.unhashed = @ \ {f}, !.hash[f] = v, !.skew = skew]
  <2>1. build' = [build EXCEPT ![b] = new] /\ flag' = flag
    BY <1>4 DEF Typed, HashFile
  <2>2. new.at = x.at /\ new.repo = x.repo /\ new.kind = x.kind
    BY <1>1 DEF Build
  <2> QED BY <1>1, <1>2, <2>1, <2>2
<1>5. ASSUME NEW f \in Files, ReadRemote(b, f)
      PROVE  FlagOwned'
  <2> DEFINE at == IF x.kind = "incremental" THEN x.sha ELSE Len(commits[x.repo])
             v == commits[x.repo][at][f]
             read == [x EXCEPT !.left = @ \ {f}, !.hash[f] = v,
                               !.rows[f] = {[v |-> v, by |-> "tree"]}]
             skipped == [x EXCEPT !.left = @ \ {f}]
  <2>1. /\ build' = [build EXCEPT ![b] = read] \/ build' = [build EXCEPT ![b] = skipped]
        /\ flag' = flag
    BY <1>5 DEF Typed, ReadRemote
  <2>2. /\ read.at = x.at /\ read.repo = x.repo /\ read.kind = x.kind
        /\ skipped.at = x.at /\ skipped.repo = x.repo /\ skipped.kind = x.kind
    BY <1>1 DEF Build
  <2> HIDE DEF read, skipped
  <2> QED BY <1>1, <1>2, <2>1, <2>2
<1>6. CASE RunExtraction(b)
  <2> DEFINE from == IF Exists(x.repo) THEN dbs[path[x.repo]].sha ELSE None
             listed == {f \in Files : Latest(x.repo)[f] # None}
             new == [x EXCEPT !.at = IF from = None THEN "label" ELSE "diff",
                              !.kind = IF from = None THEN "full" ELSE "incremental",
                              !.left = IF from = None THEN listed ELSE {},
                              !.from = from]
  <2>1. build' = [build EXCEPT ![b] = new] /\ flag' = flag
    BY <1>6 DEF Typed, RunExtraction
  <2> HIDE DEF from, listed
  <2>2. new.at # "idle" /\ new.repo = x.repo /\ new.kind # "cli"
    BY <1>1 DEF Build
  <2> QED BY <1>2, <2>1, <2>2
<1>7. CASE Label(b)
  <2>1. PICK sha : build' = [build EXCEPT ![b].at = "read", ![b].sha = sha]
    BY <1>7 DEF Label
  <2> DEFINE new == [x EXCEPT !.at = "read", !.sha = sha]
  <2>2. build' = [build EXCEPT ![b] = new] /\ flag' = flag
    BY <1>7, <2>1 DEF Typed, Label
  <2>3. new.at # "idle" /\ new.repo = x.repo /\ new.kind = x.kind
    BY <1>1 DEF Build
  <2> QED BY <1>2, <2>2, <2>3
<1>8. CASE DiffCommits(b)
  <2> DEFINE to == Len(commits[x.repo])
             changed == {f \in Files :
                           commits[x.repo][x.from][f] # commits[x.repo][to][f]}
             new == [x EXCEPT !.at = "read", !.sha = to, !.left = changed]
  <2>1. \/ Over(b)
        \/ build' = [build EXCEPT ![b] = new] /\ flag' = flag
    BY <1>8 DEF Typed, DiffCommits
  <2> HIDE DEF to, changed
  <2>2. new.at # "idle" /\ new.repo = x.repo /\ new.kind = x.kind
    BY <1>1 DEF Build
  <2> HIDE DEF new
  <2> QED BY <1>1, <1>2, <2>1, <2>2, OverFlag
<1>9. CASE Publish(b) \/ BuildFails(b)
  BY <1>1, <1>9, OverFlag DEF Publish, BuildFails
<1> QED BY <1>3, <1>4, <1>5, <1>6, <1>7, <1>8, <1>9 DEF BuildStep

LEMMA NextFlag ==
  ASSUME Typed, Sound, FlagOwned, [Next]_vars
  PROVE  FlagOwned'
<1>1. CASE UNCHANGED <<flag, build>>
  BY <1>1 DEF FlagOwned
<1>2. ASSUME NEW c \in Calls, CallStep(c)
      PROVE  FlagOwned'
  <2>1. ASSUME NEW b \in Builds, Queue(c, b)
        PROVE  FlagOwned'
    <3> DEFINE new == NewBuild("run", call[c].repo)
    <3>1. build[b] = Idle /\ build' = [build EXCEPT ![b] = new]
          /\ flag' = flag \cup {call[c].repo}
      BY <2>1 DEF Queue, Starts
    <3>2. new.at # "idle" /\ new.kind # "cli" /\ new.repo = call[c].repo
      BY DEF NewBuild
    <3>3. \A r : ~Owns(b, r)
      BY <3>1 DEF Owns, Idle
    <3> HIDE DEF new
    <3> QED BY <3>1, <3>2, <3>3, FlagTurn
  <2>2. CASE UNCHANGED <<flag, build>>
    BY <1>1, <2>2
  <2>3. \/ UNCHANGED <<flag, build>>
        \/ \E b \in Builds : Queue(c, b)
    BY <1>2 DEF CallStep, OpenCached, OpenFile, StatFile, Visit, CheckNothing,
         CheckCached, CheckQuery, CheckFile, SkipRecent, ReadStale, ExtractStale,
         RefreshFails, StoreStale, Render, CompareCommits
  <2> QED BY <2>1, <2>2, <2>3
<1>3. ASSUME NEW b \in Builds, NEW r \in Repos, Extract(b, r)
      PROVE  FlagOwned'
  <2>1. PICK new : build[b] = Idle /\ build' = [build EXCEPT ![b] = new] /\ flag' = flag
    BY <1>3 DEF Extract, Starts
  <2>2. \A q : ~Owns(b, q)
    BY <2>1 DEF Owns, Idle
  <2> QED BY <2>1, <2>2, FlagTurn
<1>4. \/ UNCHANGED <<flag, build>>
      \/ \E c \in Calls : CallStep(c)
      \/ \E b \in Builds : BuildStep(b) \/ \E r \in Repos : Extract(b, r)
  BY DEF Next, vars, Commit, ListRepos, SearchSymbols, Cancel, RequestExtraction,
         PackageCall, CheckExpires, DebounceEnds
<1> QED BY <1>1, <1>2, <1>3, <1>4, BuildFlag

\* A repository is reported as being extracted only while an extraction that will
\* clear it is under way, also when two were queued for it.  ExtractionTracker.
THEOREM FlagCleared == Spec => []FlagOwned
<1>1. Init => FlagOwned
  BY DEF Init, FlagOwned
<1>2. (Typed /\ Sound) /\ FlagOwned /\ [Next]_vars => FlagOwned'
  BY NextFlag
<1> QED BY <1>1, <1>2, AlwaysSound, PTL DEF Spec

-----------------------------------------------------------------------------
\* The pool

\* While a call is between opening a file and its stat, there is room for the
\* connection, none of its repository, and nobody else there.
PoolKept ==
  /\ Len(pool) <= MaxOpen
  /\ \A i, j \in 1 .. Len(pool) : pool[i].repo = pool[j].repo => i = j
  /\ \A c \in Calls : call[c].at = "stat" =>
       /\ Len(pool) < MaxOpen /\ Entry(call[c].repo) = {}
       /\ \A d \in Calls : call[d].at = "stat" => d = c

\* The connections of the other repositories are those of the pool but one.
LEMMA OthersApart ==
  ASSUME Typed, PoolKept, NEW r
  PROVE  /\ Others(r) \in Seq(Conn)
         /\ Len(Others(r)) <= Len(pool)
         /\ Entry(r) # {} => Len(Others(r)) = Len(pool) - 1
         /\ \A i \in 1 .. Len(Others(r)) : Others(r)[i].repo # r
         /\ \A i, j \in 1 .. Len(Others(r)) :
              Others(r)[i].repo = Others(r)[j].repo => i = j
<1>1. pool \in Seq(Conn) /\ Len(pool) \in Nat
  BY DEF Typed
<1>2. CASE Entry(r) = {}
  BY <1>1, <1>2 DEF Others, Entry, PoolKept
<1>3. CASE Entry(r) # {}
  <2> PICK i \in 1 .. Len(pool) : pool[i].repo = r /\ Others(r) = RemoveAt(pool, i)
    BY <1>3 DEF Others, Entry
  <2>1. /\ Others(r) \in Seq(Conn)
        /\ Len(Others(r)) = Len(pool) - 1
        /\ \A j \in 1 .. Len(pool) - 1 :
             Others(r)[j] = IF j < i THEN pool[j] ELSE pool[j + 1]
    BY <1>1, RemovedAt
  <2>2. ASSUME NEW j \in 1 .. Len(pool) - 1
        PROVE  \E k \in 1 .. Len(pool) : /\ k # i /\ Others(r)[j] = pool[k]
                                         /\ k = IF j < i THEN j ELSE j + 1
    BY <1>1, <2>1
  <2>3. ASSUME NEW j \in 1 .. Len(pool) - 1
        PROVE  Others(r)[j].repo # r
    BY <2>2 DEF PoolKept
  <2>4. ASSUME NEW j \in 1 .. Len(pool) - 1, NEW k \in 1 .. Len(pool) - 1,
               Others(r)[j].repo = Others(r)[k].repo
        PROVE  j = k
    <3>1. PICK m \in 1 .. Len(pool) : /\ Others(r)[j] = pool[m] /\ m # i
                                      /\ m = IF j < i THEN j ELSE j + 1
      BY <2>2
    <3>2. PICK n \in 1 .. Len(pool) : /\ Others(r)[k] = pool[n] /\ n # i
                                      /\ n = IF k < i THEN k ELSE k + 1
      BY <2>2
    <3>3. m = n
      BY <2>4, <3>1, <3>2 DEF PoolKept
    <3> QED BY <1>1, <3>1, <3>2, <3>3
  <2> QED BY <1>1, <2>1, <2>3, <2>4
<1> QED BY <1>2, <1>3

\* A connection put before others, of other repositories.
LEMMA PushedApart ==
  ASSUME NEW e \in Conn, NEW s \in Seq(Conn),
         \A i \in 1 .. Len(s) : s[i].repo # e.repo,
         \A i, j \in 1 .. Len(s) : s[i].repo = s[j].repo => i = j
  PROVE  /\ Len(<<e>> \o s) = Len(s) + 1
         /\ \A i, j \in 1 .. Len(<<e>> \o s) :
              (<<e>> \o s)[i].repo = (<<e>> \o s)[j].repo => i = j
<1> PICK p \in Seq(Conn) : p = <<e>> \o s
  BY Pushed
<1>1. /\ Len(p) = Len(s) + 1 /\ p[1] = e
      /\ \A i \in 2 .. Len(s) + 1 : p[i] = s[i - 1]
  BY Pushed
<1>2. Len(s) \in Nat
  OBVIOUS
<1>3. ASSUME NEW i \in 1 .. Len(p), NEW j \in 1 .. Len(p), p[i].repo = p[j].repo
      PROVE  i = j
  <2>1. CASE i = 1 /\ j = 1
    BY <2>1
  <2>2. CASE i = 1 /\ j # 1
    <3>1. p[j] = s[j - 1] /\ j - 1 \in 1 .. Len(s)
      BY <1>1, <1>2, <2>2
    <3> QED BY <1>1, <1>3, <2>2, <3>1
  <2>3. CASE i # 1 /\ j = 1
    <3>1. p[i] = s[i - 1] /\ i - 1 \in 1 .. Len(s)
      BY <1>1, <1>2, <2>3
    <3> QED BY <1>1, <1>3, <2>3, <3>1
  <2>4. CASE i # 1 /\ j # 1
    <3>1. /\ p[i] = s[i - 1] /\ i - 1 \in 1 .. Len(s)
          /\ p[j] = s[j - 1] /\ j - 1 \in 1 .. Len(s)
      BY <1>1, <1>2, <2>4
    <3>2. i - 1 = j - 1
      BY <1>3, <3>1
    <3> QED BY <1>2, <3>2
  <2> QED BY <2>1, <2>2, <2>3, <2>4
<1> QED BY <1>1, <1>3

\* A step that leaves the pool, and no call between the open and the stat of a file
\* but those that were.
LEMMA PoolStill ==
  ASSUME PoolKept, pool' = pool,
         \A c \in Calls : call'[c].at = "stat" =>
           call[c].at = "stat" /\ call'[c].repo = call[c].repo
  PROVE  PoolKept'
BY DEF PoolKept, Entry

LEMMA PoolTurn ==
  ASSUME Typed, PoolKept, pool' = pool, NEW c \in Calls, NEW x, x.at # "stat",
         call' = [call EXCEPT ![c] = x]
  PROVE  PoolKept'
BY PoolStill DEF Typed

LEMMA OpenCachedPool ==
  ASSUME Typed, Sound, PoolKept, NEW c \in Calls, OpenCached(c)
  PROVE  PoolKept'
<1> DEFINE r == call[c].repo
<1>1. PICK i \in Entry(r) :
        /\ pool' = <<pool[i]>> \o Others(r)
        /\ call' = [call EXCEPT ![c].at = "use", ![c].db = pool[i].db,
                                ![c].lost = FALSE]
  BY DEF OpenCached
<1>2. /\ \A d \in Calls : call[d].at # "stat"
      /\ call[c] \in Call /\ pool[i] \in Conn /\ pool[i].repo = r
      /\ Len(pool) \in Nat
  BY CallFields DEF OpenCached, Unlocked, Typed, Entry
<1>3. \A d \in Calls : call'[d].at # "stat"
  <2>1. call'[c].at = "use"
    BY <1>1, <1>2 DEF Typed, Call
  <2>2. \A d \in Calls : d # c => call'[d] = call[d]
    BY <1>1 DEF Typed
  <2> QED BY <1>2, <2>1, <2>2
<1>4. /\ Len(pool') = Len(Others(r)) + 1
      /\ \A m, n \in 1 .. Len(pool') : pool'[m].repo = pool'[n].repo => m = n
  <2>1. /\ Others(r) \in Seq(Conn)
        /\ \A k \in 1 .. Len(Others(r)) : Others(r)[k].repo # r
        /\ \A m, n \in 1 .. Len(Others(r)) :
             Others(r)[m].repo = Others(r)[n].repo => m = n
    BY OthersApart
  <2> PICK e \in Conn, s \in Seq(Conn) : e = pool[i] /\ s = Others(r)
    BY <1>2, <2>1
  <2>2. \A k \in 1 .. Len(s) : s[k].repo # e.repo
    BY <1>2, <2>1
  <2>3. \A m, n \in 1 .. Len(s) : s[m].repo = s[n].repo => m = n
    BY <2>1
  <2>4. /\ Len(<<e>> \o s) = Len(s) + 1
        /\ \A m, n \in 1 .. Len(<<e>> \o s) :
             (<<e>> \o s)[m].repo = (<<e>> \o s)[n].repo => m = n
    BY <2>2, <2>3, PushedApart
  <2> QED BY <1>1, <2>4
<1>5. Len(Others(r)) = Len(pool) - 1
  BY <1>1, OthersApart
<1>6. Len(pool') <= MaxOpen
  BY <1>2, <1>4, <1>5 DEF PoolKept
<1> QED BY <1>3, <1>4, <1>6 DEF PoolKept

LEMMA OpenFilePool ==
  ASSUME Typed, Sound, PoolKept, NEW c \in Calls, OpenFile(c)
  PROVE  PoolKept'
<1> PICK r \in Repos, rest \in Seq(Conn) : r = call[c].repo /\ rest = Others(r)
  BY CallFields, OthersApart DEF OpenFile
<1>1. /\ call[c].at = "open" /\ call[c] \in Call
      /\ \A d \in Calls : call[d].at # "stat"
      /\ pool' = IF Len(rest) >= MaxOpen THEN Front(rest) ELSE rest
  BY CallFields DEF OpenFile, Unlocked
<1>2. /\ Len(rest) \in Nat /\ Len(rest) <= MaxOpen /\ MaxOpen \in Nat \ {0}
      /\ \A i \in 1 .. Len(rest) : rest[i].repo # r
      /\ \A i, j \in 1 .. Len(rest) : rest[i].repo = rest[j].repo => i = j
  <2>1. Len(rest) <= Len(pool) /\ Len(pool) <= MaxOpen /\ Len(pool) \in Nat
    <3>1. Len(pool) <= MaxOpen /\ Len(pool) \in Nat
      BY DEF PoolKept, Typed
    <3>2. Len(rest) <= Len(pool)
      BY OthersApart
    <3> QED BY <3>1, <3>2
  <2>2. /\ Len(rest) \in Nat /\ MaxOpen \in Nat \ {0} /\ Len(rest) <= MaxOpen
    BY <2>1, ServingAssumption DEF ServingAssumption
  <2> QED BY <2>2, OthersApart
<1>3. /\ Len(pool') < MaxOpen
      /\ \A i \in 1 .. Len(pool') : i \in 1 .. Len(rest) /\ pool'[i] = rest[i]
  <2>1. CASE Len(rest) >= MaxOpen
    <3>1. Len(rest) > 0
      BY <1>2, <2>1
    <3>2. /\ Len(Front(rest)) = Len(rest) - 1
          /\ \A i \in 1 .. Len(rest) - 1 : Front(rest)[i] = rest[i]
      BY <3>1, FrontOf
    <3>3. pool' = Front(rest)
      BY <1>1, <2>1
    <3> QED BY <1>2, <3>2, <3>3
  <2>2. CASE ~(Len(rest) >= MaxOpen)
    BY <1>1, <1>2, <2>2
  <2> QED BY <2>1, <2>2
<1>4. /\ call'[c].at = "stat" /\ call'[c].repo = r
      /\ \A d \in Calls : d # c => call'[d].at # "stat"
  <2>1. call'[c] = [call[c] EXCEPT !.at = "stat", !.db = path[r], !.lost = FALSE]
    BY DEF OpenFile
  <2>2. ASSUME NEW d \in Calls, d # c
        PROVE  call'[d] = call[d] \/ call'[d] = [call[d] EXCEPT !.lost = TRUE]
    BY <2>2 DEF OpenFile
  <2>3. \A d \in Calls : [call[d] EXCEPT !.lost = TRUE].at = call[d].at
    OBVIOUS
  <2>4. call'[c].at = "stat" /\ call'[c].repo = r
    BY <1>1, <2>1 DEF Call
  <2>5. \A d \in Calls : d # c => call'[d].at = call[d].at
    BY <2>2, <2>3
  <2> QED BY <1>1, <2>4, <2>5
<1>5. Entry(r)' = {}
  BY <1>2, <1>3 DEF Entry
<1> QED BY <1>2, <1>3, <1>4, <1>5 DEF PoolKept, Entry

LEMMA StatFilePool ==
  ASSUME Typed, Sound, PoolKept, NEW c \in Calls, StatFile(c)
  PROVE  PoolKept'
<1> DEFINE r == call[c].repo
           e == [repo |-> r, db |-> call[c].db, seen |-> written[path[r]]]
<1>1. /\ call[c].at = "stat" /\ call[c] \in Call /\ CallSound(call[c]) /\ r \in Repos
      /\ pool' = <<e>> \o pool /\ call' = [call EXCEPT ![c].at = "use"]
  BY CallFields DEF StatFile
<1>2. Exists(r)
  BY <1>1 DEF CallSound
<1>3. e \in Conn /\ e.repo = r
  <2>1. path[r] \in 1 .. Len(written)
    BY <1>1, <1>2 DEF Typed, Exists, None
  <2>2. written[path[r]] \in Nat
    BY <2>1 DEF Typed
  <2> QED BY <1>1, <2>2 DEF Conn, Call
<1> HIDE DEF e
<1>4. /\ pool \in Seq(Conn) /\ Len(pool) \in Nat /\ Len(pool) < MaxOpen
      /\ \A i \in 1 .. Len(pool) : pool[i].repo # e.repo
      /\ \A i, j \in 1 .. Len(pool) : pool[i].repo = pool[j].repo => i = j
      /\ \A d \in Calls : call[d].at = "stat" => d = c
  BY <1>1, <1>3 DEF PoolKept, Typed, Entry
<1>5. /\ Len(pool') = Len(pool) + 1
      /\ \A i, j \in 1 .. Len(pool') : pool'[i].repo = pool'[j].repo => i = j
  <2>1. \A y \in Conn :
          y = e =>
            /\ Len(<<y>> \o pool) = Len(pool) + 1
            /\ \A i, j \in 1 .. Len(<<y>> \o pool) :
                 (<<y>> \o pool)[i].repo = (<<y>> \o pool)[j].repo => i = j
    BY <1>4, PushedApart
  <2> QED BY <1>1, <1>3, <2>1
<1>6. \A d \in Calls : call'[d].at # "stat"
  <2>1. call'[c].at = "use"
    BY <1>1 DEF Typed, Call
  <2>2. \A d \in Calls : d # c => call'[d] = call[d]
    BY <1>1 DEF Typed
  <2> QED BY <1>4, <2>1, <2>2
<1>7. Len(pool') <= MaxOpen
  BY <1>4, <1>5, ServingAssumption DEF ServingAssumption
<1> QED BY <1>5, <1>6, <1>7 DEF PoolKept

\* What the other steps of a call make of it is never between opening and stat.
LEMMA CallPool ==
  ASSUME Typed, Sound, PoolKept, NEW c \in Calls, CallStep(c)
  PROVE  PoolKept'
<1> DEFINE x == call[c]
<1>1. ASSUME NEW y, y.at # "stat", pool' = pool, call' = [call EXCEPT ![c] = y]
      PROVE  PoolKept'
  BY <1>1, PoolTurn
<1>2. Idle.at # "stat"
  BY DEF Idle
<1>3. ASSUME NEW y \in Call
      PROVE  Checked(y).at # "stat"
  BY DEF Checked, Idle, Call
<1>4. ASSUME NEW y \in Call
      PROVE  After(y).at # "stat"
  BY DEF After, Call
<1>5. ASSUME x.at # "idle"
      PROVE  x \in Call
  BY <1>5, CallFields
<1>6. CASE Visit(c) \/ CompareCommits(c)
  <2>1. x \in Call /\ pool' = pool
    BY <1>5, <1>6 DEF Visit, CompareCommits, server
  <2>2. \/ call' = [call EXCEPT ![c] = Idle]
        \/ call' = [call EXCEPT ![c] = [x EXCEPT !.at = "queue"]]
        \/ \E r : call' = [call EXCEPT ![c] = [x EXCEPT !.at = "open", !.repo = r,
                                                        !.todo = @ \ {r}]]
    BY <1>6, <2>1 DEF Visit, CompareCommits, Ends, Typed
  <2>3. /\ [x EXCEPT !.at = "queue"].at # "stat"
        /\ \A r : [x EXCEPT !.at = "open", !.repo = r, !.todo = @ \ {r}].at # "stat"
    BY <2>1 DEF Call
  <2> QED BY <1>1, <1>2, <2>1, <2>2, <2>3
<1>7. CASE CheckNothing(c) \/ CheckCached(c) \/ CheckQuery(c)
  <2>1. x \in Call /\ pool' = pool
    BY <1>5, <1>7 DEF CheckNothing, CheckCached, CheckQuery, Asks, server
  <2>2. CASE CheckNothing(c)
    BY <1>1, <1>3, <2>1, <2>2 DEF CheckNothing
  <2>3. CASE CheckCached(c)
    <3> DEFINE y == [x EXCEPT !.stale = checks[x.repo].stale,
                              !.asof = checks[x.repo].asof, !.base = checks[x.repo].db]
    <3>1. checks[x.repo] \in Check
      BY <2>1, <2>3 DEF CheckCached, Cached, Typed, Idle, Call
    <3>2. y \in Call /\ call' = [call EXCEPT ![c] = Checked(y)]
      BY <2>1, <2>3, <3>1 DEF CheckCached, Call, Check
    <3> QED BY <1>1, <1>3, <2>1, <3>2
  <2>4. CASE CheckQuery(c)
    <3>1. \/ call' = [call EXCEPT ![c] = Checked(x)]
          \/ \E left, hash, base :
               call' = [call EXCEPT ![c] = [x EXCEPT !.at = "compare", !.left = left,
                                                     !.hash = hash, !.base = base]]
      BY <2>4 DEF CheckQuery
    <3>2. \A left, hash, base :
            [x EXCEPT !.at = "compare", !.left = left, !.hash = hash,
                      !.base = base].at # "stat"
      BY <2>1 DEF Call
    <3> QED BY <1>1, <1>3, <2>1, <3>1, <3>2
  <2> QED BY <1>7, <2>2, <2>3, <2>4
<1>8. ASSUME NEW f \in Files, CheckFile(c, f) \/ SkipRecent(c, f) \/ ReadStale(c, f)
      PROVE  PoolKept'
  <2>1. x \in Call /\ x.at # "stat" /\ pool' = pool
    BY <1>5, <1>8 DEF CheckFile, SkipRecent, ReadStale, server
  <2>2. CASE CheckFile(c, f)
    <3> PICK v \in Nat : v = Latest(x.repo)[f]
      BY <2>1, CommitFields DEF Sound, Call
    <3> DEFINE stale == IF v \notin {None, x.hash[f]} THEN x.stale \cup {f} ELSE x.stale
               y == [x EXCEPT !.left = @ \ {f}, !.asof[f] = v, !.stale = stale]
    <3>1. y \in Call /\ y.at = x.at
      BY <2>1 DEF Call
    <3>2. call' = [call EXCEPT ![c] = y] \/ call' = [call EXCEPT ![c] = Checked(y)]
      BY <2>2 DEF CheckFile
    <3> HIDE DEF y
    <3> QED BY <1>1, <1>3, <2>1, <3>1, <3>2
  <2>3. CASE SkipRecent(c, f)
    <3>1. [x EXCEPT !.left = @ \ {f}, !.warned = TRUE] \in Call
      BY <2>1 DEF Call
    <3> QED BY <1>1, <1>4, <2>1, <2>3, <3>1 DEF SkipRecent
  <2>4. CASE ReadStale(c, f)
    <3> PICK v : v = Latest(x.repo)[f]
      OBVIOUS
    <3>1. call' = [call EXCEPT ![c] = [x EXCEPT !.at = "extract", !.file = f, !.text = v]]
      BY <2>1, <2>4 DEF ReadStale, Typed
    <3>2. [x EXCEPT !.at = "extract", !.file = f, !.text = v].at # "stat"
      BY <2>1 DEF Call
    <3> QED BY <1>1, <2>1, <3>1, <3>2
  <2> QED BY <1>8, <2>2, <2>3, <2>4
<1>9. CASE ExtractStale(c) \/ RefreshFails(c) \/ StoreStale(c)
  <2>1. x \in Call /\ x.at \in {"extract", "store"} /\ pool' = pool
    BY <1>5, <1>9 DEF ExtractStale, RefreshFails, StoreStale, server
  <2>2. CASE ExtractStale(c)
    <3> PICK v : v = Latest(x.repo)[x.file]
      OBVIOUS
    <3>1. call' = [call EXCEPT ![c] = [x EXCEPT !.at = "store", !.found = v]]
      BY <2>1, <2>2 DEF ExtractStale, Typed
    <3>2. [x EXCEPT !.at = "store", !.found = v].at # "stat"
      BY <2>1 DEF Call
    <3> QED BY <1>1, <2>1, <3>1, <3>2
  <2>3. CASE RefreshFails(c)
    <3>1. [x EXCEPT !.left = @ \ {x.file}, !.warned = TRUE] \in Call
      BY <2>1 DEF Call
    <3> QED BY <1>1, <1>4, <2>1, <2>3, <3>1 DEF RefreshFails, Failed
  <2>4. CASE StoreStale(c)
    <3>1. [x EXCEPT !.left = @ \ {x.file}] \in Call
      BY <2>1 DEF Call
    <3> QED BY <1>1, <1>4, <2>1, <2>4, <3>1 DEF StoreStale
  <2> QED BY <1>9, <2>2, <2>3, <2>4
<1>10. CASE Render(c) \/ \E b \in Builds : Queue(c, b)
  BY <1>1, <1>2, <1>10 DEF Render, Queue, Ends, server
<1> QED BY <1>6, <1>7, <1>8, <1>9, <1>10, OpenCachedPool, OpenFilePool, StatFilePool
        DEF CallStep

LEMMA NextPool ==
  ASSUME Typed, Sound, PoolKept, [Next]_vars
  PROVE  PoolKept'
<1>1. CASE UNCHANGED <<pool, call>>
  BY <1>1, PoolStill
<1>2. ASSUME NEW c \in Calls, NEW new, new.at # "stat", Begins(c, new), pool' = pool
      PROVE  PoolKept'
  BY <1>2, PoolTurn DEF Begins
<1>3. ASSUME NEW c \in Calls, NEW kind, NEW r, NEW todo
      PROVE  NewCall(kind, r, todo).at # "stat"
  BY DEF NewCall
<1>4. ASSUME NEW c \in Calls, ListRepos(c) \/ SearchSymbols(c)
      PROVE  PoolKept'
  BY <1>2, <1>3, <1>4 DEF ListRepos, SearchSymbols, server
<1>5. ASSUME NEW c \in Calls, Cancel(c)
      PROVE  PoolKept'
  BY <1>5, PoolTurn DEF Cancel, Ends, server, Idle
<1>6. ASSUME NEW c \in Calls, NEW r \in Repos, NEW kind, PackageCall(c, r, kind)
      PROVE  PoolKept'
  BY <1>2, <1>3, <1>6 DEF PackageCall, server
<1>7. ASSUME NEW c \in Calls, NEW r \in Repos, RequestExtraction(c, r)
      PROVE  PoolKept'
  <2> DEFINE at == IF Exists(r) THEN "open" ELSE "queue"
             new == [NewCall("request", r, {}) EXCEPT !.at = at]
  <2>1. Begins(c, new) /\ pool' = pool
    BY <1>7 DEF RequestExtraction, server
  <2>2. new.at # "stat"
    BY DEF NewCall
  <2> QED BY <1>2, <2>1, <2>2
<1>8. \/ UNCHANGED <<pool, call>>
      \/ \E c \in Calls : \/ ListRepos(c) \/ SearchSymbols(c) \/ Cancel(c) \/ CallStep(c)
                          \/ \E r \in Repos : \/ RequestExtraction(c, r)
                                              \/ \E kind : PackageCall(c, r, kind)
  <2>1. ASSUME NEW b \in Builds, BuildStep(b)
        PROVE  UNCHANGED <<pool, call>>
    BY <2>1 DEF BuildStep, server, ExtractFile, HashFile, ReadRemote, RunExtraction,
       Label, DiffCommits, Publish, BuildFails
  <2>2. ASSUME NEW b \in Builds, NEW r \in Repos, Extract(b, r)
        PROVE  UNCHANGED <<pool, call>>
    BY <2>2 DEF Extract, server
  <2>3. ASSUME NEW r \in Repos, NEW f \in Files, Commit(r, f)
        PROVE  UNCHANGED <<pool, call>>
    BY <2>3 DEF Commit, server
  <2>4. ASSUME NEW r \in Repos, CheckExpires(r)
        PROVE  UNCHANGED <<pool, call>>
    BY <2>4 DEF CheckExpires
  <2>5. ASSUME NEW f \in Files, DebounceEnds(f)
        PROVE  UNCHANGED <<pool, call>>
    BY <2>5 DEF DebounceEnds
  <2> QED BY <2>1, <2>2, <2>3, <2>4, <2>5 DEF Next, vars, server
<1> QED BY <1>1, <1>4, <1>5, <1>6, <1>7, <1>8, CallPool

\* The pool has at most maxOpen connections, one for a repository, each of a file that
\* was in place for it, though the file is opened and asked for its time in two steps.
\* DBPool.Open.
THEOREM BoundedPool == Spec => []PoolBounded
<1>1. Init => PoolKept
  BY ServingAssumption DEF Init, PoolKept, Idle, ServingAssumption
<1>2. (Typed /\ Sound) /\ PoolKept /\ [Next]_vars => PoolKept'
  BY NextPool
<1>3. (Typed /\ Sound) /\ PoolKept => PoolBounded
  BY DEF PoolKept, PoolBounded, Sound, PoolSound, Of
<1> QED BY <1>1, <1>2, <1>3, AlwaysSound, PTL DEF Spec
=============================================================================
