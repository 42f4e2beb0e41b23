------------------------------ MODULE Serving -------------------------------
(***************************************************************************)
(* How claims databases are built, published and served: livedocs extract  *)
(* (cmd/livedocs/extract_cmd.go) and the extractions that the tool         *)
(* request_extraction queues (extraction_runner.go) build a database in a  *)
(* temporary file and rename it over the one in place, while the MCP       *)
(* server answers from connections of a bounded pool (mcpserver/dbpool.go) *)
(* and extracts files again that changed on disk (staleness.go).           *)
(*                                                                         *)
(* A repository is a history of commits; a file's content in a commit is   *)
(* the number of the commit that changed it last.  A claims row is the     *)
(* content it was extracted from and the columns it carries: rows of       *)
(* "deep" and "tree" extractors carry the file's relative path, those of a *)
(* refresh ("abs") the absolute path the extractor was given, and the      *)
(* delete of a refresh selects by relative path and the deep extractor's   *)
(* name.  A connection is the database file it opened: renaming another    *)
(* file over the path does not change what it reads.                       *)
(*                                                                         *)
(* History variable (not in the code): skewed.                             *)
(***************************************************************************)
EXTENDS Naturals, FiniteSets, SequencesExt

CONSTANTS
  Repos,      \* repositories
  Rooted,     \* repositories with a clone the server knows
  Requested,  \* repositories agents request extractions of
  Files,      \* relative paths, the same in every repository
  Deep,       \* files of the language the deep extractor handles
  Calls,      \* tool calls served at a time
  Builds,     \* extractions under way at a time
  MaxOpen,    \* maxOpen of the pool
  MaxCommits, \* bound: [Repos -> commits of the repository]
  MaxCalls,   \* bound: tool calls
  MaxBuilds   \* bound: extractions

ASSUME ServingAssumption ==
  /\ IsFiniteSet(Repos)
  /\ Rooted \subseteq Repos /\ Requested \subseteq Repos /\ Deep \subseteq Files
  /\ MaxOpen \in Nat \ {0} /\ MaxCommits \in [Repos -> Nat]
  /\ MaxCalls \in Nat /\ MaxBuilds \in Nat

VARIABLES
  commits,  \* by repository, the files of each commit; the clone is at the last
  dbs,      \* database files that were published
  path,     \* by repository, the file in place, or 0
  written,  \* by database file, its modification time
  clock,    \* modification times given out
  pool,     \* open connections, the most recently used first
  index,    \* repositories of the routing index
  checks,   \* by repository, the cached staleness check of its package
  recent,   \* paths extracted again within the debounce interval
  flag,     \* repositories with an extraction in progress
  call,     \* what each tool call is doing, with its locals
  build,    \* what each extraction is doing, with its locals
  calls,    \* tool calls made
  builds,   \* extractions started
  skewed    \* files whose hash an extraction took from a later content

store == <<dbs, path, written, clock>>
server == <<pool, index, checks, recent>>
vars == <<commits, store, server, flag, call, build, calls, builds, skewed>>

None == 0
Idle == [at |-> "idle"]
Latest(r) == commits[r][Len(commits[r])]   \* the files now, None if absent
Exists(r) == path[r] # None
NoRows == [f \in Files |-> {}]
NoHash == [f \in Files |-> None]

\* A database: claims rows and source_files rows by file, tombstones, the label.
Database(r, rows, hash, sha) ==
  [repo |-> r, rows |-> rows, hash |-> hash, gone |-> {}, sha |-> sha]

\* What an extractor of the build writes for a content.
Built(f, v) == [v |-> v, by |-> IF f \in Deep THEN "deep" ELSE "tree"]

Init ==
  \E indexed \in SUBSET Repos :
    LET order == SetToSeq(indexed)
        Rows == [f \in Files |-> {Built(f, 1)}]
    IN /\ commits = [r \in Repos |-> <<[f \in Files |-> 1]>>]
       /\ dbs = [i \in 1 .. Len(order) |->
                   Database(order[i], Rows, [f \in Files |-> 1],
                            IF order[i] \in Rooted THEN None ELSE 1)]
       /\ path = [r \in Repos |->
                    IF r \in indexed THEN CHOOSE i \in DOMAIN order : order[i] = r
                    ELSE None]
       /\ written = [i \in 1 .. Len(order) |-> 1]
       /\ clock = 1
       /\ pool = <<>>
       /\ index = indexed
       /\ checks = [r \in Repos |-> Idle]
       /\ recent = {} /\ flag = {}
       /\ call = [c \in Calls |-> Idle]
       /\ build = [b \in Builds |-> Idle]
       /\ calls = 0 /\ builds = 0
       /\ skewed = {}

\* A file is edited, removed or brought back, in the remote and in the clone.
Commit(r, f) ==
  /\ Len(commits[r]) < MaxCommits[r]
  /\ \E v \in {None, Len(commits[r]) + 1} :
       /\ v # Latest(r)[f]
       /\ commits' = [commits EXCEPT ![r] = Append(@, [Latest(r) EXCEPT ![f] = v])]
  /\ UNCHANGED <<store, server, flag, call, build, calls, builds, skewed>>

-----------------------------------------------------------------------------
\* The pool: DBPool.Open

Entry(r) == {i \in 1 .. Len(pool) : pool[i].repo = r}
Others(r) == IF Entry(r) = {} THEN pool
             ELSE RemoveAt(pool, CHOOSE i \in Entry(r) : TRUE)
Newer(i) == Exists(pool[i].repo) /\ written[path[pool[i].repo]] > pool[i].seen

\* A call that uses a connection of the repository.
Uses(c, r) == call[c].at # "idle" /\ call[c].repo = r

\* The mutex of the pool: nobody is between opening a file and its stat.
Unlocked == \A c \in Calls : call[c].at # "stat"

\* Open, cache hit: the connection is moved to the front and handed out.
OpenCached(c) ==
  /\ call[c].at = "open" /\ Unlocked
  /\ \E i \in Entry(call[c].repo) :
       /\ ~Newer(i)
       /\ pool' = <<pool[i]>> \o Others(call[c].repo)
       /\ call' = [call EXCEPT ![c].at = "use", ![c].db = pool[i].db,
                               ![c].lost = FALSE]
  /\ UNCHANGED <<commits, store, index, checks, recent, flag, build, calls,
                 builds, skewed>>

\* Open, no entry or one whose file is newer: that one is closed, the least recently
\* used is closed when the pool is full, and the file in place is opened.  Whoever
\* still uses a closed connection gets errors from it.
OpenFile(c) ==
  LET r == call[c].repo
      rest == Others(r)
      full == Len(rest) >= MaxOpen
      Lost(d) == \/ Entry(r) # {} /\ Uses(d, r)
                 \/ full /\ Uses(d, Last(rest).repo)
  IN /\ call[c].at = "open" /\ Unlocked
     /\ \A i \in Entry(r) : Newer(i)
     /\ pool' = IF full THEN Front(rest) ELSE rest
     /\ call' = [d \in Calls |->
                   IF d = c THEN [call[c] EXCEPT !.at = "stat", !.db = path[r],
                                                 !.lost = FALSE]
                   ELSE IF Lost(d) THEN [call[d] EXCEPT !.lost = TRUE]
                   ELSE call[d]]
     /\ UNCHANGED <<commits, store, index, checks, recent, flag, build, calls,
                    builds, skewed>>

\* Then the path is asked for its time: another file may be in place by now.
StatFile(c) ==
  LET r == call[c].repo
  IN /\ call[c].at = "stat"
     /\ pool' = <<[repo |-> r, db |-> call[c].db, seen |-> written[path[r]]]>> \o pool
     /\ call' = [call EXCEPT ![c].at = "use"]
     /\ UNCHANGED <<commits, store, index, checks, recent, flag, build, calls,
                    builds, skewed>>

-----------------------------------------------------------------------------
\* Tool calls that only read: list_repos and search_symbols

\* A call about a repository, and the repositories still to visit after it.
NewCall(kind, r, todo) ==
  [at |-> "open", kind |-> kind, repo |-> r, todo |-> todo, db |-> None,
   lost |-> FALSE, base |-> None, asof |-> NoHash, hash |-> NoHash,
   stale |-> {}, left |-> {}, file |-> None, text |-> None, found |-> None,
   warned |-> FALSE]
Begins(c, new) ==
  /\ call[c] = Idle /\ calls < MaxCalls
  /\ calls' = calls + 1
  /\ call' = [call EXCEPT ![c] = new]
Ends(c) == call' = [call EXCEPT ![c] = Idle]

\* list_repos: every repository with a file in the data directory.
ListRepos(c) ==
  /\ \E r \in {q \in Repos : Exists(q)} :
       Begins(c, NewCall("list", r, {q \in Repos \ {r} : Exists(q)}))
  /\ UNCHANGED <<commits, store, server, flag, build, builds, skewed>>

\* search_symbols: the candidates the index has, which was built at start-up.
SearchSymbols(c) ==
  /\ \E candidates \in SUBSET index : \E r \in candidates :
       Begins(c, NewCall("search", r, candidates \ {r}))
  /\ UNCHANGED <<commits, store, server, flag, build, builds, skewed>>

\* On to the next repository.  An error ends a listing; a search skips it.
Visit(c) ==
  /\ call[c].at = "use" /\ call[c].kind \in {"list", "search"}
  /\ \/ /\ call[c].todo # {}
        /\ call[c].lost => call[c].kind = "search"
        /\ \E r \in call[c].todo :
             call' = [call EXCEPT ![c].at = "open", ![c].repo = r,
                                  ![c].todo = @ \ {r}]
     \/ /\ call[c].todo = {} \/ (call[c].lost /\ call[c].kind = "list")
        /\ Ends(c)
  /\ UNCHANGED <<commits, store, server, flag, build, calls, builds, skewed>>

-----------------------------------------------------------------------------
\* describe_package and list_packages: the staleness check

PackageCall(c, r, kind) ==
  /\ Exists(r)
  /\ Begins(c, NewCall(kind, r, {}))
  /\ UNCHANGED <<commits, store, server, flag, build, builds, skewed>>

\* Once the check is made, list_packages is done with it and describe_package
\* refreshes what is stale.
Checked(new) ==
  IF new.kind = "packages" THEN Idle
  ELSE [new EXCEPT !.at = IF new.stale = {} THEN "render" ELSE "refresh",
                   !.left = new.stale, !.stale = {}, !.hash = NoHash]
Asks(c) == call[c].at = "use" /\ call[c].kind \in {"describe", "packages"}
Cached(r) == checks[r].at = "cached" /\ checks[r].fresh

\* No root is configured: nothing is checked.
CheckNothing(c) ==
  /\ Asks(c) /\ call[c].repo \notin Rooted
  /\ call' = [call EXCEPT ![c] = Checked(call[c])]
  /\ UNCHANGED <<commits, store, server, flag, build, calls, builds, skewed>>

\* A check less than staleCacheTTL old is taken for the answer.
CheckCached(c) ==
  LET r == call[c].repo
  IN /\ Asks(c) /\ r \in Rooted /\ Cached(r)
     /\ call' = [call EXCEPT ![c] =
                   Checked([call[c] EXCEPT !.stale = checks[r].stale,
                                           !.asof = checks[r].asof,
                                           !.base = checks[r].db])]
     /\ UNCHANGED <<commits, store, server, flag, build, calls, builds, skewed>>

\* GetSourceFilesByImportPath: live source files that claims name by their path.
Covered(db) == {f \in Files : /\ db.hash[f] # None /\ f \notin db.gone
                             /\ \E row \in db.rows[f] : row.by # "abs"}

\* Otherwise the files and their hashes are read from the database; an error, or no
\* file at all, is no stale file, and is not cached.
CheckQuery(c) ==
  LET r == call[c].repo
      db == dbs[call[c].db]
      files == IF call[c].lost THEN {} ELSE Covered(db)
  IN /\ Asks(c) /\ r \in Rooted /\ ~Cached(r)
     /\ checks' = [checks EXCEPT ![r] = Idle]
     /\ call' = [call EXCEPT ![c] =
                   IF files = {} THEN Checked(call[c])
                   ELSE [call[c] EXCEPT !.at = "compare", !.left = files,
                                        !.hash = db.hash, !.base = call[c].db]]
     /\ UNCHANGED <<commits, store, pool, index, recent, flag, build, calls,
                    builds, skewed>>

\* A file is read and compared.  One that is gone is marked deleted; its claims stay.
\* After the last one the result is cached.
CheckFile(c, f) ==
  LET r == call[c].repo
      v == Latest(r)[f]
      gone == v = None /\ ~call[c].lost
      new == [call[c] EXCEPT !.left = @ \ {f}, !.asof[f] = v,
                             !.stale = IF v \notin {None, call[c].hash[f]}
                                       THEN @ \cup {f} ELSE @]
  IN /\ call[c].at = "compare" /\ f \in call[c].left
     /\ dbs' = IF gone THEN [dbs EXCEPT ![call[c].db].gone = @ \cup {f}] ELSE dbs
     /\ IF new.left # {}
        THEN call' = [call EXCEPT ![c] = new] /\ UNCHANGED checks
        ELSE /\ call' = [call EXCEPT ![c] = Checked(new)]
             /\ checks' = [checks EXCEPT ![r] =
                             [at |-> "cached", fresh |-> TRUE, stale |-> new.stale,
                              asof |-> new.asof, db |-> new.base]]
     /\ UNCHANGED <<commits, path, written, clock, pool, index, recent, flag,
                    build, calls, builds, skewed>>

-----------------------------------------------------------------------------
\* describe_package: stale files are extracted again

\* The call goes on to its next stale file, or renders.
After(new) == [new EXCEPT !.at = IF new.left = {} THEN "render" ELSE "refresh",
                          !.file = None, !.text = None, !.found = None]
Failed(c) == call' = [call EXCEPT ![c] =
               After([call[c] EXCEPT !.left = @ \ {call[c].file}, !.warned = TRUE])]

\* Extracted within reExtractDebounce, in whatever repository: left as it is.
SkipRecent(c, f) ==
  /\ call[c].at = "refresh" /\ f \in call[c].left /\ f \in recent
  /\ call' = [call EXCEPT ![c] =
                After([call[c] EXCEPT !.left = @ \ {f}, !.warned = TRUE])]
  /\ UNCHANGED <<commits, store, server, flag, build, calls, builds, skewed>>

\* The content is read and hashed.
ReadStale(c, f) ==
  /\ call[c].at = "refresh" /\ f \in call[c].left /\ f \notin recent
  /\ call' = [call EXCEPT ![c].at = "extract", ![c].file = f,
                          ![c].text = Latest(call[c].repo)[f]]
  /\ UNCHANGED <<commits, store, server, flag, build, calls, builds, skewed>>

\* The extractor reads the file again.
ExtractStale(c) ==
  LET v == Latest(call[c].repo)[call[c].file]
  IN /\ call[c].at = "extract" /\ call[c].text # None /\ v # None
     /\ call' = [call EXCEPT ![c].at = "store", ![c].found = v]
     /\ UNCHANGED <<commits, store, server, flag, build, calls, builds, skewed>>

\* It could not be read, or the extraction fails or panics, or finds no claims where
\* there were some, or the database is busy or was closed.
RefreshFails(c) ==
  /\ call[c].at \in {"extract", "store"}
  /\ Failed(c)
  /\ UNCHANGED <<commits, store, server, flag, build, calls, builds, skewed>>

\* Mutant: the file is hashed as it is when its claims are stored.
StoreStaleHashed(c) ==
  LET f == call[c].file
      i == call[c].db
  IN /\ call[c].at = "store" /\ ~call[c].lost
     /\ dbs' = [dbs EXCEPT
                  ![i].rows[f] = @ \cup {[v |-> call[c].found, by |-> "abs"]},
                  ![i].hash[f] = Latest(call[c].repo)[f]]
     /\ recent' = recent \cup {f}
     /\ call' = [call EXCEPT ![c] = After([call[c] EXCEPT !.left = @ \ {f}])]
     /\ UNCHANGED <<commits, path, written, clock, pool, index, checks, flag, build,
                    calls, builds, skewed>>

\* One transaction: what the delete selects goes, the claims come in, and the
\* source_files row says which content was hashed.  The log may be written back.
StoreStale(c) ==
  LET f == call[c].file
      i == call[c].db
      deleted == {row \in dbs[i].rows[f] : row.by = "deep" /\ f \in Deep}
  IN /\ call[c].at = "store" /\ ~call[c].lost
     /\ dbs' = [dbs EXCEPT ![i] =
                  [dbs[i] EXCEPT
                     !.rows[f] = (@ \ deleted) \cup {[v |-> call[c].found, by |-> "abs"]},
                     !.hash[f] = call[c].text,
                     !.gone = @ \ {f}]]
     /\ \/ UNCHANGED <<written, clock>>
        \/ /\ clock' = clock + 1
           /\ written' = [written EXCEPT ![i] = clock + 1]
     /\ recent' = recent \cup {f}
     /\ call' = [call EXCEPT ![c] = After([call[c] EXCEPT !.left = @ \ {f}])]
     /\ UNCHANGED <<commits, path, pool, index, checks, flag, build, calls, builds,
                    skewed>>

\* The package is loaded and rendered; a closed connection is an error.
Render(c) ==
  /\ call[c].at = "render"
  /\ Ends(c)
  /\ UNCHANGED <<commits, store, server, flag, build, calls, builds, skewed>>

\* The caller goes away while files are compared or refreshed.
Cancel(c) ==
  /\ call[c].at \in {"compare", "refresh"}
  /\ Ends(c)
  /\ UNCHANGED <<commits, store, server, flag, build, calls, builds, skewed>>

-----------------------------------------------------------------------------
\* request_extraction

\* In progress already: nothing is done.  Otherwise a repository with a database is
\* asked how fresh it is, and one without is queued.
RequestExtraction(c, r) ==
  /\ r \in Requested /\ r \notin flag
  /\ Begins(c, [NewCall("request", r, {}) EXCEPT
                  !.at = IF Exists(r) THEN "open" ELSE "queue"])
  /\ UNCHANGED <<commits, store, server, flag, build, builds, skewed>>

\* The label is compared with the remote's head; an error ends the call.
CompareCommits(c) ==
  LET r == call[c].repo
      sha == dbs[call[c].db].sha
  IN /\ call[c].at = "use" /\ call[c].kind = "request"
     /\ \/ Ends(c)
        \/ /\ ~call[c].lost /\ sha # Len(commits[r])
           /\ call' = [call EXCEPT ![c].at = "queue"]
     /\ UNCHANGED <<commits, store, server, flag, build, calls, builds, skewed>>

NewBuild(kind, r) ==
  [at |-> "start", kind |-> kind, repo |-> r, from |-> None, sha |-> None,
   left |-> {}, unhashed |-> {}, rows |-> NoRows, hash |-> NoHash, skew |-> {}]
Starts(b, new) ==
  /\ build[b] = Idle /\ builds < MaxBuilds
  /\ builds' = builds + 1
  /\ build' = [build EXCEPT ![b] = new]

\* The repository is flagged and a goroutine started, whoever flagged it meanwhile.
Queue(c, b) ==
  /\ call[c].at = "queue"
  /\ Starts(b, NewBuild("run", call[c].repo))
  /\ flag' = flag \cup {call[c].repo}
  /\ Ends(c)
  /\ UNCHANGED <<commits, store, server, calls, skewed>>

-----------------------------------------------------------------------------
\* Extractions.  A database is built in a temporary file, which a build that fails
\* removes: nothing of it is seen before it is renamed into place.

\* A build is over; the goroutine of a request clears the flag, whatever happened.
Over(b) ==
  /\ build' = [build EXCEPT ![b] = Idle]
  /\ flag' = IF build[b].kind = "cli" THEN flag ELSE flag \ {build[b].repo}

\* Mutant: only a build that published clears the flag.
BuildFailsFlagged(b) ==
  /\ build[b].at # "idle"
  /\ build' = [build EXCEPT ![b] = Idle]
  /\ UNCHANGED <<commits, store, server, flag, call, calls, builds, skewed>>

\* Any step may fail, or the process die.
BuildFails(b) ==
  /\ build[b].at # "idle"
  /\ Over(b)
  /\ UNCHANGED <<commits, store, server, call, calls, builds, skewed>>

\* livedocs extract, on a clone.
Extract(b, r) ==
  /\ r \in Rooted
  /\ Starts(b, [NewBuild("cli", r) EXCEPT !.at = "read", !.left = Files])
  /\ UNCHANGED <<commits, store, server, flag, call, calls, skewed>>

\* Its extractors read a file, the deep one all files of its language, the other one
\* each file in turn; an extractor that fails leaves no claims.
ExtractFile(b, f) ==
  LET v == Latest(build[b].repo)[f]
  IN /\ build[b].at = "read" /\ build[b].kind = "cli" /\ f \in build[b].left
     /\ \E rows \in {{}, {Built(f, v)}} :
          /\ v = None => rows = {}
          /\ build' = [build EXCEPT ![b].left = @ \ {f}, ![b].rows[f] = rows,
                                    ![b].unhashed = @ \cup {f}]
     /\ UNCHANGED <<commits, store, server, flag, call, calls, builds, skewed>>

\* Later the file is read once more for its source_files row, after its claims are
\* stored and again when the tribal extractors are seeded: the last read counts.
HashFile(b, f) ==
  LET v == Latest(build[b].repo)[f]
      same == \E row \in build[b].rows[f] : row.v = v
  IN /\ build[b].at = "read" /\ f \in build[b].unhashed
     /\ build' = [build EXCEPT ![b].unhashed = @ \ {f}, ![b].hash[f] = v,
                               ![b].skew = IF same THEN @ ELSE @ \cup {f}]
     /\ UNCHANGED <<commits, store, server, flag, call, calls, builds, skewed>>

\* RunExtraction: without a database, or one that has no label, everything is listed;
\* otherwise its label is what to compare from.
RunExtraction(b) ==
  LET r == build[b].repo
      from == IF Exists(r) THEN dbs[path[r]].sha ELSE None
      listed == {f \in Files : Latest(r)[f] # None}
  IN /\ build[b].at = "start"
     /\ build' = [build EXCEPT
                    ![b].at = IF from = None THEN "label" ELSE "diff",
                    ![b].kind = IF from = None THEN "full" ELSE "incremental",
                    ![b].left = IF from = None THEN listed ELSE {},
                    ![b].from = from]
     /\ UNCHANGED <<commits, store, server, flag, call, calls, builds, skewed>>

\* A full extraction: the head after the listing, before the reads.  Without an
\* answer there is no label.
Label(b) ==
  /\ build[b].at = "label"
  /\ \E sha \in {None, Len(commits[build[b].repo])} :
       build' = [build EXCEPT ![b].at = "read", ![b].sha = sha]
  /\ UNCHANGED <<commits, store, server, flag, call, calls, builds, skewed>>

\* An incremental one: nothing to do, or the files that differ between the commits.
DiffCommits(b) ==
  LET r == build[b].repo
      to == Len(commits[r])
      from == build[b].from
      changed == {f \in Files : commits[r][from][f] # commits[r][to][f]}
  IN /\ build[b].at = "diff"
     /\ IF from = to THEN Over(b)
        ELSE /\ build' = [build EXCEPT ![b].at = "read", ![b].sha = to,
                                       ![b].left = changed]
             /\ UNCHANGED flag
     /\ UNCHANGED <<commits, store, server, call, calls, builds, skewed>>

\* The pipeline reads a file, at the commit compared to or at the head by now, and
\* stores claims and hash of what it read; an error is collected.
ReadRemote(b, f) ==
  LET r == build[b].repo
      at == IF build[b].kind = "incremental" THEN build[b].sha ELSE Len(commits[r])
      v == commits[r][at][f]
  IN /\ build[b].at = "read" /\ build[b].kind \in {"full", "incremental"}
     /\ f \in build[b].left
     /\ \/ build' = [build EXCEPT ![b].left = @ \ {f}]
        \/ /\ v # None
           /\ build' = [build EXCEPT ![b].left = @ \ {f}, ![b].hash[f] = v,
                                     ![b].rows[f] = {[v |-> v, by |-> "tree"]}]
     /\ UNCHANGED <<commits, store, server, flag, call, calls, builds, skewed>>

\* Mutant: the label is the head when the database is published.
PublishNewest(b) ==
  LET new == build[b]
      sha == IF new.sha = None THEN None ELSE Len(commits[new.repo])
  IN /\ new.at = "read" /\ new.left = {} /\ new.unhashed = {}
     /\ dbs' = Append(dbs, Database(new.repo, new.rows, new.hash, sha))
     /\ path' = [path EXCEPT ![new.repo] = Len(dbs) + 1]
     /\ clock' = clock + 1
     /\ written' = Append(written, clock + 1)
     /\ Over(b)
     /\ UNCHANGED <<commits, server, call, calls, builds, skewed>>

\* The label is written, the database closed and renamed over the one in place,
\* which keeps nothing of it.
Publish(b) ==
  LET new == build[b]
  IN /\ new.at = "read" /\ new.left = {} /\ new.unhashed = {}
     /\ dbs' = Append(dbs, Database(new.repo, new.rows, new.hash, new.sha))
     /\ path' = [path EXCEPT ![new.repo] = Len(dbs) + 1]
     /\ clock' = clock + 1
     /\ written' = Append(written, clock + 1)
     /\ skewed' = skewed \cup {<<Len(dbs) + 1, f>> : f \in new.skew}
     /\ Over(b)
     /\ UNCHANGED <<commits, server, call, calls, builds>>

-----------------------------------------------------------------------------
\* Time

CheckExpires(r) ==
  /\ Cached(r)
  /\ checks' = [checks EXCEPT ![r].fresh = FALSE]
  /\ UNCHANGED <<commits, store, pool, index, recent, flag, call, build, calls,
                 builds, skewed>>

DebounceEnds(f) ==
  /\ f \in recent
  /\ recent' = recent \ {f}
  /\ UNCHANGED <<commits, store, pool, index, checks, flag, call, build, calls,
                 builds, skewed>>

\* What a call that was made does next.
CallStep(c) ==
  \/ OpenCached(c) \/ OpenFile(c) \/ StatFile(c) \/ Visit(c)
  \/ CheckNothing(c) \/ CheckCached(c) \/ CheckQuery(c)
  \/ \E f \in Files : CheckFile(c, f) \/ SkipRecent(c, f) \/ ReadStale(c, f)
  \/ ExtractStale(c) \/ RefreshFails(c) \/ StoreStale(c) \/ Render(c)
  \/ CompareCommits(c) \/ \E b \in Builds : Queue(c, b)

BuildStep(b) ==
  \/ \E f \in Files : ExtractFile(b, f) \/ HashFile(b, f) \/ ReadRemote(b, f)
  \/ RunExtraction(b) \/ Label(b) \/ DiffCommits(b) \/ Publish(b) \/ BuildFails(b)

Next ==
  \/ \E r \in Repos, f \in Files : Commit(r, f)
  \/ \E c \in Calls :
       \/ ListRepos(c) \/ SearchSymbols(c) \/ Cancel(c) \/ CallStep(c)
       \/ \E r \in Repos : \/ RequestExtraction(c, r)
                          \/ \E kind \in {"describe", "packages"} :
                               PackageCall(c, r, kind)
  \/ \E b \in Builds : BuildStep(b) \/ \E r \in Repos : Extract(b, r)
  \/ \E r \in Repos : CheckExpires(r)
  \/ \E f \in Files : DebounceEnds(f)

Spec == Init /\ [][Next]_vars

-----------------------------------------------------------------------------
\* Properties

TypeOK ==
  /\ \A r \in Repos : /\ path[r] \in 0 .. Len(dbs)
                      /\ Exists(r) => dbs[path[r]].repo = r
  /\ Len(written) = Len(dbs) /\ \A i \in DOMAIN dbs : written[i] \in 1 .. clock
  /\ index \subseteq Repos /\ recent \subseteq Files /\ flag \subseteq Repos
  /\ \A c \in Calls : call[c].at \notin {"idle", "open", "queue"} =>
                      call[c].db \in 1 .. Len(dbs)
  /\ calls \in 0 .. MaxCalls /\ builds \in 0 .. MaxBuilds

\* The pool has at most maxOpen connections, one for a repository, each of a file
\* that was in place for it.  DBPool.Open.
PoolBounded ==
  /\ Len(pool) <= MaxOpen
  /\ \A i, j \in 1 .. Len(pool) : pool[i].repo = pool[j].repo => i = j
  /\ \A i \in 1 .. Len(pool) : dbs[pool[i].db].repo = pool[i].repo

\* describe_package answers without a warning only with claims at least as new as the
\* content that was compared, in the check it relies on, for every file of that check.
\* Other calls refresh the same files at the same time, fail, and are debounced.  Not
\* promised for a check cached from a database since replaced, or a file that an
\* extraction hashed in a later state than it extracted.
AnswerCurrent ==
  \A c \in Calls :
    /\ call[c].at = "render" /\ ~call[c].warned
    /\ call[c].base = call[c].db
    => \A f \in Files :
         \/ call[c].asof[f] = None
         \/ \E row \in dbs[call[c].db].rows[f] : row.v >= call[c].asof[f]
         \/ <<call[c].db, f>> \in skewed

\* A remote extraction never labels a database with a commit newer than the claims it
\* stored: what request_extraction takes for fresh is.
LabelHonest ==
  \A i \in DOMAIN dbs :
    dbs[i].sha # None =>
      \A f \in Files : \A row \in dbs[i].rows[f] :
        row.v >= commits[dbs[i].repo][dbs[i].sha][f]

\* A repository is reported as in progress only while an extraction of it that will
\* clear the flag is under way.  ExtractionTracker.
FlagOwned ==
  \A r \in flag : \E b \in Builds :
    build[b].at # "idle" /\ build[b].kind # "cli" /\ build[b].repo = r
=============================================================================
