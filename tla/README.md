# livedocs in TLA+

livedocs extracts *claims* about code (symbols, imports, documentation) and
*tribal facts* (knowledge found in review comments, commits and markers) into
SQLite databases, keeps them current as repositories change, reports where
documentation drifted from the code, and serves all of it to agents over MCP. This
directory holds TLA+ models of it, TLC configurations that check them on small
instances, and theorems about them checked by TLAPS.

## The system

| Component | State | What is hard | What makes it correct |
|---|---|---|---|
| Tribal mining service (`extractor/tribal/service.go`, `pr_comment.go`) | LLM call counter, singleflight table; in the database a file's PR cursor, facts, evidence | concurrent callers of a file; services that share a database; every external call can fail; death between two transactions | the cursor covers no comment nothing happened to; corroboration counts distinct comments; the budget is overshot by a bounded amount; nobody is left waiting |
| Mining tool and batch (`mcpserver/tribal_mine.go`, `cmd/livedocs/extract_cmd.go`, `db/rank_files.go`) | session buckets, the results of a call | a service per call, shared flights, restarts | spending is bounded by tokens and batches; "nothing new" is said only when it is so |
| Mining limiter (`extractor/tribal/limiter.go`) | active buckets and evicted snapshots, both bounded | eviction and return of a key | eviction does not refill a bucket |
| Tribal facts (`db/tribal*.go`, `cmd/livedocs/tribal_cmd.go`, `mcpserver/tribal_*.go`, `drift/tribal*.go`) | facts, evidence, corrections, feedback, liveness cache | commands of several transactions interleave with mining, drift passes and each other | one fact per cluster; a withdrawal stays and is on record; the gate is earned; a fact goes stale for a reason |
| Tribal fact extractors (`extractor/tribal/*.go`) | none | sequential | what they hand to the store |
| Watcher and pipeline (`watch/`, `pipeline/`, `gitdiff/`, `cache/`) | last commit, claims, source-file rows, content-hash cache, state file | HEAD moves while files are read; force-pushes, pruned commits; per-file errors; restarts; watchers share one state file | at rest the index is that of HEAD; a cache hit skips nothing that is not stored; the watcher catches up |
| Enrichment (`sourcegraph/`, `cmd/livedocs/watch_cmd.go`, `enrich.go`) | queue, debounce timer, client, tombstones, the transaction's executor | the enricher writes while the pipeline's transaction is open; shutdown and restart; full channels | every symbol is decided at its present content; giving up and success exclude each other |
| Claims store (`db/claims.go`, `cmd/livedocs/extract_cmd.go`, `semantic/`, `scip/`) | symbols, claims, source files, of a database being built and of the one published | deletes that do not match what is written; a model call between a read and a write; partial failure | nothing secret is published; who stores again replaces; a hash vouches for its claims |
| Claim extractors (`extractor/goextractor`, `extractor/treesitter`) | none | sequential | the claims of a content |
| Serving (`mcpserver/dbpool.go`, `staleness.go`, `server.go`, `request_extraction`, `extraction_runner.go`) | connections, cached checks, debounce, in-progress flags, published files | a database is replaced, a file edited and a connection evicted under a tool call | an answer without a warning is current; a label is no newer than the claims; a flag has an owner |
| Evergreen documents (`evergreen/`) | documents, revisions, rate buckets | a refresh takes minutes while the document and the code change | no answer is lost early; a late refresh is the only one that overwrites a mark; drift shows |
| Documentation drift (`drift/drift.go`, `check/`, `cmd/livedocs/diff.go`, `prbot/`, `anchor/`, `audit/`, `aicontext/`) | the manifest, the claims | reports rest on a diff, a stored manifest and renames git guesses | no stale document escapes the fast check; the full checks agree |
| Renderers and verification (`renderer/`, `cmd/livedocs/verify_claims.go`) | none | sequential | what they say of a database is so |

The watcher calls the pipeline, which owns the cache and writes the claims
database; after a run it hands the changed paths to the enrichment queue. The
MCP server opens claims databases through the pool, checks staleness before it
answers, and calls the mining service, which shares the `source_files` table with
the pipeline (its cursor columns) and writes the tribal tables of the same
database. `PROJECT.json` lists every component with its files and says what is
modelled of it.

## Modules

| Module | Models |
|---|---|
| `TribalMining` | the mining service, the miner, the cursor columns and the fact upsert |
| `MiningLedger` | abstract: what the service promises about the database |
| `MiningTool` | the MCP tool and the batch that call the service, composed with `TribalMining` |
| `KeyedLimiter` | the token-bucket limiter with its active and snapshot lists |
| `RecencyBuckets` | abstract: one LRU list of buckets |
| `TribalExtractors` | what the deterministic extractors find, as operators |
| `TribalFacts` | the life of a fact: store, commands, tools, drift and verification passes |
| `WatchPipeline` | the watcher, the diff, the pipeline and its cache, for one repository, with the state file it shares |
| `Enrichment` | several watched repositories, their queues, the enricher, the client and the process |
| `ClaimExtractors` | the Go and tree-sitter extractors, as operators |
| `ClaimsStore` | the claims database: local, remote and incremental extraction, the semantic tier, the SCIP importer |
| `ClaimReports` | `verify-claims` and the page of a package, over `ClaimsStore` |
| `Serving` | publication of databases, the pool, the staleness checker, tool calls, requested extractions |
| `EvergreenDetector` | manifests and the drift detector, as operators |
| `EvergreenRefresh` | evergreen documents: store, revisions, refresh tool, rate limit, over `EvergreenDetector` |
| `DocDrift` | the commands that report documentation drift |
| `TribalMiningProofs`, `TribalFactsProofs`, `WatchPipelineProofs`, `ServingProofs`, `EnrichmentProofs`, `ClaimsStoreProofs`, `DocDriftProofs` | theorems about the module each is named for |
| `EvergreenProofs` | theorems about `KeyedLimiter` and `EvergreenRefresh` |
| `MC*` | instances for TLC |

In every module an operator with "Mutant" in its comment is no part of the model: it
is a plausible wrong form of the definition after it, which the property it is meant
for must refute.

### TribalMining

A *flight* is one execution of `mineFileOnce`. singleflight admits one per
service and file, so `flight` is indexed by both; its `stage` says where in the
function it is (`load` cursor, `find` PRs, `mine` comments, `checked` past
the budget check, `store` facts, `save` cursor) and its other fields are the
function's locals. A *caller* is a goroutine in `MineSymbol`: the files left, and
the flight it waits for. `cursor` and `version` are the two cursor columns of
`source_files`; `evidence` and `corroboration` are the fact of a cluster. A cluster
(kind and scrubbed body, hashed by `normalize.ScrubAndHash`) is a member of
`Bodies`; the LLM's verdict is any of them, or none.

| Action | Code |
|---|---|
| `Call`, `Enter`, `GiveUp`, `Return` | `MineSymbol`, `MineFile` up to singleflight, throttled or cancelled callers |
| `LoadCursor`, `SymbolFails` | `UpsertSymbol` and `GetPRIDSet` |
| `FindPRs`, `FindFails`, `Regress` | `findPRsForFile`, the monotonicity check, the union |
| `FetchComments`, `SkipPR` | `fetchPRComments` and its skipped failure |
| `CheckBudget`, `BudgetExceeded` | `checkBudget` |
| `ClassifyComment`, `ClassifyFails` | `incrementCallCount` and the LLM call |
| `UpsertFact`, `UpsertFails`, `BumpGeneration` | the upsert loop |
| `SaveCursor`, `SaveFails` | `SetPRIDSet`, whose error is dropped |
| `ForceRemine`, `Crash` | `--force-remine`; the process dies |

`fate` and `charges` are history: what became of a comment (stored, classified as
nothing, rejected by an upsert, unfetched), and the LLM calls spent on it.
`Faults` selects which failures an instance has. `PerCall` says that a call
builds its own service, as the MCP factory does.

`MiningTool` wraps every one of these steps: a caller is a tool call (`Admit`, `Deny`,
`Reject`, then `Enter` and `Return` with the reply `buildTribalMineResponse` gives) or
a batch of `livedocs extract` (`Batch`, over the files `RankFilesForMining` puts first).
`tokens` is the session's bucket, of which `KeyedLimiter` has the whole;
`got` what `MineSymbol` has collected, `admitted` and `witnessed` are history.

### KeyedLimiter

`active` and `snapshot` are the two `container/list`s, front first, with the maps that
index them. `Allow` is `limiterForKey` under the mutex (`Promote`, `Restore`, `Create`),
then the token taken from the limiter it returned (`Grant`, `Deny`), without the
mutex; `holds` is that limiter, which stays usable for the caller after both lists
dropped it. `Tick` is the passing of the time in which a bucket gains a token.
`used`, `granted` and `ticks` are history. `RecencyBuckets` is the promise: one list
of `2 * MaxKeys` buckets in order of use, the mapping being `active` followed by
`snapshot`.

### TribalFacts

A fact's ID is its place in `facts`; a row has its subject, body, status, whether a model
wrote it, corroboration, hashes and evidence. `Cluster` is what `ScrubAndHash`
makes of a body, so two wordings can be one cluster. `op` is what a process is
between two of the transactions of a command or pass:

| Action | Code |
|---|---|
| `Mine`, `Extract`, `Propose` | one `UpsertTribalFact` each (`Merge` or insert) |
| `Command`, `ProposeChange`, `Delete`, then `Mark`, `Record`, `Replace` | `livedocs tribal correct`, `supersede`, `delete` and `tribal_propose_fact` with a `fact_id`: status, correction row, replacement, a transaction each |
| `Report` | `tribal_report_fact` |
| `CheckTribal`, `CheckEvidence`, `CheckDone` | the drift pass over active facts |
| `ProbeCached`, `ProbeExhausted`, `ProbeCalls`, `ProbeAnswered`, `ProbeFails` | `CheckSourceRefLive` and its LRU cache |
| `ReverifyTribal`, `Verify`, `VerifyExhausted` | the sampled verification |
| `Abandon`, `Turn`, `TimePasses` | an error or crash between transactions; upstream; a day |

`Served` is the gate of the query tools and `HallucinationRate` the statistic of
`GetS4GateStats`. What `TribalExtractors` finds comes in through `Extract`.

### WatchPipeline

A file's content is its hash; a *site* is a repository and the way it is watched: the
tree of each commit, the ancestors, whether files are read from a clone or through a
remote source, and the faults that may happen. A behaviour chooses its site once, so that
one run covers a clone and a remote source. `run` is the `Pipeline.Run` under way:
deletions to tombstone (`gone`), paths to process (`todo`), contents read
(`text`). `rows[f]` is the set of contents whose claims are stored for the file,
so the right index has exactly one, that of HEAD. `sources` is the row in
`source_files`, and `cache` the hash cache, which `watch_cmd.go` opens in memory: a
restart empties it. `Keyed` says which of the columns
`DeleteClaimsByExtractorAndFile` selects by (the extractor's name, the path) the
claims an extractor writes really carry.

`Check` is `Watcher.check` up to the diff (a failed git command changes nothing,
and is a check not taken); `MarkDeleted`, `ExpandDeps`, `ReadFile`, `ReadAhead`, `CacheHit`,
`StoreFile` and their failures are the loops of `Pipeline.Run`; `Finish`, `SetSHA`
and `SaveState` the rest of `check`; `Crash` a restart. The state file is shared:
`memory` is the SHA in the `State` value, `other` the one that another watcher
has marshalled but not renamed yet (`OtherMarshals`, `OtherRenames`), `saved` the file.
`failed` is history: the files whose last processing ended in an error the pipeline
collected.

### Enrichment

`w` are the watchers, reduced to the transaction of each file (`TxBegin`, `TxCommit`,
`TxRollback`, `TxDone`), the batch sent to the queue (`SendHead`, `Send`) and the save.
While a transaction is open `ClaimsDB.exec` is that transaction, so the enricher reads
and writes inside it (`view`), and loses what it wrote with it. `Receive` and `Fire`
are the queue's loop and its debounce timer; `Take`, `Ask`, `Stored`, `Vague`, `Close`
and `Abandon` the enricher's loop over a symbol and its predicates, with tombstones
and their escalation; `Answer` and `Error` the client's one worker;
`Stop`, `End`, `CloseClient`, `Exit`, `Kill`, `Panic` and `Restart` the process.
`missed` is history: symbols that one of the failures the code only logs (a full channel,
a cut batch, a rolled back transaction, an end of the process) kept from being decided.

### ClaimsStore and ClaimReports

`ClaimExtractors` gives the claims of a content. `job` is an extraction into a new
database: `Begin` to `Publish` for a clone, `BeginRemote` to `RemoteDone` from
Sourcegraph, in full or between two revisions. `rows` is a bag, since nothing in the
schema keeps a claim from being stored twice. `call` is `GenerateForPackage` on a
published database, with the symbols it read before it asked; `index` a SCIP index
being imported. Both writers of a published database are reached from tests only.
`ClaimReports` adds no state: `VerifyOne`, `CanaryFails`, the check of READMEs and
what `LoadPackageData` selects are operators over a published database.

### Serving

A content is the number of the commit that changed the file last. `dbs` are the
database files that were ever published and `path` the one in place: a connection
(`pool`) keeps reading the file it opened. A call's record has its locals: the
connection, what the staleness check compared (`asof`), the hashes it read, the files
left. `OpenCached`, `OpenFile` and `StatFile` are `DBPool.Open`; `CheckQuery` and
`CheckFile` the staleness check, `ReadStale`, `ExtractStale` and `StoreStale` the refresh;
`RequestExtraction`, `CompareCommits` and `Queue` the tool, and the build actions
`livedocs extract` and `RunExtraction`. `skewed` is history: a file that an extraction
hashed in a later state than it extracted.

### EvergreenRefresh

`row` and `revisions` are the two tables, the revisions of a document a set of rows. A refresh (`call`) goes from `Load` (`Get` and
the orphan guard) through the session bucket and the document bucket
(`AllowSession`, `AllowDocument`) and the executor (`Execute`) to `SaveRefreshed`, one
transaction that captures the revision, prunes and writes the row; the failures
end the call. `SaveNew` is `livedocs evergreen save`, `Delete` the delete command, and
`UpdateStatus` the store call adapters make when the detector found a document
orphaned. An answer of the executor is its number; `answers` keeps the manifest
it came with, made by `EvergreenDetector` from one of a few tool replies, and
`Extract` moves the symbols of the claims database on. `stored` (the
answers the row had), `overtaken` (calls whose document was marked or deleted after
they read it), `ran` and `refills` are history. A status is orphaned or not: the
code asks nothing else of it. A behaviour chooses one of three settings
(`Sites`): two concurrent calls under the limiter, drifting symbols, and every reply.

### DocDrift

The state is a working tree, `HEAD` and its parent, and what the commands store
(`manifest`, the files with claims). A document is the set of symbols and packages it
names, a file the symbols it exports and whether it parses. The commands are operators
over that state (`RunManifest`, `RunDiff`, `Analyze`, `HasDrift`, `Verify`): a property
holds in every state, so whenever a command may be run. `Renames` leaves open which
deletions and additions git pairs.

## Runs

| Run | Checks | Shows |
|---|---|---|
| `mining` | `CursorAccounts`, `CorroborationCounts`, `SpendBounded`, `NoneMeansNone`, `ImplementsLedger` | a tool call and a batch with a service each mine two files of one database; one LLM call of budget, one token and one refill; every failure that touches stored state, crashes, forced re-mines |
| `mining_live` | `BudgetOvershoot`, `ChargedOnce`, `CursorGrows`, `CallsReturn` | two callers of one service share flights; early failures and throttling |
| `limiter` | `OneBucketPerKey`, `NoFreshBurst`, `IsExactLRU` | five keys, two callers, lists of two |
| `facts` | `OnePerCluster`, `GateEarned`, `WithdrawnCounted`, `FactsEndure`, `StaleForReason` | two processes extract, mine, propose, supersede, delete, report and run both passes on one symbol, and stop anywhere |
| `watch` | `ContentCurrent`, `NoGhosts`, `CacheHonest`, `ResumeIndexed`, `CatchesUp` | a clone with reads racing pushes, every collected error and two restarts; a remote source with rewritten history |
| `enrichment` | `GivenUpHasNothing`, `NothingForgotten` | two repositories, one state file, one client; failing calls, rollbacks, shutdown, kill, restart, `livedocs enrich` |
| `claims` | `Screened`, `Replaced`, `HitHasClaims`, `ReportsTrue`, `StructuralKept` | a Go package with a test and a Python script change while they are extracted, asked about, published, generated and imported |
| `serving` | `AnswerCurrent`, `LabelHonest`, `FlagOwned` | two tool calls over a pool of one connection, while files change and an extraction replaces a database |
| `evergreen` | `HistoryKept`, `Quota`, `DriftSeen`, `LateOnly` | two refreshes of one session on two documents, against saves, deletions, marks, failures; drifting symbols; every reply |
| `docs` | `HookCatches`, `DiffCatches`, `PrbotExact`, `ReportsAgree` | edits, moves, commits, files that do not parse, and every report in between |
| `watch_stale` | `ContentCurrent` violated | the delete matches none of the claims the extractors write |
| `claims_incremental` | `IncrementalKeeps` violated | an extraction between two revisions drops every other file's claims |

`SpendBounded` has two halves: LLM calls are at most the services built times the budget,
and the services are at most the tokens and the batches. `WithdrawnCounted`,
`ReportsAgree`, `ReportsTrue`, `DriftSeen`, `Replaced`, `NothingForgotten` and `FactsEndure`
are conjunctions of parts that belong together; each part is named and commented in
its module. `TypeOK` of each module documents the shape of the state; the configurations
leave it out, since a variable out of its type would break one of the properties
they check. It is proved for the modules named under Proofs.

### Bounds

Mining: two files are enough for two flights of one service to pass the budget
check together, and comments in the first of two PRs for a window that overlaps the
cursor, one that regresses below it, and a flight that stops before a comment. In
`mining` two services find and insert the same fact, and a call is admitted by the
token a refill gives. Nothing else is bounded: call counts and charges end with the calls.

Limiter: lists of two, so that a restored bucket can push another one out of a full
snapshot list, and five keys, one more than both hold. `MaxLimiters` leaves room for
keys that were forgotten and come back.

Facts: three wordings in two clusters, two comments, two owners of one CODEOWNERS pattern,
two facts (one to withdraw, one that replaces it) and three operations: a pass that
read a fact before it was withdrawn, and a replacement that merges with a mined one, need
two at a time and one before.

Watching: three commits and two files. `Forward` has a change, a deletion and an
addition, and no content comes back; `Rewritten` has sibling commits, between which HEAD
moves by force-push. `MaxPushes` bounds the moves of HEAD and `MaxCrashes` the restarts;
two of each give a push during a run, another during the next, and a restart of
the recovery.

Enrichment: the first repository has two symbols and a batch of one, so a batch is cut;
two predicates, so a symbol fails halfway; a client buffer of two, for one request of each
repository; two failures before a symbol is given up; one end of the process with its
restart, and a run of `livedocs enrich` after another.

Claims: one change of the tree, one extraction, two writes of the published database;
the contents have a type with a method and an interface it satisfies, and a
function in their place, so that a re-extraction must drop what is gone.

Serving: one file, two repositories (a clone of three commits and a remote of two), a pool
of one connection, two calls and one extraction: an eviction under a call, a replacement
under another, and an edit between any two reads.

Evergreen: `runs` and `refills` of the first setting allow three revisions of one document
with two kept, so the prune happens, and the session bucket is smaller than the calls
that may be made. The second has two edits of the cited symbols: a symbol that moves
and another that takes its place.

Documents: three edits, before, between and after commits: a deletion, a move out of the
directory, and a file that stops parsing.

### What the passing runs leave out, and why

`mining_live` has no failure after the first LLM call, since a retry then pays
again by design; `mining` has all of them. No run loses the read of a cursor
(service.go:447 takes an error for an empty cursor): `CursorHonest` covers it, and cursors
shrink then. `watch` assumes extractors that keep the contract of
`extractor/extractor.go` (`Name` is what their claims carry, paths are relative); the
extractors in the tree do not, which is `watch_stale`. `ContentCurrent` and `NoGhosts`
are about histories that only grow (HEAD is never forced back, and no file gets a content
again that it had lost: see Proofs), and exempt files with a reported error.
`NoGhosts` ends with the first restart: a file indexed after the last saved commit and
deleted before the restart is in neither side of the next diff. At the remote site the
ancestor check cannot fail (`RemoteGitOps` answers yes), and `compare_revisions` is
taken to answer from the empty tree when there is no commit to compare from. `StaleForReason`
takes evidence that was computed from something else than the fact for a reason, because
the code does. `AnswerCurrent` exempts a check cached from a database since
replaced and a file hashed later than it was extracted. With `CHECK_DEADLOCK FALSE` a system
may stop: the bounded operations are used up.

### Fairness

`TribalMining`: weak fairness of each flight (the disjunction of its steps and
its failures) and of each caller's next step: goroutines are scheduled, and gh,
the LLM and SQLite answer or fail (they are called with contexts and a busy
timeout). No caller is obliged to call again. `WatchPipeline`: weak fairness of the
watcher's goroutine, whose ticker fires for ever; none for pushes, failures, other
watchers or restarts. No other module states fairness: its calls may stop anywhere.

## Where code and documentation part

Two disagreements are runs (`watch_stale`, `claims_incremental`). The others below
were met while the modules were written; the modules follow the code, and the
properties say only what survives it.

Mining. A tool description (tribal_mine.go:556) speaks of the deployment's
daily budget, but the counter lives in a service that each call builds, and
`livedocs mcp` sets no `MineRateLimiter`: with it unset, spending is unbounded.
"No new tribal facts" is also the answer when mining failed for every file. A file whose
window is always empty stays "never mined" and heads every capped batch, and files
of unsupported extensions take places in the ranking before they are skipped. PRs that
fall out of gh's ten-PR window between two runs are never seen (pr_comment.go:263), and
an unfetched PR enters the cursor all the same (pr_comment.go:219).

Watching. A file read ahead of the diffed commit and then reverted keeps the newer
claims (pipeline.go:225); a force-push leaves the abandoned files live (gitdiff.go:71); a
pruned commit stops the watcher of a clone for good (watch/gitops.go:47); a failed file is
not retried until its content changes (pipeline.go:185). Importers of a changed file
are selected (reversedep.go:18) and then skipped by their unchanged hash; and the
selection compares subjects in another form than the Go extractor's imports have.
The deep extraction on a timer deletes nothing, so each tick stores its claims again.

Evergreen. types.go:223 says that an orphaned document's status "should transition", but
`UpdateStatus` has no caller in the tree, and a refresh does not run `Detect` first. The
commands pass no claims reader (evergreen_cmd.go:191, 247), so only the cold
severity fires there; it is emitted beside the others although detector.go:32
reserves it for documents without drift. The deep-search executor records no hashes,
so hot and warm need an adapter's. The answer is fetched before its citations are resolved
(deepsearch_mcp.go:117). Each CLI refresh is a process with a limiter of its own. Two
overlapping refreshes may save the older answer last: `LateOnly` says which overwrite what.

Facts. drift/tribal.go:43 says that superseded and deleted facts are never touched; a late
pass writes the status it decided by ID (`FactsEndure` has what remains: none comes back to
active). CODEOWNERS owners are mentions and are scrubbed away, so the second rule of a
pattern merges into the first rule's fact. Extraction after another commit adds a new
rationale or ownership fact beside the old one. A supersede with a text of the
same cluster merges the replacement into the fact it superseded (tribal_cmd.go:225), and
an operation cut after its first step leaves a withdrawn fact without a replacement (274).
A fact corroborated by evidence of another content is stale at the first drift
check. Quarantined proposals can supersede active facts and corroborate those of a model.
`tribal_search` applies no gate. `CheckTribal`, `ReverifyTribal` and the liveness cache have
no production caller; they are modelled as their tests run them.

Serving. Claims that a refresh writes carry absolute paths, which the next refresh's delete
does not select; a deleted file is only marked; the staleness cache survives a refresh; the
debounce is keyed by relative path across repositories; the routing index is built once; a
new extraction replaces the database with its corrections and cursors. An evicted connection
may still be in use (dbpool.go:162), and the path is opened before its time is asked
(dbpool.go:152). `request_extraction` checks and sets its flag in two steps
(tool_request_extraction.go:48). extract_cmd.go:419 hashes a file after its extraction.

Enrichment. A request sent while the client closes panics (client.go:166). enrich.go:29
calls symbols beyond the budget deferred, but the queue forgets them. A cancelled context
counts as a failure towards giving up (enrich.go:260), and one predicate that is stored
makes the symbol enriched (406). The swap of `ClaimsDB.exec` is unsynchronised; the model
takes it as atomic. A call has no deadline of its own (client.go:195).

Documents. git's renames hide a file that left a directory from the manifest check
(manifest.go:185, exempted in `HookCatches`). A Go file that does not parse costs its
directory all Go exports. The PR bot sees 10 000 claims (prbot.go:108).

Claims. The name a claim refers to is never stored, so relations in the page of a package
stay empty (renderer/markdown.go:9). After the semantic tier the page counts
"llm-semantic" as a source file and `verify-claims` reports its claims as HIGH. The
remote pipeline and the SCIP importer apply no sensitive filter: `Screened` is about local
extraction. A semantic store deletes and then inserts without a transaction, and its
upsert wipes columns of the symbol. The canary passes a drift of exactly two
percent. A remote extraction publishes although files failed.

## Proofs

TLAPS proves the theorems below for every value of the constants that the named
assumptions allow: any number of files, callers, services, processes or commits, without
the bounds the configurations set. An invariant that the runs check is seldom inductive; each
proofs module first states what makes it so, proves that the initial states have it and
that every action keeps it (a lemma for each action), and draws the theorems from it.

| Module | Theorem | States |
|---|---|---|
| `TribalMiningProofs` | `TypeCorrect` | `TypeOK` |
| | `BudgetBounded` | `BudgetOvershoot`: fewer than `DailyBudget + Cardinality(Files)` calls by a service |
| | `CorroborationExact` | `CorroborationCounts` |
| | `CursorHonest` | `CursorAccounts`, with the read of a cursor that fails, which no run has |
| | `LedgerImplemented` | `ImplementsLedger`, the refinement of `MiningLedger` |
| | `ToolImplements` | `ToolSpec => Spec`: what is proved of the service holds under tool calls and batches |
| | `NoneHonest` | `NoneMeansNone` |
| | `SpendHolds` | `SpendBounded` |
| | `SentOnce` | `ChargedOnce`, for one service that lives on (`Undisturbed`) |
| | `CursorsGrow` | `CursorGrows`, an action property, for one service and no re-mine (`OneWriter`) |
| `TribalFactsProofs` | `TypeCorrect` | `TypeOK` |
| | `ClusterUnique` | `OnePerCluster` |
| | `GateHolds` | `GateEarned` |
| | `FactsKept` | `FactsEndure`, an action property |
| | `StaleJustified` | `StaleForReason`, an action property |
| | `RetiredKept` | `RetiredRecorded`, the first half of `WithdrawnCounted` |
| | `WithdrawalsCounted` | `WithdrawnCounted` |
| `WatchPipelineProofs` | `TypeCorrect` | `TypeOK` |
| | `CacheTrue` | `CacheHonest` |
| | `ResumeTrue` | `ResumeIndexed` |
| | `IndexCurrent` | `ContentCurrent` |
| | `GhostFree` | `NoGhosts` |
| `ServingProofs` | `TypeCorrect` | `TypeOK` |
| | `CurrentAnswers` | `AnswerCurrent` |
| | `HonestLabels` | `LabelHonest` |
| | `FlagCleared` | `FlagOwned` |
| | `BoundedPool` | `PoolBounded` |
| `EnrichmentProofs` | `TypeCorrect` | `TypeOK` |
| | `GivenUpOrEnriched` | `GivenUpHasNothing` |
| | `NothingLost` | `NothingForgotten` |
| `EvergreenProofs` | `LimiterTypeCorrect` | `LimiterTypeOK`, the sizes of both lists included |
| | `BucketsUnique` | `OneBucketPerKey` |
| | `BurstNeverFresh` | `NoFreshBurst` |
| | `ImplementsBuckets` | `IsExactLRU`, the refinement of `RecencyBuckets` |
| | `TypeCorrect` | `TypeOK` |
| | `HistoryTrue` | `HistoryKept` |
| | `QuotaHolds` | `Quota` |
| | `LateWrites` | `LateOnly`, an action property |
| | `DriftShows` | `DriftSeen` |
| `ClaimsStoreProofs` | `ScreenedHolds` | `Screened` |
| | `HitHasClaimsHolds` | `HitHasClaims` |
| | `ReplacedHolds` | `Replaced` |
| | `StructuralKeptHolds` | `StructuralKept`, an action property |
| | `ReportsHold` | `ReportsTrue` |
| `DocDriftProofs` | `TypeCorrect` | `TypeOK` |
| | `DiffHolds` | `DiffCatches` |
| | `HookHolds` | `HookCatches` |
| | `PrbotHolds` | `PrbotExact` |
| | `ReportsHold` | `ReportsAgree` |

### The arguments

**Mining.** Assumes `ConstantsAssumption` and `PerCallAssumption` (a service that serves one
call has one caller). `CursorAccounts` becomes inductive with what a flight still owes: a
comment of a PR it has put in its union has a fate, or is still to be fetched,
classified or stored by that flight, and each stage has its locals in the shape the
function gives them. `CorroborationCounts` needs only that the upsert is one
transaction. The budget counts the flights of a service that passed the check and have not
called yet: each of them adds at most one call past the budget, and singleflight has at
most one for each file. The refinement hides flights and callers, so that every step that
writes neither the database nor the history of a comment is a stutter.

The tool's theorems also assume `ToolAssumption`. `ToolImplements` carries the invariants above over to
`ToolSpec`. For `NoneHonest`, `Told` follows what was stored or refused for a waiting
agent: it is in the result of a flight the agent is parked on, or in the results
collected for it (`Handed`), or the agent has an error already. `SpendHolds` keeps books: an
existential pair of a set of admitted calls and a numbering of the LLM calls made, in
which each service bills `DailyBudget` calls at most (`Books`). A service serves one
call (`PerCall`), so the check and the count meet in one flight at a time; a restart or
the next call closes an entry and never reopens it.

`SentOnce` and `CursorsGrow` are about the service as a batch uses it, and hold under named
conditions, the ones `mining_live` has. `Undisturbed`: one service is not thrown away between
calls, no comment is shown on two files or PRs, and the failures that drop what
was paid for do not occur; a caller that gives up, a window `gh` cannot list, a PR
it cannot fetch and a refused fact still may. Its invariant, `OnceInv`, says
that no comment a flight is still to look at was charged, unless the budget is spent: a flight that
stops there loses what it paid for, but then the check lets nothing through again.
`OneWriter`: one service, whose reads succeed. What a flight loaded is then still the
cursor, or a part of it, when it saves (`Holding`). Without these conditions both
properties are false, and the code does not claim them.

**Limiter.** Assumes `LimiterAssumption`. No key is in a list twice, or in both
(`Placed`), a limiter is made once for one entry (`Fresh`), and while at most `2 * MaxKeys`
keys were used each has its bucket, which paid for what the key was granted (`Paid`). The
snapshot list drops a bucket only when both lists are full, and then
they hold `2 * MaxKeys` distinct keys: `FullLists` numbers the entries of both lists and
shows the numbering an injection into the keys used. One more key is then too many for `Paid`
to promise anything. `ImplementsBuckets` maps the two lists, one after the other, to
the one list of the abstract limiter, each key to the tokens of its entry, and a caller to
the entry its call holds. A hit in the active list and a restore from the snapshot both move
an entry to the front of the concatenation; a new key is pushed there, and what
leaves is the last entry, since the snapshot drops its own last one only when both lists
are full. The mapping rests on `OneList`, that the concatenation has no key twice and its
entries are those that count, and on one more invariant, `Owned`: the limiter a call
holds is of its own key, or of none that is still listed, so that a grant from a
dropped limiter changes no bucket of the abstract list.

**Facts.** Assumes `ExtractorsAssumption` and `FactsAssumption`. `Typed` adds to the types what an
operation refers to: a fact it read, marked or is to replace exists, since IDs are never
reused. `OnePerCluster` is then kept by the one transaction that finds or inserts.
`GateEarned` becomes inductive as `Earned`: a model's fact that was corroborated has evidence
with two references, whatever its status, since a gate may open later. For
`StaleForReason`, an action property, a pass carries what it decided on: `Witnessed` says that
whatever a drift pass or a probe holds, in its locals or in the cache, has its
reason, and reasons stay, since `turned` and `rejections` only grow and evidence is only added.
The rate of `WithdrawnCounted` is a number of correction rows (`RowsOf`), computed from distinct
facts and from rows: every fact with a label that counts as a hallucination is mapped to a
row of its own, one to one, so the distinct facts cannot be more than the rows, also when a
fact was withdrawn twice or corrected by several commands.

**Watching.** Assumes `RepositoryAssumption` (ancestry is reflexive and transitive) and, for
the three theorems about claims, that `Keyed` is the name and the path: extractors that
keep the contract of `extractor/extractor.go`, which those of the tree do not (see
`watch_stale`). `Ordered` places the state file, what other watchers may still write to it, the last
indexed commit, the run's target and HEAD on one line of ancestors; `Reading` says that
what a run has read is the content of some commit from its target to HEAD; `Cached` that
the hash in a cache entry is of a commit not after the one whose claims are stored (a
clone reads a file twice); `Progress` that each file is indexed as some commit
between the last indexed one and HEAD had it, or is in the run's lists. The second conjunct of
`HistoryGrows` is what this argument needs at a diff, and the property is false without it.
A file read ahead of the commit its run indexes up to
carries the newer content; if a later commit brings the old content back, the next diff,
from the indexed commit to that one, does not list the file, and its claims stay those of
the commit in between: TLC finds the behaviour with three commits and no fault.

**Serving.** Assumes `ServingAssumption`. Because a content is the number of its commit,
`CommitsGrow` orders what a file was. The invariant bounds everything that is kept between
two reads: `Had`, a content was in the repository when it was read, so a later
read is no older; `Covers`, it is at least as new as the commit of the database's
label; `Backed`, a row stored in the database is at least as new as it. A call that compares, refreshes
or renders has every file of its check backed, still to do, or warned about
(`CallSound`); between the read for the hash and the transaction it holds a content no older
than the one it read before (`Extracted`), which is why the delete in the
transaction takes away nothing that is newer. `Grows` says what any other step may do to
commits and databases, so that each lemma is about one actor and the others are kept. For
`PoolBounded`, a call between opening a file and asking its time has room in the pool and no entry
for its repository (`PoolKept`), which the mutex gives.

**Enrichment.** Assumes `FleetAssumption`. The invariant has four layers. `Shape` is the type
invariant and what a queue, a watcher and a run hold of their own repository. `InOrder`
places the saved commit, the remembered one, the processed one and HEAD in this order for
each file, and a pipeline's target between the last two; it gives the first half of
`NothingForgotten`. `OneOrOther` says that giving up and claims exclude each other in what
the enricher sees, which is the open transaction while there is one: the symbol in hand
is not given up at the content it is asked about, nor enriched before an answer (`Open`),
and a transaction has the claims and tombstones of the database it began from (`Grown`), so that
neither its commit nor its rollback puts the two together. `Complete` accounts for
each symbol: it is missed or decided, or its file's change is still to be found by the watcher or
to be heard of by the queue, or it is in the batch or in hand (`Covered`). The
symbol in hand needs more, since the file may be extracted again between the read of its hash
and the answer: what it is stored under is the content the database has, unless
the queue hears of the file once more (`Fresh`). At the end of a process the watcher's
part of `Covered` falls back on the saved commit, which `InOrder` keeps behind HEAD. A step
that concerns one repository leaves the others covered (`RestComplete`).

**Evergreen.** Assumes `EvergreenAssumption`. `TypeOK` and `HistoryKept` are inductive only
together (`Kept`): the next revision number is the highest one plus one, which is a number
because the rows of a document are those of its last answers (`HighestOf`), and
one more answer then keeps exactly the last `MaxRevisions` of them (`CapturedNext`). For
`Quota`, `TokensKept` accounts for each token: it is in its bucket, spent on a run, or with
a call between the two buckets. For `LateOnly`, a call whose document is orphaned or gone
while it runs is acknowledged or among those overtaken (`Late`). For `DriftSeen` it also
assumes that there are finitely many repositories and that no place or repository is called
"malformed". `Traced` says what an answer was made from: its manifest is the citations of its
reply, resolved in the claims it saw; claims never give two places one symbol, and symbols
are numbered in the order they are minted, so that a number names the same symbol later
or none. What is built step by step is proved from what each step does: `FiniteInduction`
says that a property that passes from all smaller sets to a set holds of every finite
set (the relation of inclusion is well-founded there), which gives the fold over the links
of an answer (`SourcesParsed`), a list of the elements of a set (`Listed`) and one in
the order of given keys (`Sortable`). The findings of a manifest can be ordered as the
detector orders them because an entry has at most one (`OneFinding`, `FindingsOrdered`).

**Claims.** Assumes `ClaimsAssumption`, `FilesAssumption` and `ExtractorsAssumption` (the
name of an extractor of files is neither that of the Go extractor nor of the generator or
the importer). The first lemmas say who makes what: every claim of an extractor carries its
name, a file and no semantic predicate, and those of a document are variants of the claim
that a declaration has. `Sound` is what a database keeps: its semantic rows are
the generator's and those of a path of one answer (`FromAnswers`), and a file whose entry another
extraction may hit has exactly the rows of one content (`FullAt`), which takes in that
only its own extractor writes rows under its name. While files are stored, one that is
still to come has neither rows nor an entry (`Untouched`), so that what is stored of it is all
there is; between the store and the second read for the hash it is full already
(`HandSound`). `GateSound` shows why the gate, which deletes from the whole database, breaks no
entry: what it deletes was not stored by an extractor of files, whose claims
were filtered before. For `ImportedOnce`, the claims that make one row are mapped
to the declarations of its name, one to one (`DocumentCounts`).

`ReportsHold` needs two assumptions more. `ContentsAssumption`: declarations lie within
their file, what a parser or the model returns is finite, an item of an answer has one of
the four semantic predicates, and the empty text is not sensitive. `NamesAssumption`: what a compiling Go
package gives, that no two of its declarations go by one name, and that no name is the
import path of its package, since the two would share one row of symbols (a package `p` at path
`p` with a function `p` is outside the theorem). A second inductive invariant,
`ReportsInv`, rests on the first: as long as nothing was written since a local extraction
began, its database is exact. `Exact` says that every row is the row of a claim of
the tree, or the model's, and every symbol has the kind and visibility of a claim of its key; `Holds`
that the claims of what was read are there; `Progress` says what was read at each stage.
The gate deletes nothing that is structural (`GateExact`), and an answer writes back
the kind and visibility it was told (`Echoes`, `ReplaceExact`). That the symbols an answer was
told of are still those of the database is `CallTold`; that an index is of this
tree while nothing was written is `IndexTold`, for `SatisfiesTruly`. `Told` and
`FileTold` say what a claim can be about, `BaseClaim` that each declaration is claimed, and so
`PageSymbol` and `PageDeclared` relate the symbols of a page to the declarations of its
package. For the canary, `SumPositive` shows by induction on finite sets that the sum of a
bag is a number and zero only for the empty bag, which needs every set of claims
to be finite (`GoDeepFinite` and its neighbours).

**Documentation drift.** Assumes `DocDriftAssumption`: a path has a last component, so that its
directory is another path, and a document names finitely many things. A report is a
function of the state, so what is to be proved relates the trees two commands look
at: HEAD, its parent and the working tree. `SameExports` says that a directory whose code files are
the same exports the same names, by every extractor; what a document lost was then in a
file that changed, and `ChangeReported` shows that `git diff` lists this file as deleted,
changed or one end of a rename, whichever files it pairs. For `HookCatches`,
`LostInExtension` finds the file among those of one extension, which is the one the manifest
has a pattern for beside the document. `OnlyChanges` is the converse that `PrbotExact` needs: what git
lists did change.

### What is only model-checked

`CallsReturn` and `CatchesUp` are liveness under fairness, out of the prover's reach.
Every other property of a passing run has a theorem.
## Not modelled

No module is about: version normalisation and the configuration files, the badge worker
and scripts, telemetry, and the export, context, init and schedule commands, which are
string work and I/O; the cross-repository index (`XRefDB`); `Reconcile` and `Evict` of the
cache, which nothing calls; the full-text index and ranking of `tribal_search`; the
calibration sidecar of the upsert; deep extraction on its timer and adaptive polling;
fallbacks of the batch reader and the call budget tracker; prompts, PII redaction,
transport and parsing of answers. Of the extractors the truncation of long subjects,
decorated definitions and the test mains that go list makes up are left out.
`livedocs enrich` beside a running `watch` is two processes on one SQLite file and is not
modelled: `Enrichment` runs one or the other.


## Plan

Next come the parts left out above that have
state: the cross-repository index, the deep extraction on its timer, and
`livedocs enrich` beside a running watcher. The liveness properties, which only runs check,
gain from larger instances: a second clone in `watch`, a third caller in `mining_live`.
